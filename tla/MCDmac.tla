-------------------------------- MODULE MCDmac ------------------------------
(* A transfer completes, or fails in the middle of a copy, of a descriptor *)
(* or for a register access, with or without being aborted.               *)
EXTENDS Dmac

MCOutcomes == {{BlockDone, TransferDone}, {TransferDone, 4, 3}, {7, BlockDone},
               {31, 11, TransferDone}, {21, 16}}
MCCommonOutcomes == {{8}, {0, 3}, {1, 2}}
=============================================================================
