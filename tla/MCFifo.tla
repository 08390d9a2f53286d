------------------------------- MODULE MCFifo -------------------------------
(* Fifo on small rings: MAX_BUFFER = 3 instead of 8, two token values. *)
EXTENDS Fifo

CONSTANTS t1, t2

MCTokens == {t1, t2}
=============================================================================
