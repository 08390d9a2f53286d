-------------------------------- MODULE MCDma -------------------------------
(* Lengths around MaxLength = 4 bytes, moved 2 at a time.                  *)
EXTENDS DmaProperties

MCLoads   == {<<4, 3>>}
MCResults == {<<2>>, <<5>>}

(* Points at which a release may come, and at which a block may report.    *)
Points == {"idle", "link", "find", "load", "store", "record"}
Done(ps)   == {<<"done", p>> : p \in ps}
Result(ps) == {<<"result", p>> : p \in ps}

(* Any release, and results while no complete chain waits for a channel.   *)
AnyRelease == Done(Points) \cup Result({"idle", "link"})
=============================================================================
