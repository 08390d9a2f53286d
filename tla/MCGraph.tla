------------------------------ MODULE MCGraph -------------------------------
(* The graphs of dag.c, and every small one. *)
EXTENDS Graph

MCPrograms == {basic_DAG_demo_1, basic_DAG_demo_2, dynamic_DAG_demo}
=============================================================================
