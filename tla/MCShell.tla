------------------------------- MODULE MCShell ------------------------------
(* A small instance of Shell.                                              *)
EXTENDS Shell

MCProcs == {Sh, Left, Right}
MCCalls == [p \in MCProcs |-> IF p = Right THEN 2 ELSE 1]
=============================================================================
