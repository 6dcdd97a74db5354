-------------------------------- MODULE MCFs --------------------------------
(* A small instance of Usertests.                                          *)
EXTENDS Usertests, TLC
=============================================================================
