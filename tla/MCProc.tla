------------------------------- MODULE MCProc -------------------------------
(* Small instances of Proc.                                                *)
EXTENDS Proc, TLC

Symmetry == Permutations(CPUs \ {Cpu0})
=============================================================================
