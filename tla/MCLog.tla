------------------------------- MODULE MCLog --------------------------------
EXTENDS Log, TLC

Symmetry == Permutations(Procs) \cup Permutations(Blocks \ {AfterLog})

(* A log block is read again only if the header on disk counts it or the   *)
(* commit under way has it; what else lies in the log makes no difference. *)
Logged == {i \in Slots : i <= Len(dhead) \/ (committing /\ i <= Len(lh))}
LogView == <<disk, [i \in Logged |-> dlog[i]], dhead, cache, log, pc, blk, count, tail, mode>>
=============================================================================
