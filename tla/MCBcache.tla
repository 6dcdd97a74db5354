------------------------------ MODULE MCBcache ------------------------------
(* A small instance of Bcache.                                             *)
EXTENDS Bcache, TLC

Symmetry ==
  Permutations(Procs) \cup Permutations(Vals) \cup Permutations(Good \cap Written)
  \cup Permutations(Good \ Written)

(* Buffers are interchangeable but for their place in the LRU list, and    *)
(* data that is not valid, or belongs to a bad block, is not looked at.    *)
Place(b) == IF b = None THEN 0 ELSE CHOOSE i \in Bufs : lru[i] = b
Shown(b) ==
  [buf[b] EXCEPT !.data = IF (buf[b].dirty \/ buf[b].valid) /\ buf[b].blockno \in Good
                          THEN @ ELSE None]
BufView ==
  <<[i \in Bufs |-> Shown(lru[i])], [i \in DOMAIN idequeue |-> Place(idequeue[i])],
    IF dev.blockno \in BadBlocks THEN [dev EXCEPT !.data = None] ELSE dev,
    [blk \in Good |-> disk[blk]], irq, spurious, at, [p \in Procs |-> Place(mine[p])],
    [p \in Procs |-> IF chan[p] = None THEN <<>> ELSE <<chan[p][1], Place(chan[p][2])>>],
    halted>>
=============================================================================
