----------------------------- MODULE BlockStore -----------------------------
(* What the buffer cache promises: a process has a block to itself between *)
(* bread() and brelse(), reads what was written to it last, and everyone   *)
(* else's blocks are left alone.                                           *)
CONSTANTS Procs, Blocks, Vals, None

VARIABLES
  content,   \* content[b]: what was written last to block b
  holder     \* holder[b]: the process that has b

vars == <<content, holder>>

Init == content \in [Blocks -> Vals] /\ holder = [b \in Blocks |-> None]

Read(p, b) ==
  /\ holder[b] = None /\ holder' = [holder EXCEPT ![b] = p]
  /\ UNCHANGED content

Write(p, b, v) ==
  /\ holder[b] = p /\ content' = [content EXCEPT ![b] = v]
  /\ UNCHANGED holder

Release(p, b) ==
  /\ holder[b] = p /\ holder' = [holder EXCEPT ![b] = None]
  /\ UNCHANGED content

Next ==
  \E p \in Procs, b \in Blocks :
    Read(p, b) \/ Release(p, b) \/ \E v \in Vals : Write(p, b, v)

Spec == Init /\ [][Next]_vars
=============================================================================
