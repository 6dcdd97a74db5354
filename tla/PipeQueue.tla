------------------------------ MODULE PipeQueue -----------------------------
(* What a pipe promises: a bounded queue of bytes between its writers and  *)
(* its readers.                                                            *)
EXTENDS Naturals, Sequences

CONSTANTS Procs, Bytes, Capacity

VARIABLES
  q,         \* the bytes on their way
  unsent,    \* unsent[p]: what p's write() has still to put into the pipe
  got,       \* got[p]: the bytes p's last read() returned
  writers,   \* does anyone hold the write end?
  readers    \* does anyone hold the read end?

vars == <<q, unsent, got, writers, readers>>

Init ==
  /\ q = <<>> /\ unsent = [p \in Procs |-> <<>>] /\ got = [p \in Procs |-> <<>>]
  /\ writers = FALSE /\ readers = FALSE

Drop(s, k) == SubSeq(s, k + 1, Len(s))

(* pipe() makes an empty queue with both ends open.                        *)
Open ==
  /\ ~writers /\ ~readers
  /\ q' = <<>> /\ writers' = TRUE /\ readers' = TRUE
  /\ UNCHANGED <<unsent, got>>

(* A call starts; a write()'s bytes go in, in order, as room appears; it   *)
(* may give up on a full pipe only.                                        *)
Start(p) ==
  /\ unsent[p] = <<>> /\ unsent'[p] \in Seq(Bytes)
  /\ unsent' = [unsent EXCEPT ![p] = unsent'[p]]
  /\ got' = [got EXCEPT ![p] = <<>>]
  /\ UNCHANGED <<q, writers, readers>>
Put(p, k) ==
  /\ writers /\ k \in 1 .. Len(unsent[p]) /\ Len(q) + k <= Capacity
  /\ q' = q \o SubSeq(unsent[p], 1, k)
  /\ unsent' = [unsent EXCEPT ![p] = Drop(@, k)]
  /\ UNCHANGED <<got, writers, readers>>
GiveUp(p) ==
  /\ Len(q) = Capacity /\ unsent' = [unsent EXCEPT ![p] = <<>>]
  /\ UNCHANGED <<q, got, writers, readers>>

(* A read() takes the oldest bytes; it returns none of a pipe that has     *)
(* writers only when it was asked for none.                                *)
Take(p, k) ==
  /\ readers /\ k \in 0 .. Len(q) /\ (k = 0 => q # <<>> \/ ~writers)
  /\ got' = [got EXCEPT ![p] = SubSeq(q, 1, k)]
  /\ q' = Drop(q, k)
  /\ UNCHANGED <<unsent, writers, readers>>

(* The last descriptor of an end goes away.  What is on its way is lost    *)
(* with the last reader and the last writer only.                          *)
Close ==
  /\ writers' \in BOOLEAN /\ readers' \in BOOLEAN
  /\ (writers' => writers) /\ (readers' => readers)
  /\ q' = IF writers' \/ readers' THEN q ELSE <<>>
  /\ UNCHANGED <<unsent, got>>

Next ==
  \/ Open \/ Close
  \/ \E p \in Procs :
       \/ \E k \in 0 .. Capacity : Put(p, k) \/ Take(p, k)
       \/ Start(p) \/ GiveUp(p)

Spec == Init /\ [][Next]_vars
=============================================================================
