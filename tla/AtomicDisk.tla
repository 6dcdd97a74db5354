----------------------------- MODULE AtomicDisk -----------------------------
(***************************************************************************)
(* What the logging layer promises to file system calls: the writes of the *)
(* calls that have ended reach the disk together or not at all.  volatile  *)
(* is what reads return, durable what a reboot brings back.                *)
(***************************************************************************)
CONSTANTS Procs, Blocks, Vals

VARIABLES volatile, durable, active

vars == <<volatile, durable, active>>

Init == /\ durable \in [Blocks -> Vals]
        /\ volatile = durable
        /\ active = {}

Begin(p) == /\ p \notin active
            /\ active' = active \cup {p}
            /\ UNCHANGED <<volatile, durable>>

Write(p, b, v) == /\ p \in active
                  /\ volatile' = [volatile EXCEPT ![b] = v]
                  /\ UNCHANGED <<durable, active>>

End(p) == /\ p \in active
          /\ active' = active \ {p}
          /\ UNCHANGED <<volatile, durable>>

(* No call is half way when its writes become durable.                     *)
Commit == /\ active = {}
          /\ durable' = volatile
          /\ UNCHANGED <<volatile, active>>

Crash == /\ volatile' = durable
         /\ active' = {}
         /\ UNCHANGED durable

Next == \/ Commit \/ Crash
        \/ \E p \in Procs : \/ Begin(p) \/ End(p)
                            \/ \E b \in Blocks, v \in Vals : Write(p, b, v)

Spec == Init /\ [][Next]_vars
=============================================================================
