------------------------------ MODULE AddrSpace ------------------------------
(***************************************************************************)
(* What virtual memory promises to programs.  Each process has a private   *)
(* memory, a page either absent or holding some contents, and it changes   *)
(* only as the call the process has made says: a store replaces the one    *)
(* page it names, dedup() and a failed exec() change nothing.  There are   *)
(* no frames, no sharing and no faults here.                               *)
(***************************************************************************)
EXTENDS Integers

CONSTANTS Procs, Pages, Contents, Zero, NoPage

VARIABLES space,  \* space[p][pg]: the contents of page pg of process p
          call    \* call[p]: the name of the call p is in, and its page and value

vars == <<space, call>>

NoSpace == [pg \in Pages |-> NoPage]
Plain(name) == <<name, 0, Zero>>
In(p, name) == call[p] = Plain(name)
Become(p, name) == call' = [call EXCEPT ![p] = Plain(name)]

Init == \E p \in Procs, pg \in Pages :
          /\ space = [q \in Procs |->
                        IF q = p THEN [NoSpace EXCEPT ![pg] = Zero] ELSE NoSpace]
          /\ call = [q \in Procs |-> Plain(IF q = p THEN "user" ELSE "absent")]

(* A call begins.  Those that end in "return" change no memory: dedup(),   *)
(* and wait(), which frees the memory of a child that is gone already.     *)
Ask(p, name) == In(p, "user") /\ Become(p, name) /\ UNCHANGED space

AskStore(p, pg, v) == /\ In(p, "user")
                      /\ call' = [call EXCEPT ![p] = <<"store", pg, v>>]
                      /\ UNCHANGED space

(* A store to a page the process has.  One to any other page never ends.   *)
Write(p, pg, v) == /\ call[p] = <<"store", pg, v>> /\ space[p][pg] # NoPage
                   /\ space' = [space EXCEPT ![p][pg] = v]
                   /\ Become(p, "user")

(* Pages above all that the process has, up to page k, appear zeroed.      *)
Grow(p, k) ==
  /\ In(p, "grow")
  /\ space' = [space EXCEPT ![p] = [pg \in Pages |->
                 IF pg <= k /\ \A g \in Pages : g >= pg => space[p][g] = NoPage
                 THEN Zero ELSE space[p][pg]]]
  /\ Become(p, "user")

(* The pages from page k up disappear, all at once, when the call begins.  *)
Shrink(p, k) ==
  /\ In(p, "user")
  /\ space' = [space EXCEPT ![p] = [pg \in Pages |->
                 IF pg >= k THEN NoPage ELSE space[p][pg]]]
  /\ Become(p, "return")

(* The child is a copy of the parent as it is when fork() returns.         *)
Fork(p, q) == /\ In(p, "fork") /\ In(q, "absent")
              /\ space' = [space EXCEPT ![q] = space[p]]
              /\ call' = [call EXCEPT ![p] = Plain("user"), ![q] = Plain("user")]

(* The image of k pages replaces all the process had; the page below the   *)
(* last one, the stack's guard, is zero.                                   *)
Exec(p, k, image) ==
  /\ In(p, "exec") /\ k >= 3 /\ image[k - 1] = Zero
  /\ space' = [space EXCEPT ![p] =
                 [pg \in Pages |-> IF pg \in 1 .. k THEN image[pg] ELSE NoPage]]
  /\ Become(p, "return")

ExecFails(p) == In(p, "exec") /\ Become(p, "return") /\ UNCHANGED space

Return(p) == In(p, "return") /\ Become(p, "user") /\ UNCHANGED space

Exit(p) == /\ call[p][1] \in {"user", "store"}
           /\ space' = [space EXCEPT ![p] = NoSpace]
           /\ Become(p, "absent")

Next == \E p \in Procs :
          \/ \E name \in {"grow", "fork", "exec", "return"} : Ask(p, name)
          \/ \E pg \in Pages, v \in Contents : AskStore(p, pg, v) \/ Write(p, pg, v)
          \/ \E k \in Pages : Grow(p, k) \/ Shrink(p, k)
          \/ \E q \in Procs \ {p} : Fork(p, q)
          \/ \E k \in Pages : \E image \in [1 .. k -> Contents] : Exec(p, k, image)
          \/ ExecFails(p) \/ Return(p) \/ Exit(p)

Spec == Init /\ [][Next]_vars
=============================================================================
