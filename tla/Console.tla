------------------------------- MODULE Console ------------------------------
(* The console's input (console.c): consoleintr() fills and edits a ring   *)
(* buffer in interrupts, consoleread() empties it and sleeps, under        *)
(* input.lock; with the scheduler (proc.c) that the sleepers leave the CPU *)
(* to, and the interrupt flag as each of them has it.                      *)
EXTENDS Spinlock, Sequences, FiniteSets

CONSTANTS
  NPROC,
  IntrCpu,      \* the CPU that gets keyboard and UART interrupts
  INPUT_BUF,
  UintMod,      \* the range of uint, a multiple of INPUT_BUF
  Chars,        \* characters without a meaning
  Sizes,        \* the n that read() is called with
  MaxKills      \* bound: killed processes

NL == "nl"
CtrlD == "^D"
CtrlU == "^U"
CtrlH == "^H"
Nul == "nul"
Procs == 1 .. NPROC

ASSUME ConsoleAssumption ==
  /\ Locks = {"input", "ptable"} /\ IntrCpu \in CPUs
  /\ UintMod % INPUT_BUF = 0 /\ INPUT_BUF < UintMod
  /\ Cardinality(CPUs) = NPROC

VARIABLES
  input,     \* [buf, r, w, e]
  intr,      \* where consoleintr() is on IntrCpu; "none" outside
  state,     \* state[p]: RUNNING, RUNNABLE, SLEEPING (on input.r) or ZOMBIE
  pc,        \* where p is in consoleread(); "user" outside
  rd,        \* rd[p]: consoleread()'s n and target, and sched()'s intena
  killed,
  cur,       \* cur[c]: the process c runs
  at,        \* at[c]: where the scheduler of c is
  skipped

cvars == <<input, intr, state, pc, rd, killed, cur, at, skipped>>
vars == <<lockvars, cvars>>

Idle == [n |-> 0, target |-> 0, intena |-> FALSE]

(* Every CPU runs a process in user mode.                                  *)
Init ==
  /\ LockInit
  /\ input = [buf |-> [i \in 0 .. INPUT_BUF - 1 |-> Nul], r |-> 0, w |-> 0, e |-> 0]
  /\ intr = "none"
  /\ state = [p \in Procs |-> "RUNNING"] /\ pc = [p \in Procs |-> "user"]
  /\ rd = [p \in Procs |-> Idle] /\ killed = [p \in Procs |-> FALSE]
  /\ cur \in [CPUs -> Procs] /\ \A c, d \in CPUs : cur[c] = cur[d] => c = d
  /\ at = [c \in CPUs |-> <<"swtch">>] /\ skipped = [c \in CPUs |-> 0]

(* c is not stopped by a panic, nor by the interrupt handler.              *)
Free(c) == panicked = "no" /\ (c = IntrCpu => intr = "none")
Runs(c, p, l) == Free(c) /\ cur[c] = p /\ pc[p] = l

sti(s) == [s EXCEPT !.if = TRUE]
Plus(n, k) == (n + k) % UintMod
Minus(n, k) == (n + UintMod - k) % UintMod
Cell(n) == n % INPUT_BUF

(***************************************************************************)
(* consoleread().                                                          *)
(***************************************************************************)
(* A system call runs with interrupts off (SFMASK).                        *)
ReadCall(c, p, n) ==
  /\ Runs(c, p, "user") /\ ~killed[p]
  /\ cpu' = [cpu EXCEPT ![c].if = FALSE]
  /\ pc' = [pc EXCEPT ![p] = "acquire"]
  /\ rd' = [rd EXCEPT ![p] = [Idle EXCEPT !.n = n, !.target = n]]
  /\ UNCHANGED <<locks, panicked, input, intr, state, killed, cur, at, skipped>>

ReadAcquire(c, p) ==
  /\ Runs(c, p, "acquire") /\ CanAcquire(c, "input")
  /\ Acquire(c, "input")
  /\ pc' = [pc EXCEPT ![p] = "loop"]
  /\ UNCHANGED <<input, intr, state, rd, killed, cur, at, skipped>>

(* One character: ^D ends the read, and is kept for the next one when      *)
(* this one has data; a newline ends it after itself.                      *)
ReadChar(c, p) ==
  LET ch == input.buf[Cell(input.r)]
      next == [input EXCEPT !.r = Plus(@, 1)]
  IN /\ Runs(c, p, "loop") /\ rd[p].n > 0 /\ input.r # input.w
     /\ IF ch = CtrlD
        THEN /\ input' = IF rd[p].n < rd[p].target THEN input ELSE next
             /\ pc' = [pc EXCEPT ![p] = "return"] /\ UNCHANGED rd
        ELSE /\ input' = next
             /\ rd' = [rd EXCEPT ![p].n = @ - 1]
             /\ pc' = [pc EXCEPT ![p] = IF ch = NL THEN "return" ELSE @]
     /\ UNCHANGED <<lockvars, intr, state, killed, cur, at, skipped>>

(* Nothing to read: give up if killed, else sleep.                         *)
ReadEmpty(c, p) ==
  /\ Runs(c, p, "loop") /\ rd[p].n > 0 /\ input.r = input.w
  /\ pc' = [pc EXCEPT ![p] = IF killed[p] THEN "return" ELSE "sleep"]
  /\ UNCHANGED <<lockvars, input, intr, state, rd, killed, cur, at, skipped>>

(* sleep(): ptable.lock is taken before input.lock is released; sched()    *)
(* wants no other lock held and interrupts off, and keeps intena.          *)
ReadSleep(c, p) ==
  LET s == popcli(pushcli(cpu[c]))
  IN /\ Runs(c, p, "sleep") /\ CanAcquire(c, "ptable")
     /\ IF holding(c, "ptable") \/ ~holding(c, "input") \/ s.ncli # 1 \/ s.if
        THEN panicked' = "sched locks" /\ UNCHANGED <<locks, cpu, state, pc, rd, cur, at, skipped>>
        ELSE /\ locks' = [locks EXCEPT !["ptable"] = c, !["input"] = None]
             /\ cpu' = [cpu EXCEPT ![c] = s]
             /\ state' = [state EXCEPT ![p] = "SLEEPING"]
             /\ pc' = [pc EXCEPT ![p] = "resume"]
             /\ rd' = [rd EXCEPT ![p].intena = s.intena]
             /\ cur' = [cur EXCEPT ![c] = None] /\ at' = [at EXCEPT ![c] = <<"scan", p + 1>>]
             /\ UNCHANGED <<skipped, panicked>>
     /\ UNCHANGED <<input, intr, killed>>

(* Back from sched(), with ptable.lock taken by the scheduler: intena is   *)
(* the process's own again.                                                *)
Resume(c, p) ==
  LET s == popcli([cpu[c] EXCEPT !.intena = rd[p].intena])
  IN /\ Free(c) /\ cur[c] = p /\ pc[p] \in {"resume", "yielded"}
     /\ Release(c, "ptable", IF pc[p] = "resume" THEN s ELSE sti(s))
     /\ pc' = [pc EXCEPT ![p] = IF @ = "resume" THEN "acquire" ELSE "user"]
     /\ UNCHANGED <<input, intr, state, rd, killed, cur, at, skipped>>

(* The system call returns with interrupts on.                             *)
ReadReturn(c, p) ==
  /\ (Runs(c, p, "loop") /\ rd[p].n = 0) \/ Runs(c, p, "return")
  /\ Release(c, "input", sti(popcli(cpu[c])))
  /\ pc' = [pc EXCEPT ![p] = "user"] /\ rd' = [rd EXCEPT ![p] = Idle]
  /\ UNCHANGED <<input, intr, state, killed, cur, at, skipped>>

(* A clock interrupt in user mode, where interrupts are off again:         *)
(* yield(), or exit() when killed.                                         *)
Leave(c, p) ==
  /\ Runs(c, p, "user") /\ locks["ptable"] = None
  /\ locks' = [locks EXCEPT !["ptable"] = c]
  /\ cpu' = [cpu EXCEPT ![c] = pushcli([@ EXCEPT !.if = FALSE])]
  /\ state' = [state EXCEPT ![p] = IF killed[p] THEN "ZOMBIE" ELSE "RUNNABLE"]
  /\ pc' = [pc EXCEPT ![p] = "yielded"] /\ rd' = [rd EXCEPT ![p].intena = cpu'[c].intena]
  /\ cur' = [cur EXCEPT ![c] = None] /\ at' = [at EXCEPT ![c] = <<"scan", p + 1>>]
  /\ UNCHANGED <<panicked, input, intr, killed, skipped>>

(* kill(), under ptable.lock.                                              *)
Kill(p) ==
  /\ ~killed[p] /\ Cardinality({q \in Procs : killed[q]}) < MaxKills
  /\ panicked = "no" /\ locks["ptable"] = None
  /\ killed' = [killed EXCEPT ![p] = TRUE]
  /\ state' = [state EXCEPT ![p] = IF @ = "SLEEPING" THEN "RUNNABLE" ELSE @]
  /\ UNCHANGED <<lockvars, input, intr, pc, rd, cur, at, skipped>>

(***************************************************************************)
(* consoleintr(), in an interrupt, which turns interrupts off.             *)
(***************************************************************************)
Intr ==
  /\ Free(IntrCpu) /\ cpu[IntrCpu].if
  /\ cpu' = [cpu EXCEPT ![IntrCpu].if = FALSE]
  /\ intr' = "acquire"
  /\ at' = [at EXCEPT ![IntrCpu] = IF @ = <<"hlt">> THEN <<"top">> ELSE @]
  /\ UNCHANGED <<locks, panicked, input, state, pc, rd, killed, cur, skipped>>

InHandler(l) == panicked = "no" /\ intr = l

IntrAcquire ==
  /\ InHandler("acquire") /\ CanAcquire(IntrCpu, "input")
  /\ Acquire(IntrCpu, "input") /\ intr' = "getc"
  /\ UNCHANGED <<input, state, pc, rd, killed, cur, at, skipped>>

(* ^U drops the line being edited, ^H its last character.                  *)
Editing == Minus(input.e, input.w)
Kept == {k \in 0 .. Editing : k = Editing \/ input.buf[Cell(Minus(input.e, k + 1))] = NL}
KillLine == [input EXCEPT !.e = Minus(@, CHOOSE k \in Kept : \A j \in Kept : k <= j)]
Backspace == [input EXCEPT !.e = IF @ = input.w THEN @ ELSE Minus(@, 1)]
(* Mutant: one character too many is taken.                                *)
HasRoomOverrun == Minus(input.e, input.r) <= INPUT_BUF
HasRoom == Minus(input.e, input.r) < INPUT_BUF
EndsLine(ch, e) == ch \in {NL, CtrlD} \/ e = Plus(input.r, INPUT_BUF)
Typed(ch) ==
  [input EXCEPT !.buf[Cell(input.e)] = ch, !.e = Plus(@, 1),
                !.w = IF EndsLine(ch, Plus(input.e, 1)) THEN Plus(input.e, 1) ELSE @]
Getc(ch) ==
  /\ InHandler("getc")
  /\ input' = CASE ch = CtrlU -> KillLine
                [] ch = CtrlH -> Backspace
                [] ch = Nul -> input
                [] OTHER -> IF HasRoom THEN Typed(ch) ELSE input
  /\ intr' = IF input'.w # input.w THEN "wakeup" ELSE "getc"
  /\ UNCHANGED <<lockvars, state, pc, rd, killed, cur, at, skipped>>

(* Mutant: only one reader is woken.                                       *)
WokenOne ==
  LET asleep == {p \in Procs : state[p] = "SLEEPING"}
  IN [p \in Procs |-> IF p \in asleep /\ \A q \in asleep : p <= q THEN "RUNNABLE" ELSE state[p]]
Woken == [p \in Procs |-> IF state[p] = "SLEEPING" THEN "RUNNABLE" ELSE state[p]]
(* wakeup(&input.r), with ptable.lock inside input.lock.                   *)
IntrWakeup ==
  /\ InHandler("wakeup") /\ CanAcquire(IntrCpu, "ptable")
  /\ panicked' = IF holding(IntrCpu, "ptable") THEN "acquire" ELSE "no"
  /\ state' = Woken
  /\ intr' = "getc"
  /\ UNCHANGED <<locks, cpu, input, pc, rd, killed, cur, at, skipped>>

(* No more characters: back to what was interrupted.                       *)
IntrReturn ==
  /\ InHandler("getc")
  /\ Release(IntrCpu, "input", sti(popcli(cpu[IntrCpu])))
  /\ intr' = "none"
  /\ UNCHANGED <<input, state, pc, rd, killed, cur, at, skipped>>

(***************************************************************************)
(* scheduler().                                                            *)
(***************************************************************************)
Schedules(c, l) == Free(c) /\ cur[c] = None /\ at[c][1] = l
Goto(c, l) == at' = [at EXCEPT ![c] = l]

(* Interrupts are on from sti() to the pushcli() of acquire().             *)
SchedAcquire(c) ==
  /\ Schedules(c, "top") /\ CanAcquire(c, "ptable")
  /\ Acquire(c, "ptable") /\ Goto(c, <<"scan", 1>>)
  /\ UNCHANGED <<input, intr, state, pc, rd, killed, cur, skipped>>

(* Mutant: a CPU halts after a single round.                               *)
HaltAtOnce == 0
(* The loop over the table from entry i: to the first RUNNABLE process, or *)
(* to the end; hlt() after two rounds without work.                        *)
HaltAfter == 2 * NPROC
SchedScan(c) ==
  LET i == at[c][2]
      runnable == {p \in i .. NPROC : state[p] = "RUNNABLE"}
  IN /\ Schedules(c, "scan")
     /\ IF runnable # {}
        THEN LET p == CHOOSE q \in runnable : \A k \in runnable : q <= k
             IN /\ state' = [state EXCEPT ![p] = "RUNNING"]
                /\ cur' = [cur EXCEPT ![c] = p]
                /\ skipped' = [skipped EXCEPT ![c] = 0]
                /\ Goto(c, <<"swtch">>) /\ UNCHANGED lockvars
        ELSE LET n == skipped[c] + NPROC + 1 - i
                 s == popcli(cpu[c])
             IN /\ IF n > HaltAfter
                   THEN /\ Release(c, "ptable", s)
                        /\ skipped' = [skipped EXCEPT ![c] = 0] /\ Goto(c, <<"hlt">>)
                   ELSE /\ Release(c, "ptable", sti(s))
                        /\ skipped' = [skipped EXCEPT ![c] = n] /\ Goto(c, <<"top">>)
                /\ UNCHANGED <<state, cur>>
     /\ UNCHANGED <<input, intr, pc, rd, killed>>

(* A clock interrupt ends the halt, if interrupts are enabled.             *)
Tick(c) ==
  /\ Schedules(c, "hlt") /\ cpu[c].if /\ Goto(c, <<"top">>)
  /\ UNCHANGED <<lockvars, input, intr, state, pc, rd, killed, cur, skipped>>

ProcStep(c, p) ==
  \/ ReadAcquire(c, p) \/ ReadChar(c, p) \/ ReadEmpty(c, p) \/ ReadSleep(c, p)
  \/ Resume(c, p) \/ ReadReturn(c, p) \/ Leave(c, p)
SchedStep(c) ==
  SchedAcquire(c) \/ SchedScan(c) \/ Tick(c)
Keys == Chars \cup {NL, CtrlD, CtrlU, CtrlH, Nul}

Next ==
  \/ \E c \in CPUs, p \in Procs : ProcStep(c, p) \/ \E n \in Sizes : ReadCall(c, p, n)
  \/ \E c \in CPUs : SchedStep(c)
  \/ \E p \in Procs : Kill(p)
  \/ Intr \/ IntrAcquire \/ IntrWakeup \/ IntrReturn \/ \E ch \in Keys : Getc(ch)

Spec == Init /\ [][Next]_vars
-----------------------------------------------------------------------------
(* Neither a lock taken twice on one CPU, nor a switch with a lock too     *)
(* many, nor an unmatched popcli(): an interrupt never finds its CPU with  *)
(* a lock it needs.                                                        *)
NoPanic == panicked = "no"

(* A CPU never halts with its interrupts off, from where nothing could     *)
(* wake it: a process that sleeps leaves its own intena to the scheduler.  *)
HaltsInterruptible == \A c \in CPUs : cur[c] = None /\ at[c] = <<"hlt">> /\ Free(c) => cpu[c].if

(* A reader sleeps only while there is nothing to read, also when two of   *)
(* them are woken by one line.                                             *)
NoLostWakeup ==
  locks["input"] = None =>
    \A p \in Procs : state[p] = "SLEEPING" => input.r = input.w

Between(i, j) == [k \in 1 .. Minus(j, i) |-> input.buf[Cell(Plus(i, k - 1))]]
Buffer == INSTANCE LineBuffer WITH
  Enders <- {NL, CtrlD}, Capacity <- INPUT_BUF,
  ready <- Between(input.r, input.w), line <- Between(input.w, input.e)

(* consoleintr() and consoleread() implement the line buffer, whatever     *)
(* their interleaving and wherever the three indices have wrapped: a       *)
(* finished line is not edited any more, an unfinished one is not read,    *)
(* and no character is lost, repeated or overwritten.                      *)
ImplementsLineBuffer == Buffer!Spec
=============================================================================
