------------------------------ MODULE Spinlock ------------------------------
(* Spin locks and the interrupt flag (spinlock.c).  A CPU's flags change   *)
(* only through the operators here, by whoever runs on it: a process, the  *)
(* scheduler or an interrupt handler.                                      *)
EXTENDS Naturals

CONSTANTS CPUs, Locks, None

VARIABLES
  locks,      \* locks[l]: the CPU that holds l
  cpu,        \* cpu[c]: [ncli, intena, if]; if: interrupts are enabled
  panicked    \* "no", or the message of the panic

lockvars == <<locks, cpu, panicked>>

LockInit ==
  /\ locks = [l \in Locks |-> None]
  /\ cpu = [c \in CPUs |-> [ncli |-> 0, intena |-> FALSE, if |-> TRUE]]
  /\ panicked = "no"

(* Mutant: pushcli() does not disable interrupts.                          *)
PushcliEnabled(s) ==
  [ncli |-> s.ncli + 1, if |-> s.if, intena |-> IF s.ncli = 0 THEN s.if ELSE s.intena]
(* The first pushcli() remembers whether interrupts were enabled.          *)
pushcli(s) ==
  [ncli |-> s.ncli + 1, if |-> FALSE, intena |-> IF s.ncli = 0 THEN s.if ELSE s.intena]
popcli(s) ==
  [s EXCEPT !.ncli = @ - 1, !.if = @ \/ (s.ncli = 1 /\ s.intena)]
PopPanics(s) == s.if \/ s.ncli = 0

holding(c, l) == locks[l] = c

(* acquire(), from pushcli() to the exchange that finds the lock free.     *)
CanAcquire(c, l) == locks[l] \in {None, c}
Acquire(c, l) ==
  /\ cpu' = [cpu EXCEPT ![c] = pushcli(@)]
  /\ IF holding(c, l) THEN panicked' = "acquire" /\ UNCHANGED locks
     ELSE locks' = [locks EXCEPT ![l] = c] /\ UNCHANGED panicked

Release(c, l, after) ==
  IF ~holding(c, l) \/ PopPanics(cpu[c])
  THEN panicked' = "release" /\ UNCHANGED <<locks, cpu>>
  ELSE /\ locks' = [locks EXCEPT ![l] = None]
       /\ cpu' = [cpu EXCEPT ![c] = after]
       /\ UNCHANGED panicked
=============================================================================
