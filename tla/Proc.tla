-------------------------------- MODULE Proc --------------------------------
(***************************************************************************)
(* The process table: proc.c, with sys_sleep() and the clock and the       *)
(* killed checks of trap.c and syscall.c.                                  *)
(*                                                                         *)
(* A section under ptable.lock is one step, except that sched() passes the *)
(* held lock to the CPU's scheduler and the scheduler passes it on to the  *)
(* next process: that is what ptlock shows.  The writes that fork() makes  *)
(* without the lock are steps of their own.  System calls run with         *)
(* interrupts off, so a CPU takes the clock interrupt in user mode and     *)
(* between two rounds of its scheduler only.                               *)
(***************************************************************************)
EXTENDS Integers, FiniteSets

CONSTANTS NPROC,       \* slots of ptable
          CPUs, Cpu0,  \* the CPUs, and the one that counts ticks
          None,
          MaxPid,      \* bound: the last pid handed out
          TickMod,     \* ticks is an unsigned counter: 2^32 in the code
          SleepTimes   \* the arguments of sys_sleep()

Slots == 1 .. NPROC
initproc == 1
tickschan == 0   \* &ticks; wait() sleeps on the process itself

ASSUME ProcAssumption ==
  /\ NPROC \in Nat \ {0} /\ MaxPid \in Nat \ {0} /\ TickMod \in Nat \ {0}
  /\ Cpu0 \in CPUs /\ None \notin Int /\ None \notin CPUs
  /\ SleepTimes \subseteq 0 .. TickMod - 1

VARIABLES state, pid, parent, killed, chan,  \* struct proc
          at,        \* where the process is in its kernel code, or "user"
          kid,       \* np in fork()
          ticks0, n, \* the locals of sys_sleep()
          nextpid,
          cpuproc,   \* proc, per CPU
          scan,      \* p in scheduler(), 0 outside its loop
          trap,      \* how far the CPU is in its clock interrupt
          ptlock, tickslock, ticks,
          halted     \* panic()

table == <<state, pid, parent, killed, chan>>
locals == <<at, kid, ticks0, n>>
cpus == <<cpuproc, scan, trap>>
clock == <<tickslock, ticks>>
vars == <<table, locals, nextpid, cpus, ptlock, clock, halted>>

Alive == {"RUNNABLE", "RUNNING", "SLEEPING"}
First(S) == CHOOSE p \in S : \A q \in S : p <= q
Goto(p, label) == at' = [at EXCEPT ![p] = label]

(* The way out of a system call or of an interrupt: syscall() and trap()   *)
(* look at killed.                                                         *)
Return(p) == Goto(p, IF killed'[p] THEN "exit" ELSE "user")

(* sched(): the process leaves its CPU, whose scheduler goes on with       *)
(* ptable.lock held.                                                       *)
Sched(c, p, label) ==
  /\ Goto(p, label)
  /\ cpuproc' = [cpuproc EXCEPT ![c] = None]
  /\ scan' = [scan EXCEPT ![c] = @ + 1]
  /\ ptlock' = c

(* sleep(channel, lk), from the point where it holds ptable.lock.          *)
Sleep(c, p, channel, label) ==
  /\ chan' = [chan EXCEPT ![p] = channel]
  /\ state' = [state EXCEPT ![p] = "SLEEPING"]
  /\ Sched(c, p, label)

(* wakeup1(channel) on the states s.                                       *)
Woken(s, channel) ==
  [p \in Slots |-> IF s[p] = "SLEEPING" /\ chan[p] = channel THEN "RUNNABLE" ELSE s[p]]

(* CPU c runs process p, which is at label.                                *)
Runs(c, p, label) == /\ halted = "no" /\ trap[c] = "no"
                     /\ cpuproc[c] = p /\ at[p] = label

(***************************************************************************)
(* fork()                                                                  *)
(***************************************************************************)
Unused == {p \in Slots : state[p] = "UNUSED"}

(* Mutant: the pid is not used up.                                         *)
NextPidKept == nextpid
NextPid == nextpid + 1

(* allocproc().  fork() has a way back for a failed kalloc() or copyuvm(), *)
(* which it never takes: kalloc() faults before it returns 0 (see Vm).     *)
SysFork(c, p) ==
  /\ Runs(c, p, "user") /\ ~killed[p] /\ ptlock = None
  /\ IF Unused = {}
     THEN UNCHANGED <<table, locals, nextpid>>
     ELSE LET np == First(Unused)
          IN /\ nextpid <= MaxPid
             /\ state' = [state EXCEPT ![np] = "EMBRYO"]
             /\ pid' = [pid EXCEPT ![np] = nextpid]
             /\ nextpid' = NextPid
             /\ kid' = [kid EXCEPT ![p] = np]
             /\ Goto(p, "copy")
             /\ UNCHANGED <<parent, killed, chan, ticks0, n>>
  /\ UNCHANGED <<cpus, ptlock, clock, halted>>

ForkCopy(c, p) ==
  /\ Runs(c, p, "copy")
  /\ parent' = [parent EXCEPT ![kid[p]] = p]
  /\ Goto(p, "start")
  /\ UNCHANGED <<state, pid, killed, chan, kid, ticks0, n, nextpid, cpus, ptlock,
                 clock, halted>>

ForkStart(c, p) ==
  /\ Runs(c, p, "start")
  /\ state' = [state EXCEPT ![kid[p]] = "RUNNABLE"]
  /\ at' = [at EXCEPT ![kid[p]] = "forkret",
                      ![p] = IF killed[p] THEN "exit" ELSE "user"]
  /\ kid' = [kid EXCEPT ![p] = None]
  /\ UNCHANGED <<pid, parent, killed, chan, ticks0, n, nextpid, cpus, ptlock,
                 clock, halted>>

(***************************************************************************)
(* exit(), wait() and kill()                                               *)
(***************************************************************************)
(* A process asks to exit, or a trap finds that it misbehaved.             *)
SysExit(c, p) ==
  /\ Runs(c, p, "user")
  /\ Goto(p, "exit")
  /\ UNCHANGED <<table, kid, ticks0, n, nextpid, cpus, ptlock, clock, halted>>

Misbehaves(c, p) ==
  /\ Runs(c, p, "user")
  /\ killed' = [killed EXCEPT ![p] = TRUE]
  /\ Goto(p, "exit")
  /\ UNCHANGED <<state, pid, parent, chan, kid, ticks0, n, nextpid, cpus, ptlock,
                 clock, halted>>

(* A killed process enters the kernel.                                     *)
KilledEnters(c, p) ==
  /\ Runs(c, p, "user") /\ killed[p]
  /\ Goto(p, "exit")
  /\ UNCHANGED <<table, kid, ticks0, n, nextpid, cpus, ptlock, clock, halted>>

Children(p) == {q \in Slots : parent[q] = p}
Zombies(S) == {q \in S : state[q] = "ZOMBIE"}

(* Mutant: the parent is not woken.                                        *)
ExitWakesInitOnly(p) ==
  IF Zombies(Children(p)) # {} THEN Woken(state, initproc) ELSE state
ExitWakes(p) ==
  LET s == Woken(state, parent[p])
  IN IF Zombies(Children(p)) # {} THEN Woken(s, initproc) ELSE s

(* Mutant: only zombies are handed over.                                   *)
HandOverZombies(p) ==
  [q \in Slots |-> IF q \in Zombies(Children(p)) THEN initproc ELSE parent[q]]
HandOver(p) == [q \in Slots |-> IF parent[q] = p THEN initproc ELSE parent[q]]

Exit(c, p) ==
  /\ Runs(c, p, "exit") /\ ptlock = None
  /\ IF p = initproc
     THEN halted' = "init exiting" /\ UNCHANGED <<table, at, cpuproc, scan, ptlock>>
     ELSE /\ state' = [ExitWakes(p) EXCEPT ![p] = "ZOMBIE"]
          /\ parent' = HandOver(p)
          /\ Sched(c, p, "dead")
          /\ UNCHANGED <<pid, killed, chan, halted>>
  /\ UNCHANGED <<kid, ticks0, n, nextpid, trap, clock>>

(* The loop of wait(), from where it holds ptable.lock.                    *)
Scan(c, p) ==
  IF Zombies(Children(p)) # {}
  THEN LET q == First(Zombies(Children(p)))
       IN /\ state' = [state EXCEPT ![q] = "UNUSED"]
          /\ pid' = [pid EXCEPT ![q] = 0]
          /\ parent' = [parent EXCEPT ![q] = None]
          /\ killed' = [killed EXCEPT ![q] = FALSE]
          /\ chan' = [chan EXCEPT ![p] = None]
          /\ ptlock' = None
          /\ Return(p)
          /\ UNCHANGED <<cpuproc, scan>>
  ELSE IF Children(p) = {} \/ killed[p]
  THEN /\ chan' = [chan EXCEPT ![p] = None]
       /\ ptlock' = None
       /\ killed' = killed
       /\ Return(p)
       /\ UNCHANGED <<state, pid, parent, cpuproc, scan>>
  ELSE /\ Sleep(c, p, p, "wait")
       /\ UNCHANGED <<pid, parent, killed>>

SysWait(c, p) ==
  /\ Runs(c, p, "user") /\ ~killed[p] /\ ptlock = None
  /\ Scan(c, p)
  /\ UNCHANGED <<kid, ticks0, n, nextpid, trap, clock, halted>>

(* Mutant: a sleeping process is not woken.                                *)
KillStateKept(q) == state
KillState(q) ==
  IF state[q] = "SLEEPING" THEN [state EXCEPT ![q] = "RUNNABLE"] ELSE state

Kill(c, p, target) ==
  LET found == {q \in Slots : pid[q] = target}
      q == First(found)
  IN /\ Runs(c, p, "user") /\ ~killed[p] /\ ptlock = None
     /\ IF found = {} THEN UNCHANGED <<killed, state>>
        ELSE killed' = [killed EXCEPT ![q] = TRUE] /\ state' = KillState(q)
     /\ Return(p)
     /\ UNCHANGED <<pid, parent, chan, kid, ticks0, n, nextpid, cpus, ptlock,
                    clock, halted>>

(***************************************************************************)
(* sys_sleep(): tickslock is the lock given to sleep().                    *)
(***************************************************************************)
Elapsed(from, t) == (ticks - from) % TickMod >= t

(* The loop, with tickslock held; the locals die with the call.            *)
SleepLoop(c, p, from, t) ==
  /\ UNCHANGED <<table, kid, nextpid, cpus, ptlock, ticks, halted>>
  /\ IF Elapsed(from, t) \/ killed[p]
     THEN /\ Return(p) /\ tickslock' = None
          /\ ticks0' = [ticks0 EXCEPT ![p] = 0] /\ n' = [n EXCEPT ![p] = 0]
     ELSE /\ Goto(p, "sleep") /\ tickslock' = c
          /\ ticks0' = [ticks0 EXCEPT ![p] = from] /\ n' = [n EXCEPT ![p] = t]

SysSleep(c, p, t) ==
  /\ Runs(c, p, "user") /\ ~killed[p] /\ tickslock = None
  /\ SleepLoop(c, p, ticks, t)

(* sleep(&ticks, &tickslock): ptable.lock is taken, tickslock let go.      *)
SleepTicks(c, p) ==
  /\ Runs(c, p, "sleep") /\ ptlock = None
  /\ tickslock' = None
  /\ Sleep(c, p, tickschan, "asleep")
  /\ UNCHANGED <<pid, parent, killed, kid, ticks0, n, nextpid, trap, ticks, halted>>

SleepRelock(c, p) ==
  /\ Runs(c, p, "relock") /\ tickslock = None
  /\ SleepLoop(c, p, ticks0[p], n[p])

(***************************************************************************)
(* scheduler(), and the process it has switched to, which still holds      *)
(* ptable.lock.                                                            *)
(***************************************************************************)
Idle(c) == halted = "no" /\ trap[c] = "no" /\ cpuproc[c] = None

SchedulerEnter(c) ==
  /\ Idle(c) /\ scan[c] = 0 /\ ptlock = None
  /\ scan' = [scan EXCEPT ![c] = 1]
  /\ ptlock' = c
  /\ UNCHANGED <<table, locals, nextpid, cpuproc, trap, clock, halted>>

(* Mutants: the loop runs past the table; the process stays RUNNABLE.      *)
InTableLoose(i) == i \in 1 .. NPROC + 1
InTable(i) == i \in Slots
PickedStateKept(p) == state
PickedState(p) == [state EXCEPT ![p] = "RUNNING"]

SchedulerPick(c) ==
  /\ Idle(c) /\ scan[c] # 0 /\ InTable(scan[c])
  /\ IF scan[c] \in Slots /\ state[scan[c]] = "RUNNABLE"
     THEN /\ cpuproc' = [cpuproc EXCEPT ![c] = scan[c]]
          /\ state' = PickedState(scan[c])
          /\ UNCHANGED scan
     ELSE scan' = [scan EXCEPT ![c] = @ + 1] /\ UNCHANGED <<cpuproc, state>>
  /\ UNCHANGED <<pid, parent, killed, chan, locals, nextpid, trap, ptlock, clock, halted>>

SchedulerLeave(c) ==
  /\ Idle(c) /\ scan[c] # 0 /\ ~InTable(scan[c])
  /\ scan' = [scan EXCEPT ![c] = 0]
  /\ ptlock' = None
  /\ UNCHANGED <<table, locals, nextpid, cpuproc, trap, clock, halted>>

ResumeYield(c, p) ==
  /\ Runs(c, p, "yield")
  /\ ptlock' = None
  /\ killed' = killed
  /\ Return(p)
  /\ UNCHANGED <<state, pid, parent, chan, kid, ticks0, n, nextpid, cpus, clock, halted>>

(* The way out of forkret() does not look at killed.                       *)
ResumeForkret(c, p) ==
  /\ Runs(c, p, "forkret")
  /\ ptlock' = None
  /\ Goto(p, "user")
  /\ UNCHANGED <<table, kid, ticks0, n, nextpid, cpus, clock, halted>>

ResumeSleep(c, p) ==
  /\ Runs(c, p, "asleep")
  /\ chan' = [chan EXCEPT ![p] = None]
  /\ ptlock' = None
  /\ Goto(p, "relock")
  /\ UNCHANGED <<state, pid, parent, killed, kid, ticks0, n, nextpid, cpus, clock, halted>>

ResumeWait(c, p) ==
  /\ Runs(c, p, "wait")
  /\ Scan(c, p)
  /\ UNCHANGED <<kid, ticks0, n, nextpid, trap, clock, halted>>

(***************************************************************************)
(* The clock interrupt                                                     *)
(***************************************************************************)
Interruptible(c) ==
  /\ halted = "no" /\ trap[c] = "no"
  /\ IF cpuproc[c] = None THEN scan[c] = 0 ELSE at[cpuproc[c]] = "user"

Timer(c) ==
  /\ Interruptible(c)
  /\ IF c = Cpu0
     THEN /\ tickslock = None
          /\ tickslock' = c
          /\ ticks' = (ticks + 1) % TickMod
          /\ trap' = [trap EXCEPT ![c] = "wakeup"]
     ELSE /\ trap' = [trap EXCEPT ![c] = "yield"]
          /\ UNCHANGED clock
  /\ UNCHANGED <<table, locals, nextpid, cpuproc, scan, ptlock, halted>>

TimerWakeup(c) ==
  /\ halted = "no" /\ trap[c] = "wakeup" /\ ptlock = None
  /\ state' = Woken(state, tickschan)
  /\ tickslock' = None
  /\ trap' = [trap EXCEPT ![c] = "yield"]
  /\ UNCHANGED <<pid, parent, killed, chan, locals, nextpid, cpuproc, scan, ptlock,
                 ticks, halted>>

(* The rest of trap(): exit() if killed, else yield().                     *)
TimerYield(c) ==
  LET p == cpuproc[c]
  IN /\ halted = "no" /\ trap[c] = "yield"
     /\ trap' = [trap EXCEPT ![c] = "no"]
     /\ IF p = None THEN UNCHANGED <<at, state, cpuproc, scan, ptlock>>
        ELSE IF killed[p] THEN Goto(p, "exit") /\ UNCHANGED <<state, cpuproc, scan, ptlock>>
        ELSE /\ ptlock = None
             /\ state' = [state EXCEPT ![p] = "RUNNABLE"]
             /\ Sched(c, p, "yield")
     /\ UNCHANGED <<pid, parent, killed, chan, kid, ticks0, n, nextpid, clock, halted>>

-----------------------------------------------------------------------------
(* userinit() has made the first process.                                  *)
Init ==
  /\ state = [p \in Slots |-> IF p = initproc THEN "RUNNABLE" ELSE "UNUSED"]
  /\ pid = [p \in Slots |-> IF p = initproc THEN 1 ELSE 0]
  /\ parent = [p \in Slots |-> None]
  /\ killed = [p \in Slots |-> FALSE]
  /\ chan = [p \in Slots |-> None]
  /\ at = [p \in Slots |-> IF p = initproc THEN "forkret" ELSE "dead"]
  /\ kid = [p \in Slots |-> None]
  /\ ticks0 = [p \in Slots |-> 0] /\ n = [p \in Slots |-> 0]
  /\ nextpid = 2
  /\ cpuproc = [c \in CPUs |-> None] /\ scan = [c \in CPUs |-> 0]
  /\ trap = [c \in CPUs |-> "no"]
  /\ ptlock = None /\ tickslock = None /\ ticks = 0
  /\ halted = "no"

(* What a program may ask for, and what the kernel then does.              *)
Program(c, p) ==
  \/ SysFork(c, p) \/ SysExit(c, p) \/ Misbehaves(c, p) \/ KilledEnters(c, p)
  \/ SysWait(c, p)
  \/ (\E target \in 0 .. MaxPid : Kill(c, p, target))
  \/ (\E t \in SleepTimes : SysSleep(c, p, t))

Kernel(c, p) ==
  \/ ForkCopy(c, p) \/ ForkStart(c, p) \/ Exit(c, p)
  \/ SleepTicks(c, p) \/ SleepRelock(c, p)
  \/ ResumeYield(c, p) \/ ResumeForkret(c, p) \/ ResumeSleep(c, p) \/ ResumeWait(c, p)

Work(c) == \/ SchedulerEnter(c) \/ SchedulerPick(c) \/ SchedulerLeave(c)
           \/ \E p \in Slots : Kernel(c, p)

Interrupt(c) == TimerWakeup(c) \/ TimerYield(c)

Next == \E c \in CPUs : \/ Work(c) \/ Timer(c) \/ Interrupt(c)
                        \/ \E p \in Slots : Program(c, p)

Spec == Init /\ [][Next]_vars

(* The clock interrupt of a CPU stays pending until the CPU takes it.  A   *)
(* CPU inside the kernel goes on, and wins a spin lock that is free again  *)
(* and again.                                                              *)
FairSpec == Spec /\ \A c \in CPUs :
              SF_vars(Timer(c)) /\ SF_vars(Interrupt(c)) /\ SF_vars(Work(c))

-----------------------------------------------------------------------------
TypeOK ==
  /\ state \in [Slots -> Alive \cup {"UNUSED", "EMBRYO", "ZOMBIE"}]
  /\ pid \in [Slots -> 0 .. MaxPid] /\ nextpid \in 2 .. MaxPid + 1
  /\ parent \in [Slots -> Slots \cup {None}]
  /\ killed \in [Slots -> BOOLEAN]
  /\ chan \in [Slots -> Slots \cup {tickschan, None}]
  /\ at \in [Slots -> {"user", "copy", "start", "exit", "sleep", "relock", "yield",
                       "forkret", "asleep", "wait", "dead"}]
  /\ kid \in [Slots -> Slots \cup {None}]
  /\ ticks0 \in [Slots -> 0 .. TickMod - 1] /\ n \in [Slots -> SleepTimes \cup {0}]
  /\ cpuproc \in [CPUs -> Slots \cup {None}] /\ scan \in [CPUs -> 0 .. NPROC + 1]
  /\ trap \in [CPUs -> {"no", "wakeup", "yield"}]
  /\ ptlock \in CPUs \cup {None} /\ tickslock \in CPUs \cup {None}
  /\ ticks \in 0 .. TickMod - 1
  /\ halted \in {"no", "init exiting"}

(* A process is RUNNING exactly when one CPU runs it, although fork() and  *)
(* the scheduler change states, and ptable.lock, across switches.          *)
RunningOnOneCpu ==
  \A p \in Slots :
    LET on == {c \in CPUs : cpuproc[c] = p}
    IN IF state[p] = "RUNNING" THEN Cardinality(on) = 1 ELSE on = {}

(* exit() hands its children over: a process always has a parent that can  *)
(* still call wait() for it, and an unused slot is nobody's child.         *)
ParentCanWait ==
  \A p \in Slots \ {initproc} :
    IF state[p] \in Alive \cup {"ZOMBIE"}
    THEN parent[p] # None /\ state[parent[p]] \in Alive
    ELSE state[p] = "UNUSED" => parent[p] = None

(* No wakeup is missed: who sleeps in wait() has children, none of them a  *)
(* zombie, and has not been killed; who sleeps in sys_sleep() is not late, *)
(* once the clock interrupt is over.                                       *)
NoMissedWakeup ==
  \A p \in Slots : state[p] = "SLEEPING" =>
    \/ /\ chan[p] = p
       /\ ~killed[p] /\ Children(p) # {} /\ Zombies(Children(p)) = {}
    \/ /\ chan[p] = tickschan
       /\ tickslock = None => ~Elapsed(ticks0[p], n[p])

(* kill() finds a process by its pid, and a parent knows its child by the  *)
(* pid that fork() and wait() return: no two processes have the same one.  *)
(* (nextpid is an int; MaxPid stops the model before it would wrap.)       *)
PidsDiffer ==
  \A p, q \in Slots : p # q /\ state[p] # "UNUSED" => pid[p] # pid[q]

(* A killed process exits, also when kill() catches it between its check   *)
(* and its sleep.                                                          *)
KilledExits ==
  \A p \in Slots : killed[p] /\ state[p] \in Alive
                     ~> state[p] \in {"ZOMBIE", "UNUSED"} \/ halted # "no"

(* A zombie whose parent waits is freed.                                   *)
ZombieReaped ==
  \A p, q \in Slots : state[q] = "ZOMBIE" /\ parent[q] = p /\ at[p] = "wait"
                        ~> state[q] = "UNUSED" \/ at[p] # "wait" \/ halted # "no"
=============================================================================
