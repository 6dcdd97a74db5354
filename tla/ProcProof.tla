----------------------------- MODULE ProcProof ------------------------------
(***************************************************************************)
(* The operations of proc.c that change the table (exit(), wait(), fork(), *)
(* kill(), the scheduler and the clock) keep the invariant of ProcInv, and *)
(* what follows: the theorems about every table.                           *)
(***************************************************************************)
EXTENDS ProcInv

USE DEF Goto, table, locals, cpus, clock

(* fork() makes the child RUNNABLE and returns.                            *)
LEMMA ForkStartInv ==
  ASSUME IInv, NEW c \in CPUs, NEW p \in Slots, ForkStart(c, p) PROVE IInv'
<1>. /\ TypeOK /\ OnCpus /\ Locks /\ Places /\ Forks /\ ParentCanWait
     /\ Waiters /\ Sleepers /\ Pids
  BY Zenon DEF IInv
<1>. USE Basics
<1>.  /\ halted = "no" /\ trap[c] = "no" /\ cpuproc[c] = p /\ at[p] = "start"
      /\ state' = [state EXCEPT ![kid[p]] = "RUNNABLE"]
      /\ at' = [at EXCEPT ![kid[p]] = "forkret",
                        ![p] = IF killed[p] THEN "exit" ELSE "user"]
      /\ kid' = [kid EXCEPT ![p] = None]
      /\ UNCHANGED <<pid, parent, killed, chan, ticks0, n, nextpid, cpuproc,
                     scan, trap, ptlock, tickslock, ticks, halted>>
  BY DEF ForkStart, Runs
<1>.  /\ state[p] = "RUNNING" /\ scan[c] = p /\ p # None
      /\ \A d \in CPUs : cpuproc[d] = p => d = c
  BY Runner
<1>.  /\ kid[p] \in Slots /\ state[kid[p]] = "EMBRYO" /\ at[kid[p]] = "dead"
      /\ kid[p] # p /\ kid[p] # initproc /\ \A d \in CPUs : cpuproc[d] # kid[p]
  BY Embryo
<1>1. TypeOK'
  BY ProcAssumption DEF TypeOK, Alive
<1>2. OnCpus'
  BY DEF OnCpus, TypeOK
<1>3. Locks'
  BY DEF Locks, HoldsTable, HoldsTicks, ResumeLabels, OnCpus, TypeOK
<1>4. Places'
  BY DEF Places, ResumeLabels, Alive, TypeOK
<1>5. Forks'
  BY DEF Forks, TypeOK
<1>6. ParentCanWait'
  BY DEF ParentCanWait, Alive, TypeOK, Forks
<1>7. Waiters'
  BY DEF Waiters, Children, Zombies, TypeOK
<1>8. Sleepers'
  BY DEF Sleepers, Elapsed, TypeOK
<1>9. Pids'
  BY DEF Pids, PidsDiffer, TypeOK
<1>10. QED
  BY <1>1, <1>2, <1>3, <1>4, <1>5, <1>6, <1>7, <1>8, <1>9 DEF IInv

(* fork() sets the parent of the slot that it fills.                       *)
LEMMA ForkCopyInv ==
  ASSUME IInv, NEW c \in CPUs, NEW p \in Slots, ForkCopy(c, p) PROVE IInv'
<1>. /\ TypeOK /\ OnCpus /\ Locks /\ Places /\ Forks /\ ParentCanWait
     /\ Waiters /\ Sleepers /\ Pids
  BY Zenon DEF IInv
<1>. USE Basics
<1>.  /\ halted = "no" /\ trap[c] = "no" /\ cpuproc[c] = p /\ at[p] = "copy"
      /\ parent' = [parent EXCEPT ![kid[p]] = p]
      /\ at' = [at EXCEPT ![p] = "start"]
      /\ UNCHANGED <<state, pid, killed, chan, kid, ticks0, n, nextpid, cpuproc,
                     scan, trap, ptlock, tickslock, ticks, halted>>
  BY DEF ForkCopy, Runs
<1>.  /\ state[p] = "RUNNING" /\ scan[c] = p /\ p # None
      /\ \A d \in CPUs : cpuproc[d] = p => d = c
  BY Runner
<1>.  /\ kid[p] \in Slots /\ state[kid[p]] = "EMBRYO" /\ at[kid[p]] = "dead"
      /\ kid[p] # p /\ kid[p] # initproc /\ \A d \in CPUs : cpuproc[d] # kid[p]
  BY Embryo
<1>1. TypeOK'
  BY ProcAssumption DEF TypeOK, Alive
<1>2. OnCpus'
  BY DEF OnCpus, TypeOK
<1>3. Locks'
  BY DEF Locks, HoldsTable, HoldsTicks, ResumeLabels, OnCpus, TypeOK
<1>4. Places'
  BY DEF Places, ResumeLabels, Alive, TypeOK
<1>5. Forks'
  BY DEF Forks, TypeOK
<1>6. ParentCanWait'
  BY DEF ParentCanWait, Alive, TypeOK, Places
<1>7. Waiters'
  BY DEF Waiters, Children, Zombies, TypeOK, Places, Forks
<1>8. Sleepers'
  BY DEF Sleepers, Elapsed, TypeOK
<1>9. Pids'
  BY DEF Pids, PidsDiffer, TypeOK
<1>10. QED
  BY <1>1, <1>2, <1>3, <1>4, <1>5, <1>6, <1>7, <1>8, <1>9 DEF IInv

(* kill() marks its target, and wakes it if it sleeps.                     *)
LEMMA KillsInv ==
  ASSUME Leasts, IInv, NEW c \in CPUs, NEW p \in Slots,
         NEW target, Kill(c, p, target),
         {q \in Slots : pid[q] = target} # {}
  PROVE  IInv'
<1>. /\ TypeOK /\ OnCpus /\ Locks /\ Places /\ Forks /\ ParentCanWait
     /\ Waiters /\ Sleepers /\ Pids
  BY Zenon DEF IInv
<1>. USE Basics
<1> DEFINE q == First({r \in Slots : pid[r] = target})
<1>.  /\ ptlock = None
      /\ halted = "no" /\ trap[c] = "no" /\ cpuproc[c] = p /\ at[p] = "user"
      /\ killed' = [killed EXCEPT ![q] = TRUE]
      /\ state' = KillState(q)
      /\ at' = [at EXCEPT ![p] = IF killed'[p] THEN "exit" ELSE "user"]
      /\ UNCHANGED <<pid, parent, chan, kid, ticks0, n, nextpid, cpuproc, scan,
                     trap, ptlock, tickslock, ticks, halted>>
  BY DEF Kill, Runs, Return
<1>.  /\ state[p] = "RUNNING" /\ scan[c] = p /\ p # None
      /\ \A d \in CPUs : cpuproc[d] = p => d = c
  BY Runner
<1>. q \in Slots
  BY DEF Leasts
<1> HIDE DEF q
<1>. state' =
        [state EXCEPT ![q] = IF state[q] = "SLEEPING" THEN "RUNNABLE" ELSE state[q]]
  BY Zenon DEF KillState, IInv, TypeOK
<1>1. TypeOK'
  BY ProcAssumption DEF TypeOK, Alive
<1>2. OnCpus'
  BY DEF OnCpus, TypeOK
<1>3. Locks'
  BY DEF Locks, HoldsTable, HoldsTicks, ResumeLabels, OnCpus, TypeOK
<1>4. Places'
  BY DEF Places, ResumeLabels, Alive, TypeOK
<1>5. Forks'
  BY DEF Forks, TypeOK
<1>6. ParentCanWait'
  BY DEF ParentCanWait, Alive, TypeOK
<1>7. Waiters'
  BY DEF Waiters, Children, Zombies, TypeOK
<1>8. Sleepers'
  BY DEF Sleepers, Elapsed, TypeOK
<1>9. Pids'
  BY DEF Pids, PidsDiffer, TypeOK
<1>10. QED
  BY <1>1, <1>2, <1>3, <1>4, <1>5, <1>6, <1>7, <1>8, <1>9 DEF IInv

(* scheduler() switches to a RUNNABLE process, or passes over the slot.    *)
LEMMA PicksInv ==
  ASSUME IInv, NEW c \in CPUs,
         SchedulerPick(c),
         scan[c] \in Slots, state[scan[c]] = "RUNNABLE"
  PROVE  IInv'
<1>. /\ TypeOK /\ OnCpus /\ Locks /\ Places /\ Forks /\ ParentCanWait
     /\ Waiters /\ Sleepers /\ Pids
  BY Zenon DEF IInv
<1>. USE Basics
<1>.  /\ halted = "no" /\ trap[c] = "no" /\ cpuproc[c] = None /\ scan[c] # 0
      /\ cpuproc' = [cpuproc EXCEPT ![c] = scan[c]]
      /\ state' = [state EXCEPT ![scan[c]] = "RUNNING"]
      /\ UNCHANGED <<pid, parent, killed, chan, at, kid, ticks0, n, nextpid,
                     scan, trap, ptlock, tickslock, ticks, halted>>
  BY DEF SchedulerPick, Idle, PickedState
<1>. at[scan[c]] \in ResumeLabels
  BY Zenon DEF Places
<1>. \A d \in CPUs : cpuproc[d] # scan[c]
  BY DEF OnCpus
<1>1. TypeOK'
  BY ProcAssumption DEF TypeOK, Alive
<1>2. OnCpus'
  BY DEF OnCpus, TypeOK
<1>3. Locks'
  BY DEF Locks, HoldsTable, HoldsTicks, ResumeLabels, OnCpus, TypeOK
<1>4. Places'
  BY DEF Places, ResumeLabels, Alive, TypeOK
<1>5. Forks'
  BY DEF Forks, TypeOK
<1>6. ParentCanWait'
  BY DEF ParentCanWait, Alive, TypeOK
<1>7. Waiters'
  BY DEF Waiters, Children, Zombies, TypeOK
<1>8. Sleepers'
  BY DEF Sleepers, Elapsed, TypeOK
<1>9. Pids'
  BY DEF Pids, PidsDiffer, TypeOK
<1>10. QED
  BY <1>1, <1>2, <1>3, <1>4, <1>5, <1>6, <1>7, <1>8, <1>9 DEF IInv

(* wakeup(&ticks).                                                         *)
LEMMA TimerWakeupInv ==
  ASSUME IInv, NEW c \in CPUs, TimerWakeup(c) PROVE IInv'
<1>. /\ TypeOK /\ OnCpus /\ Locks /\ Places /\ Forks /\ ParentCanWait
     /\ Waiters /\ Sleepers /\ Pids
  BY Zenon DEF IInv
<1>. USE Basics
<1>.  /\ halted = "no" /\ trap[c] = "wakeup" /\ ptlock = None
      /\ state' = Woken(state, tickschan)
      /\ tickslock' = None
      /\ trap' = [trap EXCEPT ![c] = "yield"]
      /\ UNCHANGED <<pid, parent, killed, chan, at, kid, ticks0, n, nextpid,
                     cpuproc, scan, ptlock, ticks, halted>>
  BY DEF TimerWakeup
<1>. \A q \in Slots : at[q] # "sleep"
  <2>1. SUFFICES ASSUME NEW q \in Slots, at[q] = "sleep" PROVE FALSE
    OBVIOUS
  <2>2. PICK d \in CPUs : tickslock = d /\ cpuproc[d] = q
    BY <2>1, SleepHolds
  <2>3. tickslock = c
    BY DEF Locks, HoldsTicks
  <2>4. QED
    BY <2>1, <2>2, <2>3 DEF OnCpus
<1>1. TypeOK'
  BY ProcAssumption DEF TypeOK, Alive, Woken
<1>2. OnCpus'
  BY DEF OnCpus, TypeOK, Woken
<1>3. Locks'
  BY DEF Locks, HoldsTable, HoldsTicks, ResumeLabels, OnCpus, TypeOK, Woken
<1>4. Places'
  BY DEF Places, ResumeLabels, Alive, TypeOK, Woken
<1>5. Forks'
  BY DEF Forks, TypeOK, Woken
<1>6. ParentCanWait'
  BY DEF ParentCanWait, Alive, TypeOK, Woken
<1>7. Waiters'
  BY DEF Waiters, Children, Zombies, TypeOK, Woken
<1>8. Sleepers'
  BY DEF Sleepers, Elapsed, TypeOK, Woken
<1>9. Pids'
  BY DEF Pids, PidsDiffer, TypeOK, Woken
<1>10. QED
  BY <1>1, <1>2, <1>3, <1>4, <1>5, <1>6, <1>7, <1>8, <1>9 DEF IInv

(* scheduler() takes ptable.lock for a pass over the table, and lets it go *)
(* after the last slot.                                                    *)
LEMMA SchedulerEnterInv ==
  ASSUME IInv, NEW c \in CPUs, SchedulerEnter(c) PROVE IInv'
<1>. /\ TypeOK /\ OnCpus /\ Locks /\ Places /\ Forks /\ ParentCanWait
     /\ Waiters /\ Sleepers /\ Pids
  BY Zenon DEF IInv
<1>. USE Basics
<1>.  /\ halted = "no" /\ trap[c] = "no" /\ cpuproc[c] = None
      /\ scan[c] = 0 /\ ptlock = None
      /\ scan' = [scan EXCEPT ![c] = 1]
      /\ ptlock' = c
      /\ UNCHANGED <<state, pid, parent, killed, chan, at, kid, ticks0, n,
                     nextpid, cpuproc, trap, tickslock, ticks, halted>>
  BY DEF SchedulerEnter, Idle
<1>1. TypeOK'
  BY ProcAssumption DEF TypeOK, Alive
<1>2. OnCpus'
  BY DEF OnCpus, TypeOK
<1>3. Locks'
  BY DEF Locks, HoldsTable, HoldsTicks, ResumeLabels, OnCpus, TypeOK
<1>4. Sleepers'
  BY DEF Sleepers, Elapsed, TypeOK
<1>5. Places' /\ Forks' /\ ParentCanWait' /\ Waiters' /\ Pids'
  BY TableKept
<1>6. QED
  BY <1>1, <1>2, <1>3, <1>4, <1>5 DEF IInv

(* The end of the pass.                                                    *)
LEMMA SchedulerLeaveInv ==
  ASSUME IInv, NEW c \in CPUs, SchedulerLeave(c) PROVE IInv'
<1>. /\ TypeOK /\ OnCpus /\ Locks /\ Places /\ Forks /\ ParentCanWait
     /\ Waiters /\ Sleepers /\ Pids
  BY Zenon DEF IInv
<1>. USE Basics
<1>.  /\ halted = "no" /\ trap[c] = "no" /\ cpuproc[c] = None /\ scan[c] # 0
      /\ scan' = [scan EXCEPT ![c] = 0]
      /\ ptlock' = None
      /\ UNCHANGED <<state, pid, parent, killed, chan, at, kid, ticks0, n,
                     nextpid, cpuproc, trap, tickslock, ticks, halted>>
  BY DEF SchedulerLeave, Idle
<1>1. TypeOK'
  BY ProcAssumption DEF TypeOK, Alive
<1>2. OnCpus'
  BY DEF OnCpus, TypeOK
<1>3. Locks'
  BY DEF Locks, HoldsTable, HoldsTicks, ResumeLabels, OnCpus, TypeOK
<1>4. Sleepers'
  BY DEF Sleepers, Elapsed, TypeOK
<1>5. Places' /\ Forks' /\ ParentCanWait' /\ Waiters' /\ Pids'
  BY TableKept
<1>6. QED
  BY <1>1, <1>2, <1>3, <1>4, <1>5 DEF IInv

(* A slot that is not RUNNABLE.                                            *)
LEMMA PassesInv ==
  ASSUME IInv, NEW c \in CPUs,
         SchedulerPick(c),
         ~(scan[c] \in Slots /\ state[scan[c]] = "RUNNABLE")
  PROVE  IInv'
<1>. /\ TypeOK /\ OnCpus /\ Locks /\ Places /\ Forks /\ ParentCanWait
     /\ Waiters /\ Sleepers /\ Pids
  BY Zenon DEF IInv
<1>. USE Basics
<1>.  /\ halted = "no" /\ trap[c] = "no" /\ cpuproc[c] = None /\ scan[c] \in Slots
      /\ scan' = [scan EXCEPT ![c] = scan[c] + 1]
      /\ UNCHANGED <<state, pid, parent, killed, chan, at, kid, ticks0, n,
                     nextpid, cpuproc, trap, ptlock, tickslock, ticks, halted>>
  BY DEF SchedulerPick, Idle, InTable
<1>1. TypeOK'
  BY ProcAssumption DEF TypeOK, Alive
<1>2. OnCpus'
  BY DEF OnCpus, TypeOK
<1>3. Locks'
  BY DEF Locks, HoldsTable, HoldsTicks, ResumeLabels, OnCpus, TypeOK
<1>4. Sleepers'
  BY DEF Sleepers, Elapsed, TypeOK
<1>5. Places' /\ Forks' /\ ParentCanWait' /\ Waiters' /\ Pids'
  BY TableKept
<1>6. QED
  BY <1>1, <1>2, <1>3, <1>4, <1>5 DEF IInv

(* The clock interrupt of CPU 0 advances ticks, with tickslock held.       *)
LEMMA TickInv ==
  ASSUME IInv, NEW c \in CPUs, Timer(c), c = Cpu0 PROVE IInv'
<1>. /\ TypeOK /\ OnCpus /\ Locks /\ Places /\ Forks /\ ParentCanWait
     /\ Waiters /\ Sleepers /\ Pids
  BY Zenon DEF IInv
<1>. USE Basics
<1>.  /\ Interruptible(c) /\ tickslock = None
      /\ tickslock' = c
      /\ ticks' = (ticks + 1) % TickMod
      /\ trap' = [trap EXCEPT ![c] = "wakeup"]
      /\ UNCHANGED <<state, pid, parent, killed, chan, at, kid, ticks0, n,
                     nextpid, cpuproc, scan, ptlock, halted>>
  BY DEF Timer
<1>. ticks' \in 0 .. TickMod - 1
  <2>1. ticks \in 0 .. TickMod - 1
    BY Zenon DEF TypeOK
  <2>2. TickMod \in Nat /\ TickMod > 0 /\ ticks \in Nat
    BY <2>1, ProcAssumption
  <2>3. QED
    BY <2>2
<1>1. TypeOK'
  BY ProcAssumption, Zenon DEF TypeOK, Alive
<1>2. OnCpus'
  BY DEF OnCpus, TypeOK, Interruptible
<1>3. Locks'
  BY DEF Locks, HoldsTable, HoldsTicks, ResumeLabels, OnCpus, TypeOK, Interruptible
<1>4. Sleepers'
  BY Zenon DEF Sleepers, Elapsed, TypeOK
<1>5. Places' /\ Forks' /\ ParentCanWait' /\ Waiters' /\ Pids'
  BY TableKept
<1>6. QED
  BY <1>1, <1>2, <1>3, <1>4, <1>5 DEF IInv

(* The clock interrupt of another CPU only yields.                         *)
LEMMA OtherTickInv ==
  ASSUME IInv, NEW c \in CPUs, Timer(c), c # Cpu0 PROVE IInv'
<1>. /\ TypeOK /\ OnCpus /\ Locks /\ Places /\ Forks /\ ParentCanWait
     /\ Waiters /\ Sleepers /\ Pids
  BY Zenon DEF IInv
<1>. USE Basics
<1>.  /\ Interruptible(c)
      /\ trap' = [trap EXCEPT ![c] = "yield"]
      /\ UNCHANGED <<state, pid, parent, killed, chan, at, kid, ticks0, n,
                     nextpid, cpuproc, scan, ptlock, tickslock, ticks, halted>>
  BY DEF Timer
<1>1. TypeOK'
  BY ProcAssumption, Zenon DEF TypeOK, Alive
<1>2. OnCpus'
  BY DEF OnCpus, TypeOK, Interruptible
<1>3. Locks'
  BY DEF Locks, HoldsTable, HoldsTicks, ResumeLabels, OnCpus, TypeOK, Interruptible
<1>4. Sleepers'
  BY DEF Sleepers, Elapsed, TypeOK, Interruptible
<1>5. Places' /\ Forks' /\ ParentCanWait' /\ Waiters' /\ Pids'
  BY TableKept
<1>6. QED
  BY <1>1, <1>2, <1>3, <1>4, <1>5 DEF IInv

(* The clock interrupt of an idle CPU has nobody to yield.                 *)
LEMMA NoYieldInv ==
  ASSUME IInv, NEW c \in CPUs, TimerYield(c), cpuproc[c] = None PROVE IInv'
<1>. /\ TypeOK /\ OnCpus /\ Locks /\ Places /\ Forks /\ ParentCanWait
     /\ Waiters /\ Sleepers /\ Pids
  BY Zenon DEF IInv
<1>. USE Basics
<1>.  /\ halted = "no" /\ trap[c] = "yield" /\ cpuproc[c] = None
      /\ trap' = [trap EXCEPT ![c] = "no"]
      /\ UNCHANGED <<state, pid, parent, killed, chan, at, kid, ticks0, n,
                     nextpid, cpuproc, scan, ptlock, tickslock, ticks, halted>>
  BY DEF TimerYield
<1>1. TypeOK'
  BY ProcAssumption DEF TypeOK, Alive
<1>2. OnCpus'
  BY DEF OnCpus, TypeOK
<1>3. Locks'
  BY DEF Locks, HoldsTable, HoldsTicks, ResumeLabels, OnCpus, TypeOK
<1>4. Sleepers'
  BY DEF Sleepers, Elapsed, TypeOK
<1>5. Places' /\ Forks' /\ ParentCanWait' /\ Waiters' /\ Pids'
  BY TableKept
<1>6. QED
  BY <1>1, <1>2, <1>3, <1>4, <1>5 DEF IInv
-----------------------------------------------------------------------------
(* A step of a process on its CPU.                                         *)
LEMMA ProgramInv ==
  ASSUME Leasts, IInv, NEW c \in CPUs, NEW p \in Slots, Program(c, p) PROVE IInv'
<1>1. CASE SysFork(c, p)
  <2>1. CASE Unused = {}
    BY <1>1, <2>1, Unchanged DEF SysFork, vars
  <2>2. QED
    BY <1>1, <2>1, ForkAllocatesInv
<1>2. CASE SysExit(c, p) \/ Misbehaves(c, p) \/ KilledEnters(c, p)
  BY <1>2, SysExitInv
<1>3. CASE SysWait(c, p)
  <2>1. /\ halted = "no" /\ trap[c] = "no" /\ cpuproc[c] = p
        /\ at[p] = "wait" \/ (at[p] = "user" /\ ptlock = None)
        /\ Scan(c, p) /\ UNCHANGED <<kid, ticks0, n, nextpid, trap, clock, halted>>
    BY <1>3, Zenon DEF SysWait, Runs
  <2>2. QED
    BY <2>1, WaitReapsInv, WaitFailsInv, WaitSleepsInv, Zenon
<1>4. ASSUME NEW target, Kill(c, p, target) PROVE IInv'
  <2>1. CASE {q \in Slots : pid[q] = target} = {}
    <3>1. /\ killed' = killed /\ ~killed[p] /\ at' = [at EXCEPT ![p] = "user"]
          /\ at[p] = "user"
          /\ UNCHANGED <<table, kid, ticks0, n, nextpid, cpus, ptlock, clock, halted>>
      BY <1>4, <2>1, Zenon DEF Kill, Runs, Return
    <3>2. at' = at
      BY <3>1, Zenon DEF IInv, TypeOK
    <3>3. QED
      BY <3>1, <3>2, Unchanged DEF vars
  <2>2. QED
    BY <1>4, <2>1, KillsInv
<1>5. ASSUME NEW t \in SleepTimes, SysSleep(c, p, t) PROVE IInv'
  <2>1. /\ halted = "no" /\ trap[c] = "no" /\ cpuproc[c] = p /\ tickslock = None
        /\ at[p] \in {"user", "relock"} /\ SleepLoop(c, p, ticks, t)
        /\ ticks \in 0 .. TickMod - 1
    BY <1>5 DEF SysSleep, Runs, IInv, TypeOK
  <2>2. QED
    BY <2>1, SleepLoopInv
<1>6. QED
  BY <1>1, <1>2, <1>3, <1>4, <1>5 DEF Program

(* A process inside a system call goes on with it.                         *)
LEMMA KernelInv ==
  ASSUME Leasts, IInv, NEW c \in CPUs, NEW p \in Slots, Kernel(c, p) PROVE IInv'
<1>1. CASE ForkCopy(c, p) \/ ForkStart(c, p)
  BY <1>1, ForkCopyInv, ForkStartInv
<1>2. CASE Exit(c, p)
  <2>1. CASE p = initproc
    <3>1. /\ halted' = "init exiting"
          /\ UNCHANGED <<table, locals, nextpid, cpus, ptlock, clock>>
      BY <1>2, <2>1, Zenon DEF Exit, Runs
    <3>2. QED
      BY <3>1, Stutter, Zenon
  <2>2. QED
    BY <1>2, <2>1, ExitsInv
<1>3. CASE SleepTicks(c, p)
  BY <1>3, SleepTicksInv
<1>4. CASE SleepRelock(c, p)
  <2>1. /\ halted = "no" /\ trap[c] = "no" /\ cpuproc[c] = p /\ tickslock = None
        /\ at[p] \in {"user", "relock"} /\ SleepLoop(c, p, ticks0[p], n[p])
        /\ ticks0[p] \in 0 .. TickMod - 1 /\ n[p] \in SleepTimes \cup {0}
    BY <1>4 DEF SleepRelock, Runs, IInv, TypeOK
  <2>2. QED
    BY <2>1, SleepLoopInv
<1>5. CASE ResumeYield(c, p) \/ ResumeForkret(c, p) \/ ResumeSleep(c, p)
  BY <1>5, ResumeInv
<1>6. CASE ResumeWait(c, p)
  <2>1. /\ halted = "no" /\ trap[c] = "no" /\ cpuproc[c] = p
        /\ at[p] = "wait" \/ (at[p] = "user" /\ ptlock = None)
        /\ Scan(c, p) /\ UNCHANGED <<kid, ticks0, n, nextpid, trap, clock, halted>>
    BY <1>6, Zenon DEF ResumeWait, Runs
  <2>2. QED
    BY <2>1, WaitReapsInv, WaitFailsInv, WaitSleepsInv, Zenon
<1>7. QED
  BY <1>1, <1>2, <1>3, <1>4, <1>5, <1>6 DEF Kernel

(* Every step of the system keeps the invariant.                           *)
LEMMA NextInv == ASSUME Leasts, IInv, [Next]_vars PROVE IInv'
<1>1. ASSUME NEW c \in CPUs, Work(c) PROVE IInv'
  <2>1. CASE SchedulerEnter(c) \/ SchedulerLeave(c)
    BY <2>1, SchedulerEnterInv, SchedulerLeaveInv
  <2>2. CASE SchedulerPick(c)
    BY <2>2, PicksInv, PassesInv
  <2>3. CASE \E p \in Slots : Kernel(c, p)
    BY <2>3, KernelInv
  <2>4. QED
    BY <1>1, <2>1, <2>2, <2>3 DEF Work
<1>2. ASSUME NEW c \in CPUs, Timer(c) PROVE IInv'
  BY <1>2, TickInv, OtherTickInv
<1>3. ASSUME NEW c \in CPUs, Interrupt(c) PROVE IInv'
  <2>1. CASE TimerWakeup(c)
    BY <2>1, TimerWakeupInv
  <2>2. CASE TimerYield(c)
    <3>1. CASE cpuproc[c] = None
      BY <2>2, <3>1, NoYieldInv
    <3>2. CASE cpuproc[c] # None
      <4>1. PICK p \in Slots : cpuproc[c] = p
        BY <3>2, Zenon DEF IInv, TypeOK
      <4>2. QED
        BY <2>2, <4>1, YieldKilledInv, YieldInv
    <3>3. QED
      BY <3>1, <3>2
  <2>3. QED
    BY <1>3, <2>1, <2>2 DEF Interrupt
<1>4. CASE UNCHANGED vars
  BY <1>4, Unchanged
<1>5. QED
  BY <1>1, <1>2, <1>3, <1>4, ProgramInv DEF Next

-----------------------------------------------------------------------------
LOCAL WF == INSTANCE WellFoundedInduction
-----------------------------------------------------------------------------
(* A set of slots that is not empty has a least member.                    *)
LEMMA LeastsHold == Leasts
<1>1. SUFFICES ASSUME NEW S \in SUBSET Slots, S # {} PROVE First(S) \in S
  BY DEF Leasts
<1> DEFINE R == {x \in Nat \X Nat : x[1] < x[2]}
<1>2. WF!IsWellFoundedOn(R, Nat)
  BY WF!NatLessThanWellFounded, Zenon DEF WF!OpToRel
<1>3. S \subseteq Nat
  BY ProcAssumption DEF Slots
<1>4. PICK p \in S : \A q \in S : <<q, p>> \notin R
  <2> HIDE DEF R
  <2>1. QED
    BY <1>1, <1>2, <1>3, WF!WFMin, Zenon
<1>5. ASSUME NEW q \in S PROVE p <= q
  <2>1. <<q, p>> \notin R /\ <<q, p>> \in Nat \X Nat
    BY <1>3, <1>4
  <2>2. ~(q < p)
    BY <2>1
  <2>3. QED
    BY <1>3, <2>2
<1>6. QED
  BY <1>5, Zenon DEF First

(* The inductive invariant holds in every state of proc.c.                 *)
THEOREM ProcInvHolds == Spec => []IInv
<1>1. Init => IInv
  BY InitInv
<1>2. IInv /\ [Next]_vars => IInv'
  BY NextInv, LeastsHold
<1>3. QED
  BY <1>1, <1>2, PTL DEF Spec

(* The fields of struct proc and struct cpu keep their types.              *)
THEOREM ProcTypeCorrect == Spec => []TypeOK
<1>1. IInv => TypeOK
  BY DEF IInv
<1>2. QED
  BY <1>1, ProcInvHolds, PTL

(* A child always has a living parent that can wait() for it, although     *)
(* exit() hands children over while fork() fills slots without the lock.   *)
THEOREM ChildrenAreWaitedFor == Spec => []ParentCanWait
<1>1. IInv => ParentCanWait
  BY DEF IInv
<1>2. QED
  BY <1>1, ProcInvHolds, PTL

(* No wakeup() is missed: who sleeps in wait() has living children only,   *)
(* and who sleeps in sys_sleep() is not late once the tick is handled.     *)
THEOREM NoWakeupIsMissed == Spec => []NoMissedWakeup
<1>1. IInv => NoMissedWakeup
  <2>1. SUFFICES ASSUME IInv, NEW p \in Slots, state[p] = "SLEEPING"
                 PROVE  \/ /\ chan[p] = p
                           /\ ~killed[p] /\ Children(p) # {} /\ Zombies(Children(p)) = {}
                        \/ /\ chan[p] = tickschan
                           /\ tickslock = None => ~Elapsed(ticks0[p], n[p])
    BY Zenon DEF NoMissedWakeup
  <2>2. CASE chan[p] = p
    BY <2>1, <2>2 DEF IInv, Waiters
  <2>3. CASE chan[p] = tickschan
    <3>1. tickslock = None => \A c \in CPUs : trap[c] # "wakeup"
      BY <2>1, Basics DEF IInv, Locks, HoldsTicks
    <3>2. QED
      BY <2>1, <2>3, <3>1 DEF IInv, Sleepers
  <2>4. QED
    BY <2>1, <2>2, <2>3, Zenon DEF IInv, Places
<1>2. QED
  BY <1>1, ProcInvHolds, PTL

(* allocproc() never hands out a pid that a process has.                   *)
THEOREM PidsAreUnique == Spec => []PidsDiffer
<1>1. IInv => PidsDiffer
  BY DEF IInv, Pids
<1>2. QED
  BY <1>1, ProcInvHolds, PTL

LOCAL FS == INSTANCE FiniteSetTheorems

(* The library counts the sets Proc counts.                                *)
LEMMA FinSame ==
  ASSUME NEW S PROVE Cardinality(S) = FS!Cardinality(S)
  BY Zenon DEF Cardinality, FS!Cardinality, IsFiniteSet, FS!IsFiniteSet

(* A process is RUNNING exactly when one CPU runs it.                      *)
THEOREM OneCpuRunsIt == Spec => []RunningOnOneCpu
<1>1. ASSUME IInv, NEW p \in Slots
      PROVE  LET on == {c \in CPUs : cpuproc[c] = p}
             IN IF state[p] = "RUNNING" THEN Cardinality(on) = 1 ELSE on = {}
  <2> DEFINE on == {c \in CPUs : cpuproc[c] = p}
  <2>1. CASE state[p] = "RUNNING"
    <3>1. PICK c \in CPUs : cpuproc[c] = p
      BY <1>1, <2>1 DEF IInv, OnCpus
    <3>2. on = {c}
      BY <1>1, <3>1, Runner
    <3>3. Cardinality({c}) = 1
      BY FS!FS_Singleton, FinSame, Zenon
    <3>4. QED
      BY <2>1, <3>2, <3>3, Zenon
  <2>2. CASE state[p] # "RUNNING"
    BY <1>1, <2>2, Runner
  <2>3. QED
    BY <2>1, <2>2
<1>2. IInv => RunningOnOneCpu
  BY <1>1, Zenon DEF RunningOnOneCpu
<1>3. QED
  BY <1>2, ProcInvHolds, PTL
=============================================================================
