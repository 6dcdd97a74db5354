------------------------------ MODULE ProcInv -------------------------------
(***************************************************************************)
(* proc.c keeps its table right for any number of slots, CPUs, pids and    *)
(* clock ticks.  The inductive invariant says which CPU is where with      *)
(* which lock (OnCpus, Locks), where the process of a given state is       *)
(* (Places), what fork(), exit() and wait() make of parents and children   *)
(* (Forks, ParentCanWait, Waiters), who sleeps on the clock (Sleepers) and *)
(* that the pids differ (Pids).                                            *)
(***************************************************************************)
EXTENDS Proc, TLAPS

(* Where a process is when the scheduler switches to it.                   *)
ResumeLabels == {"yield", "forkret", "asleep", "wait"}

(* A CPU holds ptable.lock in its scheduler's loop, and in the process it  *)
(* has switched to until that lets the lock go.                            *)
HoldsTable(c) ==
  IF cpuproc[c] = None THEN scan[c] # 0 ELSE at[cpuproc[c]] \in ResumeLabels
HoldsTicks(c) ==
  trap[c] = "wakeup" \/ (cpuproc[c] # None /\ at[cpuproc[c]] = "sleep")

OnCpus ==
  /\ \A c \in CPUs :
       /\ cpuproc[c] # None => scan[c] = cpuproc[c] /\ state[cpuproc[c]] = "RUNNING"
       /\ trap[c] # "no" =>
            IF cpuproc[c] = None THEN scan[c] = 0 ELSE at[cpuproc[c]] = "user"
  /\ \A c, d \in CPUs : cpuproc[c] = cpuproc[d] /\ cpuproc[c] # None => c = d
  /\ \A p \in Slots : state[p] = "RUNNING" => \E c \in CPUs : cpuproc[c] = p

Locks ==
  \A c \in CPUs : /\ ptlock = c <=> HoldsTable(c)
                  /\ tickslock = c <=> HoldsTicks(c)

Places ==
  /\ \A p \in Slots :
       /\ state[p] = "RUNNABLE" => at[p] \in ResumeLabels
       /\ state[p] = "SLEEPING" => \/ at[p] = "asleep" /\ chan[p] = tickschan
                                   \/ at[p] = "wait" /\ chan[p] = p
       /\ at[p] = "dead" <=> state[p] \notin Alive
  /\ state[initproc] \in Alive

Forks ==
  /\ \A p \in Slots :
       /\ kid[p] # None <=> at[p] \in {"copy", "start"}
       /\ kid[p] # None => state[kid[p]] = "EMBRYO"
       /\ at[p] = "copy" => parent[kid[p]] = None
       /\ at[p] = "start" => parent[kid[p]] = p
  /\ \A p, q \in Slots : kid[p] = kid[q] /\ kid[p] # None => p = q
  /\ parent[initproc] = None /\ \A p \in Slots : parent[p] # p

(* Who sleeps in wait() has something to wait for.                         *)
Waiters ==
  \A p \in Slots : state[p] = "SLEEPING" /\ chan[p] = p =>
    ~killed[p] /\ Children(p) # {} /\ Zombies(Children(p)) = {}

(* Who sleeps in sys_sleep(), or is about to, is early, or is woken by the *)
(* clock interrupt that is under way.                                      *)
Sleepers ==
  \A p \in Slots : at[p] = "sleep" \/ (state[p] = "SLEEPING" /\ chan[p] = tickschan) =>
    (\E c \in CPUs : trap[c] = "wakeup") \/ ~Elapsed(ticks0[p], n[p])

Pids ==
  /\ \A p \in Slots : IF state[p] = "UNUSED" THEN pid[p] = 0
                                             ELSE pid[p] \in 1 .. nextpid - 1
  /\ PidsDiffer

IInv == /\ TypeOK /\ OnCpus /\ Locks /\ Places /\ Forks /\ ParentCanWait
        /\ Waiters /\ Sleepers /\ Pids

-----------------------------------------------------------------------------
(* What the proofs use of First(); it is shown at the end, as the library  *)
(* it needs slows down every proof that has it in scope.                   *)
Leasts == \A S \in SUBSET Slots : S # {} => First(S) \in S

(* What the slots, the channels and the CPUs are.                          *)
LEMMA Basics ==
  /\ initproc \in Slots /\ None \notin Slots /\ tickschan \notin Slots
  /\ tickschan # None /\ None \notin CPUs /\ Cpu0 \in CPUs
  /\ Slots \subseteq Int /\ 0 \notin Slots
  /\ Slots \subseteq 0 .. NPROC + 1 /\ \A i \in Slots : i + 1 \in 1 .. NPROC + 1
  BY ProcAssumption DEF initproc, tickschan, Slots

USE DEF Goto, table, locals, cpus, clock

(* The table userinit() leaves satisfies the invariant.                    *)
LEMMA InitInv == Init => IInv
<1> SUFFICES ASSUME Init PROVE IInv
  OBVIOUS
<1>1. TypeOK
  BY Basics, ProcAssumption DEF Init, TypeOK, Alive
<1>2. OnCpus /\ Locks /\ Places
  BY Basics DEF Init, OnCpus, Locks, Places, HoldsTable, HoldsTicks, ResumeLabels, Alive
<1>3. Forks /\ ParentCanWait /\ Waiters /\ Sleepers
  BY Basics DEF Init, Forks, ParentCanWait, Waiters, Sleepers, Alive
<1>4. Pids
  BY Basics DEF Init, Pids, PidsDiffer
<1>5. QED
  BY <1>1, <1>2, <1>3, <1>4 DEF IInv

(* A step that leaves the table alone.                                     *)
LEMMA TableKept ==
  ASSUME IInv, UNCHANGED <<state, pid, parent, killed, chan, at, kid, nextpid>>
  PROVE  Places' /\ Forks' /\ ParentCanWait' /\ Waiters' /\ Pids'
<1>1. Places' /\ Forks'
  BY DEF IInv, Places, Forks
<1>2. ParentCanWait' /\ Waiters'
  BY DEF IInv, ParentCanWait, Waiters, Children, Zombies
<1>3. Pids'
  BY DEF IInv, Pids, PidsDiffer
<1>4. QED
  BY <1>1, <1>2, <1>3

(* The invariant is about the table, the CPUs and the clock only.          *)
LEMMA Stutter ==
  ASSUME IInv, halted' \in {"no", "init exiting"},
         UNCHANGED <<state, pid, parent, killed, chan, at, kid, ticks0, n, nextpid,
                     cpuproc, scan, trap, ptlock, tickslock, ticks>>
  PROVE  IInv'
<1>1. TypeOK' /\ OnCpus'
  BY Zenon DEF IInv, TypeOK, OnCpus
<1>2. Locks' /\ Sleepers'
  BY Zenon DEF IInv, Locks, HoldsTable, HoldsTicks, Sleepers, Elapsed
<1>3. Places' /\ Forks' /\ ParentCanWait' /\ Waiters' /\ Pids'
  BY TableKept, Zenon
<1>4. QED
  BY <1>1, <1>2, <1>3, Zenon DEF IInv

(* A step that changes nothing.                                            *)
LEMMA Unchanged == ASSUME IInv, UNCHANGED vars PROVE IInv'
<1>1. halted \in {"no", "init exiting"}
  BY Zenon DEF IInv, TypeOK
<1>2. QED
  BY <1>1, Stutter, Zenon DEF vars

(* The process that a CPU runs.                                            *)
LEMMA Runner ==
  ASSUME IInv, NEW c \in CPUs, NEW p \in Slots, cpuproc[c] = p
  PROVE  /\ state[p] = "RUNNING" /\ scan[c] = p /\ p # None
         /\ \A d \in CPUs : cpuproc[d] = p => d = c
  BY Basics DEF IInv, OnCpus

(* The slot that fork() fills.                                             *)
LEMMA Embryo ==
  ASSUME IInv, NEW p \in Slots, at[p] \in {"copy", "start"}
  PROVE  /\ kid[p] \in Slots /\ state[kid[p]] = "EMBRYO" /\ at[kid[p]] = "dead"
         /\ kid[p] # p /\ kid[p] # initproc /\ \A d \in CPUs : cpuproc[d] # kid[p]
<1>1. kid[p] \in Slots /\ state[kid[p]] = "EMBRYO"
  <2>1. kid[p] # None /\ state[kid[p]] = "EMBRYO"
    BY DEF IInv, Forks
  <2>2. QED
    BY <2>1, Zenon DEF IInv, TypeOK
<1>2. at[kid[p]] = "dead" /\ kid[p] # initproc
  BY <1>1 DEF IInv, Places, Alive
<1>3. \A d \in CPUs : cpuproc[d] # kid[p]
  BY <1>1, Basics DEF IInv, OnCpus
<1>4. QED
  BY <1>1, <1>2, <1>3

(* Who is about to sleep on the clock holds tickslock, on some CPU.        *)
LEMMA SleepHolds ==
  ASSUME IInv, NEW p \in Slots, at[p] = "sleep"
  PROVE  \E c \in CPUs : tickslock = c /\ cpuproc[c] = p
<1>1. state[p] = "RUNNING"
  BY Zenon DEF IInv, TypeOK, Places, ResumeLabels, Alive
<1>2. PICK c \in CPUs : cpuproc[c] = p
  BY <1>1 DEF IInv, OnCpus
<1>3. tickslock = c
  BY <1>2, Basics DEF IInv, Locks, HoldsTicks
<1>4. QED
  BY <1>2, <1>3
-----------------------------------------------------------------------------
(* A field that a step leaves alone, as the lemmas below write it.         *)
LEMMA SameField ==
  ASSUME NEW S, NEW T, NEW f \in [S -> T], NEW x \in S
  PROVE  f[x] \in T /\ f = [f EXCEPT ![x] = f[x]]
  BY Zenon

(* The fields of one process, as the lemmas below write them.              *)
LEMMA OwnFields ==
  ASSUME IInv, NEW c \in CPUs, NEW p \in Slots
  PROVE  /\ ticks0[p] \in 0 .. TickMod - 1 /\ ticks0 = [ticks0 EXCEPT ![p] = ticks0[p]]
         /\ n[p] \in SleepTimes \cup {0} /\ n = [n EXCEPT ![p] = n[p]]
         /\ chan[p] \in Slots \cup {tickschan, None} /\ chan = [chan EXCEPT ![p] = chan[p]]
         /\ trap[c] = "no" => trap = [trap EXCEPT ![c] = "no"]
<1>1. /\ ticks0 \in [Slots -> 0 .. TickMod - 1] /\ n \in [Slots -> SleepTimes \cup {0}]
      /\ chan \in [Slots -> Slots \cup {tickschan, None}]
      /\ trap \in [CPUs -> {"no", "wakeup", "yield"}]
  BY Zenon DEF IInv, TypeOK
<1>2. QED
  BY <1>1, SameField

(* A process that goes on running, at another label: a system call or an   *)
(* interrupt that it enters or leaves, with the locks that it lets go or   *)
(* takes there.                                                            *)
Moves(c, p, label, from, t) ==
  /\ cpuproc[c] = p /\ trap[c] # "wakeup" /\ at[p] \notin {"copy", "start", "sleep"}
  /\ label \in {"user", "exit", "relock", "sleep"}
  /\ at' = [at EXCEPT ![p] = label] /\ trap' = [trap EXCEPT ![c] = "no"]
  /\ UNCHANGED <<state, pid, parent, kid, nextpid, cpuproc, scan, ticks, halted>>
  /\ killed' = killed \/ killed' = [killed EXCEPT ![p] = TRUE]
  /\ chan' = chan \/ chan' = [chan EXCEPT ![p] = None]
  /\ ptlock' = IF at[p] \in ResumeLabels THEN None ELSE ptlock
  /\ tickslock' = IF label = "sleep" THEN c ELSE tickslock
  /\ from \in 0 .. TickMod - 1 /\ ticks0' = [ticks0 EXCEPT ![p] = from]
  /\ t \in SleepTimes \cup {0} /\ n' = [n EXCEPT ![p] = t]
  /\ label = "sleep" => tickslock = None /\ ~Elapsed(from, t)

(* Such a step keeps the invariant.                                        *)
LEMMA MovesInv ==
  ASSUME IInv, NEW c \in CPUs, NEW p \in Slots, NEW label, NEW from, NEW t,
         Moves(c, p, label, from, t)
  PROVE  IInv'
<1>. USE DEF Moves
<1>1. /\ state[p] = "RUNNING" /\ scan[c] = p /\ p # None
      /\ \A d \in CPUs : cpuproc[d] = p => d = c
  BY Runner, Zenon
<1>2. /\ TypeOK /\ OnCpus /\ Locks /\ Places /\ Forks /\ ParentCanWait
      /\ Waiters /\ Sleepers /\ Pids
  BY Zenon DEF IInv
<1>3. /\ at'[p] = label /\ \A q \in Slots : q # p => at'[q] = at[q]
      /\ trap'[c] = "no" /\ \A d \in CPUs : d # c => trap'[d] = trap[d]
      /\ ticks0'[p] = from /\ n'[p] = t
      /\ \A q \in Slots : q # p => /\ killed'[q] = killed[q] /\ chan'[q] = chan[q]
                                   /\ ticks0'[q] = ticks0[q] /\ n'[q] = n[q]
  <2>1. at'[p] = label /\ \A q \in Slots : q # p => at'[q] = at[q]
    BY <1>2, Zenon DEF TypeOK
  <2>2. trap'[c] = "no" /\ \A d \in CPUs : d # c => trap'[d] = trap[d]
    BY <1>2, Zenon DEF TypeOK
  <2>3. /\ ticks0'[p] = from /\ \A q \in Slots : q # p => ticks0'[q] = ticks0[q]
        /\ n'[p] = t /\ \A q \in Slots : q # p => n'[q] = n[q]
    BY <1>2, Zenon DEF TypeOK
  <2>4. \A q \in Slots : q # p => killed'[q] = killed[q] /\ chan'[q] = chan[q]
    BY <1>2, Zenon DEF TypeOK
  <2>5. QED
    BY <2>1, <2>2, <2>3, <2>4, Zenon
<1>4. TypeOK'
  <2>1. at' \in [Slots -> {"user", "copy", "start", "exit", "sleep", "relock", "yield",
                           "forkret", "asleep", "wait", "dead"}]
    BY <1>2, Zenon DEF TypeOK
  <2>2. trap' \in [CPUs -> {"no", "wakeup", "yield"}]
    BY <1>2, Zenon DEF TypeOK
  <2>3. killed' \in [Slots -> BOOLEAN] /\ chan' \in [Slots -> Slots \cup {tickschan, None}]
    BY <1>2, Zenon DEF TypeOK
  <2>4. ticks0' \in [Slots -> 0 .. TickMod - 1] /\ n' \in [Slots -> SleepTimes \cup {0}]
    BY <1>2, Zenon DEF TypeOK
  <2>5. ptlock' \in CPUs \cup {None} /\ tickslock' \in CPUs \cup {None}
    BY <1>2, Zenon DEF TypeOK
  <2>6. QED
    BY <1>2, <2>1, <2>2, <2>3, <2>4, <2>5, Zenon DEF TypeOK
<1>5. OnCpus'
  BY <1>1, <1>2, <1>3 DEF OnCpus
<1>6. Locks'
  <2>1. label \notin ResumeLabels /\ None \notin CPUs
    BY Basics DEF ResumeLabels
  <2>2. ASSUME NEW d \in CPUs, d # c
        PROVE  (HoldsTable(d)' <=> HoldsTable(d)) /\ (HoldsTicks(d)' <=> HoldsTicks(d))
    <3>1. cpuproc[d] # p /\ (cpuproc[d] # None => cpuproc[d] \in Slots)
      BY <1>1, <1>2, <2>2, Zenon DEF TypeOK
    <3>2. QED
      BY <1>3, <2>2, <3>1 DEF HoldsTable, HoldsTicks
  <2>3. (HoldsTable(c) <=> at[p] \in ResumeLabels) /\ ~HoldsTable(c)'
    BY <1>1, <1>3, <2>1 DEF HoldsTable
  <2>4. ~HoldsTicks(c) /\ (HoldsTicks(c)' <=> label = "sleep")
    BY <1>1, <1>3, Zenon DEF HoldsTicks
  <2>5. QED
    BY <1>2, <2>1, <2>2, <2>3, <2>4, Zenon DEF Locks
<1>7. Places'
  BY <1>1, <1>2, <1>3 DEF Places, Alive
<1>8. Forks'
  BY <1>1, <1>2, <1>3 DEF Forks
<1>9. ParentCanWait' /\ Pids'
  BY <1>2, Zenon DEF ParentCanWait, Pids, PidsDiffer
<1>10. Waiters'
  BY <1>1, <1>2, <1>3 DEF Waiters, Children, Zombies
<1>11. Sleepers'
  <2>1. \A x, y : Elapsed(x, y)' <=> Elapsed(x, y)
    BY Zenon DEF Elapsed
  <2>2. QED
    BY <1>1, <1>2, <1>3, <2>1 DEF Sleepers
<1>12. QED
  BY <1>4, <1>5, <1>6, <1>7, <1>8, <1>9, <1>10, <1>11, Zenon DEF IInv

(* A process that leaves its CPU to the scheduler, in yield() or sleep().  *)
Switches(c, p, label, s, channel) ==
  /\ cpuproc[c] = p /\ trap[c] # "wakeup" /\ at[p] \notin {"copy", "start"}
  /\ ptlock = None \/ at[p] \in ResumeLabels
  /\ label \in {"yield", "asleep", "wait"} /\ Sched(c, p, label)
  /\ s \in {"RUNNABLE", "SLEEPING"} /\ state' = [state EXCEPT ![p] = s]
  /\ channel \in Slots \cup {tickschan, None} /\ chan' = [chan EXCEPT ![p] = channel]
  /\ trap' = [trap EXCEPT ![c] = "no"]
  /\ tickslock' = IF at[p] = "sleep" THEN None ELSE tickslock
  /\ UNCHANGED <<pid, parent, killed, kid, ticks0, n, nextpid, ticks, halted>>
  /\ s = "SLEEPING" =>
       \/ label = "asleep" /\ channel = tickschan /\ at[p] = "sleep"
       \/ /\ label = "wait" /\ channel = p
          /\ ~killed[p] /\ Children(p) # {} /\ Zombies(Children(p)) = {}

(* Such a step keeps the invariant.                                        *)
LEMMA SwitchesInv ==
  ASSUME IInv, NEW c \in CPUs, NEW p \in Slots, NEW label, NEW s, NEW channel,
         Switches(c, p, label, s, channel)
  PROVE  IInv'
<1>. USE DEF Switches
<1>1. /\ state[p] = "RUNNING" /\ scan[c] = p /\ p # None
      /\ \A d \in CPUs : cpuproc[d] = p => d = c
  BY Runner, Zenon
<1>2. /\ TypeOK /\ OnCpus /\ Locks /\ Places /\ Forks /\ ParentCanWait
      /\ Waiters /\ Sleepers /\ Pids
  BY Zenon DEF IInv
<1>3. /\ at'[p] = label /\ \A q \in Slots : q # p => at'[q] = at[q]
      /\ state'[p] = s /\ \A q \in Slots : q # p => state'[q] = state[q]
      /\ chan'[p] = channel /\ \A q \in Slots : q # p => chan'[q] = chan[q]
      /\ trap'[c] = "no" /\ \A d \in CPUs : d # c => trap'[d] = trap[d]
  <2>1. at'[p] = label /\ \A q \in Slots : q # p => at'[q] = at[q]
    BY <1>2, Zenon DEF TypeOK, Sched
  <2>2. /\ state'[p] = s /\ \A q \in Slots : q # p => state'[q] = state[q]
        /\ chan'[p] = channel /\ \A q \in Slots : q # p => chan'[q] = chan[q]
    BY <1>2, Zenon DEF TypeOK
  <2>3. trap'[c] = "no" /\ \A d \in CPUs : d # c => trap'[d] = trap[d]
    BY <1>2, Zenon DEF TypeOK
  <2>4. QED
    BY <2>1, <2>2, <2>3, Zenon
<1>4. /\ cpuproc'[c] = None /\ \A d \in CPUs : d # c => cpuproc'[d] = cpuproc[d]
      /\ scan'[c] = p + 1 /\ \A d \in CPUs : d # c => scan'[d] = scan[d]
      /\ ptlock' = c
  BY <1>1, <1>2, Zenon DEF TypeOK, Sched
<1>5. p + 1 \in 0 .. NPROC + 1 /\ p + 1 # 0 /\ None \notin CPUs /\ tickschan # p
  BY ProcAssumption DEF Slots, tickschan
<1>6. \A q \in Slots : kid[q] \in Slots \cup {None} /\ parent[q] \in Slots \cup {None}
  BY <1>2, Zenon DEF TypeOK
<1>7. TypeOK'
  <2>1. at' \in [Slots -> {"user", "copy", "start", "exit", "sleep", "relock", "yield",
                           "forkret", "asleep", "wait", "dead"}]
    BY <1>2, Zenon DEF TypeOK, Sched
  <2>2. /\ trap' \in [CPUs -> {"no", "wakeup", "yield"}]
        /\ state' \in [Slots -> Alive \cup {"UNUSED", "EMBRYO", "ZOMBIE"}]
    BY <1>2, Zenon DEF TypeOK, Alive
  <2>3. /\ chan' \in [Slots -> Slots \cup {tickschan, None}]
        /\ cpuproc' \in [CPUs -> Slots \cup {None}]
        /\ ptlock' \in CPUs \cup {None} /\ tickslock' \in CPUs \cup {None}
    BY <1>2, Zenon DEF TypeOK, Sched
  <2>4. scan' \in [CPUs -> 0 .. NPROC + 1]
    BY <1>1, <1>2, <1>5, Zenon DEF TypeOK, Sched
  <2>5. QED
    BY <1>2, <2>1, <2>2, <2>3, <2>4, Zenon DEF TypeOK
<1>8. OnCpus'
  <2>1. ASSUME NEW d \in CPUs, cpuproc[d] # None, d # c
        PROVE  cpuproc[d] \in Slots /\ cpuproc[d] # p
    BY <1>1, <1>2, <2>1, Zenon DEF TypeOK
  <2>2. ASSUME NEW d \in CPUs
        PROVE  /\ cpuproc'[d] # None =>
                    scan'[d] = cpuproc'[d] /\ state'[cpuproc'[d]] = "RUNNING"
               /\ trap'[d] # "no" =>
                    IF cpuproc'[d] = None THEN scan'[d] = 0 ELSE at'[cpuproc'[d]] = "user"
    BY <1>2, <1>3, <1>4, <2>1 DEF OnCpus
  <2>3. \A d, e \in CPUs : cpuproc'[d] = cpuproc'[e] /\ cpuproc'[d] # None => d = e
    BY <1>2, <1>4 DEF OnCpus
  <2>4. \A q \in Slots : state'[q] = "RUNNING" => \E d \in CPUs : cpuproc'[d] = q
    BY <1>2, <1>3, <1>4 DEF OnCpus
  <2>5. QED
    BY <2>2, <2>3, <2>4, Zenon DEF OnCpus
<1>9. Locks'
  <2>1. ASSUME NEW d \in CPUs, d # c
        PROVE  (HoldsTable(d)' <=> HoldsTable(d)) /\ (HoldsTicks(d)' <=> HoldsTicks(d))
    <3>1. cpuproc[d] # p /\ (cpuproc[d] # None => cpuproc[d] \in Slots)
      BY <1>1, <1>2, <2>1, Zenon DEF TypeOK
    <3>2. QED
      BY <1>3, <1>4, <2>1, <3>1 DEF HoldsTable, HoldsTicks
  <2>2. /\ HoldsTable(c) <=> at[p] \in ResumeLabels
        /\ HoldsTable(c)' /\ ~HoldsTicks(c)'
        /\ HoldsTicks(c) <=> at[p] = "sleep"
    BY <1>1, <1>3, <1>4, <1>5, Zenon DEF HoldsTable, HoldsTicks
  <2>3. QED
    BY <1>2, <1>4, <1>5, <2>1, <2>2, Zenon DEF Locks
<1>10. Places'
  BY <1>1, <1>2, <1>3 DEF Places, Alive, ResumeLabels
<1>11. Forks'
  <2>1. ASSUME NEW q \in Slots, kid[q] # None PROVE kid[q] \in Slots \ {p}
    BY <1>1, <1>2, <1>6, <2>1 DEF Forks
  <2>2. QED
    BY <1>2, <1>3, <2>1 DEF Forks
<1>12. ParentCanWait'
  BY <1>1, <1>2, <1>3, <1>6 DEF ParentCanWait, Alive
<1>13. Waiters'
  <2>1. ASSUME NEW q \in Slots
        PROVE  Children(q)' = Children(q) /\ Zombies(Children(q))' = Zombies(Children(q))
    BY <1>1, <1>3, Zenon DEF Children, Zombies
  <2>2. state'[p] = "SLEEPING" /\ chan'[p] = p =>
          ~killed[p] /\ Children(p) # {} /\ Zombies(Children(p)) = {}
    BY <1>3, <1>5
  <2>3. ASSUME NEW q \in Slots, q # p, state'[q] = "SLEEPING" /\ chan'[q] = q
        PROVE  ~killed[q] /\ Children(q) # {} /\ Zombies(Children(q)) = {}
    BY <1>2, <1>3, <2>3, Zenon DEF Waiters
  <2>4. QED
    BY <2>1, <2>2, <2>3, Zenon DEF Waiters
<1>14. Sleepers'
  BY <1>1, <1>2, <1>3, <1>5 DEF Sleepers, Elapsed
<1>15. Pids'
  <2>1. \A q \in Slots : state'[q] = "UNUSED" <=> state[q] = "UNUSED"
    BY <1>1, <1>3
  <2>2. PidsDiffer'
    BY <1>2, <2>1, Zenon DEF Pids, PidsDiffer
  <2>3. QED
    BY <1>2, <2>1, <2>2, Zenon DEF Pids
<1>16. QED
  BY <1>7, <1>8, <1>9, <1>10, <1>11, <1>12, <1>13, <1>14, <1>15, Zenon DEF IInv

(* The processes that stay on their CPU.                                   *)
LEMMA SysExitInv ==
  ASSUME IInv, NEW c \in CPUs, NEW p \in Slots,
         SysExit(c, p) \/ Misbehaves(c, p) \/ KilledEnters(c, p)
  PROVE  IInv'
<1>1. /\ trap[c] = "no" /\ cpuproc[c] = p /\ at[p] = "user"
      /\ at' = [at EXCEPT ![p] = "exit"]
      /\ killed' = killed \/ killed' = [killed EXCEPT ![p] = TRUE]
      /\ UNCHANGED <<state, pid, parent, chan, kid, ticks0, n, nextpid, cpuproc,
                     scan, trap, ptlock, tickslock, ticks, halted>>
  BY DEF SysExit, Misbehaves, KilledEnters, Runs
<1>2. Moves(c, p, "exit", ticks0[p], n[p])
  BY <1>1, OwnFields DEF Moves, ResumeLabels
<1>3. QED
  BY <1>2, MovesInv, Zenon

(* The label that the way out of a system call takes.                      *)
LEMMA ReturnLabel ==
  ASSUME NEW p, Return(p)
  PROVE  \E label \in {"user", "exit"} : at' = [at EXCEPT ![p] = label]
  BY Zenon DEF Return

(* The loop of sys_sleep(), which leaves the call or goes on to sleep.     *)
LEMMA SleepLoopInv ==
  ASSUME IInv, NEW c \in CPUs, NEW p \in Slots, NEW from \in 0 .. TickMod - 1,
         NEW t \in SleepTimes \cup {0}, SleepLoop(c, p, from, t),
         trap[c] = "no" /\ cpuproc[c] = p /\ tickslock = None /\ at[p] \in {"user", "relock"}
  PROVE  IInv'
<1>1. CASE Elapsed(from, t) \/ killed[p]
  <2>1. PICK label \in {"user", "exit"} : at' = [at EXCEPT ![p] = label]
    BY <1>1, ReturnLabel, Zenon DEF SleepLoop
  <2>2. 0 \in 0 .. TickMod - 1
    BY ProcAssumption
  <2>3. Moves(c, p, label, 0, 0)
    BY <1>1, <2>1, <2>2, OwnFields DEF SleepLoop, Moves, ResumeLabels
  <2>4. QED
    BY <2>3, MovesInv, Zenon
<1>2. CASE ~(Elapsed(from, t) \/ killed[p])
  <2>1. Moves(c, p, "sleep", from, t)
    BY <1>2, OwnFields DEF SleepLoop, Moves, ResumeLabels
  <2>2. QED
    BY <2>1, MovesInv, Zenon
<1>3. QED
  BY <1>1, <1>2

(* The process that the scheduler switched to lets ptable.lock go.         *)
LEMMA ResumeInv ==
  ASSUME IInv, NEW c \in CPUs, NEW p \in Slots,
         ResumeYield(c, p) \/ ResumeForkret(c, p) \/ ResumeSleep(c, p)
  PROVE  IInv'
<1>1. PICK label \in {"user", "exit", "relock"} : at' = [at EXCEPT ![p] = label]
  <2>1. ResumeYield(c, p) => Return(p)
    BY Zenon DEF ResumeYield
  <2>2. ResumeForkret(c, p) \/ ResumeSleep(c, p) =>
          at' = [at EXCEPT ![p] = "user"] \/ at' = [at EXCEPT ![p] = "relock"]
    BY Zenon DEF ResumeForkret, ResumeSleep
  <2>3. QED
    BY <2>1, <2>2, ReturnLabel, Zenon
<1>2. /\ trap[c] = "no" /\ cpuproc[c] = p /\ at[p] \in {"yield", "forkret", "asleep"}
      /\ ptlock' = None /\ tickslock' = tickslock /\ trap' = trap
  BY Zenon DEF ResumeYield, ResumeForkret, ResumeSleep, Runs
<1>3. /\ label # "sleep" /\ label \in {"user", "exit", "relock", "sleep"}
      /\ at[p] \in ResumeLabels /\ at[p] \notin {"copy", "start", "sleep"}
  BY <1>1, <1>2 DEF ResumeLabels
<1>4. /\ ptlock' = IF at[p] \in ResumeLabels THEN None ELSE ptlock
      /\ tickslock' = IF label = "sleep" THEN c ELSE tickslock
      /\ trap' = [trap EXCEPT ![c] = "no"]
  BY <1>2, <1>3, OwnFields
<1>5. /\ ticks0[p] \in 0 .. TickMod - 1 /\ ticks0' = [ticks0 EXCEPT ![p] = ticks0[p]]
      /\ n[p] \in SleepTimes \cup {0} /\ n' = [n EXCEPT ![p] = n[p]]
  BY OwnFields, Zenon DEF ResumeYield, ResumeForkret, ResumeSleep
<1>6. /\ chan' = chan \/ chan' = [chan EXCEPT ![p] = None]
      /\ UNCHANGED <<state, pid, parent, killed, kid, nextpid, cpuproc, scan, ticks, halted>>
  BY Zenon DEF ResumeYield, ResumeForkret, ResumeSleep
<1>7. Moves(c, p, label, ticks0[p], n[p])
  BY <1>1, <1>2, <1>3, <1>4, <1>5, <1>6, Zenon DEF Moves
<1>8. QED
  BY <1>7, MovesInv, Zenon

(* wait() that has no child to wait for, or is killed.                     *)
LEMMA WaitFailsInv ==
  ASSUME IInv, NEW c \in CPUs, NEW p \in Slots, Scan(c, p),
         trap[c] = "no" /\ cpuproc[c] = p,
         at[p] = "wait" \/ (at[p] = "user" /\ ptlock = None),
         UNCHANGED <<kid, ticks0, n, nextpid, trap, clock, halted>>,
         Zombies(Children(p)) = {}, Children(p) = {} \/ killed[p]
  PROVE  IInv'
<1>1. PICK label \in {"user", "exit"} : at' = [at EXCEPT ![p] = label]
  BY ReturnLabel, Zenon DEF Scan
<1>2. /\ ptlock' = None /\ chan' = [chan EXCEPT ![p] = None] /\ killed' = killed
      /\ UNCHANGED <<state, pid, parent, cpuproc, scan>>
  BY Zenon DEF Scan
<1>3. Moves(c, p, label, ticks0[p], n[p])
  BY <1>1, <1>2, OwnFields DEF Moves, ResumeLabels
<1>4. QED
  BY <1>3, MovesInv, Zenon

(* The clock interrupt ends in exit() for a killed process.                *)
LEMMA YieldKilledInv ==
  ASSUME IInv, NEW c \in CPUs, NEW p \in Slots, TimerYield(c), cpuproc[c] = p, killed[p]
  PROVE  IInv'
<1>1. /\ trap[c] = "yield" /\ trap' = [trap EXCEPT ![c] = "no"]
      /\ at' = [at EXCEPT ![p] = "exit"]
      /\ UNCHANGED <<state, pid, parent, killed, chan, kid, ticks0, n, nextpid, cpuproc,
                     scan, ptlock, clock, halted>>
  BY Basics DEF TimerYield
<1>2. at[p] = "user"
  BY <1>1, Basics DEF IInv, OnCpus
<1>3. Moves(c, p, "exit", ticks0[p], n[p])
  BY <1>1, <1>2, OwnFields DEF Moves, ResumeLabels
<1>4. QED
  BY <1>3, MovesInv, Zenon

(* sys_sleep() and wait() go to sleep, and the clock interrupt yields.     *)
LEMMA SleepTicksInv ==
  ASSUME IInv, NEW c \in CPUs, NEW p \in Slots, SleepTicks(c, p) PROVE IInv'
<1>1. Switches(c, p, "asleep", "SLEEPING", tickschan)
  BY OwnFields DEF SleepTicks, Runs, Sleep, Switches
<1>2. QED
  BY <1>1, SwitchesInv, Zenon

(* wait() sleeps on its own slot while no child is a zombie.               *)
LEMMA WaitSleepsInv ==
  ASSUME IInv, NEW c \in CPUs, NEW p \in Slots, Scan(c, p),
         trap[c] = "no" /\ cpuproc[c] = p,
         at[p] = "wait" \/ (at[p] = "user" /\ ptlock = None),
         UNCHANGED <<kid, ticks0, n, nextpid, trap, clock, halted>>,
         Zombies(Children(p)) = {}, ~(Children(p) = {} \/ killed[p])
  PROVE  IInv'
<1>1. Sleep(c, p, p, "wait") /\ UNCHANGED <<pid, parent, killed>>
  BY Zenon DEF Scan
<1>2. Switches(c, p, "wait", "SLEEPING", p)
  BY <1>1, OwnFields DEF Sleep, Switches, ResumeLabels
<1>3. QED
  BY <1>2, SwitchesInv, Zenon

(* yield() makes the process runnable and gives the CPU back.              *)
LEMMA YieldInv ==
  ASSUME IInv, NEW c \in CPUs, NEW p \in Slots, TimerYield(c), cpuproc[c] = p, ~killed[p]
  PROVE  IInv'
<1>1. /\ trap[c] = "yield" /\ trap' = [trap EXCEPT ![c] = "no"] /\ ptlock = None
      /\ state' = [state EXCEPT ![p] = "RUNNABLE"] /\ Sched(c, p, "yield")
      /\ UNCHANGED <<pid, parent, killed, chan, kid, ticks0, n, nextpid, clock, halted>>
  BY Basics DEF TimerYield
<1>2. at[p] = "user"
  BY <1>1, Basics DEF IInv, OnCpus
<1>3. Switches(c, p, "yield", "RUNNABLE", chan[p])
  BY <1>1, <1>2, OwnFields DEF Switches
<1>4. QED
  BY <1>3, SwitchesInv, Zenon
-----------------------------------------------------------------------------
(* Who is handed over gets a living parent, and who is woken stays alive.  *)
LEMMA ExitParents ==
  ASSUME IInv, NEW p \in Slots, state[p] = "RUNNING", p # initproc, state'[p] = "ZOMBIE",
         parent' = [q \in Slots |-> IF parent[q] = p THEN initproc ELSE parent[q]],
         \A q \in Slots \ {p} :
           \/ state'[q] = state[q] /\ (state[q] = "SLEEPING" => chan[q] # parent[p])
           \/ state[q] = "SLEEPING" /\ state'[q] = "RUNNABLE"
  PROVE  ParentCanWait'
<1>1. /\ ParentCanWait /\ initproc \in Slots /\ state[initproc] \in Alive
      /\ \A q \in Slots : parent[q] \in Slots \cup {None}
  BY Basics, Zenon DEF IInv, TypeOK, Places
<1>2. /\ state'[initproc] \in Alive
      /\ \A q \in Slots \ {p} : /\ state'[q] \in Alive <=> state[q] \in Alive
                                /\ state'[q] \notin Alive => state'[q] = state[q]
  BY <1>1 DEF Alive
<1>3. \A q \in Slots : parent'[q] = IF parent[q] = p THEN initproc ELSE parent[q]
  BY Zenon
<1>4. state[p] \in Alive /\ "ZOMBIE" \notin Alive /\ "UNUSED" \notin Alive /\ initproc # None
  BY Basics DEF Alive
<1>5. ASSUME NEW q \in Slots, parent[q] # None, state[parent[q]] \in Alive
      PROVE  parent'[q] # None /\ state'[parent'[q]] \in Alive
  BY <1>1, <1>2, <1>3, <1>4, <1>5
<1>6. ASSUME NEW q \in Slots
      PROVE  /\ state'[q] \in Alive \cup {"ZOMBIE"} => state[q] \in Alive \cup {"ZOMBIE"}
             /\ state'[q] = "UNUSED" => state[q] = "UNUSED" /\ q # p
  BY <1>2, <1>4
<1>7. ASSUME NEW q \in Slots, parent[q] = None PROVE parent'[q] = None
  BY <1>3, <1>7, Basics
<1>8. QED
  BY <1>1, <1>4, <1>5, <1>6, <1>7, Zenon DEF ParentCanWait

(* exit() hands the children over, wakes the parent and becomes a zombie.  *)
LEMMA ExitsInv ==
  ASSUME IInv, NEW c \in CPUs, NEW p \in Slots, Exit(c, p), p # initproc PROVE IInv'
<1>. /\ TypeOK /\ OnCpus /\ Locks /\ Places /\ Forks /\ ParentCanWait
     /\ Waiters /\ Sleepers /\ Pids
  BY Zenon DEF IInv
<1>. USE Basics
<1>.  /\ ptlock = None
      /\ halted = "no" /\ trap[c] = "no" /\ cpuproc[c] = p /\ at[p] = "exit"
      /\ state' = [ExitWakes(p) EXCEPT ![p] = "ZOMBIE"]
      /\ parent' = HandOver(p)
      /\ at' = [at EXCEPT ![p] = "dead"]
      /\ cpuproc' = [cpuproc EXCEPT ![c] = None]
      /\ scan' = [scan EXCEPT ![c] = scan[c] + 1]
      /\ ptlock' = c
      /\ UNCHANGED <<pid, killed, chan, kid, ticks0, n, nextpid, trap,
                     tickslock, ticks, halted>>
  BY DEF Exit, Runs, Sched
<1>.  /\ state[p] = "RUNNING" /\ scan[c] = p /\ p # None
      /\ \A d \in CPUs : cpuproc[d] = p => d = c
  BY Runner
<1>.  /\ state' \in [Slots -> Alive \cup {"UNUSED", "EMBRYO", "ZOMBIE"}]
      /\ state'[p] = "ZOMBIE"
      /\ \A q \in Slots \ {p} :
           \/ state'[q] = state[q] /\ (state[q] = "SLEEPING" => chan[q] # parent[p])
           \/ state[q] = "SLEEPING" /\ state'[q] = "RUNNABLE"
      /\ Zombies(Children(p)) # {} =>
           ~(state'[initproc] = "SLEEPING" /\ chan[initproc] = initproc)
  BY Zenon DEF ExitWakes, Woken, IInv, TypeOK, Alive
<1>. parent' = [q \in Slots |-> IF parent[q] = p THEN initproc ELSE parent[q]]
  BY DEF HandOver
<1>. \A q \in Slots : kid[q] # None =>
        kid[q] \in Slots /\ kid[q] # p /\ state'[kid[q]] = "EMBRYO"
  <2>1. SUFFICES ASSUME NEW q \in Slots, kid[q] # None
                 PROVE  kid[q] \in Slots /\ kid[q] # p /\ state'[kid[q]] = "EMBRYO"
    OBVIOUS
  <2>2. kid[q] \in Slots /\ state[kid[q]] = "EMBRYO" /\ kid[q] # p
    BY <2>1, Embryo DEF Forks
  <2>3. QED
    BY <2>2, Zenon
<1>1. TypeOK'
  BY ProcAssumption DEF TypeOK, Alive
<1>2. OnCpus'
  BY DEF OnCpus, TypeOK
<1>3. Locks'
  BY DEF Locks, HoldsTable, HoldsTicks, ResumeLabels, OnCpus, TypeOK
<1>4. Places'
  BY DEF Places, ResumeLabels, Alive, TypeOK
<1>5. Forks'
  BY DEF Forks, TypeOK
<1>6. ParentCanWait'
  BY ExitParents, Zenon
<1>7. Waiters'
  <2>1. SUFFICES ASSUME NEW q \in Slots, state'[q] = "SLEEPING", chan'[q] = q
                 PROVE  (~killed[q] /\ Children(q) # {} /\ Zombies(Children(q)) = {})'
    BY DEF Waiters
  <2>2. /\ q # p /\ state[q] = "SLEEPING" /\ chan[q] = q /\ q # parent[p]
        /\ q = initproc => Zombies(Children(p)) = {}
    BY <2>1 DEF TypeOK, Alive
  <2>3. ~killed[q] /\ Children(q) # {} /\ Zombies(Children(q)) = {}
    BY <2>2 DEF Waiters
  <2>4. Children(q)' # {}
    BY <2>2, <2>3 DEF Children
  <2>5. ASSUME NEW z \in Slots, parent'[z] = q PROVE state'[z] # "ZOMBIE"
    <3>1. z # p
      BY <2>2, <2>5 DEF Forks
    <3>2. state[z] # "ZOMBIE"
      BY <2>2, <2>3, <2>5 DEF Children, Zombies
    <3>3. QED
      BY <3>1, <3>2
  <2>6. QED
    BY <2>3, <2>4, <2>5, Zenon DEF Children, Zombies
<1>8. Sleepers'
  BY DEF Sleepers, Elapsed, TypeOK
<1>9. Pids'
  BY DEF Pids, PidsDiffer, TypeOK
<1>10. QED
  BY <1>1, <1>2, <1>3, <1>4, <1>5, <1>6, <1>7, <1>8, <1>9 DEF IInv

(* wait() frees the slot of a zombie.                                      *)
LEMMA WaitReapsInv ==
  ASSUME Leasts, IInv, NEW c \in CPUs, NEW p \in Slots,
         halted = "no", trap[c] = "no", cpuproc[c] = p,
         at[p] = "wait" \/ (at[p] = "user" /\ ptlock = None), Scan(c, p),
         UNCHANGED <<kid, ticks0, n, nextpid, trap, clock, halted>>,
         Zombies(Children(p)) # {}
  PROVE  IInv'
<1>. /\ TypeOK /\ OnCpus /\ Locks /\ Places /\ Forks /\ ParentCanWait
     /\ Waiters /\ Sleepers /\ Pids
  BY Zenon DEF IInv
<1>. USE Basics
<1> DEFINE q == First(Zombies(Children(p)))
<1>.  /\ halted = "no" /\ trap[c] = "no" /\ cpuproc[c] = p
      /\ at[p] = "wait" \/ (at[p] = "user" /\ ptlock = None)
      /\ state' = [state EXCEPT ![q] = "UNUSED"]
      /\ pid' = [pid EXCEPT ![q] = 0]
      /\ parent' = [parent EXCEPT ![q] = None]
      /\ killed' = [killed EXCEPT ![q] = FALSE]
      /\ chan' = [chan EXCEPT ![p] = None]
      /\ at' = [at EXCEPT ![p] = IF killed'[p] THEN "exit" ELSE "user"]
      /\ ptlock' = None
      /\ UNCHANGED <<kid, ticks0, n, nextpid, cpuproc, scan, trap, tickslock,
                     ticks, halted>>
  BY DEF Scan, Return
<1>.  /\ state[p] = "RUNNING" /\ scan[c] = p /\ p # None
      /\ \A d \in CPUs : cpuproc[d] = p => d = c
  BY Runner
<1>. q \in Slots /\ parent[q] = p /\ state[q] = "ZOMBIE"
  BY DEF Leasts, Zombies, Children
<1> HIDE DEF q
<1>. q # p /\ q # initproc /\ at[q] = "dead" /\ \A d \in CPUs : cpuproc[d] # q
  BY DEF Places, OnCpus, Alive
<1>1. TypeOK'
  BY ProcAssumption DEF TypeOK, Alive
<1>2. OnCpus'
  BY DEF OnCpus, TypeOK
<1>3. Locks'
  BY DEF Locks, HoldsTable, HoldsTicks, ResumeLabels, OnCpus, TypeOK
<1>4. Places'
  BY DEF Places, ResumeLabels, Alive, TypeOK
<1>5. Forks'
  BY DEF Forks, TypeOK
<1>6. ParentCanWait'
  BY DEF ParentCanWait, Alive, TypeOK
<1>7. Waiters'
  BY DEF Waiters, Children, Zombies, TypeOK
<1>8. Sleepers'
  BY DEF Sleepers, Elapsed, TypeOK
<1>9. Pids'
  BY DEF Pids, PidsDiffer, TypeOK
<1>10. QED
  BY <1>1, <1>2, <1>3, <1>4, <1>5, <1>6, <1>7, <1>8, <1>9 DEF IInv

(* allocproc() takes the first unused slot.                                *)
LEMMA ForkAllocatesInv ==
  ASSUME Leasts, IInv, NEW c \in CPUs, NEW p \in Slots,
         SysFork(c, p), Unused # {}
  PROVE  IInv'
<1>. /\ TypeOK /\ OnCpus /\ Locks /\ Places /\ Forks /\ ParentCanWait
     /\ Waiters /\ Sleepers /\ Pids
  BY Zenon DEF IInv
<1>. USE Basics
<1> DEFINE np == First(Unused)
<1>.  /\ nextpid <= MaxPid
      /\ halted = "no" /\ trap[c] = "no" /\ cpuproc[c] = p /\ at[p] = "user"
      /\ state' = [state EXCEPT ![np] = "EMBRYO"]
      /\ pid' = [pid EXCEPT ![np] = nextpid]
      /\ nextpid' = nextpid + 1
      /\ kid' = [kid EXCEPT ![p] = np]
      /\ at' = [at EXCEPT ![p] = "copy"]
      /\ UNCHANGED <<parent, killed, chan, ticks0, n, cpuproc, scan, trap,
                     ptlock, tickslock, ticks, halted>>
  BY DEF SysFork, Runs, NextPid
<1>.  /\ state[p] = "RUNNING" /\ scan[c] = p /\ p # None
      /\ \A d \in CPUs : cpuproc[d] = p => d = c
  BY Runner
<1>. np \in Slots /\ state[np] = "UNUSED"
  BY DEF Leasts, Unused
<1> HIDE DEF np
<1>.  /\ np # p /\ np # initproc /\ at[np] = "dead"
      /\ parent[np] = None /\ \A d \in CPUs : cpuproc[d] # np
  BY DEF Places, OnCpus, ParentCanWait, Alive
<1>1. TypeOK'
  BY ProcAssumption DEF TypeOK, Alive
<1>2. OnCpus'
  BY DEF OnCpus, TypeOK
<1>3. Locks'
  BY DEF Locks, HoldsTable, HoldsTicks, ResumeLabels, OnCpus, TypeOK
<1>4. Places'
  BY DEF Places, ResumeLabels, Alive, TypeOK
<1>5. Forks'
  BY DEF Forks, TypeOK
<1>6. ParentCanWait'
  BY DEF ParentCanWait, Alive, TypeOK
<1>7. Waiters'
  BY DEF Waiters, Children, Zombies, TypeOK
<1>8. Sleepers'
  BY DEF Sleepers, Elapsed, TypeOK
<1>9. Pids'
  BY DEF Pids, PidsDiffer, TypeOK
<1>10. QED
  BY <1>1, <1>2, <1>3, <1>4, <1>5, <1>6, <1>7, <1>8, <1>9 DEF IInv
=============================================================================
