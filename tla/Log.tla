--------------------------------- MODULE Log --------------------------------
(***************************************************************************)
(* The redo log of log.c, with the buffers of bio.c that it pins.          *)
(*                                                                         *)
(* Each process runs file system calls: begin_op(), some bread(), change,  *)
(* log_write(), brelse() rounds, end_op(); the last one out commits.  One  *)
(* step is what the code does under one hold of a lock, or one write of    *)
(* the disk.  The machine may stop between any two steps; the disk keeps   *)
(* whole blocks, and initlog() recovers.                                   *)
(***************************************************************************)
EXTENDS Integers, Sequences, FiniteSets

CONSTANTS Procs, None,
          Blocks,       \* the home blocks
          Vals,         \* block contents
          MAXOPBLOCKS,  \* what begin_op() reserves for a call
          LOGSIZE,      \* capacity of the header
          nlog,         \* log blocks on disk, the header included
          AfterLog,     \* the home block that follows the log on disk
          OpWrites      \* how many log_write() a call may make

ASSUME LogAssumption ==
  /\ None \notin Procs \cup Blocks \cup Vals /\ AfterLog \in Blocks
  /\ MAXOPBLOCKS \in Nat \ {0} /\ LOGSIZE \in Nat /\ OpWrites \in Nat
  /\ nlog \in Nat \ {0} /\ nlog - 1 <= LOGSIZE /\ MAXOPBLOCKS <= LOGSIZE
  /\ Vals # {} /\ IsFiniteSet(Procs)

VARIABLES disk,    \* the home blocks on disk
          dlog,    \* the log blocks on disk
          dhead,   \* the header on disk: the numbers of the logged blocks
          buf, dirty,  \* struct buf: data (None if not B_VALID), B_DIRTY
          lh, outstanding, committing, \* struct log
          pc, blk, count, \* per process: where it is, the buffer it has locked,
                           \* how many blocks its call has written
          tail,    \* the loop variable of write_log() and install_trans()
          mode     \* "boot", "recover", "run", "panic", or "corrupt"

ondisk == <<disk, dlog, dhead>>
cache == <<buf, dirty>>
log == <<lh, outstanding, committing>>
vars == <<ondisk, cache, log, pc, blk, count, tail, mode>>

Slots == 1 .. nlog - 1

(* The block numbers of a header name b.                                   *)
Contains(header, b) == \E i \in 1 .. Len(header) : header[i] = b

Goto(p, label) == pc' = [pc EXCEPT ![p] = label]

(* wakeup(&log), as p goes to label.                                       *)
WakeupGoto(p, label) ==
  pc' = [q \in Procs |-> IF q = p THEN label
                         ELSE IF pc[q] = "asleep" THEN "begin" ELSE pc[q]]

Stop(why) == mode' = why /\ UNCHANGED <<ondisk, cache, log, pc, blk, count, tail>>

(***************************************************************************)
(* bio.c: a buffer is read when it is not valid, and may be recycled for   *)
(* another block when it is neither held nor dirty.                        *)
(***************************************************************************)
Locked(b) == \E p \in Procs : blk[p] = b
BufferOf(b) == IF buf[b] # None THEN buf[b] ELSE disk[b]

BgetAnyUnheld(b) == ~Locked(b)          \* mutant: recycles dirty buffers
BgetRecycles(b) == ~Locked(b) /\ b \notin dirty

Evict(b) ==
  /\ mode = "run" /\ buf[b] # None /\ BgetRecycles(b)
  /\ buf' = [buf EXCEPT ![b] = None]
  /\ UNCHANGED <<ondisk, dirty, log, pc, blk, count, tail, mode>>

Bread(p, b) ==
  /\ mode = "run" /\ pc[p] = "op" /\ count[p] < OpWrites
  /\ ~Locked(b)
  /\ buf' = [buf EXCEPT ![b] = BufferOf(b)]
  /\ blk' = [blk EXCEPT ![p] = b]
  /\ Goto(p, "held")
  /\ UNCHANGED <<ondisk, dirty, log, count, tail, mode>>

Modify(p, v) ==
  /\ mode = "run" /\ pc[p] = "held"
  /\ buf' = [buf EXCEPT ![blk[p]] = v]
  /\ Goto(p, "check")
  /\ UNCHANGED <<ondisk, dirty, log, blk, count, tail, mode>>

Brelse(p) ==
  /\ mode = "run" /\ pc[p] = "release"
  /\ blk' = [blk EXCEPT ![p] = None]
  /\ count' = [count EXCEPT ![p] = @ + 1]
  /\ Goto(p, "op")
  /\ UNCHANGED <<ondisk, cache, log, tail, mode>>

(***************************************************************************)
(* begin_op() and end_op()                                                 *)
(***************************************************************************)
MustWait == committing \/ Len(lh) + (outstanding + 1) * MAXOPBLOCKS > LOGSIZE

Call(p) ==
  /\ mode = "run" /\ pc[p] = "idle"
  /\ Goto(p, "begin")
  /\ UNCHANGED <<ondisk, cache, log, blk, count, tail, mode>>

BeginOp(p) ==
  /\ mode = "run" /\ pc[p] = "begin"
  /\ IF MustWait
     THEN Goto(p, "asleep") /\ UNCHANGED <<outstanding, count>>
     ELSE /\ outstanding' = outstanding + 1
          /\ count' = [count EXCEPT ![p] = 0]
          /\ Goto(p, "op")
  /\ UNCHANGED <<ondisk, cache, lh, committing, blk, tail, mode>>

(* Mutant: the count drops only with the last call.                        *)
EndOpKeepsCount(p) ==
  /\ mode = "run" /\ pc[p] = "op"
  /\ outstanding' = IF outstanding = 1 THEN 0 ELSE outstanding
  /\ committing' = (outstanding = 1)
  /\ IF outstanding = 1 THEN Goto(p, "commit") ELSE WakeupGoto(p, "idle")
  /\ tail' = 1
  /\ UNCHANGED <<ondisk, cache, lh, blk, count, mode>>

EndOp(p) ==
  /\ mode = "run" /\ pc[p] = "op"
  /\ IF committing THEN Stop("panic")
     ELSE /\ outstanding' = outstanding - 1
          /\ committing' = (outstanding = 1)
          /\ IF outstanding = 1 THEN Goto(p, "commit") ELSE WakeupGoto(p, "idle")
          /\ tail' = 1
          /\ UNCHANGED <<ondisk, cache, lh, blk, count, mode>>

(***************************************************************************)
(* log_write(): the check is made before the lock is taken.                *)
(***************************************************************************)
LogWriteCheck(p) ==
  /\ mode = "run" /\ pc[p] = "check"
  /\ IF Len(lh) >= LOGSIZE \/ Len(lh) >= nlog - 1 \/ outstanding < 1
     THEN Stop("panic")
     ELSE Goto(p, "append") /\ UNCHANGED <<ondisk, cache, log, blk, count, tail, mode>>

Absorb(b) == IF Contains(lh, b) THEN lh ELSE Append(lh, b)

(* An append past lh.block[] overwrites whatever follows struct log.       *)
LogWriteAppend(p) ==
  /\ mode = "run" /\ pc[p] = "append"
  /\ IF Len(Absorb(blk[p])) > LOGSIZE THEN Stop("corrupt")
     ELSE /\ lh' = Absorb(blk[p])
          /\ dirty' = dirty \cup {blk[p]}
          /\ Goto(p, "release")
          /\ UNCHANGED <<ondisk, buf, outstanding, committing, blk, count,
                         tail, mode>>

(***************************************************************************)
(* commit(): write_log(), write_head(), install_trans(), write_head().     *)
(***************************************************************************)
Commit(p) ==
  /\ mode = "run" /\ pc[p] = "commit"
  /\ Goto(p, IF lh = <<>> THEN "done" ELSE "write")
  /\ UNCHANGED <<ondisk, cache, log, blk, count, tail, mode>>

(* A log block beyond the last is the home block that follows the log.     *)
LogBlock(i) == IF i \in Slots THEN dlog[i] ELSE BufferOf(AfterLog)

WriteLog(p) ==
  LET b == lh[tail]
      data == BufferOf(b)
      read == [buf EXCEPT ![b] = data]
  IN /\ mode = "run" /\ pc[p] = "write" /\ tail <= Len(lh)
     /\ ~Locked(b)
     /\ IF tail \in Slots
        THEN /\ dlog' = [dlog EXCEPT ![tail] = data]
             /\ buf' = read
             /\ UNCHANGED <<disk, dirty>>
        ELSE /\ disk' = [disk EXCEPT ![AfterLog] = data]
             /\ buf' = [read EXCEPT ![AfterLog] = data]
             /\ dirty' = dirty \ {AfterLog}
             /\ UNCHANGED dlog
     /\ tail' = tail + 1
     /\ IF tail = Len(lh) THEN Goto(p, "head") ELSE UNCHANGED pc
     /\ UNCHANGED <<dhead, log, blk, count, mode>>

(* Mutant: the header stays in memory.                                     *)
WriteHeadForgets(p) ==
  /\ mode = "run" /\ pc[p] = "head"
  /\ tail' = 1
  /\ Goto(p, "install")
  /\ UNCHANGED <<ondisk, cache, log, blk, count, mode>>

WriteHead(p) ==
  /\ mode = "run" /\ pc[p] = "head"
  /\ dhead' = lh
  /\ tail' = 1
  /\ Goto(p, "install")
  /\ UNCHANGED <<disk, dlog, cache, log, blk, count, mode>>

(* One turn of install_trans(); bwrite() clears B_DIRTY.                   *)
InstallBlock ==
  LET b == lh[tail]
  IN /\ ~Locked(b)
     /\ disk' = [disk EXCEPT ![b] = LogBlock(tail)]
     /\ buf' = [buf EXCEPT ![b] = LogBlock(tail)]
     /\ dirty' = dirty \ {b}
     /\ tail' = tail + 1
     /\ UNCHANGED <<dlog, dhead>>

InstallTrans(p) ==
  /\ mode = "run" /\ pc[p] = "install" /\ tail <= Len(lh)
  /\ InstallBlock
  /\ IF tail = Len(lh) THEN Goto(p, "clear") ELSE UNCHANGED pc
  /\ UNCHANGED <<log, blk, count, mode>>

ClearHead(p) ==
  /\ mode = "run" /\ pc[p] = "clear"
  /\ lh' = <<>>
  /\ dhead' = <<>>
  /\ tail' = 1
  /\ Goto(p, "done")
  /\ UNCHANGED <<disk, dlog, cache, outstanding, committing, blk, count, mode>>

(* Mutant: the missing wakeup(&log).                                       *)
CommitDoneSilent(p) ==
  /\ mode = "run" /\ pc[p] = "done"
  /\ committing' = FALSE
  /\ Goto(p, "idle")
  /\ UNCHANGED <<ondisk, cache, lh, outstanding, blk, count, tail, mode>>

CommitDone(p) ==
  /\ mode = "run" /\ pc[p] = "done"
  /\ committing' = FALSE
  /\ WakeupGoto(p, "idle")
  /\ UNCHANGED <<ondisk, cache, lh, outstanding, blk, count, tail, mode>>

(***************************************************************************)
(* The machine stops, at any moment, and boots: initlog() recovers.        *)
(***************************************************************************)
Crash ==
  /\ mode' = "boot"
  /\ buf' = [b \in Blocks |-> None] /\ dirty' = {}
  /\ lh' = <<>> /\ outstanding' = 0 /\ committing' = FALSE
  /\ pc' = [p \in Procs |-> "idle"]
  /\ blk' = [p \in Procs |-> None] /\ count' = [p \in Procs |-> 0]
  /\ tail' = 1
  /\ UNCHANGED ondisk

ReadHead ==
  /\ mode = "boot"
  /\ lh' = dhead
  /\ mode' = "recover"
  /\ UNCHANGED <<ondisk, cache, outstanding, committing, pc, blk, count, tail>>

RecoverInstall ==
  /\ mode = "recover" /\ tail <= Len(lh)
  /\ InstallBlock
  /\ UNCHANGED <<log, pc, blk, count, mode>>

RecoverClear ==
  /\ mode = "recover" /\ tail > Len(lh)
  /\ lh' = <<>>
  /\ dhead' = <<>>
  /\ tail' = 1
  /\ mode' = "run"
  /\ UNCHANGED <<disk, dlog, cache, outstanding, committing, pc, blk, count>>

(* The disk as mkfs leaves it.                                             *)
Init ==
  /\ disk \in [Blocks -> Vals]
  /\ dlog = [i \in Slots |-> CHOOSE v \in Vals : TRUE]
  /\ dhead = <<>>
  /\ buf = [b \in Blocks |-> None] /\ dirty = {}
  /\ lh = <<>> /\ outstanding = 0 /\ committing = FALSE
  /\ pc = [p \in Procs |-> "idle"]
  /\ blk = [p \in Procs |-> None] /\ count = [p \in Procs |-> 0]
  /\ tail = 1
  /\ mode = "boot"

CommitStep(p) == \/ Commit(p) \/ WriteLog(p) \/ WriteHead(p)
                 \/ InstallTrans(p) \/ ClearHead(p) \/ CommitDone(p)

Recover == ReadHead \/ RecoverInstall \/ RecoverClear

Step(p) == \/ BeginOp(p) \/ (\E b \in Blocks : Bread(p, b))
           \/ (\E v \in Vals : Modify(p, v)) \/ LogWriteCheck(p)
           \/ LogWriteAppend(p) \/ Brelse(p) \/ EndOp(p) \/ CommitStep(p)

Next == \/ Crash \/ Recover
        \/ \E b \in Blocks : Evict(b)
        \/ \E p \in Procs : Call(p) \/ Step(p)

Spec == Init /\ [][Next]_vars

-----------------------------------------------------------------------------
Labels == {"idle", "begin", "asleep", "op", "held", "check", "append",
           "release", "commit", "write", "head", "install", "clear", "done"}

TypeOK ==
  /\ disk \in [Blocks -> Vals] /\ dlog \in [Slots -> Vals]
  /\ dhead \in Seq(Blocks) /\ Len(dhead) <= LOGSIZE
  /\ buf \in [Blocks -> Vals \cup {None}] /\ dirty \subseteq Blocks
  /\ lh \in Seq(Blocks) /\ outstanding \in 0 .. Cardinality(Procs)
  /\ committing \in BOOLEAN
  /\ pc \in [Procs -> Labels] /\ blk \in [Procs -> Blocks \cup {None}]
  /\ count \in [Procs -> 0 .. OpWrites] /\ tail \in 1 .. LOGSIZE + 1
  /\ mode \in {"boot", "recover", "run", "panic", "corrupt"}

(* What a reboot brings back from the disk as it is now.                   *)
Durable == [b \in Blocks |->
              IF Contains(dhead, b)
              THEN dlog[CHOOSE i \in 1 .. Len(dhead) : dhead[i] = b] ELSE disk[b]]

(* What bread() returns once the machine has booted.                       *)
Volatile == IF mode \in {"boot", "recover"} THEN Durable
            ELSE [b \in Blocks |-> BufferOf(b)]

InCall == {p \in Procs : pc[p] \in {"op", "held", "check", "append", "release"}}

Abstract == INSTANCE AtomicDisk WITH volatile <- Volatile, durable <- Durable,
                                     active <- InCall

(* The calls that ended are on the disk all together or not at all, after  *)
(* a stop at any moment, also one during recovery; and a call's writes are *)
(* never durable before it ends.                                           *)
ImplementsAtomicDisk == Abstract!Spec

(* A home block changes on disk only while the header names it, so that    *)
(* the change can be repeated after a stop.                                *)
WriteAhead == [][\A b \in Blocks : disk'[b] # disk[b] => Contains(dhead, b)]_vars

(* A process asleep in begin_op() will be woken: the wakeup() is still to  *)
(* come, from a call that is running or from the commit.                   *)
NoLostWakeup == \A p \in Procs : pc[p] = "asleep" => InCall # {} \/ committing
=============================================================================
