------------------------------ MODULE LogProof ------------------------------
(***************************************************************************)
(* The log is correct for any number of processes, blocks and contents:    *)
(* from the invariants of LogInv, its steps are steps of AtomicDisk, and   *)
(* the check of log_write() keeps a transaction inside the log unless two  *)
(* calls race past it.                                                     *)
(***************************************************************************)
EXTENDS LogInv

USE DEF Goto, Labels, log, ondisk, cache

(* What a reboot brings back: the log where the header names a block.      *)
LEMMA DurableValue ==
  ASSUME Distinct(dhead)
  PROVE  /\ \A i \in 1 .. Len(dhead) : dhead[i] \in Blocks => Durable[dhead[i]] = dlog[i]
         /\ \A b \in Blocks : ~Contains(dhead, b) => Durable[b] = disk[b]
<1>1. ASSUME NEW i \in 1 .. Len(dhead), dhead[i] \in Blocks PROVE Durable[dhead[i]] = dlog[i]
  <2> DEFINE j == CHOOSE k \in 1 .. Len(dhead) : dhead[k] = dhead[i]
  <2>1. j \in 1 .. Len(dhead) /\ dhead[j] = dhead[i]
    OBVIOUS
  <2>2. j = i
    BY <2>1, Zenon DEF Distinct
  <2>3. Contains(dhead, dhead[i])
    BY Zenon DEF Contains
  <2>4. Durable[dhead[i]] = IF Contains(dhead, dhead[i]) THEN dlog[j] ELSE disk[dhead[i]]
    BY <1>1, Zenon DEF Durable
  <2>5. QED
    BY <2>2, <2>3, <2>4, Zenon
<1>2. QED
  BY <1>1, Zenon DEF Durable

(* An untouched log, on a disk whose home blocks it covers where they       *)
(* change, brings back the same.                                           *)
LEMMA SameDurable ==
  ASSUME dhead' = dhead, dlog' = dlog,
         \A b \in Blocks : Contains(dhead, b) \/ disk'[b] = disk[b]
  PROVE  Durable' = Durable
  BY Zenon DEF Durable, Contains

LEMMA EmptyHead ==
  ASSUME dhead = <<>> PROVE Durable = [b \in Blocks |-> disk[b]]
  BY DEF Durable, Contains

LEMMA SameVolatile ==
  ASSUME ~Booting, ~Booting', \A b \in Blocks : BufferOf(b)' = BufferOf(b)
  PROVE  Volatile' = Volatile
  BY Zenon DEF Volatile, Booting

LEMMA Stutters ==
  ASSUME Volatile' = Volatile, Durable' = Durable, InCall' = InCall
  PROVE  UNCHANGED Abstract!vars
  BY Zenon DEF Abstract!vars

LEMMA InitRefines == Init => Abstract!Init
<1> SUFFICES ASSUME Init PROVE Abstract!Init
  OBVIOUS
<1>1. Durable \in [Blocks -> Vals]
  BY EmptyHead, Zenon DEF Init
<1>2. Volatile = Durable /\ InCall = {}
  BY Zenon DEF Init, Volatile, InCall
<1>3. QED
  BY <1>1, <1>2, Zenon DEF Abstract!Init

(* A step that touches neither the disk nor what bread() returns.          *)
LEMMA QuietRefines ==
  ASSUME ~Booting, ~Booting', UNCHANGED <<disk, dlog, dhead>>, InCall' = InCall,
         \A b \in Blocks : BufferOf(b)' = BufferOf(b)
  PROVE  UNCHANGED Abstract!vars
<1>1. Durable' = Durable
  BY SameDurable, Zenon
<1>2. QED
  BY <1>1, SameVolatile, Stutters, Zenon

LEMMA EvictRefines ==
  ASSUME Control, Data, NEW b \in Blocks, Evict(b) PROVE UNCHANGED Abstract!vars
<1>1. BufferOf(b) = disk[b]
  BY CleanBuffer, Zenon DEF Evict, BgetRecycles, Locked, Changed
<1>2. \A c \in Blocks : BufferOf(c)' = BufferOf(c)
  BY <1>1, Zenon DEF Evict, BufferOf, Control, TypeOK
<1>3. InCall' = InCall /\ ~Booting /\ ~Booting' /\ UNCHANGED <<disk, dlog, dhead>>
  BY Zenon DEF Evict, InCall, Booting
<1>4. QED
  BY <1>2, <1>3, QuietRefines, Zenon

LEMMA BreadRefines ==
  ASSUME Control, Data, NEW p \in Procs, NEW b \in Blocks, Bread(p, b)
  PROVE  UNCHANGED Abstract!vars
<1>1. \A c \in Blocks : BufferOf(c)' = BufferOf(c)
  <2>1. BufferOf(b) # None
    BY LogAssumption DEF BufferOf, Control, TypeOK
  <2>2. QED
    BY <2>1, Zenon DEF Bread, BufferOf, Control, TypeOK
<1>2. InCall' = InCall /\ ~Booting /\ ~Booting' /\ UNCHANGED <<disk, dlog, dhead>>
  BY Zenon DEF Bread, InCall, Booting, Control, TypeOK
<1>3. QED
  BY <1>1, <1>2, QuietRefines, Zenon

(* The change of a buffer is the abstract write.                           *)
LEMMA ModifyRefines ==
  ASSUME Control, Data, NEW p \in Procs, NEW v \in Vals, Modify(p, v)
  PROVE  Abstract!Write(p, blk[p], v) /\ blk[p] \in Blocks
<1>1. blk[p] \in Blocks /\ v # None /\ p \in InCall
  BY LogAssumption, Zenon DEF Modify, InCall, Control, TypeOK, Holders, HoldLabels
<1>2. InCall' = InCall /\ ~Booting /\ ~Booting' /\ UNCHANGED <<disk, dlog, dhead>>
  BY Zenon DEF Modify, InCall, Booting, Control, TypeOK
<1>3. Durable' = Durable
  BY <1>2, SameDurable, Zenon
<1>4. \A c \in Blocks : BufferOf(c)' = IF c = blk[p] THEN v ELSE BufferOf(c)
  BY <1>1, Zenon DEF Modify, BufferOf, Control, TypeOK
<1>5. Volatile' = [Volatile EXCEPT ![blk[p]] = v]
  <2>1. Volatile = [c \in Blocks |-> BufferOf(c)] /\ Volatile' = [c \in Blocks |-> BufferOf(c)']
    BY <1>2, Zenon DEF Volatile, Booting
  <2>2. QED
    BY <1>1, <1>4, <2>1, Zenon
<1>6. QED
  BY <1>1, <1>2, <1>3, <1>5, Zenon DEF Abstract!Write

LEMMA BeginOpRefines ==
  ASSUME Control, Data, NEW p \in Procs, BeginOp(p)
  PROVE  Abstract!Begin(p) \/ UNCHANGED Abstract!vars
<1>1. /\ ~Booting /\ ~Booting' /\ UNCHANGED <<disk, dlog, dhead>>
      /\ \A c \in Blocks : BufferOf(c)' = BufferOf(c)
  BY Zenon DEF BeginOp, Booting, BufferOf
<1>2. Durable' = Durable /\ Volatile' = Volatile
  BY <1>1, SameDurable, SameVolatile, Zenon
<1>3. CASE MustWait
  <2>1. InCall' = InCall
    BY <1>3, Zenon DEF BeginOp, InCall, Control, TypeOK
  <2>2. QED
    BY <1>2, <2>1, Stutters, Zenon
<1>4. CASE ~MustWait
  <2>1. p \notin InCall /\ InCall' = InCall \cup {p}
    BY <1>4, Zenon DEF BeginOp, InCall, Control, TypeOK
  <2>2. QED
    BY <1>2, <2>1, Zenon DEF Abstract!Begin
<1>5. QED
  BY <1>3, <1>4, Zenon

LEMMA EndOpRefines ==
  ASSUME Control, Data, NEW p \in Procs, EndOp(p) PROVE Abstract!End(p)
<1>1. p \in InCall /\ ~committing
  BY CallRuns, Zenon DEF EndOp, InCall
<1>2. /\ ~Booting /\ ~Booting' /\ UNCHANGED <<disk, dlog, dhead>>
      /\ \A c \in Blocks : BufferOf(c)' = BufferOf(c)
  BY <1>1, Zenon DEF EndOp, Booting, BufferOf
<1>3. Durable' = Durable /\ Volatile' = Volatile
  BY <1>2, SameDurable, SameVolatile, Zenon
<1>4. InCall' = InCall \ {p}
  BY <1>1 DEF EndOp, WakeupGoto, InCall, Control, TypeOK
<1>5. QED
  BY <1>1, <1>3, <1>4, Zenon DEF Abstract!End

LEMMA CommitStepStays ==
  ASSUME Control, NEW p \in Procs, CommitStep(p) PROVE InCall' = InCall
<1>1. CASE Commit(p)
  <2>1. pc[p] = "commit" /\ \A q \in Procs : q # p => pc'[q] = pc[q]
    BY <1>1, Zenon DEF Commit, Control, TypeOK
  <2>2. pc'[p] \in {"done", "write"}
    BY <1>1, Zenon DEF Commit, Control, TypeOK
  <2>3. QED
    BY <2>1, <2>2, Zenon DEF InCall
<1>2. CASE WriteLog(p) \/ InstallTrans(p)
  BY <1>2, Zenon DEF WriteLog, InstallTrans, InCall, Control, TypeOK
<1>3. CASE WriteHead(p) \/ ClearHead(p)
  BY <1>3, Zenon DEF WriteHead, ClearHead, InCall, Control, TypeOK
<1>4. CASE CommitDone(p)
  <2>1. \A q \in Procs : pc'[q] = IF q = p THEN "idle"
                          ELSE IF pc[q] = "asleep" THEN "begin" ELSE pc[q]
    BY <1>4, Zenon DEF CommitDone, WakeupGoto
  <2>2. QED
    BY <1>4, <2>1, Zenon DEF CommitDone, InCall
<1>5. QED
  BY <1>1, <1>2, <1>3, <1>4, Zenon DEF CommitStep

(* The steps that only move a process.                                     *)
LEMMA MoveRefines ==
  ASSUME Control, NEW p \in Procs,
         Call(p) \/ LogWriteCheck(p) \/ LogWriteAppend(p) \/ Brelse(p) \/ Commit(p)
           \/ CommitDone(p)
  PROVE  UNCHANGED Abstract!vars
<1>1. /\ ~Booting /\ ~Booting' /\ UNCHANGED <<disk, dlog, dhead>>
      /\ \A c \in Blocks : BufferOf(c)' = BufferOf(c)
  BY Zenon DEF Call, LogWriteCheck, LogWriteAppend, Brelse, Commit, CommitDone, Stop, Booting, BufferOf
<1>2. InCall' = InCall
  <2>1. CASE Call(p) \/ LogWriteCheck(p) \/ LogWriteAppend(p) \/ Brelse(p)
    BY <2>1, Zenon DEF Call, LogWriteCheck, LogWriteAppend, Brelse, Stop, InCall, Control, TypeOK
  <2>2. CASE Commit(p) \/ CommitDone(p)
    BY <2>2, CommitStepStays, Zenon DEF CommitStep
  <2>3. QED
    BY <2>1, <2>2, Zenon
<1>3. QED
  BY <1>1, <1>2, QuietRefines, Zenon

LEMMA WriteLogRefines ==
  ASSUME Control, Data, Fits, NEW p \in Procs, WriteLog(p) PROVE UNCHANGED Abstract!vars
<1> DEFINE b == lh[tail]
<1>1. b \in Blocks /\ tail \in Slots
  BY LogAssumption DEF WriteLog, Fits, Slots, Control, TypeOK
<1>2. /\ mode = "run" /\ UNCHANGED <<disk, dhead, mode>>
      /\ buf' = [buf EXCEPT ![b] = BufferOf(b)]
      /\ pc[p] = "write" /\ pc' \in {pc, [pc EXCEPT ![p] = "head"]}
  BY <1>1, Zenon DEF WriteLog
<1>3. ~Installing
  <2>1. \A q \in Procs : pc[q] \in CommitLabels => q = p
    BY <1>2, CommitterAlone, Zenon DEF CommitLabels
  <2>2. QED
    BY <1>2, <2>1, Zenon DEF Installing, CommitLabels
<1>4. dhead = <<>> /\ dhead' = <<>>
  BY <1>2, <1>3, Zenon DEF Data, Header, Booting
<1>5. Durable' = Durable
  BY <1>2, <1>4, EmptyHead DEF Durable, Contains
<1>6. \A c \in Blocks : BufferOf(c)' = BufferOf(c)
  <2>1. BufferOf(b) # None
    BY <1>1, LogAssumption DEF BufferOf, Control, TypeOK
  <2>2. QED
    BY <1>1, <1>2, <2>1, Zenon DEF BufferOf, Control, TypeOK
<1>7. Volatile' = Volatile
  BY <1>2, <1>6, SameVolatile, Zenon DEF Booting
<1>8. InCall' = InCall
  BY <1>2, Zenon DEF InCall, Control, TypeOK
<1>9. QED
  BY <1>5, <1>7, <1>8, Stutters, Zenon

(* The write of the header is the abstract commit.                         *)
LEMMA WriteHeadRefines ==
  ASSUME Control, Data, Fits, NEW p \in Procs, WriteHead(p) PROVE Abstract!Commit
<1>1. /\ mode = "run" /\ pc[p] = "head" /\ pc' = [pc EXCEPT ![p] = "install"]
      /\ dhead' = lh /\ UNCHANGED <<disk, dlog, buf, dirty, lh, mode>>
  BY Zenon DEF WriteHead
<1>2. /\ InCall = {} /\ \A c \in Blocks : ~Changed(c)
      /\ \A q \in Procs : pc[q] \in CommitLabels => q = p
  BY <1>1, CommitterAlone, Zenon DEF CommitLabels
<1>3. InCall' = {}
  BY <1>1, <1>2, Zenon DEF InCall, Control, TypeOK
<1>4. \A c \in Blocks : BufferOf(c)' = BufferOf(c)
  BY <1>1, Zenon DEF BufferOf
<1>5. Volatile' = Volatile /\ Volatile = [b \in Blocks |-> BufferOf(b)]
  BY <1>1, <1>4, SameVolatile, Zenon DEF Booting, Volatile
<1>6. /\ \A i \in 1 .. Len(lh) : Durable'[lh[i]] = dlog[i]
      /\ \A b \in Blocks : ~Contains(lh, b) => Durable'[b] = disk[b]
  <2>1. Distinct(dhead)' /\ \A i \in 1 .. Len(lh) : lh[i] \in Blocks
    BY <1>1 DEF Distinct, Control, TypeOK
  <2>2. (/\ \A i \in 1 .. Len(dhead) : dhead[i] \in Blocks => Durable[dhead[i]] = dlog[i]
         /\ \A b \in Blocks : ~Contains(dhead, b) => Durable[b] = disk[b])'
    BY <2>1, DurableValue, PTL
  <2>3. QED
    BY <1>1, <2>1, <2>2, Zenon DEF Contains
<1>7. \A b \in Blocks : Durable'[b] = BufferOf(b)
  <2>1. \A i \in 1 .. Len(lh) : dlog[i] = BufferOf(lh[i])
    BY <1>1, Zenon DEF Data, Progress
  <2>2. \A b \in Blocks : ~Contains(lh, b) => BufferOf(b) = disk[b]
    BY <1>2, CleanBuffer, Zenon DEF Data, Buffers
  <2>3. QED
    BY <1>6, <2>1, <2>2 DEF Contains
<1>8. Durable' = Volatile
  <2>1. Durable' = [b \in Blocks |-> Durable'[b]]
    BY DEF Durable
  <2>2. QED
    BY <1>5, <1>7, <2>1, Zenon
<1>9. QED
  BY <1>2, <1>3, <1>5, <1>8, Zenon DEF Abstract!Commit

LEMMA InstallTransRefines ==
  ASSUME Control, Data, Fits, NEW p \in Procs, InstallTrans(p)
  PROVE  UNCHANGED Abstract!vars /\ dhead = lh
<1> DEFINE b == lh[tail]
<1>1. b \in Blocks /\ tail \in 1 .. Len(lh) /\ tail \in Slots
  BY LogAssumption DEF InstallTrans, Fits, Slots, Control, TypeOK
<1>2. /\ mode = "run" /\ pc[p] = "install" /\ UNCHANGED <<dlog, dhead, lh, mode>>
      /\ disk' = [disk EXCEPT ![b] = dlog[tail]]
      /\ buf' = [buf EXCEPT ![b] = dlog[tail]]
      /\ pc' \in {pc, [pc EXCEPT ![p] = "clear"]}
  BY <1>1, Zenon DEF InstallTrans, InstallBlock, LogBlock
<1>3. dhead = lh
  BY <1>2, Zenon DEF Data, Header, Booting, Installing
<1>4. \A c \in Blocks : Contains(dhead, c) \/ disk'[c] = disk[c]
  BY <1>1, <1>2, <1>3, Zenon DEF Contains, Control, TypeOK
<1>5. Durable' = Durable
  BY <1>2, <1>4, SameDurable, Zenon
<1>6. dlog[tail] = BufferOf(b) /\ dlog[tail] # None
  BY <1>1, <1>2, LogAssumption DEF Data, Progress, Control, TypeOK
<1>7. \A c \in Blocks : BufferOf(c)' = BufferOf(c)
  BY <1>1, <1>2, <1>6, Zenon DEF BufferOf, Control, TypeOK
<1>8. Volatile' = Volatile
  BY <1>2, <1>7, SameVolatile, Zenon DEF Booting
<1>9. InCall' = InCall
  BY <1>2, Zenon DEF InCall, Control, TypeOK
<1>10. QED
  BY <1>3, <1>5, <1>8, <1>9, Stutters, Zenon

(* The header is emptied when the home blocks hold what the log does.      *)
LEMMA HomeIsDurable ==
  ASSUME Control, \A i \in 1 .. Len(dhead) : disk[dhead[i]] = dlog[i]
  PROVE  Durable = [b \in Blocks |-> disk[b]]
<1>1. Distinct(dhead) /\ \A i \in 1 .. Len(dhead) : dhead[i] \in Blocks
  BY DEF Control, TypeOK
<1>2. \A b \in Blocks : Durable[b] = disk[b]
  BY <1>1, DurableValue DEF Contains
<1>3. Durable = [b \in Blocks |-> Durable[b]]
  BY DEF Durable
<1>4. QED
  BY <1>2, <1>3, Zenon

LEMMA ClearHeadRefines ==
  ASSUME Control, Data, NEW p \in Procs, ClearHead(p) PROVE UNCHANGED Abstract!vars
<1>1. /\ mode = "run" /\ pc[p] = "clear" /\ pc' = [pc EXCEPT ![p] = "done"]
      /\ dhead' = <<>> /\ UNCHANGED <<disk, buf, mode>>
  BY Zenon DEF ClearHead
<1>2. dhead = lh /\ \A i \in 1 .. Len(lh) : disk[lh[i]] = dlog[i]
  BY <1>1, Zenon DEF Data, Header, Progress, Booting, Installing
<1>3. Durable = [b \in Blocks |-> disk[b]]
  BY <1>2, HomeIsDurable, Zenon
<1>4. Durable' = [b \in Blocks |-> disk'[b]]
  BY <1>1 DEF Durable, Contains
<1>5. \A c \in Blocks : BufferOf(c)' = BufferOf(c)
  BY <1>1, Zenon DEF BufferOf
<1>6. Volatile' = Volatile
  BY <1>1, <1>5, SameVolatile, Zenon DEF Booting
<1>7. InCall' = InCall
  BY <1>1, Zenon DEF InCall, Control, TypeOK
<1>8. QED
  BY <1>1, <1>3, <1>4, <1>6, <1>7, Stutters, Zenon

LEMMA CrashRefines == ASSUME Control, Crash PROVE Abstract!Crash
<1>1. Durable' = Durable
  BY SameDurable, Zenon DEF Crash
<1>2. Volatile' = Durable' /\ InCall' = {}
  BY Zenon DEF Crash, Volatile, InCall
<1>3. QED
  BY <1>1, <1>2, Zenon DEF Abstract!Crash

LEMMA RecoverRefines ==
  ASSUME Control, Data, Recover PROVE UNCHANGED Abstract!vars
<1>1. CASE ReadHead
  <2>1. Durable' = Durable
    BY <1>1, SameDurable, Zenon DEF ReadHead
  <2>2. Volatile = Durable /\ Volatile' = Durable' /\ InCall' = InCall
    BY <1>1, Zenon DEF ReadHead, Volatile, InCall
  <2>3. QED
    BY <2>1, <2>2, Stutters, Zenon
<1>2. CASE RecoverInstall
  <2> DEFINE b == lh[tail]
  <2>1. dhead = lh /\ b \in Blocks /\ tail \in 1 .. Len(lh)
    BY <1>2 DEF RecoverInstall, Control, TypeOK, Phases
  <2>2. /\ mode = "recover" /\ UNCHANGED <<dlog, dhead, mode, pc>>
        /\ disk' = [disk EXCEPT ![b] = LogBlock(tail)]
    BY <1>2, Zenon DEF RecoverInstall, InstallBlock
  <2>3. \A c \in Blocks : Contains(dhead, c) \/ disk'[c] = disk[c]
    BY <2>1, <2>2, Zenon DEF Contains, Control, TypeOK
  <2>4. Durable' = Durable
    BY <2>2, <2>3, SameDurable, Zenon
  <2>5. Volatile = Durable /\ Volatile' = Durable' /\ InCall' = InCall
    BY <2>2, Zenon DEF Volatile, InCall
  <2>6. QED
    BY <2>4, <2>5, Stutters, Zenon
<1>3. CASE RecoverClear
  <2>1. /\ mode = "recover" /\ mode' = "run" /\ tail > Len(lh) /\ dhead' = <<>>
        /\ UNCHANGED <<disk, buf, pc>>
    BY <1>3, Zenon DEF RecoverClear
  <2>2. /\ dhead = lh /\ dirty = {} /\ \A q \in Procs : pc[q] = "idle"
        /\ \A i \in 1 .. Len(lh) : i < tail => disk[lh[i]] = dlog[i]
    BY <2>1, Zenon DEF Control, Phases, Booting, Data, Buffers, Progress
  <2>3. \A i \in 1 .. Len(lh) : i < tail
    BY <2>1 DEF Control, TypeOK
  <2>4. Durable = [b \in Blocks |-> disk[b]]
    BY <2>2, <2>3, HomeIsDurable, Zenon
  <2>5. Durable' = [b \in Blocks |-> disk'[b]]
    BY <2>1 DEF Durable, Contains
  <2>6. \A b \in Blocks : BufferOf(b)' = disk[b]
    BY <2>1, <2>2, Zenon DEF Data, Buffers, Changed, BufferOf
  <2>7. Volatile = Durable /\ Volatile' = [b \in Blocks |-> BufferOf(b)'] /\ InCall' = InCall
    BY <2>1, Zenon DEF Volatile, InCall
  <2>8. QED
    BY <2>1, <2>4, <2>5, <2>6, <2>7, Stutters, Zenon
<1>4. QED
  BY <1>1, <1>2, <1>3, Zenon DEF Recover

LEMMA NextRefines ==
  Control /\ Data /\ Fits /\ [Next]_vars => [Abstract!Next]_(Abstract!vars)
<1> SUFFICES ASSUME Control, Data, Fits, [Next]_vars
    PROVE Abstract!Next \/ UNCHANGED Abstract!vars
  OBVIOUS
<1>1. CASE UNCHANGED vars
  <2>1. Durable' = Durable /\ InCall' = InCall
    BY <1>1, SameDurable, Zenon DEF vars, InCall
  <2>2. Volatile' = Volatile
    BY <1>1, <2>1, Zenon DEF vars, Volatile, BufferOf
  <2>3. QED
    BY <2>1, <2>2, Stutters, Zenon
<1>2. CASE Crash
  BY <1>2, CrashRefines, Zenon DEF Abstract!Next
<1>3. CASE Recover
  BY <1>3, RecoverRefines, Zenon
<1>4. CASE \E b \in Blocks : Evict(b)
  BY <1>4, EvictRefines, Zenon
<1>5. ASSUME NEW p \in Procs, Call(p) \/ Step(p)
      PROVE Abstract!Next \/ UNCHANGED Abstract!vars
  <2>1. CASE Call(p) \/ LogWriteCheck(p) \/ LogWriteAppend(p) \/ Brelse(p) \/ Commit(p)
             \/ CommitDone(p)
    BY <2>1, MoveRefines, Zenon
  <2>2. CASE BeginOp(p)
    BY <2>2, BeginOpRefines, Zenon DEF Abstract!Next
  <2>3. CASE EndOp(p)
    BY <2>3, EndOpRefines, Zenon DEF Abstract!Next
  <2>4. CASE \E b \in Blocks : Bread(p, b)
    BY <2>4, BreadRefines, Zenon
  <2>5. CASE \E v \in Vals : Modify(p, v)
    BY <2>5, ModifyRefines, Zenon DEF Abstract!Next
  <2>6. CASE WriteLog(p)
    BY <2>6, WriteLogRefines, Zenon
  <2>7. CASE WriteHead(p)
    BY <2>7, WriteHeadRefines, Zenon DEF Abstract!Next
  <2>8. CASE InstallTrans(p)
    BY <2>8, InstallTransRefines, Zenon
  <2>9. CASE ClearHead(p)
    BY <2>9, ClearHeadRefines, Zenon
  <2>10. QED
    BY <1>5, <2>1, <2>2, <2>3, <2>4, <2>5, <2>6, <2>7, <2>8, <2>9, Zenon DEF Step, CommitStep
<1>6. QED
  BY <1>1, <1>2, <1>3, <1>4, <1>5, Zenon DEF Next

LEMMA NextWriteAhead ==
  Control /\ Data /\ Fits /\ [Next]_vars =>
    [\A b \in Blocks : disk'[b] # disk[b] => Contains(dhead, b)]_vars
<1> SUFFICES ASSUME Control, Data, Fits, Next, NEW b \in Blocks, disk'[b] # disk[b]
    PROVE Contains(dhead, b)
  OBVIOUS
<1>1. CASE RecoverInstall
  <2>1. dhead = lh /\ tail \in 1 .. Len(lh) /\ disk' = [disk EXCEPT ![lh[tail]] = LogBlock(tail)]
    BY <1>1 DEF RecoverInstall, InstallBlock, Control, TypeOK, Phases
  <2>2. QED
    BY <2>1, Zenon DEF Contains, Control, TypeOK
<1>2. ASSUME NEW p \in Procs, InstallTrans(p) PROVE Contains(dhead, b)
  <2>1. dhead = lh
    BY <1>2, InstallTransRefines, Zenon
  <2>2. tail \in 1 .. Len(lh) /\ disk' = [disk EXCEPT ![lh[tail]] = LogBlock(tail)]
    BY <1>2 DEF InstallTrans, InstallBlock, Control, TypeOK
  <2>3. QED
    BY <2>1, <2>2, Zenon DEF Contains, Control, TypeOK
<1>3. ASSUME NEW p \in Procs, WriteLog(p) PROVE FALSE
  <2>1. tail \in Slots
    BY <1>3, LogAssumption DEF WriteLog, Fits, Slots, Control, TypeOK
  <2>2. QED
    BY <1>3, <2>1, Zenon DEF WriteLog
<1>4. QED
  <2>1. \/ RecoverInstall \/ \E p \in Procs : InstallTrans(p) \/ WriteLog(p)
    <3>1. CASE Crash \/ ReadHead \/ RecoverClear \/ \E c \in Blocks : Evict(c)
      BY <3>1, Zenon DEF Crash, ReadHead, RecoverClear, Evict
    <3>2. ASSUME NEW p \in Procs, Call(p) \/ Step(p)
          PROVE InstallTrans(p) \/ WriteLog(p)
      <4>1. CASE Call(p) \/ BeginOp(p) \/ LogWriteCheck(p) \/ LogWriteAppend(p)
                 \/ Brelse(p) \/ EndOp(p)
        BY <4>1, Zenon DEF Call, BeginOp, LogWriteCheck, LogWriteAppend, Brelse, EndOp, Stop
      <4>2. CASE (\E c \in Blocks : Bread(p, c)) \/ \E v \in Vals : Modify(p, v)
        BY <4>2, Zenon DEF Bread, Modify
      <4>3. CASE Commit(p) \/ WriteHead(p) \/ ClearHead(p) \/ CommitDone(p)
        BY <4>3, Zenon DEF Commit, WriteHead, ClearHead, CommitDone
      <4>4. QED
        BY <3>2, <4>1, <4>2, <4>3, Zenon DEF Step, CommitStep
    <3>3. QED
      BY <3>1, <3>2, Zenon DEF Next, Recover
  <2>2. QED
    BY <1>1, <1>2, <1>3, <2>1, Zenon

-----------------------------------------------------------------------------
(* log_write() looks for room before it takes log.lock.  At most one call  *)
(* is between its look and its append:                                     *)
ChecksAlone == \A p, q \in Procs : pc[p] = "append" /\ pc[q] = "append" => p = q

(* Then whoever has looked finds the room it saw.                          *)
HasRoom ==
  /\ Len(lh) <= nlog - 1 /\ Len(dhead) <= nlog - 1 /\ mode # "corrupt"
  /\ \A p \in Procs : pc[p] = "append" => Len(lh) < nlog - 1

(* A step after which the log is no longer, and nobody else has looked.    *)
LEMMA KeepsRoom ==
  ASSUME Control, HasRoom, lh' \in {lh, <<>>}, dhead' \in {dhead, lh, <<>>}, mode' # "corrupt",
         \A q \in Procs : pc'[q] = "append" => pc[q] = "append"
  PROVE  HasRoom'
<1>1. Len(lh) \in Nat /\ Len(dhead) \in Nat
  BY DEF Control, TypeOK
<1>2. Len(lh') \in Nat /\ Len(lh') <= Len(lh)
  BY <1>1
<1>3. Len(dhead') <= nlog - 1
  BY <1>1, LogAssumption DEF HasRoom
<1>4. QED
  BY <1>1, <1>2, <1>3, LogAssumption DEF HasRoom

(* log_write()'s look.                                                     *)
LEMMA LogWriteCheckRoom ==
  ASSUME Control, HasRoom, NEW p \in Procs, LogWriteCheck(p) PROVE HasRoom'
<1>1. Len(lh) \in Nat
  BY DEF Control, TypeOK
<1>2. CASE Len(lh) >= LOGSIZE \/ Len(lh) >= nlog - 1 \/ outstanding < 1
  <2>1. UNCHANGED <<lh, dhead, pc>> /\ mode' = "panic"
    BY <1>2, Zenon DEF LogWriteCheck, Stop
  <2>2. QED
    BY <2>1, KeepsRoom, Zenon
<1>3. CASE ~(Len(lh) >= LOGSIZE \/ Len(lh) >= nlog - 1 \/ outstanding < 1)
  <2>1. UNCHANGED <<lh, dhead, mode>>
    BY <1>3, Zenon DEF LogWriteCheck
  <2>2. Len(lh) < nlog - 1
    BY <1>1, <1>3, LogAssumption
  <2>3. QED
    BY <2>1, <2>2, Zenon DEF HasRoom
<1>4. QED
  BY <1>2, <1>3, Zenon

(* Its append, when nobody else has looked.                                *)
LEMMA LogWriteAppendRoom ==
  ASSUME Control, HasRoom, ChecksAlone, NEW p \in Procs, LogWriteAppend(p) PROVE HasRoom'
<1>1. pc[p] = "append" /\ Len(lh) \in Nat /\ Len(lh) < nlog - 1
  BY DEF LogWriteAppend, HasRoom, Control, TypeOK
<1>2. Len(Absorb(blk[p])) \in Nat /\ Len(Absorb(blk[p])) <= Len(lh) + 1
  BY <1>1, AbsorbIsSequence
<1>3. Len(Absorb(blk[p])) <= LOGSIZE /\ Len(Absorb(blk[p])) <= nlog - 1
  BY <1>1, <1>2, LogAssumption
<1>4. /\ lh' = Absorb(blk[p]) /\ pc' = [pc EXCEPT ![p] = "release"]
      /\ UNCHANGED <<dhead, mode>>
  BY <1>2, <1>3, LogAssumption DEF LogWriteAppend
<1>5. \A q \in Procs : pc'[q] # "append"
  BY <1>1, <1>4, Zenon DEF ChecksAlone, Control, TypeOK
<1>6. QED
  BY <1>3, <1>4, <1>5, Zenon DEF HasRoom

(* Every other step of a call or of the commit.                            *)
LEMMA ProcRoom ==
  ASSUME Control, HasRoom, ChecksAlone, NEW p \in Procs, Call(p) \/ Step(p) PROVE HasRoom'
<1>1. CASE LogWriteCheck(p)
  BY <1>1, LogWriteCheckRoom, Zenon
<1>2. CASE LogWriteAppend(p)
  BY <1>2, LogWriteAppendRoom, Zenon
<1>3. CASE Call(p) \/ (\E b \in Blocks : Bread(p, b)) \/ (\E v \in Vals : Modify(p, v)) \/ Brelse(p)
  <2>1. /\ UNCHANGED <<lh, dhead, mode>>
        /\ pc' \in {[pc EXCEPT ![p] = l] : l \in {"begin", "held", "check", "op"}}
    BY <1>3, Zenon DEF Call, Bread, Modify, Brelse
  <2>2. \A q \in Procs : pc'[q] = "append" => pc[q] = "append"
    BY <2>1, Zenon DEF Control, TypeOK
  <2>3. QED
    BY <2>1, <2>2, KeepsRoom, Zenon DEF HasRoom
<1>4. CASE BeginOp(p)
  <2>1. /\ UNCHANGED <<lh, dhead, mode>>
        /\ pc' \in {[pc EXCEPT ![p] = l] : l \in {"asleep", "op"}}
    BY <1>4, Zenon DEF BeginOp
  <2>2. \A q \in Procs : pc'[q] = "append" => pc[q] = "append"
    BY <2>1, Zenon DEF Control, TypeOK
  <2>3. QED
    BY <2>1, <2>2, KeepsRoom, Zenon DEF HasRoom
<1>5. CASE EndOp(p)
  <2>1. UNCHANGED <<lh, dhead>> /\ mode' \in {mode, "panic"}
    BY <1>5, Zenon DEF EndOp, Stop
  <2>2. \A q \in Procs : pc'[q] = "append" => pc[q] = "append"
    BY <1>5, Zenon DEF EndOp, Stop, WakeupGoto, Control, TypeOK
  <2>3. QED
    BY <2>1, <2>2, KeepsRoom, Zenon DEF HasRoom
<1>6. CASE CommitStep(p)
  <2>1. UNCHANGED mode /\ lh' \in {lh, <<>>} /\ dhead' \in {dhead, lh, <<>>}
    BY <1>6, Zenon DEF CommitStep, Commit, WriteLog, WriteHead, InstallTrans, InstallBlock, ClearHead,
       CommitDone
  <2>2. pc[p] \in CommitLabels
    BY <1>6, Zenon DEF CommitStep, Commit, WriteLog, WriteHead, InstallTrans, ClearHead, CommitDone,
       CommitLabels
  <2>3. InCall' = {}
    BY <1>6, <2>2, CommitterAlone, CommitStepStays, Zenon
  <2>4. \A q \in Procs : pc'[q] = "append" => pc[q] = "append"
    BY <2>3, Zenon DEF InCall
  <2>5. QED
    BY <2>1, <2>4, KeepsRoom, Zenon DEF HasRoom
<1>7. QED
  BY <1>1, <1>2, <1>3, <1>4, <1>5, <1>6, Zenon DEF Step

(* As long as one call at a time has looked, every step leaves the log     *)
(* within its blocks on disk.                                              *)
LEMMA NextRoom == Control /\ HasRoom /\ ChecksAlone /\ [Next]_vars => HasRoom'
<1> SUFFICES ASSUME Control, HasRoom, ChecksAlone, [Next]_vars PROVE HasRoom'
  OBVIOUS
<1>1. CASE UNCHANGED vars
  BY <1>1, Zenon DEF vars, HasRoom
<1>2. CASE Crash
  <2>1. lh' = <<>> /\ dhead' = dhead /\ mode' = "boot" /\ \A q \in Procs : pc'[q] # "append"
    BY <1>2, Zenon DEF Crash
  <2>2. QED
    BY <2>1, KeepsRoom, Zenon
<1>3. CASE ReadHead
  <2>1. InCall = {} /\ UNCHANGED <<dhead, pc>> /\ lh' = dhead /\ mode' = "recover"
    BY <1>3, Zenon DEF ReadHead, InCall, Control, Phases, Booting
  <2>2. QED
    BY <2>1, Zenon DEF HasRoom, InCall
<1>4. CASE RecoverInstall \/ RecoverClear
  <2>1. UNCHANGED pc /\ lh' \in {lh, <<>>} /\ dhead' \in {dhead, <<>>} /\ mode' \in {mode, "run"}
    BY <1>4, Zenon DEF RecoverInstall, RecoverClear, InstallBlock
  <2>2. QED
    BY <2>1, KeepsRoom, Zenon DEF HasRoom
<1>5. CASE \E b \in Blocks : Evict(b)
  BY <1>5, Zenon DEF Evict, HasRoom
<1>6. QED
  BY <1>1, <1>2, <1>3, <1>4, <1>5, ProcRoom, Zenon DEF Next, Recover

-----------------------------------------------------------------------------
LOCAL FS == INSTANCE FiniteSetTheorems

(* The library counts the sets Log counts.                                 *)
LEMMA FinSame ==
  ASSUME NEW S
  PROVE  /\ Cardinality(S) = FS!Cardinality(S)
         /\ IsFiniteSet(S) <=> FS!IsFiniteSet(S)
  BY Zenon DEF Cardinality, FS!Cardinality, IsFiniteSet, FS!IsFiniteSet

(* The facts about finite sets that the lemmas assume.                     *)
LEMMA CountingHolds == Counting
<1>1. \A S : IsFiniteSet(S) => Cardinality(S) \in Nat
  BY FS!FS_CardinalityType, FinSame, Zenon
<1>2. IsFiniteSet({}) /\ \A S : IsFiniteSet(S) => (Cardinality(S) = 0 <=> S = {})
  BY FS!FS_EmptySet, FinSame, Zenon
<1>3. ASSUME NEW S, NEW T \in SUBSET S, IsFiniteSet(S)
      PROVE  IsFiniteSet(T) /\ Cardinality(T) <= Cardinality(S)
  <2>1. FS!IsFiniteSet(T) /\ FS!Cardinality(T) <= FS!Cardinality(S)
    BY <1>3, FS!FS_Subset, FinSame, Zenon
  <2>2. QED
    BY <2>1, FinSame
<1>4. ASSUME NEW S, NEW x, IsFiniteSet(S)
      PROVE  x \notin S => Cardinality(S \cup {x}) = Cardinality(S) + 1
  BY <1>4, FS!FS_AddElement, FinSame
<1>5. ASSUME NEW S, NEW x, IsFiniteSet(S)
      PROVE  x \in S => Cardinality(S \ {x}) = Cardinality(S) - 1
  BY <1>5, FS!FS_RemoveElement, FinSame, Zenon
<1>6. QED
  BY <1>1, <1>2, <1>3, <1>4, <1>5, Zenon DEF Counting

(* One process commits at a time, alone; the calls are counted exactly;    *)
(* the log is empty between transactions: in every state of log.c.         *)
THEOREM ControlHolds == Spec => []Control
<1>1. Init => Control
  BY CountingHolds, InitControl, Zenon
<1>2. Control /\ [Next]_vars => Control'
  BY CountingHolds, NextControl, Zenon
<1>3. QED
  BY <1>1, <1>2, PTL DEF Spec

(* In every state of every execution of log.c the variables have their     *)
(* types: no header outgrows LOGSIZE, no count of calls the processes.     *)
THEOREM LogTypeCorrect == Spec => []TypeOK
<1>1. Control => TypeOK
  BY Zenon DEF Control
<1>2. QED
  BY <1>1, ControlHolds, PTL

(* A process asleep in begin_op() has its wakeup(&log) still to come.      *)
THEOREM WakeupComes == Spec => []NoLostWakeup
<1>1. Control => NoLostWakeup
  <2> SUFFICES ASSUME Control, NEW p \in Procs, pc[p] = "asleep", ~committing
      PROVE InCall # {}
    BY Zenon DEF NoLostWakeup
  <2>1. outstanding # 0
    BY DEF Control, TypeOK, Phases
  <2>2. Cardinality({}) = 0
    BY CountingHolds, NoProcs, Zenon
  <2>3. QED
    BY <2>1, <2>2, Zenon DEF Control
<1>2. QED
  BY <1>1, ControlHolds, PTL

(* As long as no transaction overruns the log on disk, a buffer differs    *)
(* from its home block only for the log, and the log blocks hold what the  *)
(* buffers do when the header names them.                                  *)
THEOREM DataHolds == Spec /\ []Fits => []Data
  BY InitData, ControlHolds, NextData, PTL DEF Spec

(* As long as no transaction overruns the log on disk, log.c implements a  *)
(* disk that takes the writes of the calls that ended all together or not  *)
(* at all, through stops of the machine at any moment.                     *)
THEOREM LogIsAtomic == Spec /\ []Fits => ImplementsAtomicDisk
<1>1. Init => Abstract!Init
  BY InitRefines, Zenon
<1>2. Control /\ Data /\ Fits /\ [Next]_vars => [Abstract!Next]_(Abstract!vars)
  BY NextRefines, Zenon
<1>3. QED
  BY <1>1, <1>2, ControlHolds, DataHolds, PTL DEF Spec, ImplementsAtomicDisk, Abstract!Spec

(* As long as no transaction overruns the log, a home block is overwritten *)
(* only while the header on disk names it.                                 *)
THEOREM LogIsWrittenAhead == Spec /\ []Fits => WriteAhead
  BY ControlHolds, DataHolds, NextWriteAhead, PTL DEF Spec, WriteAhead

(* log.c overruns the log on disk, or struct log in memory, only if two    *)
(* calls are between log_write()'s look at the header and its append at    *)
(* once: however much begin_op() admits and however many blocks a call     *)
(* writes, the look alone ends in a panic before that.                     *)
THEOREM OverrunNeedsRace == Spec /\ []ChecksAlone => [](Fits /\ mode # "corrupt")
<1>1. Init => HasRoom
  BY LogAssumption DEF Init, HasRoom
<1>2. Control /\ HasRoom /\ ChecksAlone /\ [Next]_vars => HasRoom'
  BY NextRoom, Zenon
<1>3. HasRoom => Fits /\ mode # "corrupt"
  BY Zenon DEF HasRoom, Fits
<1>4. QED
  BY <1>1, <1>2, <1>3, ControlHolds, PTL DEF Spec

(* So without that race log.c is an atomic disk, and writes ahead, also    *)
(* when a call writes more than begin_op() reserves for it: log_write()    *)
(* panics, and the machine boots with the transaction before.              *)
THEOREM RacelessLogIsAtomic ==
  Spec /\ []ChecksAlone => ImplementsAtomicDisk /\ WriteAhead
<1>1. Fits /\ mode # "corrupt" => Fits
  OBVIOUS
<1>2. QED
  BY <1>1, OverrunNeedsRace, LogIsAtomic, LogIsWrittenAhead, PTL
=============================================================================
