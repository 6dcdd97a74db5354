------------------------------- MODULE LogInv -------------------------------
(***************************************************************************)
(* The inductive invariants of the log: Control says where the processes   *)
(* can be at the same time, Data what is in the buffers, the log and the   *)
(* home blocks meanwhile, as long as a transaction fits into the log on    *)
(* disk.                                                                   *)
(***************************************************************************)
EXTENDS Log, TLAPS

CallLabels == {"op", "held", "check", "append", "release"}
HoldLabels == {"held", "check", "append", "release"}
CommitLabels == {"commit", "write", "head", "install", "clear", "done"}

Distinct(s) == \A i, j \in 1 .. Len(s) : s[i] = s[j] => i = j

Booting == mode \in {"boot", "recover"}

(* log.committing is set while one process is in commit(), and no call runs *)
(* then.                                                                   *)
Committer ==
  /\ committing <=> \E p \in Procs : pc[p] \in CommitLabels
  /\ committing => outstanding = 0
  /\ \A p, q \in Procs : pc[p] \in CommitLabels /\ pc[q] \in CommitLabels => p = q

(* A buffer has one holder, which has log_write() calls left.              *)
Holders ==
  /\ \A p \in Procs : /\ blk[p] # None <=> pc[p] \in HoldLabels
                      /\ pc[p] \in HoldLabels => count[p] < OpWrites
  /\ \A p, q \in Procs : blk[p] = blk[q] /\ blk[p] # None => p = q

(* Between transactions the log is empty; who sleeps has something to wait  *)
(* for; nobody runs before the recovery is over.                           *)
Phases ==
  /\ \A p \in Procs : /\ pc[p] = "done" => lh = <<>>
                      /\ pc[p] = "asleep" => committing \/ outstanding > 0
                      /\ Booting => pc[p] = "idle"
  /\ mode # "recover" /\ ~committing /\ outstanding = 0 => lh = <<>>
  /\ mode = "recover" => lh = dhead

Control ==
  /\ TypeOK /\ Len(lh) <= LOGSIZE /\ Distinct(lh) /\ Distinct(dhead)
  /\ outstanding = Cardinality(InCall) /\ (InCall # {} => outstanding > 0)
  /\ Committer /\ Holders /\ Phases

-----------------------------------------------------------------------------
(* What the proofs use of finite sets.  It is shown from the library's     *)
(* theorems in LogProof, as they slow down every proof that has them in    *)
(* scope.                                                                  *)
Counting ==
  /\ \A S : IsFiniteSet(S) => Cardinality(S) \in Nat /\ (Cardinality(S) = 0 <=> S = {})
  /\ IsFiniteSet({})
  /\ \A S : IsFiniteSet(S) =>
       \A T \in SUBSET S : IsFiniteSet(T) /\ Cardinality(T) <= Cardinality(S)
  /\ \A S, x : IsFiniteSet(S) =>
       /\ x \notin S => Cardinality(S \cup {x}) = Cardinality(S) + 1
       /\ x \in S => Cardinality(S \ {x}) = Cardinality(S) - 1

LEMMA SetsOfProcs ==
  ASSUME Counting, NEW S \in SUBSET Procs
  PROVE  /\ Cardinality(S) \in 0 .. Cardinality(Procs)
         /\ Cardinality(S) = 0 <=> S = {}
         /\ \A p \in Procs \ S : Cardinality(S \cup {p}) = Cardinality(S) + 1
         /\ \A p \in S : Cardinality(S \ {p}) = Cardinality(S) - 1
<1>1. IsFiniteSet(Procs) /\ IsFiniteSet(S) /\ Cardinality(S) <= Cardinality(Procs)
  BY LogAssumption, Zenon DEF Counting
<1>2. Cardinality(S) \in Nat /\ Cardinality(Procs) \in Nat /\ (Cardinality(S) = 0 <=> S = {})
  BY <1>1, Zenon DEF Counting
<1>3. /\ \A p \in Procs \ S : Cardinality(S \cup {p}) = Cardinality(S) + 1
      /\ \A p \in S : Cardinality(S \ {p}) = Cardinality(S) - 1
  BY <1>1, Zenon DEF Counting
<1>4. QED
  BY <1>1, <1>2, <1>3

LEMMA NoProcs ==
  ASSUME Counting PROVE Cardinality({}) = 0 /\ Cardinality(Procs) \in Nat
  BY LogAssumption, Zenon DEF Counting

USE DEF Goto, Labels, log, ondisk, cache

LEMMA InitControl == ASSUME Counting, Init PROVE Control
<1>1. InCall = {} /\ Cardinality({}) = 0
  BY NoProcs, Zenon DEF Init, InCall
<1>2. dlog \in [Slots -> Vals] /\ Cardinality(Procs) \in Nat
  BY LogAssumption, NoProcs, Zenon DEF Init
<1>3. TypeOK
  <2>1. outstanding \in 0 .. Cardinality(Procs) /\ tail \in 1 .. LOGSIZE + 1
    BY <1>2, LogAssumption DEF Init
  <2>2. lh \in Seq(Blocks) /\ dhead \in Seq(Blocks) /\ Len(dhead) <= LOGSIZE
    BY LogAssumption DEF Init
  <2>3. pc \in [Procs -> Labels] /\ blk \in [Procs -> Blocks \cup {None}]
        /\ count \in [Procs -> 0 .. OpWrites]
    BY LogAssumption DEF Init
  <2>4. buf \in [Blocks -> Vals \cup {None}] /\ dirty \subseteq Blocks
    BY Zenon DEF Init
  <2>5. QED
    BY <1>2, <2>1, <2>2, <2>3, <2>4, Zenon DEF Init, TypeOK
<1>4. QED
  BY <1>1, <1>3, LogAssumption DEF Init, Distinct, Control, TypeOK, Committer, Holders, Phases,
      Booting, CommitLabels, HoldLabels

(* A call runs, and nobody commits, while one process is in a call.        *)
LEMMA CallRuns ==
  ASSUME Control, NEW p \in InCall PROVE outstanding > 0 /\ ~committing
  BY DEF Control, Committer

LEMMA StopControl ==
  ASSUME Control, NEW why \in {"panic", "corrupt"}, mode = "run", Stop(why) PROVE Control'
<1>1. InCall' = InCall /\ TypeOK'
  BY Zenon DEF Stop, InCall, Control, TypeOK
<1>2. QED
  BY <1>1 DEF Stop, Distinct, Control, TypeOK, Committer, Holders, Phases,
      Booting, CommitLabels, HoldLabels

LEMMA EvictControl ==
  ASSUME Control, NEW b \in Blocks, Evict(b) PROVE Control'
<1>1. InCall' = InCall
  BY Zenon DEF Evict, InCall, Control, TypeOK
<1>2. TypeOK'
  BY LogAssumption, Zenon DEF Evict, Control, TypeOK
<1>3. QED
  BY <1>1, <1>2, LogAssumption, Zenon DEF Evict, Control, TypeOK, Committer, Holders, Phases,
      Booting, CommitLabels, HoldLabels

LEMMA BreadControl ==
  ASSUME Control, NEW p \in Procs, NEW b \in Blocks, Bread(p, b) PROVE Control'
<1>1. InCall' = InCall
  BY Zenon DEF Bread, InCall, Control, TypeOK, Locked
<1>2. TypeOK'
  BY LogAssumption, Zenon DEF Bread, Control, TypeOK, Locked, BufferOf
<1>3. QED
  BY <1>1, <1>2, LogAssumption DEF Bread, Locked, Control, TypeOK, Committer, Holders, Phases,
      Booting, CommitLabels, HoldLabels

LEMMA ModifyControl ==
  ASSUME Control, NEW p \in Procs, NEW v \in Vals, Modify(p, v) PROVE Control'
<1>1. InCall' = InCall
  BY Zenon DEF Modify, InCall, Control, TypeOK
<1>2. TypeOK'
  BY LogAssumption, Zenon DEF Modify, Control, TypeOK
<1>3. QED
  BY <1>1, <1>2, LogAssumption DEF Modify, Control, TypeOK, Committer, Holders, Phases,
      Booting, CommitLabels, HoldLabels

LEMMA BrelseControl ==
  ASSUME Control, NEW p \in Procs, Brelse(p) PROVE Control'
<1>1. InCall' = InCall
  BY Zenon DEF Brelse, InCall, Control, TypeOK
<1>2. TypeOK'
  BY LogAssumption DEF Brelse, Control, TypeOK, Holders, HoldLabels
<1>3. QED
  BY <1>1, <1>2, LogAssumption DEF Brelse, Control, TypeOK, Committer, Holders, Phases,
      Booting, CommitLabels, HoldLabels

LEMMA CallControl ==
  ASSUME Control, NEW p \in Procs, Call(p) PROVE Control'
<1>1. InCall' = InCall
  BY Zenon DEF Call, InCall, Control, TypeOK
<1>2. TypeOK'
  BY LogAssumption, Zenon DEF Call, Control, TypeOK
<1>3. QED
  BY <1>1, <1>2, LogAssumption DEF Call, Control, TypeOK, Committer, Holders, Phases,
      Booting, CommitLabels, HoldLabels

LEMMA BeginOpControl ==
  ASSUME Counting, Control, NEW p \in Procs, BeginOp(p) PROVE Control'
<1>1. CASE MustWait
  <2>1. pc' = [pc EXCEPT ![p] = "asleep"] /\ mode = "run" /\ pc[p] = "begin"
        /\ UNCHANGED <<disk, dlog, dhead, buf, dirty, lh, outstanding, committing,
                       blk, count, tail, mode>>
    BY <1>1, Zenon DEF BeginOp
  <2>2. InCall' = InCall /\ TypeOK'
    BY <2>1, Zenon DEF InCall, Control, TypeOK
  <2>3. committing \/ outstanding > 0
    <3>1. SUFFICES ASSUME ~committing, outstanding = 0 PROVE FALSE
      BY DEF Control, TypeOK
    <3>2. lh = <<>> /\ (0 + 1) * MAXOPBLOCKS = MAXOPBLOCKS
      BY <2>1, <3>1, LogAssumption DEF Control, Phases
    <3>3. QED
      BY <1>1, <3>1, <3>2, LogAssumption DEF MustWait
  <2>4. Committer'
    BY <2>1, Zenon DEF Control, TypeOK, Committer, CommitLabels
  <2>5. Holders' /\ Phases'
    BY <2>1, <2>3, Zenon DEF Control, TypeOK, Holders, HoldLabels, Phases, Booting
  <2>6. QED
    BY <2>1, <2>2, <2>4, <2>5, Zenon DEF Control, Distinct
<1>2. CASE ~MustWait
  <2>1. pc' = [pc EXCEPT ![p] = "op"] /\ mode = "run" /\ pc[p] = "begin"
        /\ outstanding' = outstanding + 1 /\ count' = [count EXCEPT ![p] = 0]
        /\ UNCHANGED <<disk, dlog, dhead, buf, dirty, lh, committing, blk, tail, mode>>
    BY <1>2, Zenon DEF BeginOp
  <2>2. InCall' = InCall \cup {p} /\ p \notin InCall /\ InCall \in SUBSET Procs
    BY <2>1, Zenon DEF InCall, Control, TypeOK
  <2>3. Cardinality(InCall') = Cardinality(InCall) + 1 /\ InCall' \in SUBSET Procs
    BY <2>2, SetsOfProcs, Zenon
  <2>4. outstanding' = Cardinality(InCall') /\ outstanding' \in 1 .. Cardinality(Procs)
    BY <2>1, <2>2, <2>3, SetsOfProcs DEF Control, TypeOK
  <2>5. count' \in [Procs -> 0 .. OpWrites]
    BY <2>1, LogAssumption DEF Control, TypeOK
  <2>6. TypeOK'
    BY <2>1, <2>4, <2>5 DEF Control, TypeOK
  <2>7. Committer'
    BY <1>2, <2>1, Zenon DEF MustWait, Control, TypeOK, Committer, CommitLabels
  <2>8. Holders'
    BY <2>1, Zenon DEF Control, TypeOK, Holders, HoldLabels
  <2>9. Phases'
    BY <2>1, <2>4 DEF Control, TypeOK, Phases, Booting
  <2>10. QED
    BY <2>1, <2>4, <2>6, <2>7, <2>8, <2>9 DEF Control, Distinct
<1>3. QED
  BY <1>1, <1>2, Zenon

LEMMA EndOpControl ==
  ASSUME Counting, Control, NEW p \in Procs, EndOp(p) PROVE Control'
<1>1. InCall \in SUBSET Procs /\ p \in InCall
  BY Zenon DEF EndOp, InCall
<1>2. ~committing /\ outstanding > 0
  BY <1>1, CallRuns, Zenon
<1>3. /\ mode = "run" /\ pc[p] = "op" /\ tail' = 1
      /\ outstanding' = outstanding - 1 /\ committing' = (outstanding = 1)
      /\ UNCHANGED <<disk, dlog, dhead, buf, dirty, lh, blk, count, mode>>
  BY <1>2, Zenon DEF EndOp
<1>4. CASE outstanding = 1
  <2>1. pc' = [pc EXCEPT ![p] = "commit"] /\ outstanding' = 0 /\ committing' = TRUE
    <3>1. committing' = TRUE
      BY <1>3, <1>4, Zenon
    <3>2. QED
      BY <1>2, <1>3, <1>4, <3>1 DEF EndOp
  <2>2. InCall' = InCall \ {p}
    BY <1>3, <2>1, Zenon DEF InCall, Control, TypeOK
  <2>3. outstanding' = Cardinality(InCall') /\ outstanding' \in 0 .. Cardinality(Procs)
    <3>1. Cardinality(InCall') = Cardinality(InCall) - 1
      BY <1>1, <2>2, SetsOfProcs, Zenon
    <3>2. Cardinality(InCall') \in 0 .. Cardinality(Procs)
      BY <1>1, <2>2, SetsOfProcs, Zenon
    <3>3. QED
      BY <1>3, <3>1, <3>2, Zenon DEF Control
  <2>4. TypeOK' /\ InCall' = {}
    <3>1. InCall' = {}
      BY <1>1, <2>1, <2>2, <2>3, SetsOfProcs, Zenon
    <3>2. QED
      BY <1>3, <2>1, <2>3, <3>1, LogAssumption DEF Control, TypeOK
  <2>5. Committer'
    BY <1>2, <1>3, <2>1 DEF Control, TypeOK, Committer, CommitLabels
  <2>6. Holders' /\ Phases'
    BY <1>3, <2>1 DEF Control, TypeOK, Holders, HoldLabels, Phases, Booting
  <2>7. QED
    BY <1>3, <2>3, <2>4, <2>5, <2>6 DEF Control, Distinct
<1>5. CASE outstanding # 1
  <2>1. pc' = [q \in Procs |-> IF q = p THEN "idle"
                               ELSE IF pc[q] = "asleep" THEN "begin" ELSE pc[q]]
        /\ outstanding' > 0 /\ ~committing'
    BY <1>2, <1>3, <1>5 DEF EndOp, WakeupGoto, Control, TypeOK
  <2>2. InCall' = InCall \ {p}
    BY <1>3, <2>1, Zenon DEF InCall, Control, TypeOK
  <2>3. outstanding' = Cardinality(InCall') /\ outstanding' \in 0 .. Cardinality(Procs)
    <3>1. Cardinality(InCall') = Cardinality(InCall) - 1
      BY <1>1, <2>2, SetsOfProcs, Zenon
    <3>2. Cardinality(InCall') \in 0 .. Cardinality(Procs)
      BY <1>1, <2>2, SetsOfProcs, Zenon
    <3>3. QED
      BY <1>3, <3>1, <3>2, Zenon DEF Control
  <2>4. committing' \in BOOLEAN /\ pc' \in [Procs -> Labels]
    BY <1>3, <2>1, Zenon DEF Control, TypeOK
  <2>5. TypeOK'
    BY <1>3, <2>3, <2>4, LogAssumption DEF Control, TypeOK
  <2>6. Committer'
    BY <1>2, <1>3, <2>1, Zenon DEF Control, TypeOK, Committer, CommitLabels
  <2>7. Holders' /\ Phases'
    BY <1>3, <2>1 DEF Control, TypeOK, Holders, HoldLabels, Phases, Booting
  <2>8. QED
    BY <1>3, <2>1, <2>3, <2>5, <2>6, <2>7, Zenon DEF Control, Distinct
<1>6. QED
  BY <1>4, <1>5, Zenon

LEMMA LogWriteCheckControl ==
  ASSUME Control, NEW p \in Procs, LogWriteCheck(p) PROVE Control'
<1>1. CASE Stop("panic")
  BY <1>1, StopControl, Zenon DEF LogWriteCheck
<1>2. CASE ~Stop("panic")
  <2>1. pc' = [pc EXCEPT ![p] = "append"] /\ mode = "run" /\ pc[p] = "check"
        /\ UNCHANGED <<disk, dlog, dhead, buf, dirty, lh, outstanding, committing,
                       blk, count, tail, mode>>
    BY <1>2, Zenon DEF LogWriteCheck
  <2>2. InCall' = InCall /\ TypeOK'
    BY <2>1, Zenon DEF InCall, Control, TypeOK
  <2>3. QED
    BY <2>1, <2>2 DEF Distinct, Control, TypeOK, Committer, Holders, Phases,
      Booting, CommitLabels, HoldLabels
<1>3. QED
  BY <1>1, <1>2, Zenon

(* log_write() adds a block once.                                          *)
LEMMA AbsorbIsSequence ==
  ASSUME Control, NEW p \in Procs, pc[p] = "append"
  PROVE  /\ blk[p] \in Blocks
         /\ Absorb(blk[p]) \in Seq(Blocks) /\ Distinct(Absorb(blk[p]))
         /\ Len(Absorb(blk[p])) \in {Len(lh), Len(lh) + 1}
         /\ \A i \in 1 .. Len(Absorb(blk[p])) :
              Absorb(blk[p])[i] = IF i <= Len(lh) THEN lh[i] ELSE blk[p]
         /\ Contains(Absorb(blk[p]), blk[p])
<1> DEFINE b == blk[p]
           s == Append(lh, b)
<1>1. b \in Blocks /\ lh \in Seq(Blocks) /\ Distinct(lh) /\ Len(lh) \in Nat
  BY DEF Control, TypeOK, Holders, HoldLabels
<1>2. CASE Contains(lh, b)
  BY <1>1, <1>2 DEF Absorb
<1>3. CASE ~Contains(lh, b)
  <2>1. Absorb(b) = s /\ \A i \in 1 .. Len(lh) : lh[i] # b
    BY <1>3, Zenon DEF Absorb, Contains
  <2>2. s \in Seq(Blocks) /\ Len(s) = Len(lh) + 1
    BY <1>1
  <2>3. \A i \in 1 .. Len(s) : s[i] = IF i <= Len(lh) THEN lh[i] ELSE b
    BY <1>1, <2>2
  <2> HIDE DEF s
  <2>4. Distinct(s) /\ Contains(s, b)
    BY <1>1, <2>1, <2>2, <2>3 DEF Distinct, Contains
  <2>5. QED
    BY <1>1, <2>1, <2>2, <2>3, <2>4, Zenon
<1>4. QED
  BY <1>2, <1>3, Zenon

LEMMA LogWriteAppendControl ==
  ASSUME Control, NEW p \in Procs, LogWriteAppend(p) PROVE Control'
<1>1. CASE Stop("corrupt")
  BY <1>1, StopControl, Zenon DEF LogWriteAppend
<1>2. CASE ~Stop("corrupt")
  <2>1. /\ pc' = [pc EXCEPT ![p] = "release"] /\ mode = "run" /\ pc[p] = "append"
        /\ lh' = Absorb(blk[p]) /\ Len(lh') <= LOGSIZE /\ dirty' = dirty \cup {blk[p]}
        /\ UNCHANGED <<disk, dlog, dhead, buf, outstanding, committing, blk, count,
                       tail, mode>>
    <3>1. Len(Absorb(blk[p])) <= LOGSIZE
      <4>1. Len(Absorb(blk[p])) \in Nat /\ LOGSIZE \in Nat
        BY AbsorbIsSequence, LogAssumption DEF LogWriteAppend
      <4>2. QED
        BY <1>2, <4>1 DEF LogWriteAppend
    <3>2. QED
      BY <1>2, <3>1, Zenon DEF LogWriteAppend
  <2>2. InCall' = InCall /\ p \in InCall
    BY <2>1, Zenon DEF InCall, Control, TypeOK
  <2>3. outstanding > 0 /\ ~committing
    BY <2>2, CallRuns, Zenon
  <2>4. blk[p] \in Blocks /\ lh' \in Seq(Blocks) /\ Distinct(lh)'
    BY <2>1, AbsorbIsSequence, Zenon DEF Distinct
  <2>5. TypeOK'
    BY <2>1, <2>4, Zenon DEF Control, TypeOK
  <2>6. Committer'
    BY <2>1, <2>3, Zenon DEF Control, TypeOK, Committer, CommitLabels
  <2>7. Holders' /\ Phases'
    BY <2>1, <2>3 DEF Control, TypeOK, Holders, HoldLabels, Phases, Booting, Committer, CommitLabels
  <2>8. QED
    BY <2>1, <2>2, <2>4, <2>5, <2>6, <2>7, Zenon DEF Control, Distinct
<1>3. QED
  BY <1>1, <1>2, Zenon

LEMMA CommitControl ==
  ASSUME Control, NEW p \in Procs, Commit(p) PROVE Control'
<1>1. InCall' = InCall
  BY Zenon DEF Commit, InCall, Control, TypeOK
<1>2. TypeOK'
  BY LogAssumption, Zenon DEF Commit, Control, TypeOK
<1>3. QED
  BY <1>1, <1>2, LogAssumption DEF Commit, Control, TypeOK, Committer, Holders, Phases,
      Booting, CommitLabels, HoldLabels

LEMMA WriteLogControl ==
  ASSUME Control, NEW p \in Procs, WriteLog(p) PROVE Control'
<1>1. lh[tail] \in Blocks /\ AfterLog \in Blocks /\ BufferOf(lh[tail]) \in Vals
  BY LogAssumption DEF WriteLog, BufferOf, Control, TypeOK
<1>2. /\ mode = "run" /\ pc[p] = "write" /\ tail <= Len(lh) /\ tail' = tail + 1
      /\ pc' = pc \/ pc' = [pc EXCEPT ![p] = "head"]
      /\ UNCHANGED <<dhead, lh, outstanding, committing, blk, count, mode>>
  BY Zenon DEF WriteLog
<1>3. InCall' = InCall /\ pc' \in [Procs -> Labels]
  BY <1>2, Zenon DEF InCall, Control, TypeOK
<1>4. disk' \in [Blocks -> Vals] /\ dlog' \in [Slots -> Vals]
  BY <1>1, Zenon DEF WriteLog, Control, TypeOK
<1>5. buf' \in [Blocks -> Vals \cup {None}] /\ dirty' \subseteq Blocks
  BY <1>1, Zenon DEF WriteLog, Control, TypeOK
<1>6. TypeOK'
  BY <1>2, <1>3, <1>4, <1>5, LogAssumption DEF Control, TypeOK
<1>7. Committer' /\ Holders'
  BY <1>2 DEF Control, TypeOK, Committer, CommitLabels, Holders, HoldLabels
<1>8. Phases'
  BY <1>2, Zenon DEF Control, TypeOK, Phases, Booting
<1>9. QED
  BY <1>2, <1>3, <1>6, <1>7, <1>8 DEF Control, Distinct

LEMMA WriteHeadControl ==
  ASSUME Control, NEW p \in Procs, WriteHead(p) PROVE Control'
<1>1. InCall' = InCall
  BY Zenon DEF WriteHead, InCall, Control, TypeOK
<1>2. TypeOK'
  BY LogAssumption DEF WriteHead, Control, TypeOK
<1>3. Committer' /\ Holders'
  BY DEF WriteHead, Control, TypeOK, Committer, CommitLabels, Holders, HoldLabels
<1>4. Phases'
  BY Zenon DEF WriteHead, Control, TypeOK, Phases, Booting
<1>5. QED
  BY <1>1, <1>2, <1>3, <1>4, Zenon DEF WriteHead, Control, Distinct

LEMMA InstallTransControl ==
  ASSUME Control, NEW p \in Procs, InstallTrans(p) PROVE Control'
<1>1. lh[tail] \in Blocks /\ LogBlock(tail) \in Vals
  BY LogAssumption DEF InstallTrans, LogBlock, BufferOf, Control, TypeOK
<1>2. /\ mode = "run" /\ pc[p] = "install" /\ tail <= Len(lh) /\ tail' = tail + 1
      /\ disk' = [disk EXCEPT ![lh[tail]] = LogBlock(tail)]
      /\ buf' = [buf EXCEPT ![lh[tail]] = LogBlock(tail)]
      /\ dirty' \subseteq dirty
      /\ pc' = pc \/ pc' = [pc EXCEPT ![p] = "clear"]
      /\ UNCHANGED <<dlog, dhead, lh, outstanding, committing, blk, count, mode>>
  BY Zenon DEF InstallTrans, InstallBlock
<1>3. InCall' = InCall /\ pc' \in [Procs -> Labels]
  BY <1>2, Zenon DEF InCall, Control, TypeOK
<1>4. TypeOK'
  BY <1>1, <1>2, <1>3, LogAssumption DEF Control, TypeOK
<1>5. QED
  BY <1>2, <1>3, <1>4 DEF Distinct, Control, TypeOK, Committer, Holders, Phases,
      Booting, CommitLabels, HoldLabels

LEMMA ClearHeadControl ==
  ASSUME Control, NEW p \in Procs, ClearHead(p) PROVE Control'
<1>1. InCall' = InCall
  BY Zenon DEF ClearHead, InCall, Control, TypeOK, Distinct
<1>2. TypeOK'
  BY LogAssumption DEF ClearHead, Control, TypeOK, Distinct
<1>3. QED
  BY <1>1, <1>2, LogAssumption DEF ClearHead, Distinct, Control, TypeOK, Committer, Holders, Phases,
      Booting, CommitLabels, HoldLabels

LEMMA CommitDoneControl ==
  ASSUME Control, NEW p \in Procs, CommitDone(p) PROVE Control'
<1>1. InCall' = InCall
  BY Zenon DEF CommitDone, InCall, Control, TypeOK, WakeupGoto
<1>2. TypeOK'
  BY LogAssumption, Zenon DEF CommitDone, Control, TypeOK, WakeupGoto
<1>3. QED
  BY <1>1, <1>2, LogAssumption DEF CommitDone, WakeupGoto, Control, TypeOK, Committer, Holders, Phases,
      Booting, CommitLabels, HoldLabels

LEMMA CrashControl ==
  ASSUME Counting, Control, Crash PROVE Control'
<1>1. InCall' = {} /\ Cardinality({}) = 0
  BY NoProcs, Zenon DEF Crash, InCall
<1>2. Cardinality(Procs) \in Nat
  BY NoProcs, Zenon
<1>3. outstanding' \in 0 .. Cardinality(Procs) /\ tail' \in 1 .. LOGSIZE + 1
  BY <1>2, LogAssumption DEF Crash
<1>4. TypeOK'
  <2>1. (pc \in [Procs -> Labels] /\ blk \in [Procs -> Blocks \cup {None}]
          /\ count \in [Procs -> 0 .. OpWrites])'
    BY LogAssumption DEF Crash
  <2>2. (buf \in [Blocks -> Vals \cup {None}] /\ dirty \subseteq Blocks
          /\ lh \in Seq(Blocks))'
    BY DEF Crash
  <2>3. QED
    BY <1>3, <2>1, <2>2, Zenon DEF Crash, Control, TypeOK
<1>5. QED
  BY <1>1, <1>4, LogAssumption DEF Crash, Distinct, Control, TypeOK, Committer, Holders, Phases,
      Booting, CommitLabels, HoldLabels

LEMMA ReadHeadControl ==
  ASSUME Control, ReadHead PROVE Control'
<1>1. InCall' = InCall
  BY Zenon DEF ReadHead, InCall, Control, TypeOK, Distinct
<1>2. TypeOK'
  BY LogAssumption, Zenon DEF ReadHead, Control, TypeOK, Distinct
<1>3. QED
  BY <1>1, <1>2, LogAssumption DEF ReadHead, Distinct, Control, TypeOK, Committer, Holders, Phases,
      Booting, CommitLabels, HoldLabels

LEMMA RecoverInstallControl ==
  ASSUME Control, RecoverInstall PROVE Control'
<1>1. lh[tail] \in Blocks /\ LogBlock(tail) \in Vals
  BY LogAssumption DEF RecoverInstall, LogBlock, BufferOf, Control, TypeOK
<1>2. /\ mode = "recover" /\ tail <= Len(lh) /\ tail' = tail + 1
      /\ disk' = [disk EXCEPT ![lh[tail]] = LogBlock(tail)]
      /\ buf' = [buf EXCEPT ![lh[tail]] = LogBlock(tail)]
      /\ dirty' \subseteq dirty
      /\ pc' = pc
      /\ UNCHANGED <<dlog, dhead, lh, outstanding, committing, blk, count, mode>>
  BY Zenon DEF RecoverInstall, InstallBlock
<1>3. InCall' = InCall /\ pc' \in [Procs -> Labels]
  BY <1>2, Zenon DEF InCall, Control, TypeOK
<1>4. TypeOK'
  BY <1>1, <1>2, <1>3, LogAssumption DEF Control, TypeOK
<1>5. QED
  BY <1>2, <1>3, <1>4 DEF Distinct, Control, TypeOK, Committer, Holders, Phases,
      Booting, CommitLabels, HoldLabels

LEMMA RecoverClearControl ==
  ASSUME Control, RecoverClear PROVE Control'
<1>1. InCall' = InCall
  BY Zenon DEF RecoverClear, InCall, Control, TypeOK, Distinct
<1>2. TypeOK'
  BY LogAssumption DEF RecoverClear, Control, TypeOK, Distinct
<1>3. QED
  BY <1>1, <1>2, LogAssumption DEF RecoverClear, Distinct, Control, TypeOK, Committer, Holders, Phases,
      Booting, CommitLabels, HoldLabels

LEMMA NextControl == ASSUME Counting, Control, [Next]_vars PROVE Control'
<1>1. CASE UNCHANGED vars
  <2>1. InCall' = InCall
    BY <1>1, Zenon DEF vars, InCall
  <2>2. QED
    BY <1>1, <2>1 DEF vars, Control, TypeOK, Distinct, Committer, Holders, Phases, Booting
<1>2. CASE Crash
  BY <1>2, CrashControl, Zenon
<1>3. CASE Recover
  BY <1>3, ReadHeadControl, RecoverInstallControl, RecoverClearControl, Zenon DEF Recover
<1>4. CASE \E b \in Blocks : Evict(b)
  BY <1>4, EvictControl, Zenon
<1>5. ASSUME NEW p \in Procs, Call(p) \/ Step(p) PROVE Control'
  <2>1. CASE Call(p) \/ BeginOp(p) \/ LogWriteCheck(p) \/ LogWriteAppend(p)
             \/ Brelse(p) \/ EndOp(p)
    BY <2>1, CallControl, BeginOpControl, LogWriteCheckControl, LogWriteAppendControl,
       BrelseControl, EndOpControl, Zenon
  <2>2. CASE \E b \in Blocks : Bread(p, b)
    BY <2>2, BreadControl, Zenon
  <2>3. CASE \E v \in Vals : Modify(p, v)
    BY <2>3, ModifyControl, Zenon
  <2>4. CASE CommitStep(p)
    BY <2>4, CommitControl, WriteLogControl, WriteHeadControl, InstallTransControl,
       ClearHeadControl, CommitDoneControl, Zenon DEF CommitStep
  <2>5. QED
    BY <1>5, <2>1, <2>2, <2>3, <2>4, Zenon DEF Step
<1>6. QED
  BY <1>1, <1>2, <1>3, <1>4, <1>5, Zenon DEF Next

-----------------------------------------------------------------------------
(* A transaction fits into the log blocks on disk.                         *)
Fits == Len(lh) <= nlog - 1

Installing == \E p \in Procs : pc[p] \in {"install", "clear"}
Changed(b) == \E p \in Procs : blk[p] = b /\ pc[p] \in {"check", "append"}

(* A buffer differs from its home block only if it is in the log or its    *)
(* holder is about to put it there.                                        *)
Buffers ==
  /\ \A b \in Blocks : buf[b] \notin {None, disk[b]} => b \in dirty \/ Changed(b)
  /\ \A b \in dirty : buf[b] # None /\ Contains(lh, b)
  /\ \A p \in Procs : blk[p] # None => buf[blk[p]] # None
  /\ Booting => dirty = {}

(* The header on disk is empty but while the log is installed; until then  *)
(* the logged buffers are pinned.                                          *)
Header ==
  /\ Len(dhead) <= nlog - 1
  /\ ~Booting => dhead = IF Installing THEN lh ELSE <<>>
  /\ ~Booting /\ ~Installing => \A i \in 1 .. Len(lh) : lh[i] \in dirty

(* How far write_log() and install_trans() are.                            *)
Progress ==
  /\ \A p \in Procs :
       /\ pc[p] = "commit" => tail = 1
       /\ pc[p] = "write" =>
            \A i \in 1 .. Len(lh) : i < tail => dlog[i] = BufferOf(lh[i])
       /\ pc[p] \in {"head", "install", "clear"} =>
            \A i \in 1 .. Len(lh) : dlog[i] = BufferOf(lh[i])
       /\ pc[p] = "install" => \A i \in 1 .. Len(lh) :
            IF i < tail THEN disk[lh[i]] = dlog[i] /\ lh[i] \notin dirty
                        ELSE lh[i] \in dirty
       /\ pc[p] = "clear" =>
            dirty = {} /\ \A i \in 1 .. Len(lh) : disk[lh[i]] = dlog[i]
  /\ mode = "boot" => tail = 1
  /\ mode = "recover" => \A i \in 1 .. Len(lh) : i < tail => disk[lh[i]] = dlog[i]

Data == Buffers /\ Header /\ Progress

(* While a call runs nobody is in commit().                                *)
LEMMA CallAlone ==
  ASSUME Control, NEW p \in InCall
  PROVE  ~Installing /\ \A q \in Procs : pc[q] \notin CommitLabels
  BY CallRuns, Zenon DEF Control, Committer, Installing, CommitLabels

(* While one process is in commit() no buffer is held.                     *)
LEMMA CommitterAlone ==
  ASSUME Control, NEW p \in Procs, pc[p] \in CommitLabels
  PROVE  /\ InCall = {} /\ committing /\ mode \notin {"boot", "recover"}
         /\ \A q \in Procs : blk[q] = None /\ (pc[q] \in CommitLabels => q = p)
         /\ \A b \in Blocks : ~Locked(b) /\ ~Changed(b)
<1>1. committing /\ \A q \in Procs : pc[q] \in CommitLabels => q = p
  BY Zenon DEF Control, Committer
<1>2. InCall = {}
  BY <1>1, CallRuns, Zenon
<1>3. \A q \in Procs : blk[q] = None
  BY <1>2, Zenon DEF InCall, Control, Holders, HoldLabels
<1>4. mode \notin {"boot", "recover"}
  BY Zenon DEF Control, Phases, Booting, CommitLabels
<1>5. QED
  BY <1>1, <1>2, <1>3, <1>4, LogAssumption, Zenon DEF Locked, Changed

(* A buffer that nobody changes and that is not in the log is its block.   *)
LEMMA CleanBuffer ==
  ASSUME Control, Data, NEW b \in Blocks, b \notin dirty, ~Changed(b)
  PROVE  BufferOf(b) = disk[b]
  BY Zenon DEF Data, Buffers, BufferOf

LEMMA InitData == Init => Data
  BY LogAssumption DEF Init, Data, Buffers, Header, Progress, Booting, Changed

LEMMA StopData ==
  ASSUME Control, Data, NEW why \in {"panic", "corrupt"}, mode = "run", Stop(why) PROVE Data'
<1>1. /\ mode' = why
      /\ UNCHANGED <<disk, dlog, dhead, buf, dirty, lh, tail, pc, blk>>
  BY Zenon DEF Stop
<1>2. Buffers'
  BY <1>1 DEF Data, Buffers, Booting, Changed
<1>3. Header'
  BY <1>1 DEF Data, Header, Booting, Installing
<1>4. Progress'
  BY <1>1 DEF Data, Progress, BufferOf
<1>5. QED
  BY <1>2, <1>3, <1>4, Zenon DEF Data

LEMMA EvictData ==
  ASSUME Control, Data, NEW b \in Blocks, Evict(b) PROVE Data'
<1>1. mode = "run" /\ b \notin dirty /\ buf' = [buf EXCEPT ![b] = None]
      /\ (\A p \in Procs : blk[p] # b)
      /\ UNCHANGED <<disk, dlog, dhead, dirty, lh, pc, blk, tail, mode>>
  BY Zenon DEF Evict, BgetRecycles, Locked
<1>2. \A c \in Blocks : BufferOf(c)' = BufferOf(c)
  <2>1. BufferOf(b) = disk[b]
    BY <1>1, CleanBuffer, Zenon DEF Changed
  <2>2. QED
    BY <1>1, <2>1, Zenon DEF BufferOf, Control, TypeOK
<1>3. Buffers'
  BY <1>1 DEF Data, Buffers, Changed, Booting, Control, TypeOK
<1>4. Header'
  BY <1>1, Zenon DEF Data, Header, Booting, Installing
<1>5. \A i \in 1 .. Len(lh) : BufferOf(lh[i])' = BufferOf(lh[i])
  BY <1>1, <1>2 DEF Control, TypeOK
<1>6. Progress'
  BY <1>1, <1>5 DEF Data, Progress
<1>7. QED
  BY <1>3, <1>4, <1>6, Zenon DEF Data

LEMMA BreadData ==
  ASSUME Control, Data, NEW p \in Procs, NEW b \in Blocks, Bread(p, b) PROVE Data'
<1>1. /\ mode = "run" /\ pc[p] = "op" /\ (\A q \in Procs : blk[q] # b)
      /\ buf' = [buf EXCEPT ![b] = BufferOf(b)]
      /\ blk' = [blk EXCEPT ![p] = b] /\ pc' = [pc EXCEPT ![p] = "held"]
      /\ UNCHANGED <<disk, dlog, dhead, dirty, lh, tail, mode>>
  BY Zenon DEF Bread, Locked
<1>2. ~Installing /\ \A q \in Procs : pc[q] \notin CommitLabels
  BY <1>1, CallAlone, Zenon DEF InCall
<1>3. ~Installing' /\ \A q \in Procs : pc'[q] \notin CommitLabels
  BY <1>1, <1>2, Zenon DEF CommitLabels, Installing, Control, TypeOK
<1>4. BufferOf(b) # None /\ BufferOf(b) \in {buf[b], disk[b]}
  BY LogAssumption DEF BufferOf, Control, TypeOK
<1>5. \A c \in Blocks : Changed(c) => Changed(c)'
  BY <1>1, Zenon DEF Changed, Control, TypeOK
<1>6. Buffers'
  <2>1. \A c \in Blocks : buf'[c] \notin {None, disk[c]} => buf[c] \notin {None, disk[c]}
    BY <1>1, <1>4, Zenon DEF BufferOf, Control, TypeOK
  <2>2. \A q \in Procs : blk'[q] # None => buf'[blk'[q]] # None
    BY <1>1, <1>4, Zenon DEF Data, Buffers, Control, TypeOK
  <2>3. \A c \in dirty : buf'[c] # None
    BY <1>1, <1>4, Zenon DEF Data, Buffers, Control, TypeOK
  <2>4. QED
    BY <1>1, <1>5, <2>1, <2>2, <2>3, Zenon DEF Data, Buffers, Booting
<1>7. Header'
  BY <1>1, <1>2, <1>3, Zenon DEF Data, Header, Booting
<1>8. Progress'
  BY <1>1, <1>3, Zenon DEF Progress, CommitLabels
<1>9. QED
  BY <1>6, <1>7, <1>8, Zenon DEF Data

LEMMA ModifyData ==
  ASSUME Control, Data, NEW p \in Procs, NEW v \in Vals, Modify(p, v) PROVE Data'
<1>1. /\ mode = "run" /\ pc[p] = "held"
      /\ buf' = [buf EXCEPT ![blk[p]] = v] /\ pc' = [pc EXCEPT ![p] = "check"]
      /\ UNCHANGED <<disk, dlog, dhead, dirty, lh, blk, tail, mode>>
  BY Zenon DEF Modify
<1>2. ~Installing /\ \A q \in Procs : pc[q] \notin CommitLabels
  BY <1>1, CallAlone, Zenon DEF InCall
<1>3. ~Installing' /\ \A q \in Procs : pc'[q] \notin CommitLabels
  BY <1>1, <1>2, Zenon DEF CommitLabels, Installing, Control, TypeOK
<1>4. blk[p] \in Blocks /\ v # None
  BY <1>1, LogAssumption, Zenon DEF Control, TypeOK, Holders, HoldLabels
<1>5. Changed(blk[p])' /\ \A c \in Blocks : Changed(c) => Changed(c)'
  BY <1>1, Zenon DEF Changed, Control, TypeOK
<1>6. Buffers'
  BY <1>1, <1>4, <1>5, Zenon DEF Data, Buffers, Booting, Control, TypeOK
<1>7. Header'
  BY <1>1, <1>2, <1>3, Zenon DEF Data, Header, Booting
<1>8. Progress'
  BY <1>1, <1>3, Zenon DEF Progress, CommitLabels
<1>9. QED
  BY <1>6, <1>7, <1>8, Zenon DEF Data

(* Processes move on without touching the disk or a buffer.                *)
Moves ==
  /\ mode = "run" /\ mode' = "run"
  /\ disk' = disk /\ dlog' = dlog /\ dhead' = dhead
  /\ buf' = buf /\ dirty' = dirty /\ lh' = lh
  /\ Installing' <=> Installing
  /\ \A q \in Procs : /\ pc'[q] \in CommitLabels =>
                           \/ (pc'[q] = pc[q] \/ pc'[q] = "done") /\ tail' = tail
                           \/ pc'[q] \in {"commit", "write"} /\ tail' = 1
                      /\ blk'[q] \in {None, blk[q]}
                      /\ pc[q] \in {"check", "append"} =>
                           blk'[q] = blk[q] /\ pc'[q] \in {"check", "append"}

LEMMA MoveData == ASSUME Control, Data, Moves PROVE Data'
<1>1. \A b \in Blocks : Changed(b) => Changed(b)'
  BY Zenon DEF Moves, Changed
<1>2. Buffers'
  BY <1>1, Zenon DEF Moves, Data, Buffers, Booting
<1>3. Header'
  BY Zenon DEF Moves, Data, Header, Booting
<1>4. tail' = 1 => \A i \in 1 .. Len(lh) : ~(i < tail')
  OBVIOUS
<1>5. \A i \in 1 .. Len(lh) : BufferOf(lh[i])' = BufferOf(lh[i])
  BY Zenon DEF Moves, BufferOf
<1>6. Progress'
  BY <1>4, <1>5 DEF Moves, Data, Progress, CommitLabels
<1>7. QED
  BY <1>2, <1>3, <1>6, Zenon DEF Data

LEMMA BrelseData ==
  ASSUME Control, Data, NEW p \in Procs, Brelse(p) PROVE Data'
<1>1. Installing' <=> Installing
  BY Zenon DEF Brelse, Installing, Control, TypeOK
<1>2. Moves
  BY <1>1, Zenon DEF Moves, Brelse, CommitLabels, Control, TypeOK
<1>3. QED
  BY <1>2, MoveData, Zenon

LEMMA CallData ==
  ASSUME Control, Data, NEW p \in Procs, Call(p) PROVE Data'
<1>1. Installing' <=> Installing
  BY Zenon DEF Call, Installing, Control, TypeOK
<1>2. Moves
  BY <1>1, Zenon DEF Moves, Call, CommitLabels, Control, TypeOK
<1>3. QED
  BY <1>2, MoveData, Zenon

LEMMA BeginOpData ==
  ASSUME Control, Data, NEW p \in Procs, BeginOp(p) PROVE Data'
<1>1. pc[p] = "begin" /\ pc' \in {[pc EXCEPT ![p] = "asleep"], [pc EXCEPT ![p] = "op"]}
  BY Zenon DEF BeginOp
<1>2. Installing' <=> Installing
  BY <1>1, Zenon DEF Installing, Control, TypeOK
<1>3. Moves
  BY <1>1, <1>2, Zenon DEF Moves, BeginOp, CommitLabels, Control, TypeOK
<1>4. QED
  BY <1>3, MoveData, Zenon

LEMMA EndOpData ==
  ASSUME Control, Data, NEW p \in Procs, EndOp(p) PROVE Data'
<1>1. /\ ~committing /\ ~Installing
      /\ \A q \in Procs : pc[q] \notin CommitLabels
  BY CallAlone, CallRuns, Zenon DEF EndOp, InCall
<1>2. /\ mode = "run" /\ pc[p] = "op" /\ tail' = 1
      /\ UNCHANGED <<disk, dlog, dhead, buf, dirty, lh, blk, mode>>
      /\ \A q \in Procs : pc'[q] = IF q = p THEN IF outstanding = 1 THEN "commit" ELSE "idle"
                                   ELSE IF outstanding # 1 /\ pc[q] = "asleep" THEN "begin"
                                   ELSE pc[q]
  BY <1>1, Zenon DEF EndOp, WakeupGoto, Control, TypeOK
<1>3. ~Installing'
  BY <1>1, <1>2, Zenon DEF Installing
<1>4. Moves
  BY <1>1, <1>2, <1>3, Zenon DEF Moves, CommitLabels
<1>5. QED
  BY <1>4, MoveData, Zenon

LEMMA LogWriteCheckData ==
  ASSUME Control, Data, NEW p \in Procs, LogWriteCheck(p) PROVE Data'
<1>1. CASE Stop("panic")
  BY <1>1, StopData, Zenon DEF LogWriteCheck
<1>2. CASE ~Stop("panic")
  <2>1. pc' = [pc EXCEPT ![p] = "append"] /\ mode = "run" /\ pc[p] = "check"
        /\ UNCHANGED <<disk, dlog, dhead, buf, dirty, lh, blk, tail, mode>>
    BY <1>2, Zenon DEF LogWriteCheck
  <2>2. Installing' <=> Installing
    BY <2>1, Zenon DEF Installing, Control, TypeOK
  <2>3. Moves
    BY <2>1, <2>2, Zenon DEF Moves, CommitLabels, Control, TypeOK
  <2>4. QED
    BY <2>3, MoveData, Zenon
<1>3. QED
  BY <1>1, <1>2, Zenon

LEMMA CommitData ==
  ASSUME Control, Data, NEW p \in Procs, Commit(p) PROVE Data'
<1>1. pc[p] = "commit" /\ tail = 1
  BY Zenon DEF Commit, Data, Progress
<1>2. pc' \in {[pc EXCEPT ![p] = "done"], [pc EXCEPT ![p] = "write"]}
  <2>1. CASE lh = <<>>
    BY <2>1, Zenon DEF Commit
  <2>2. CASE lh # <<>>
    BY <2>2, Zenon DEF Commit
  <2>3. QED
    BY <2>1, <2>2, Zenon
<1>3. Installing' <=> Installing
  BY <1>1, <1>2, Zenon DEF Installing, Control, TypeOK
<1>4. Moves
  BY <1>1, <1>2, <1>3, Zenon DEF Moves, Commit, CommitLabels, Control, TypeOK
<1>5. QED
  BY <1>4, MoveData, Zenon

LEMMA CommitDoneData ==
  ASSUME Control, Data, NEW p \in Procs, CommitDone(p) PROVE Data'
<1>1. Installing' <=> Installing
  <2>1. \A q \in Procs : pc'[q] \in {"install", "clear"} <=> pc[q] \in {"install", "clear"}
    BY Zenon DEF CommitDone, WakeupGoto
  <2>2. QED
    BY <2>1, Zenon DEF Installing
<1>2. Moves
  BY <1>1, Zenon DEF Moves, CommitDone, WakeupGoto, CommitLabels, Control, TypeOK
<1>3. QED
  BY <1>2, MoveData, Zenon

LEMMA LogWriteAppendData ==
  ASSUME Control, Data, NEW p \in Procs, LogWriteAppend(p) PROVE Data'
<1>1. CASE Stop("corrupt")
  BY <1>1, StopData, Zenon DEF LogWriteAppend
<1>2. CASE ~Stop("corrupt")
  <2>1. /\ pc' = [pc EXCEPT ![p] = "release"] /\ mode = "run" /\ pc[p] = "append"
        /\ lh' = Absorb(blk[p]) /\ dirty' = dirty \cup {blk[p]}
        /\ UNCHANGED <<disk, dlog, dhead, buf, blk, tail, mode>>
    BY <1>2, Zenon DEF LogWriteAppend
  <2>2. ~Installing /\ \A q \in Procs : pc[q] \notin CommitLabels
    BY <2>1, CallAlone, Zenon DEF InCall
  <2>3. ~Installing' /\ \A q \in Procs : pc'[q] \notin CommitLabels
    BY <2>1, <2>2, Zenon DEF CommitLabels, Installing, Control, TypeOK
  <2>4. /\ blk[p] \in Blocks /\ Len(lh) \in Nat /\ Len(lh') \in Nat /\ Len(lh) <= Len(lh')
        /\ \A i \in 1 .. Len(lh') : lh'[i] = IF i <= Len(lh) THEN lh[i] ELSE blk[p]
        /\ Contains(lh', blk[p])
    BY <2>1, AbsorbIsSequence DEF Control, TypeOK
  <2>5. \A b \in Blocks : Contains(lh, b) => Contains(lh', b)
    BY <2>4 DEF Contains
  <2>6. \A b \in Blocks : Changed(b) => Changed(b)' \/ b = blk[p]
    BY <2>1, Zenon DEF Changed, Control, TypeOK
  <2>7. Buffers'
    BY <2>1, <2>4, <2>5, <2>6, LogAssumption, Zenon DEF Data, Buffers, Booting, Control, TypeOK
  <2>8. Header'
    BY <2>1, <2>2, <2>3, <2>4 DEF Data, Header, Booting
  <2>9. Progress'
    BY <2>1, <2>3, Zenon DEF Progress, CommitLabels
  <2>10. QED
    BY <2>7, <2>8, <2>9, Zenon DEF Data
<1>3. QED
  BY <1>1, <1>2, Zenon

LEMMA WriteLogData ==
  ASSUME Control, Data, Fits, NEW p \in Procs, WriteLog(p) PROVE Data'
<1> DEFINE b == lh[tail]
<1>1. /\ InCall = {} /\ \A q \in Procs : pc[q] \in CommitLabels => q = p
      /\ \A c \in Blocks : ~Changed(c)
  BY CommitterAlone, Zenon DEF WriteLog, CommitLabels
<1>2. b \in Blocks /\ tail \in 1 .. Len(lh) /\ tail \in Slots /\ Len(lh) \in Nat
  BY LogAssumption DEF WriteLog, Fits, Slots, Control, TypeOK
<1>3. /\ mode = "run" /\ pc[p] = "write" /\ tail' = tail + 1
      /\ dlog' = [dlog EXCEPT ![tail] = BufferOf(b)]
      /\ buf' = [buf EXCEPT ![b] = BufferOf(b)]
      /\ pc' = IF tail = Len(lh) THEN [pc EXCEPT ![p] = "head"] ELSE pc
      /\ UNCHANGED <<disk, dhead, dirty, lh, blk, mode>>
  BY <1>2, Zenon DEF WriteLog
<1>4. BufferOf(b) # None /\ BufferOf(b) \in {buf[b], disk[b]}
  BY <1>2, LogAssumption DEF BufferOf, Control, TypeOK
<1>5. \A c \in Blocks : BufferOf(c)' = BufferOf(c)
  BY <1>2, <1>3, <1>4, Zenon DEF BufferOf, Control, TypeOK
<1>6. Buffers'
  <2>1. \A c \in Blocks : /\ buf'[c] \notin {None, disk[c]} => buf[c] \notin {None, disk[c]}
                          /\ buf[c] # None => buf'[c] # None
    BY <1>2, <1>3, <1>4, Zenon DEF Control, TypeOK
  <2>2. QED
    BY <1>1, <1>3, <2>1, Zenon DEF Data, Buffers, Booting, Control, TypeOK
<1>7. ~Installing /\ ~Installing'
  BY <1>1, <1>3, Zenon DEF Installing, CommitLabels, Control, TypeOK
<1>8. Header'
  BY <1>3, <1>7, Zenon DEF Data, Header, Booting
<1>9. \A i \in 1 .. Len(lh) : i < tail + 1 => dlog'[i] = BufferOf(lh[i])'
  <2>1. \A i \in 1 .. Len(lh) : lh[i] \in Blocks /\ BufferOf(lh[i])' = BufferOf(lh[i])
    BY <1>3, <1>5 DEF Control, TypeOK
  <2>2. \A i \in 1 .. Len(lh) : i < tail => dlog[i] = BufferOf(lh[i])
    BY <1>3, Zenon DEF Data, Progress
  <2>3. \A i \in 1 .. Len(lh) : i \in Slots
    BY <1>2, LogAssumption DEF Fits, Slots
  <2>4. \A i \in 1 .. Len(lh) : dlog'[i] = IF i = tail THEN BufferOf(b) ELSE dlog[i]
    BY <1>3, <2>3, Zenon DEF Control, TypeOK
  <2>5. QED
    BY <1>2, <2>1, <2>2, <2>4
<1>10. Progress'
  <2>1. tail = Len(lh) => \A i \in 1 .. Len(lh) : i < tail + 1
    BY <1>2
  <2>2. \A q \in Procs : IF q = p THEN pc'[q] = IF tail = Len(lh) THEN "head" ELSE "write"
                                  ELSE pc'[q] \notin CommitLabels
    BY <1>1, <1>3, Zenon DEF Control, TypeOK
  <2>3. QED
    BY <1>3, <1>9, <2>1, <2>2 DEF Progress, CommitLabels
<1>11. QED
  BY <1>6, <1>8, <1>10, Zenon DEF Data

LEMMA WriteHeadData ==
  ASSUME Control, Data, Fits, NEW p \in Procs, WriteHead(p) PROVE Data'
<1>1. /\ \A q \in Procs : pc[q] \in CommitLabels => q = p
      /\ \A c \in Blocks : ~Changed(c)
  BY CommitterAlone, Zenon DEF WriteHead, CommitLabels
<1>2. /\ mode = "run" /\ pc[p] = "head" /\ tail' = 1 /\ dhead' = lh
      /\ pc' = [pc EXCEPT ![p] = "install"]
      /\ UNCHANGED <<disk, dlog, buf, dirty, lh, blk, mode>>
  BY Zenon DEF WriteHead
<1>3. Buffers'
  BY <1>1, <1>2, Zenon DEF Data, Buffers, Booting
<1>4. ~Installing /\ Installing'
  BY <1>1, <1>2, Zenon DEF Installing, CommitLabels, Control, TypeOK
<1>5. Header'
  BY <1>2, <1>4, Zenon DEF Header, Booting, Fits
<1>6. \A i \in 1 .. Len(lh) : dlog[i] = BufferOf(lh[i])' /\ lh[i] \in dirty /\ ~(i < 1)
  BY <1>2, <1>4 DEF Data, Progress, Header, Booting, BufferOf
<1>7. \A q \in Procs : IF q = p THEN pc'[q] = "install" ELSE pc'[q] \notin CommitLabels
  BY <1>1, <1>2, Zenon DEF Control, TypeOK
<1>8. Progress'
  BY <1>2, <1>6, <1>7, Zenon DEF Progress, CommitLabels
<1>9. QED
  BY <1>3, <1>5, <1>8, Zenon DEF Data

LEMMA InstallTransData ==
  ASSUME Control, Data, Fits, NEW p \in Procs, InstallTrans(p) PROVE Data'
<1> DEFINE b == lh[tail]
<1>1. /\ \A q \in Procs : blk[q] = None /\ (pc[q] \in CommitLabels => q = p)
      /\ \A c \in Blocks : ~Changed(c)
  BY CommitterAlone, Zenon DEF InstallTrans, CommitLabels
<1>2. b \in Blocks /\ tail \in 1 .. Len(lh) /\ tail \in Slots /\ Len(lh) \in Nat
  BY LogAssumption DEF InstallTrans, Fits, Slots, Control, TypeOK
<1>3. /\ mode = "run" /\ pc[p] = "install" /\ tail' = tail + 1
      /\ disk' = [disk EXCEPT ![b] = dlog[tail]]
      /\ buf' = [buf EXCEPT ![b] = dlog[tail]] /\ dirty' = dirty \ {b}
      /\ pc' = IF tail = Len(lh) THEN [pc EXCEPT ![p] = "clear"] ELSE pc
      /\ UNCHANGED <<dlog, dhead, lh, blk, mode>>
  BY <1>2, Zenon DEF InstallTrans, InstallBlock, LogBlock
<1>4. dlog[tail] = BufferOf(b) /\ dlog[tail] # None
  BY <1>2, <1>3, LogAssumption DEF Data, Progress, Control, TypeOK
<1>5. \A c \in Blocks : BufferOf(c)' = BufferOf(c)
  BY <1>2, <1>3, <1>4, Zenon DEF BufferOf, Control, TypeOK
<1>6. Buffers'
  BY <1>1, <1>2, <1>3, <1>4, LogAssumption DEF Data, Buffers, Booting, Control, TypeOK
<1>7. Installing /\ Installing'
  BY <1>3, Zenon DEF Installing, Control, TypeOK
<1>8. Header'
  BY <1>3, <1>7, Zenon DEF Data, Header, Booting
<1>9. \A i \in 1 .. Len(lh) : dlog[i] = BufferOf(lh[i])'
  BY <1>2, <1>3, <1>5 DEF Data, Progress, Control, TypeOK
<1>10. \A i \in 1 .. Len(lh) :
         IF i < tail + 1 THEN disk'[lh[i]] = dlog[i] /\ lh[i] \notin dirty'
                         ELSE lh[i] \in dirty'
  <2>1. \A i \in 1 .. Len(lh) : lh[i] \in Blocks /\ (lh[i] = b => i = tail)
    BY <1>2 DEF Control, TypeOK, Distinct
  <2>2. \A i \in 1 .. Len(lh) : IF i < tail THEN disk[lh[i]] = dlog[i] /\ lh[i] \notin dirty
                                            ELSE lh[i] \in dirty
    BY <1>3, Zenon DEF Data, Progress
  <2>3. disk \in [Blocks -> Vals]
    BY Zenon DEF Control, TypeOK
  <2>4. QED
    BY <1>2, <1>3, <2>1, <2>2, <2>3
<1>11. tail = Len(lh) => dirty' = {} /\ \A i \in 1 .. Len(lh) : disk'[lh[i]] = dlog[i]
  <2>1. \A c \in dirty' : \E i \in 1 .. Len(lh) : lh[i] = c
    BY <1>3, Zenon DEF Data, Buffers, Contains
  <2>2. QED
    BY <1>2, <1>10, <2>1
<1>12. Progress'
  <2>1. \A q \in Procs : IF q = p THEN pc'[q] = IF tail = Len(lh) THEN "clear" ELSE "install"
                                  ELSE pc'[q] \notin CommitLabels
    BY <1>1, <1>3, Zenon DEF Control, TypeOK
  <2>2. QED
    BY <1>3, <1>9, <1>10, <1>11, <2>1 DEF Progress, CommitLabels
<1>13. QED
  BY <1>6, <1>8, <1>12, Zenon DEF Data

LEMMA ClearHeadData ==
  ASSUME Control, Data, NEW p \in Procs, ClearHead(p) PROVE Data'
<1>1. \A q \in Procs : pc[q] \in CommitLabels => q = p
  BY CommitterAlone, Zenon DEF ClearHead, CommitLabels
<1>2. /\ mode = "run" /\ pc[p] = "clear" /\ tail' = 1 /\ dhead' = <<>> /\ lh' = <<>>
      /\ pc' = [pc EXCEPT ![p] = "done"] /\ dirty = {}
      /\ UNCHANGED <<disk, dlog, buf, dirty, blk, mode>>
  BY Zenon DEF ClearHead, Data, Progress
<1>3. ~Installing' /\ \A q \in Procs : pc'[q] \in CommitLabels => pc'[q] = "done"
  BY <1>1, <1>2, Zenon DEF Installing, CommitLabels, Control, TypeOK
<1>4. \A c \in Blocks : Changed(c) => Changed(c)'
  BY <1>2, Zenon DEF Changed, Control, TypeOK
<1>5. Buffers'
  BY <1>2, <1>4, Zenon DEF Data, Buffers, Booting
<1>6. Header'
  BY <1>2, <1>3, LogAssumption DEF Header
<1>7. Progress'
  BY <1>2, <1>3, Zenon DEF Progress, CommitLabels
<1>8. QED
  BY <1>5, <1>6, <1>7, Zenon DEF Data

LEMMA CrashData ==
  ASSUME Control, Data, Crash PROVE Data'
<1>1. Buffers'
  BY Zenon DEF Crash, Buffers
<1>2. Header' /\ Progress'
  BY Zenon DEF Crash, Data, Header, Progress, Booting
<1>3. QED
  BY <1>1, <1>2, Zenon DEF Data

LEMMA ReadHeadData ==
  ASSUME Control, Data, ReadHead PROVE Data'
<1>1. /\ mode = "boot" /\ mode' = "recover" /\ lh' = dhead /\ tail = 1 /\ dirty = {}
      /\ \A p \in Procs : pc[p] = "idle"
      /\ UNCHANGED <<disk, dlog, dhead, buf, dirty, pc, blk, tail>>
  BY Zenon DEF ReadHead, Data, Progress, Buffers, Booting, Control, Phases
<1>2. Buffers'
  BY <1>1, Zenon DEF Data, Buffers, Booting, Changed
<1>3. Header' /\ Progress'
  BY <1>1 DEF Data, Header, Progress, Booting
<1>4. QED
  BY <1>2, <1>3, Zenon DEF Data

LEMMA RecoverInstallData ==
  ASSUME Control, Data, RecoverInstall PROVE Data'
<1> DEFINE b == lh[tail]
<1>1. /\ lh = dhead /\ dirty = {} /\ \A q \in Procs : pc[q] = "idle" /\ blk[q] = None
  BY Zenon DEF RecoverInstall, Control, Phases, Holders, HoldLabels, Booting, Data, Buffers
<1>2. b \in Blocks /\ tail \in 1 .. Len(lh) /\ tail \in Slots /\ Len(lh) \in Nat
  BY <1>1, LogAssumption DEF RecoverInstall, Data, Header, Slots, Control, TypeOK
<1>3. /\ mode = "recover" /\ tail' = tail + 1
      /\ disk' = [disk EXCEPT ![b] = dlog[tail]]
      /\ buf' = [buf EXCEPT ![b] = dlog[tail]] /\ dirty' = {}
      /\ UNCHANGED <<dlog, dhead, lh, pc, blk, mode>>
  BY <1>1, <1>2, Zenon DEF RecoverInstall, InstallBlock, LogBlock
<1>4. \A c \in Blocks : ~Changed(c)
  BY <1>1, Zenon DEF Changed
<1>5. Buffers'
  BY <1>1, <1>2, <1>3, <1>4, Zenon DEF Data, Buffers, Control, TypeOK
<1>6. \A i \in 1 .. Len(lh) : i < tail + 1 => disk'[lh[i]] = dlog[i]
  <2>1. \A i \in 1 .. Len(lh) : lh[i] \in Blocks /\ (i < tail => disk[lh[i]] = dlog[i])
                                /\ (lh[i] = b => i = tail)
    BY <1>2, <1>3 DEF Data, Progress, Control, TypeOK, Distinct
  <2>2. QED
    BY <1>2, <1>3, <2>1 DEF Control, TypeOK
<1>7. Header' /\ Progress'
  BY <1>1, <1>3, <1>6 DEF Data, Header, Progress, Booting
<1>8. QED
  BY <1>5, <1>7, Zenon DEF Data

LEMMA RecoverClearData ==
  ASSUME Control, Data, RecoverClear PROVE Data'
<1>1. /\ mode = "recover" /\ mode' = "run" /\ lh' = <<>> /\ dhead' = <<>> /\ tail' = 1
      /\ dirty = {} /\ \A q \in Procs : pc[q] = "idle"
      /\ UNCHANGED <<disk, dlog, buf, dirty, pc, blk>>
  BY Zenon DEF RecoverClear, Control, Phases, Booting, Data, Buffers
<1>2. Buffers'
  BY <1>1, Zenon DEF Data, Buffers, Booting, Changed
<1>3. Header' /\ Progress'
  BY <1>1, LogAssumption DEF Header, Progress, Installing
<1>4. QED
  BY <1>2, <1>3, Zenon DEF Data

LEMMA NextData == Control /\ Data /\ Fits /\ [Next]_vars => Data'
<1> SUFFICES ASSUME Control, Data, Fits, [Next]_vars PROVE Data'
  OBVIOUS
<1>1. CASE UNCHANGED vars
  <2>1. Buffers'
    BY <1>1, Zenon DEF vars, Data, Buffers, Booting, Changed
  <2>2. Header'
    BY <1>1, Zenon DEF vars, Data, Header, Booting, Installing
  <2>3. Progress'
    BY <1>1, Zenon DEF vars, Data, Progress, BufferOf
  <2>4. QED
    BY <2>1, <2>2, <2>3, Zenon DEF Data
<1>2. CASE Crash
  BY <1>2, CrashData, Zenon
<1>3. CASE Recover
  BY <1>3, ReadHeadData, RecoverInstallData, RecoverClearData, Zenon DEF Recover
<1>4. CASE \E b \in Blocks : Evict(b)
  BY <1>4, EvictData, Zenon
<1>5. ASSUME NEW p \in Procs, Call(p) \/ Step(p) PROVE Data'
  <2>1. CASE Call(p) \/ BeginOp(p) \/ LogWriteCheck(p) \/ LogWriteAppend(p)
             \/ Brelse(p) \/ EndOp(p)
    BY <2>1, CallData, BeginOpData, LogWriteCheckData, LogWriteAppendData,
       BrelseData, EndOpData, Zenon
  <2>2. CASE \E b \in Blocks : Bread(p, b)
    BY <2>2, BreadData, Zenon
  <2>3. CASE \E v \in Vals : Modify(p, v)
    BY <2>3, ModifyData, Zenon
  <2>4. CASE CommitStep(p)
    BY <2>4, CommitData, WriteLogData, WriteHeadData, InstallTransData,
       ClearHeadData, CommitDoneData, Zenon DEF CommitStep
  <2>5. QED
    BY <1>5, <2>1, <2>2, <2>3, <2>4, Zenon DEF Step
<1>6. QED
  BY <1>1, <1>2, <1>3, <1>4, <1>5, Zenon DEF Next

=============================================================================
