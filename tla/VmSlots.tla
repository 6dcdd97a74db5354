------------------------------ MODULE VmSlots -------------------------------
(***************************************************************************)
(* The slots of the process table: fork() and the table exec() starts fill *)
(* them, the end of exec(), freevm() and wait() empty them, and both keep  *)
(* the invariant.                                                          *)
(***************************************************************************)
EXTENDS VmInv

(* allocproc() takes a slot and a frame for its kernel stack.              *)
LEMMA SysForkStep ==
  ASSUME Counting, IInv, NEW p \in Procs, NEW np \in Procs, np # p, SysFork(p, np)
  PROVE  IInv'
<1>1. st[p] = "user" /\ st[np] = "unused"
  BY Zenon DEF SysFork, Running
<1>2. CASE KallocFault
  BY <1>2, HaltStep, Zenon DEF KallocFault
<1>3. CASE ~KallocFault
  <2> DEFINE l == Holding(None, np)
  <2>1. /\ st' = [st EXCEPT ![p] = "fork", ![np] = "embryo"]
        /\ loc' = [loc EXCEPT ![p] = l]
        /\ UNCHANGED <<checksum, mem, pt, pgdir, sz, tlb, halted>>
    BY <1>3, Zenon DEF SysFork
  <2>2. PICK k \in Frames : Kalloc(k) /\ kstack' = [kstack EXCEPT ![np] = k]
    BY <1>3, Zenon DEF SysFork
  <2>3. /\ freelist # <<>> /\ k = Head(freelist) /\ freelist' = Tail(freelist)
        /\ refs' = [refs EXCEPT ![k] = 1] /\ Types /\ Sharing /\ Control
    BY <2>2, ProcFacts, Zenon DEF Kalloc
  <2>4. /\ refs[k] = 0 /\ k \notin KernelFrames /\ FreeListed'
        /\ \A x \in Frames, g \in VPages : pt[x][g].frame # k
        /\ refs' \in [Frames -> Int] /\ freelist' \in Seq(Frames)
    BY <2>3, AllocFacts, Zenon
  <2>5. l \in Locals /\ l.dir = None /\ l.kid = np
    BY HoldingLocals, Zenon
  <2> HIDE DEF l
  <2>6. SlotControl(p) /\ SlotControl(np)
    BY ProcFacts, Zenon
  <2>7. /\ loc[p].dir = None /\ loc[p].kid = None /\ kstack[np] = None /\ pgdir[np] = None
        /\ loc[np].dir = None /\ loc[np].kid = None /\ pgdir[p] # None /\ kstack[p] # None
    BY <1>1, <2>6, Zenon DEF SlotControl, Live, States
  <2>8. /\ \A q \in Procs : q # np => kstack'[q] = kstack[q]
        /\ kstack'[np] = k /\ pgdir' = pgdir
        /\ \A q \in Procs : loc'[q].dir = loc[q].dir
        /\ \A q \in Procs : q # p => loc'[q] = loc[q]
        /\ loc'[p] = l
    BY <2>1, <2>2, <2>5, <2>7, Zenon DEF IInv, Types
  <2>9. /\ \A q \in Procs : q # p /\ q # np => st'[q] = st[q]
        /\ st'[p] = "fork" /\ st'[np] = "embryo"
    BY <2>1, Zenon DEF IInv, Types
  <2>10. Types'
    <3>1. /\ st' \in [Procs -> States] /\ kstack' \in [Procs -> Frames \cup {None}]
          /\ loc' \in [Procs -> Locals]
      BY <2>1, <2>2, <2>5, Zenon DEF IInv, Types, States
    <3> QED BY <3>1, <2>1, <2>4, Zenon DEF IInv, Types
  <2>11. \A v \in Frames : v \in KernelFrames' <=> v \in KernelFrames \/ v = k
    BY <2>7, <2>8, KernelFramesAre, FrameIsNotNone
  <2>12. Distinct'
    <3>1. \A q \in Procs : pgdir[q] # k /\ kstack[q] # k /\ loc[q].dir # k
      BY <2>4, KernelFramesAre, Zenon
    <3>2. Distinct
      BY <2>3, Zenon DEF Sharing
    <3> QED BY <3>1, <3>2, <2>7, <2>8, FrameIsNotNone DEF Distinct
  <2>13. Sharing'
    <3>1. ASSUME NEW v \in Frames
          PROVE  /\ refs'[v] = refs[v] + (IF v \in KernelFrames' THEN 1 ELSE 0)
                                       - (IF v \in KernelFrames THEN 1 ELSE 0)
                 /\ v \in KernelFrames' => \/ v \in KernelFrames
                                           \/ \A x \in Frames, g \in VPages :
                                                pt[x][g].frame # v
      <4>1. refs[v] \in Int /\ refs'[v] = IF v = k THEN 1 ELSE refs[v]
        BY <2>3, Zenon DEF Types
      <4> QED BY <4>1, <2>4, <2>11
    <3> QED BY <3>1, <2>1, <2>3, <2>4, <2>12, SharingPointers, Zenon
  <2>14. Control'
    <3>1. Roots' = Roots
      BY <2>8 DEF Roots
    <3>2. ASSUME NEW q \in Procs PROVE SlotControl(q)'
      <4>0. SlotControl(q) /\ \A r \in Procs : SlotControl(r)
        BY ProcFacts, Zenon
      <4>1. CASE q = p
        BY <4>0, <4>1, <1>1, <2>5, <2>7, <2>8, <2>9, FrameIsNotNone, SMTT(30) DEF SlotControl, Live, States
      <4>2. CASE q = np
        BY <4>0, <4>2, <1>1, <2>5, <2>7, <2>8, <2>9, FrameIsNotNone, SMTT(30) DEF SlotControl, Live, States
      <4>3. CASE q # p /\ q # np
        <5>1. loc[q].kid # np
          BY <1>1, KidState, Zenon
        <5>2. loc[q].kid # p
          BY <1>1, KidState, Zenon
        <5>3. loc[q].kid \in Procs \cup {None}
          BY ProcFacts, Zenon
        <5> QED BY <4>0, <4>3, <5>1, <5>2, <5>3, <2>5, <2>8, <2>9 DEF SlotControl
      <4> QED BY <4>1, <4>2, <4>3, Zenon
    <3> QED BY <3>1, <3>2, <2>1, <2>3, Zenon DEF Control
  <2>15. ASSUME NEW q \in Procs PROVE ProcLoops(q)'
    <3>1. CASE q = p
      <4>1. UserMapped(p) /\ TlbAgrees(p)
        BY <1>1, ProcFacts, Zenon DEF ProcLoops, Live, States
      <4>2. UserMapped(p)' /\ TlbAgrees(p)'
        BY <4>1, <1>1, <2>1, <2>9, Zenon DEF UserMapped, TlbAgrees
      <4>3. LoopBounds(p)'
        BY <2>9, Zenon DEF LoopBounds
      <4> QED BY <3>1, <4>2, <4>3, <2>5, <2>8, Zenon DEF ProcLoops
    <3>2. CASE q = np
      BY <3>2, <2>9, Zenon DEF ProcLoops, Live
    <3>3. CASE q # p /\ q # np
      BY <3>3, <2>1, <2>8, <2>9, OthersSameTables, Zenon
    <3> QED BY <3>1, <3>2, <3>3, Zenon
  <2>16. halted' # "remap"
    BY <2>1, ProcFacts, Zenon
  <2> QED BY <2>10, <2>13, <2>14, <2>15, <2>16, LoopsAreProcLoops, Zenon DEF IInv, Walks
<1> QED BY <1>2, <1>3, Zenon

(* The locals of a walk over a new table.                                  *)
Started(l, d, a, end) == [l EXCEPT !.dir = d, !.at = a, !.lim = end]

(* Such locals are well typed and keep the slot held.                      *)
LEMMA StartedLocals ==
  ASSUME NEW l \in Locals, NEW d \in Frames, NEW a \in 0 .. NPages + 1,
         NEW end \in 0 .. MaxSz
  PROVE  /\ Started(l, d, a, end) \in Locals
         /\ Started(l, d, a, end).dir = d /\ Started(l, d, a, end).kid = l.kid
         /\ Started(l, d, a, end).at = a /\ Started(l, d, a, end).lim = end
BY Zenon DEF Started, Locals

(* setupkvm(), in fork() and in exec(): the new table is empty because its *)
(* frame was free.                                                         *)
LEMMA SetupKvmStep ==
  ASSUME Counting, IInv, NEW p \in Procs, NEW s \in States, NEW a \in 0 .. NPages + 1,
         NEW end \in 0 .. MaxSz, SetupKvm(p, s, a, end),
         \/ st[p] = "fork" /\ s = "copy" /\ end = sz[p]
         \/ st[p] = "user" /\ s = "exec" /\ end \in 3 .. NPages /\ a = 1
  PROVE  IInv'
<1>1. PICK d \in Frames : /\ Kalloc(d) /\ mem' = [mem EXCEPT ![d] = Zero]
                          /\ loc' = [loc EXCEPT ![p].dir = d, ![p].at = a, ![p].lim = end]
  BY Zenon DEF SetupKvm
<1> DEFINE l == Started(loc[p], d, a, end)
<1>2. l \in Locals /\ l.dir = d /\ l.kid = loc[p].kid /\ l.at = a /\ l.lim = end
  BY ProcFacts, StartedLocals
<1>3. loc' = [loc EXCEPT ![p] = l]
  BY <1>1, Zenon DEF Started, IInv, Types
<1> HIDE DEF l
<1>4. st' = [st EXCEPT ![p] = s] /\ UNCHANGED <<checksum, pt, pgdir, kstack, sz, tlb, halted>>
  BY Zenon DEF SetupKvm, procs
<1>5. /\ freelist # <<>> /\ d = Head(freelist) /\ freelist' = Tail(freelist)
      /\ refs' = [refs EXCEPT ![d] = 1] /\ Types /\ Sharing /\ Control
  BY <1>1, ProcFacts, Zenon DEF Kalloc
<1>6. /\ refs[d] = 0 /\ d \notin KernelFrames /\ FreeListed'
      /\ \A x \in Frames, g \in VPages : pt[x][g].frame # d
      /\ refs' \in [Frames -> Int] /\ freelist' \in Seq(Frames)
  BY <1>5, AllocFacts, Zenon
<1>7. loc[p].dir = None
  BY ProcFacts, Zenon DEF SlotControl
<1>8. /\ \A q \in Procs : q # p => loc'[q] = loc[q] /\ st'[q] = st[q]
      /\ loc'[p] = l /\ st'[p] = s /\ loc'[p].dir = d
  BY <1>2, <1>3, <1>4, Zenon DEF IInv, Types
<1>9. Types'
  <2>1. st' \in [Procs -> States] /\ loc' \in [Procs -> Locals]
    BY <1>2, <1>3, <1>4, Zenon DEF IInv, Types
  <2>2. mem' \in [Frames -> Contents]
    BY <1>1, ConstAssumption, Zenon DEF IInv, Types
  <2> QED BY <2>1, <2>2, <1>4, <1>6, Zenon DEF IInv, Types
<1>10. \A v \in Frames : v \in KernelFrames' <=> v \in KernelFrames \/ v = d
  BY <1>4, <1>7, <1>8, KernelFramesAre, FrameIsNotNone
<1>11. \A q \in Procs : pgdir[q] # d /\ kstack[q] # d /\ loc[q].dir # d
  BY <1>6, KernelFramesAre, Zenon
<1>12. Distinct'
  <2>1. Distinct
    BY <1>5, Zenon DEF Sharing
  <2> QED BY <2>1, <1>4, <1>7, <1>8, <1>11, FrameIsNotNone DEF Distinct
<1>13. Sharing'
  <2>1. ASSUME NEW v \in Frames
        PROVE  /\ refs'[v] = refs[v] + (IF v \in KernelFrames' THEN 1 ELSE 0)
                                     - (IF v \in KernelFrames THEN 1 ELSE 0)
               /\ v \in KernelFrames' => \/ v \in KernelFrames
                                         \/ \A x \in Frames, g \in VPages :
                                              pt[x][g].frame # v
    <3>1. refs[v] \in Int /\ refs'[v] = IF v = d THEN 1 ELSE refs[v]
      BY <1>5, Zenon DEF Types
    <3> QED BY <3>1, <1>6, <1>10
  <2> QED BY <2>1, <1>4, <1>5, <1>6, <1>12, SharingPointers, Zenon
<1>14. d \notin Roots
  BY <1>11, Zenon DEF Roots
<1>15. \A g \in VPages : pt[d][g] = NoPte
  BY <1>5, <1>14, Zenon DEF Control
<1>16. Control'
  <2>1. \A x \in Frames : x \in Roots => x \in Roots'
    BY <1>4, <1>7, <1>8, FrameIsNotNone DEF Roots
  <2>2. ASSUME NEW q \in Procs PROVE SlotControl(q)'
    <3>0. SlotControl(q) /\ SlotControl(p)
      BY ProcFacts, Zenon
    <3>1. CASE q = p
      BY <3>0, <3>1, <1>2, <1>4, <1>8, FrameIsNotNone, ZenonT(40) DEF SlotControl, Live, States
    <3>2. CASE q # p
      <4>1. loc[q].kid # p
        BY KidState, Zenon
      <4>2. loc[q].kid \in Procs \cup {None}
        BY ProcFacts, Zenon
      <4> QED BY <3>0, <3>2, <4>1, <4>2, <1>2, <1>4, <1>8, SMTT(30) DEF SlotControl
    <3> QED BY <3>1, <3>2, Zenon
  <2> QED BY <2>1, <2>2, <1>4, <1>5, Zenon DEF Control
<1>17. ASSUME NEW q \in Procs PROVE ProcLoops(q)'
  <2>1. CASE q = p
    <3>1. UserMapped(p) /\ TlbAgrees(p)
      BY ProcFacts, Zenon DEF ProcLoops, Live, States
    <3>2. UserMapped(p)'
      BY <3>1, <1>4, <1>8, Zenon DEF UserMapped
    <3>3. TlbAgrees(p)'
      BY <3>1, <1>4, <1>8, Zenon DEF TlbAgrees
    <3>4. LoopBounds(p)'
      BY <1>2, <1>4, <1>8, ConstAssumption DEF LoopBounds
    <3>5. DirMapped(p)'
      BY <1>4, <1>8, <1>15, Zenon DEF DirMapped
    <3> QED BY <2>1, <3>2, <3>3, <3>4, <3>5, Zenon DEF ProcLoops
  <2>2. CASE q # p
    BY <2>2, <1>4, <1>8, OthersSameTables, Zenon
  <2> QED BY <2>1, <2>2, Zenon
<1>18. halted' # "remap"
  BY <1>4, ProcFacts, Zenon
<1> QED BY <1>9, <1>13, <1>16, <1>17, <1>18, LoopsAreProcLoops, Zenon DEF IInv, Walks

(* fork() gets the child's table.                                          *)
LEMMA ForkSetupKvmStep ==
  ASSUME Counting, IInv, NEW p \in Procs, ForkSetupKvm(p)
  PROVE  IInv'
<1>1. 1 \in 0 .. NPages + 1 /\ sz[p] \in 0 .. MaxSz
  BY ProcFacts, ConstAssumption
<1>2. CASE SetupKvm(p, "copy", 1, sz[p])
  BY <1>1, <1>2, SetupKvmStep, Zenon DEF ForkSetupKvm, States
<1>3. CASE KallocFault
  BY <1>3, HaltStep, Zenon DEF KallocFault
<1> QED BY <1>2, <1>3, Zenon DEF ForkSetupKvm

(* exec() gets its new table.                                              *)
LEMMA SysExecStep ==
  ASSUME Counting, IInv, NEW p \in Procs, NEW n \in TextPages, SysExec(p, n)
  PROVE  IInv'
<1>1. 1 \in 0 .. NPages + 1 /\ n + 2 \in 3 .. NPages /\ n + 2 \in 0 .. MaxSz
  BY ConstAssumption DEF MaxSz
<1>2. CASE SetupKvm(p, "exec", 1, n + 2)
  BY <1>1, <1>2, SetupKvmStep, Zenon DEF SysExec, Running, States
<1>3. CASE KallocFault
  BY <1>3, HaltStep, Zenon DEF KallocFault
<1> QED BY <1>2, <1>3, Zenon DEF SysExec

(* fork() returns: the table and the size become the child's.              *)
LEMMA ForkReturnStep ==
  ASSUME Counting, IInv, NEW p \in Procs, ForkReturn(p)
  PROVE  IInv'
<1> DEFINE np == loc[p].kid
           d == loc[p].dir
<1>1. /\ st[p] = "copy" /\ SlotControl(p) /\ Types /\ Sharing /\ Control
      /\ loc[p].lim = sz[p]
  BY ProcFacts, Zenon DEF ForkReturn, ProcLoops, LoopBounds, Live, States
<1>2. /\ np \in Procs /\ st[np] = "embryo" /\ np # p /\ d # None /\ d \in Frames
  BY <1>1, ProcFacts, Zenon DEF SlotControl
<1>3. SlotControl(np)
  BY <1>2, ProcFacts, Zenon
<1>4. /\ pgdir[np] = None /\ kstack[np] # None /\ loc[np].dir = None /\ loc[np].kid = None
  BY <1>2, <1>3, Zenon DEF SlotControl
<1>5. /\ pgdir' = [pgdir EXCEPT ![np] = d] /\ sz' = [sz EXCEPT ![np] = sz[p]]
      /\ st' = [st EXCEPT ![p] = "user", ![np] = "user"]
      /\ loc' = [loc EXCEPT ![p] = NoLocals]
      /\ tlb' = [tlb EXCEPT ![np] = EmptyTable]
      /\ UNCHANGED <<freelist, refs, checksum, mem, pt, kstack, halted>>
  BY Zenon DEF ForkReturn, memory
<1>6. \A g \in VPages : pt[d][g] # NoPte => g * PGSIZE < sz[p]
  <2>1. DirMapped(p)
    BY <1>1, <1>2, ProcFacts, Zenon DEF ProcLoops, Live, States
  <2> QED BY <2>1, <1>1, Zenon DEF DirMapped
<1>7. NoLocals \in Locals /\ NoLocals.dir = None /\ NoLocals.kid = None
  BY LocalsMade, Zenon
<1> HIDE DEF np, d
<1>8. /\ \A q \in Procs : q # np => /\ pgdir'[q] = pgdir[q] /\ sz'[q] = sz[q]
                                    /\ tlb'[q] = tlb[q]
      /\ pgdir'[np] = d /\ sz'[np] = sz[p] /\ tlb'[np] = EmptyTable
      /\ \A q \in Procs : q # p => loc'[q] = loc[q]
      /\ loc'[p].dir = None /\ loc'[p].kid = None
  BY <1>2, <1>5, <1>7, Zenon DEF Types, IInv
<1>9. /\ \A q \in Procs : q # p /\ q # np => st'[q] = st[q]
      /\ st'[p] = "user" /\ st'[np] = "user"
  BY <1>1, <1>2, <1>5, Zenon DEF Types
<1>10. Types'
  <2>1. st' \in [Procs -> States]
    BY <1>1, <1>5, Zenon DEF Types, States
  <2>2. /\ pgdir' \in [Procs -> Frames \cup {None}] /\ sz' \in [Procs -> 0 .. MaxSz]
        /\ loc' \in [Procs -> Locals]
    BY <1>1, <1>2, <1>5, <1>7, Zenon DEF Types
  <2>3. EmptyTable \in [VPages -> Pte]
    BY Zenon DEF EmptyTable, Pte
  <2>4. tlb' \in [Procs -> [VPages -> Pte]]
    BY <1>1, <1>5, <2>3, Zenon DEF Types
  <2> QED BY <2>1, <2>2, <2>4, <1>1, <1>5, Zenon DEF Types
<1>11. \A v \in Frames : v \in KernelFrames' <=> v \in KernelFrames
  <2>1. loc[p].dir = d
    BY Zenon DEF d
  <2> QED BY <2>1, <1>2, <1>4, <1>5, <1>8, KernelFramesAre, FrameIsNotNone
<1>12. Distinct'
  <2>1. loc[p].dir = d
    BY DEF d
  <2>2. Distinct
    BY <1>1, Zenon DEF Sharing
  <2> QED BY <2>1, <2>2, <1>2, <1>4, <1>5, <1>8, FrameIsNotNone, SMTT(30) DEF Distinct
<1>13. Sharing'
  <2>1. FreeListed'
    BY <1>1, <1>5, Zenon DEF Sharing, FreeListed, FreeFrames
  <2>2. \A v \in Frames : refs[v] \in Int
    BY <1>1, Zenon DEF Types
  <2> QED BY <2>1, <2>2, <1>1, <1>5, <1>11, <1>12, SharingPointers
<1>14. Control'
  <2>0. loc[p].dir = d /\ loc[p].kid = np
    BY Zenon DEF d, np
  <2>1. \A x \in Frames : x \in Roots => x \in Roots'
    BY <2>0, <1>2, <1>4, <1>8, FrameIsNotNone DEF Roots
  <2>2. ASSUME NEW q \in Procs PROVE SlotControl(q)'
    <3>0. SlotControl(q) /\ SlotControl(p)
      BY ProcFacts, Zenon
    <3>1. CASE q = p
      BY <3>0, <3>1, <1>1, <1>2, <1>5, <1>8, <1>9, ZenonT(40) DEF SlotControl, Live, States
    <3>2. CASE q = np
      BY <3>0, <3>2, <1>2, <1>4, <1>5, <1>8, <1>9, SMTT(30) DEF SlotControl, Live, States
    <3>3. CASE q # p /\ q # np
      <4>1. loc[q].kid # p
        BY <1>1, KidState, Zenon
      <4>2. loc[q].kid # np
        <5>1. np # None
          BY <1>2, ConstAssumption, Zenon
        <5>2. loc[p].kid # None => loc[p].kid # loc[q].kid
          BY <3>0, <3>3, Zenon DEF SlotControl
        <5> QED BY <5>1, <5>2, <2>0, Zenon
      <4>3. loc[q].kid \in Procs => /\ st'[loc[q].kid] = st[loc[q].kid]
                                    /\ pgdir'[loc[q].kid] = pgdir[loc[q].kid]
        BY <4>1, <4>2, <1>8, <1>9, Zenon
      <4>4. ASSUME loc[q].kid # None, NEW r \in Procs, r # q
            PROVE  loc'[r].kid # loc[q].kid
        <5>1. loc[r].kid # loc[q].kid
          BY <3>0, <4>4, Zenon DEF SlotControl
        <5> QED BY <5>1, <4>4, <1>8, Zenon
      <4> QED BY <3>3, <4>3, <4>4, <1>5, <1>8, <1>9, SlotKept, Zenon
    <3> QED BY <3>1, <3>2, <3>3, Zenon
  <2> QED BY <2>1, <2>2, <1>1, <1>5, Zenon DEF Control
<1>15. ASSUME NEW q \in Procs PROVE ProcLoops(q)'
  <2>1. CASE q = p
    <3>1. UserMapped(p) /\ TlbAgrees(p)
      BY <1>1, ProcFacts, Zenon DEF ProcLoops, Live, States
    <3>2. UserMapped(p)'
      BY <3>1, <1>1, <1>2, <1>5, <1>8, <1>9, Zenon DEF UserMapped
    <3>3. TlbAgrees(p)'
      BY <3>1, <1>2, <1>5, <1>8 DEF TlbAgrees
    <3>4. LoopBounds(p)'
      BY <1>9, Zenon DEF LoopBounds
    <3> QED BY <2>1, <3>2, <3>3, <3>4, <1>8, Zenon DEF ProcLoops
  <2>2. CASE q = np
    <3>1. /\ pgdir'[q] = d /\ sz'[q] = sz[p] /\ tlb'[q] = EmptyTable
          /\ st'[q] = "user" /\ loc'[q].dir = None
      BY <2>2, <1>2, <1>4, <1>8, <1>9, Zenon
    <3>2. UserMapped(q)'
      BY <3>1, <1>5, <1>6, Zenon DEF UserMapped
    <3>3. TlbAgrees(q)'
      BY <3>1, Zenon DEF TlbAgrees, EmptyTable
    <3>4. LoopBounds(q)'
      BY <3>1, Zenon DEF LoopBounds
    <3> QED BY <3>1, <3>2, <3>3, <3>4, Zenon DEF ProcLoops
  <2>3. CASE q # p /\ q # np
    BY <2>3, <1>5, <1>8, <1>9, OthersSameTables, Zenon
  <2> QED BY <2>1, <2>2, <2>3, Zenon
<1>16. halted' # "remap"
  BY <1>5, ProcFacts, Zenon
<1> QED BY <1>10, <1>13, <1>14, <1>15, <1>16, LoopsAreProcLoops, Zenon DEF IInv, Walks

-----------------------------------------------------------------------------
(* clearpteu() leaves the frame and the other bits alone.                  *)
LEMMA ClearedPte ==
  ASSUME NEW e \in Pte
  PROVE  /\ ClearPteU(e) \in Pte /\ ClearPteU(e).frame = e.frame
         /\ ClearPteU(e).flags = e.flags \ {"U"}
<1>1. CASE e = NoPte
  <2>1. ClearPteU(e) = NoPte
    BY <1>1 DEF ClearPteU, NoPte
  <2> QED BY <1>1, <2>1 DEF Pte, NoPte
<1>2. CASE e \in [frame: Frames, flags: SUBSET Flags]
  <2>1. /\ ClearPteU(e) \in [frame: Frames, flags: SUBSET Flags]
        /\ ClearPteU(e).frame = e.frame /\ ClearPteU(e).flags = e.flags \ {"U"}
    BY <1>2, Zenon DEF ClearPteU
  <2> QED BY <2>1, Zenon DEF Pte
<1> QED BY <1>1, <1>2, Zenon DEF Pte

(* exec() commits: the new table becomes the process's, the old one is to  *)
(* be freed.                                                               *)
LEMMA ExecCommitStep ==
  ASSUME Counting, IInv, NEW p \in Procs, ExecCommit(p)
  PROVE  IInv'
<1>1. /\ st[p] = "exec" /\ SlotControl(p) /\ Types /\ Sharing /\ Control
      /\ loc[p].lim \in 3 .. NPages /\ loc[p].at = loc[p].lim + 1
      /\ loc[p].at \in Nat
  <2>1. st[p] = "exec" /\ loc[p].at > loc[p].lim
    BY Zenon DEF ExecCommit
  <2>2. loc[p].lim \in 3 .. NPages /\ loc[p].at <= loc[p].lim + 1
    BY <2>1, ProcFacts, Zenon DEF ProcLoops, LoopBounds, Live, States
  <2>3. NPages \in Nat /\ loc[p].at \in Nat
    BY ConstAssumption, ProcFacts, Zenon
  <2> QED BY <2>1, <2>2, <2>3, ProcFacts
<1> DEFINE d == loc[p].dir
           o == pgdir[p]
           m == loc[p].lim
           l == Holding(pgdir[p], None)
<1>2. d \in Frames /\ o \in Frames /\ d # o /\ loc[p].kid = None /\ kstack[p] # None
  <2>1. st[p] \in Live /\ loc[p].dir # None /\ loc[p].kid = None /\ kstack[p] # None
    BY <1>1, Zenon DEF SlotControl, Live, States
  <2> QED BY <2>1, <1>1, OwnTables, Zenon
<1>3. /\ \A g \in VPages : pt[d][g] # NoPte => g < m + 1
  <2>1. DirMapped(p)
    BY <1>1, <1>2, FrameIsNotNone, ProcFacts, Zenon DEF ProcLoops, Live, States
  <2> QED BY <2>1, <1>1, Zenon DEF DirMapped
<1>4. l \in Locals /\ l.dir = o /\ l.kid = None /\ l.at = 0
  BY <1>2, HoldingLocals
<1>5. /\ pt' = [pt EXCEPT ![d][m - 1] = ClearPteU(pt[d][m - 1])]
      /\ pgdir' = [pgdir EXCEPT ![p] = d]
      /\ sz' = [sz EXCEPT ![p] = (m + 1) * PGSIZE]
      /\ tlb' = [tlb EXCEPT ![p] = EmptyTable]
      /\ st' = [st EXCEPT ![p] = "free"]
      /\ loc' = [loc EXCEPT ![p] = l]
      /\ UNCHANGED <<freelist, refs, checksum, mem, kstack, halted>>
  BY Zenon DEF ExecCommit, SwitchUvm, memory
<1>6. m \in 3 .. NPages /\ m - 1 \in VPages /\ m + 1 <= NPages + 1 /\ m \in Nat
  BY <1>1, ConstAssumption DEF VPages
<1>7. loc[p].dir = d /\ pgdir[p] = o
  BY Zenon
<1> HIDE DEF d, o, m, l
<1>8. /\ \A q \in Procs : q # p => /\ pgdir'[q] = pgdir[q] /\ sz'[q] = sz[q]
                                   /\ tlb'[q] = tlb[q] /\ st'[q] = st[q]
                                   /\ loc'[q] = loc[q]
      /\ pgdir'[p] = d /\ sz'[p] = (m + 1) * PGSIZE /\ tlb'[p] = EmptyTable
      /\ st'[p] = "free" /\ loc'[p].dir = o /\ loc'[p].kid = None /\ loc'[p].at = 0
  BY <1>1, <1>4, <1>5, ZenonT(40) DEF Types
<1>9. PICK e \in Pte : /\ e = ClearPteU(pt[d][m - 1]) /\ e.frame = pt[d][m - 1].frame
                       /\ e.flags = pt[d][m - 1].flags \ {"U"}
  <2>1. pt[d][m - 1] \in Pte
    BY <1>1, <1>2, <1>6, EntryTypes, Zenon
  <2> QED BY <2>1, ClearedPte, Zenon
<1>10. /\ pt' \in [Frames -> [VPages -> Pte]] /\ pt'[d][m - 1] = e
       /\ \A x \in Frames, g \in VPages : x # d \/ g # m - 1 => pt'[x][g] = pt[x][g]
  <2>1. pt' = [pt EXCEPT ![d][m - 1] = e] /\ pt \in [Frames -> [VPages -> Pte]]
    BY <1>1, <1>5, <1>9, Zenon DEF Types
  <2> QED BY <2>1, <1>2, <1>6, EntryUpdate
<1>11. \A x \in Frames, g \in VPages :
         /\ pt'[x][g].frame = pt[x][g].frame
         /\ \A b \in {"P", "W", "COW"} : b \in pt'[x][g].flags <=> b \in pt[x][g].flags
  BY <1>9, <1>10, Zenon
<1>12. \A x \in Frames, g \in VPages : pt'[x][g] # NoPte => pt[x][g] # NoPte
  <2>1. e # NoPte => pt[d][m - 1] # NoPte
    BY <1>9, <1>1, <1>2, <1>6, EntryTypes, PteFacts, Zenon
  <2> QED BY <2>1, <1>10, Zenon
<1>13. Types'
  <2>1. st' \in [Procs -> States]
    BY <1>1, <1>5, Zenon DEF Types, States
  <2>2. /\ pgdir' \in [Procs -> Frames \cup {None}] /\ loc' \in [Procs -> Locals]
    BY <1>1, <1>2, <1>4, <1>5, Zenon DEF Types
  <2>3. EmptyTable \in [VPages -> Pte]
    BY Zenon DEF EmptyTable, Pte
  <2>4. tlb' \in [Procs -> [VPages -> Pte]]
    BY <1>1, <1>5, <2>3, Zenon DEF Types
  <2>5. (m + 1) * PGSIZE \in 0 .. MaxSz
    <3>1. m + 1 \in Int /\ NPages + 1 \in Int /\ PGSIZE \in Nat
      BY <1>6, ConstAssumption
    <3>2. (m + 1) * PGSIZE <= (NPages + 1) * PGSIZE
      <4>1. CASE m + 1 = NPages + 1
        BY <4>1, <3>1
      <4>2. CASE m + 1 < NPages + 1
        <5>1. (m + 1) * PGSIZE < (NPages + 1) * PGSIZE
          BY <4>2, <3>1, PagesApart, Zenon
        <5> QED BY <5>1, <3>1
      <4> QED BY <4>1, <4>2, <1>6, <3>1
    <3>3. (m + 1) * PGSIZE \in Nat
      BY <1>6, <3>1
    <3> QED BY <3>2, <3>3, <3>1 DEF MaxSz
  <2>6. sz' \in [Procs -> 0 .. MaxSz]
    BY <2>5, <1>1, <1>5, Zenon DEF Types
  <2> QED BY <2>1, <2>2, <2>4, <2>6, <1>1, <1>5, <1>10, Zenon DEF Types
<1>14. \A v \in Frames : v \in KernelFrames' <=> v \in KernelFrames
  BY <1>2, <1>5, <1>7, <1>8, KernelFramesAre, FrameIsNotNone, SMTT(30)
<1>15. Distinct'
  <2>1. Distinct
    BY <1>1, Zenon DEF Sharing
  <2> QED BY <2>1, <1>2, <1>5, <1>7, <1>8, FrameIsNotNone DEF Distinct
<1>16. Sharing'
  <2>1. FreeListed'
    BY <1>1, <1>5, Zenon DEF Sharing, FreeListed, FreeFrames
  <2>2. \A v \in Frames : refs[v] \in Int
    BY <1>1, Zenon DEF Types
  <2> QED BY <2>1, <2>2, <1>1, <1>5, <1>11, <1>14, <1>15, SharingPointers
<1>17. Control'
  <2>1. \A x \in Frames : x \in Roots => x \in Roots'
    BY <1>2, <1>7, <1>8, FrameIsNotNone DEF Roots
  <2>2. ASSUME NEW q \in Procs PROVE SlotControl(q)'
    <3>0. SlotControl(q) /\ SlotControl(p)
      BY ProcFacts, Zenon
    <3>1. CASE q = p
      BY <3>0, <3>1, <1>2, <1>5, <1>8, FrameIsNotNone, SMTT(30) DEF SlotControl, Live, States
    <3>2. CASE q # p
      <4>1. loc[q].kid # p
        BY <1>1, KidState, Zenon
      <4>2. loc[q].kid \in Procs => /\ st'[loc[q].kid] = st[loc[q].kid]
                                    /\ pgdir'[loc[q].kid] = pgdir[loc[q].kid]
        BY <4>1, <1>8, Zenon
      <4>3. ASSUME loc[q].kid # None, NEW r \in Procs, r # q
            PROVE  loc'[r].kid # loc[q].kid
        <5>1. loc[r].kid # loc[q].kid
          BY <3>0, <4>3, Zenon DEF SlotControl
        <5> QED BY <5>1, <4>3, <1>8, Zenon
      <4> QED BY <3>2, <4>2, <4>3, <1>5, <1>8, SlotKept, Zenon
    <3> QED BY <3>1, <3>2, Zenon
  <2>3. \A x \in Frames, g \in VPages :
          pt'[x][g] # NoPte => x \in Roots' /\ "P" \in pt'[x][g].flags
    BY <2>1, <1>1, <1>11, <1>12, Zenon DEF Control
  <2> QED BY <2>2, <2>3, Zenon DEF Control
<1>18. ASSUME NEW q \in Procs PROVE ProcLoops(q)'
  <2>1. CASE q = p
    <3>2. UserMapped(p)'
      <4>1. ASSUME NEW g \in VPages, pt'[d][g] # NoPte
            PROVE  g * PGSIZE < (m + 1) * PGSIZE
        <5>1. g < m + 1 /\ g \in Int /\ m + 1 \in Int
          BY <4>1, <1>2, <1>3, <1>6, <1>12 DEF VPages
        <5> QED BY <5>1, PagesApart, Zenon
      <4> QED BY <4>1, <1>8, Zenon DEF UserMapped
    <3>3. TlbAgrees(p)'
      BY <1>8, Zenon DEF TlbAgrees, EmptyTable
    <3>4. LoopBounds(p)'
      BY <1>8, Zenon DEF LoopBounds
    <3>5. DirMapped(p)'
      BY <1>8 DEF DirMapped, VPages
    <3> QED BY <2>1, <3>2, <3>3, <3>4, <3>5, Zenon DEF ProcLoops
  <2>2. CASE q # p
    <3>1. /\ ProcLoops(q) /\ Distinct
      BY <1>1, ProcFacts, Zenon DEF Sharing
    <3>2. pgdir[q] # d /\ loc[q].dir # d
      BY <2>2, <3>1, <1>2, <1>7, FrameIsNotNone, Zenon DEF Distinct
    <3>3. /\ pgdir[q] \in Frames \cup {None} /\ loc[q].dir \in Frames \cup {None}
          /\ st[q] \in Live => pgdir[q] # None
      BY <1>1, ProcFacts, Zenon DEF Types, SlotControl
    <3>4. /\ st[q] \in Live => \A g \in VPages : pt'[pgdir[q]][g] = pt[pgdir[q]][g]
          /\ loc[q].dir # None => \A g \in VPages : pt'[loc[q].dir][g] = pt[loc[q].dir][g]
      BY <3>2, <3>3, <1>10, Zenon
    <3> QED BY <2>2, <3>1, <3>4, <1>8, OtherLoops, Zenon
  <2> QED BY <2>1, <2>2, Zenon
<1>19. halted' # "remap"
  BY <1>5, ProcFacts, Zenon
<1> QED BY <1>13, <1>16, <1>17, <1>18, <1>19, LoopsAreProcLoops, Zenon DEF IInv, Walks

(* freevm() frees the table, which is empty by now, and wait() makes the   *)
(* child's slot UNUSED.                                                    *)
LEMMA FreevmRootStep ==
  ASSUME Counting, IInv, NEW p \in Procs, FreevmRoot(p)
  PROVE  IInv'
<1> DEFINE d == loc[p].dir
           k == loc[p].kid
<1>1. /\ st[p] = "free" /\ SlotControl(p) /\ Types /\ Sharing /\ Control
      /\ loc[p].at > NPages
  BY ProcFacts, Zenon DEF FreevmRoot
<1>2. d \in Frames /\ pgdir[p] # None /\ kstack[p] # None /\ k \in Procs \cup {None}
  BY <1>1, ProcFacts, Zenon DEF SlotControl, Live, States
<1>3. \A g \in VPages : pt[d][g] = NoPte
  <2>1. DirMapped(p)
    BY <1>1, <1>2, FrameIsNotNone, ProcFacts, Zenon DEF ProcLoops, Live, States
  <2>2. loc[p].at \in Nat /\ NPages \in Nat
    BY ProcFacts, ConstAssumption, Zenon
  <2> QED BY <2>1, <2>2, <1>1 DEF DirMapped, VPages
<1>4. k \in Procs => /\ st[k] = "zombie" /\ pgdir[k] = None /\ kstack[k] = None
                     /\ loc[k].dir = None /\ loc[k].kid = None
  <2>1. SUFFICES ASSUME k \in Procs
                 PROVE  /\ st[k] = "zombie" /\ pgdir[k] = None /\ kstack[k] = None
                        /\ loc[k].dir = None /\ loc[k].kid = None
    BY Zenon
  <2>2. SlotControl(k) /\ k # None
    BY <2>1, ProcFacts, ConstAssumption, Zenon
  <2> QED BY <1>1, <2>2, Zenon DEF SlotControl
<1>5. /\ Krelease(d) /\ loc' = [loc EXCEPT ![p] = NoLocals]
      /\ st' = [q \in Procs |-> IF q = p THEN "user"
                                ELSE IF q = k THEN "unused" ELSE st[q]]
      /\ UNCHANGED <<checksum, pt, pgdir, kstack, sz, tlb, halted>>
  BY Zenon DEF FreevmRoot, procs
<1>6. NoLocals \in Locals /\ NoLocals.dir = None /\ NoLocals.kid = None
  BY LocalsMade, Zenon
<1>7. loc[p].dir = d /\ loc[p].kid = k
  BY Zenon
<1> HIDE DEF d, k
<1>8. d \in KernelFrames
  BY <1>7, KernelFramesAre, Zenon
<1>9. refs[d] = 1 /\ \A x \in Frames, g \in VPages : pt[x][g].frame # d
  BY <1>1, <1>2, <1>8, KernelFrameCounts, Zenon
<1>10. /\ FreeListed' /\ refs' \in [Frames -> Int] /\ freelist' \in Seq(Frames)
       /\ mem' \in [Frames -> Contents]
  BY <1>1, <1>2, <1>5, <1>9, ReleaseFacts
<1>11. /\ \A q \in Procs : q # p => loc'[q] = loc[q]
       /\ \A q \in Procs : q # p /\ q # k => st'[q] = st[q]
       /\ loc'[p].dir = None /\ loc'[p].kid = None /\ st'[p] = "user"
       /\ \A q \in Procs : q # p /\ q = k => st'[q] = "unused"
  BY <1>1, <1>5, <1>6, Zenon DEF Types
<1>12. Types'
  <2>1. st' \in [Procs -> States]
    BY <1>1, <1>5, Zenon DEF Types, States
  <2>2. loc' \in [Procs -> Locals]
    BY <1>1, <1>5, <1>6, Zenon DEF Types
  <2> QED BY <2>1, <2>2, <1>1, <1>5, <1>10, Zenon DEF Types
<1>13. Distinct
  BY <1>1, Zenon DEF Sharing
<1>14. \A v \in Frames : v \in KernelFrames' <=> v \in KernelFrames /\ v # d
  BY <1>2, <1>5, <1>7, <1>11, <1>13, KernelFramesAre, FrameIsNotNone, SMTT(30) DEF Distinct
<1>15. Distinct'
  BY <1>5, <1>11, <1>13 DEF Distinct
<1>16. Sharing'
  <2>1. ASSUME NEW v \in Frames
        PROVE  /\ refs'[v] = refs[v] + (IF v \in KernelFrames' THEN 1 ELSE 0)
                                     - (IF v \in KernelFrames THEN 1 ELSE 0)
               /\ v \in KernelFrames' => v \in KernelFrames
    <3>1. refs[v] \in Int /\ refs'[v] = IF v = d THEN refs[d] - 1 ELSE refs[v]
      BY <1>1, <1>5, Zenon DEF Types, Krelease
    <3> QED BY <3>1, <1>8, <1>9, <1>14
  <2> QED BY <2>1, <1>1, <1>5, <1>10, <1>15, SharingPointers, Zenon
<1>17. Control'
  <2>1. \A x \in Frames : x \in Roots /\ x # d => x \in Roots'
    BY <1>5, <1>7, <1>11 DEF Roots
  <2>2. ASSUME NEW q \in Procs PROVE SlotControl(q)'
    <3>0. SlotControl(q) /\ SlotControl(p)
      BY ProcFacts, Zenon
    <3>1. CASE q = p
      BY <3>1, <1>2, <1>5, <1>11, Zenon DEF SlotControl, Live, States
    <3>2. CASE q # p /\ q = k
      <4>1. /\ pgdir'[q] = None /\ kstack'[q] = None /\ loc'[q].dir = None
            /\ loc'[q].kid = None /\ st'[q] = "unused"
        BY <3>2, <1>4, <1>5, <1>11, ZenonT(40)
      <4> QED BY <4>1, Zenon DEF SlotControl, Live
    <3>3. CASE q # p /\ q # k
      <4>1. loc[q].kid # p
        BY <1>1, KidState, Zenon
      <4>2. loc[q].kid \in Procs => loc[q].kid # k
        <5>1. loc[q].kid \in Procs => loc[q].kid # None
          BY ConstAssumption, Zenon
        <5>2. loc[q].kid # None => loc[q].kid # loc[p].kid
          BY <3>0, <3>3, Zenon DEF SlotControl
        <5> QED BY <5>1, <5>2, <1>7, Zenon
      <4>3. loc[q].kid \in Procs => /\ st'[loc[q].kid] = st[loc[q].kid]
                                    /\ pgdir'[loc[q].kid] = pgdir[loc[q].kid]
        BY <4>1, <4>2, <1>5, <1>11, Zenon
      <4>4. ASSUME loc[q].kid # None, NEW r \in Procs, r # q
            PROVE  loc'[r].kid # loc[q].kid
        <5>1. loc[r].kid # loc[q].kid
          BY <3>0, <4>4, Zenon DEF SlotControl
        <5> QED BY <5>1, <4>4, <1>11, Zenon
      <4> QED BY <3>3, <4>3, <4>4, <1>5, <1>11, SlotKept, Zenon
    <3> QED BY <3>1, <3>2, <3>3, Zenon
  <2>3. \A x \in Frames, g \in VPages :
          pt'[x][g] # NoPte => x \in Roots' /\ "P" \in pt'[x][g].flags
    BY <2>1, <1>1, <1>3, <1>5, Zenon DEF Control
  <2> QED BY <2>2, <2>3, Zenon DEF Control
<1>18. ASSUME NEW q \in Procs PROVE ProcLoops(q)'
  <2>1. CASE q = p
    <3>1. UserMapped(p) /\ TlbAgrees(p)
      BY <1>1, ProcFacts, Zenon DEF ProcLoops, Live, States
    <3>2. UserMapped(p)'
      BY <3>1, <1>1, <1>5, <1>11, Zenon DEF UserMapped
    <3>3. TlbAgrees(p)'
      BY <3>1, <1>5, Zenon DEF TlbAgrees
    <3>4. LoopBounds(p)'
      BY <1>11, Zenon DEF LoopBounds
    <3> QED BY <2>1, <3>2, <3>3, <3>4, <1>11, Zenon DEF ProcLoops
  <2>2. CASE q # p /\ q = k
    BY <2>2, <1>11, Zenon DEF ProcLoops, Live
  <2>3. CASE q # p /\ q # k
    BY <2>3, <1>5, <1>11, OthersSameTables, Zenon
  <2> QED BY <2>1, <2>2, <2>3, Zenon
<1>19. halted' # "remap"
  BY <1>5, ProcFacts, Zenon
<1> QED BY <1>12, <1>16, <1>17, <1>18, <1>19, LoopsAreProcLoops, Zenon DEF IInv, Walks

(* wait() frees the child's kernel stack and takes over its table.         *)
LEMMA SysWaitStep ==
  ASSUME Counting, IInv, NEW p \in Procs, NEW z \in Procs, z # p, SysWait(p, z)
  PROVE  IInv'
<1> DEFINE d == pgdir[z]
           k == kstack[z]
           l == Holding(pgdir[z], z)
<1>1. /\ st[p] = "user" /\ st[z] = "zombie" /\ pgdir[z] # None
      /\ Types /\ Sharing /\ Control
  BY ProcFacts, Zenon DEF SysWait, Running
<1>2. /\ d \in Frames /\ k \in Frames /\ d # k
      /\ pgdir[p] # None /\ kstack[p] # None /\ loc[p].dir = None /\ loc[p].kid = None
      /\ loc[z].dir = None /\ loc[z].kid = None
  <2>1. SlotControl(z) /\ SlotControl(p) /\ Distinct
    BY <1>1, ProcFacts, Zenon DEF Sharing
  <2>2. k # None
    BY <1>1, <2>1, Zenon DEF SlotControl
  <2> QED BY <1>1, <2>1, <2>2, Zenon DEF SlotControl, Types, Live, States, Distinct
<1>3. l \in Locals /\ l.dir = d /\ l.kid = z /\ l.at = 0
  BY <1>2, HoldingLocals, ZenonT(30)
<1>4. /\ Krelease(k) /\ kstack' = [kstack EXCEPT ![z] = None]
      /\ pgdir' = [pgdir EXCEPT ![z] = None]
      /\ st' = [st EXCEPT ![p] = "free"]
      /\ loc' = [loc EXCEPT ![p] = l]
      /\ UNCHANGED <<checksum, pt, sz, tlb, halted>>
  BY Zenon DEF SysWait
<1>5. kstack[z] = k /\ pgdir[z] = d
  BY Zenon
<1> HIDE DEF d, k, l
<1>6. k \in KernelFrames
  BY <1>5, KernelFramesAre, Zenon
<1>7. refs[k] = 1 /\ \A x \in Frames, g \in VPages : pt[x][g].frame # k
  BY <1>1, <1>2, <1>6, KernelFrameCounts, Zenon
<1>8. /\ FreeListed' /\ refs' \in [Frames -> Int] /\ freelist' \in Seq(Frames)
      /\ mem' \in [Frames -> Contents]
  BY <1>1, <1>2, <1>4, <1>7, ReleaseFacts
<1>9. /\ \A q \in Procs : q # p => loc'[q] = loc[q] /\ st'[q] = st[q]
      /\ \A q \in Procs : q # z => pgdir'[q] = pgdir[q] /\ kstack'[q] = kstack[q]
      /\ loc'[p].dir = d /\ loc'[p].kid = z /\ st'[p] = "free" /\ loc'[p].at = 0
      /\ pgdir'[z] = None /\ kstack'[z] = None
  BY <1>1, <1>3, <1>4, Zenon DEF Types
<1>10. Types'
  <2>1. st' \in [Procs -> States] /\ loc' \in [Procs -> Locals]
    BY <1>1, <1>3, <1>4, Zenon DEF Types, States
  <2>2. /\ pgdir' \in [Procs -> Frames \cup {None}] /\ kstack' \in [Procs -> Frames \cup {None}]
    BY <1>1, <1>4, Zenon DEF Types
  <2> QED BY <2>1, <2>2, <1>1, <1>4, <1>8, Zenon DEF Types
<1>11. Distinct
  BY <1>1, Zenon DEF Sharing
<1>12. \A v \in Frames : v \in KernelFrames' <=> v \in KernelFrames /\ v # k
  <2>1. \A q \in Procs : /\ pgdir[q] # k /\ loc[q].dir # k
                         /\ q # z => kstack[q] # k
    BY <1>2, <1>5, <1>11, FrameIsNotNone, Zenon DEF Distinct
  <2> QED BY <2>1, <1>2, <1>5, <1>9, KernelFramesAre, FrameIsNotNone
<1>13. Distinct'
  <2>1. /\ d # None /\ z # p
        /\ \A q \in Procs : /\ kstack[q] # d /\ loc[q].dir # d
                            /\ q # z => pgdir[q] # d
    BY <1>2, <1>5, <1>11, FrameIsNotNone, Zenon DEF Distinct
  <2>2. ASSUME NEW q \in Procs, NEW r \in Procs, q # r
        PROVE  /\ pgdir'[q] # None => pgdir'[q] # pgdir'[r]
               /\ kstack'[q] # None => kstack'[q] # kstack'[r]
    BY <2>2, <1>9, <1>11 DEF Distinct
  <2>3. ASSUME NEW q \in Procs, NEW r \in Procs, q # r
        PROVE  loc'[q].dir # None => loc'[q].dir # loc'[r].dir
    BY <2>1, <2>3, <1>9, <1>11 DEF Distinct
  <2>4. ASSUME NEW q \in Procs, NEW r \in Procs
        PROVE  pgdir'[q] # None => pgdir'[q] # kstack'[r] /\ pgdir'[q] # loc'[r].dir
    BY <2>1, <1>9, <1>11 DEF Distinct
  <2>5. ASSUME NEW q \in Procs, NEW r \in Procs
        PROVE  kstack'[q] # None => kstack'[q] # loc'[r].dir
    BY <2>1, <1>9, <1>11 DEF Distinct
  <2> QED BY <2>2, <2>3, <2>4, <2>5, Zenon DEF Distinct
<1>14. Sharing'
  <2>1. ASSUME NEW v \in Frames
        PROVE  /\ refs'[v] = refs[v] + (IF v \in KernelFrames' THEN 1 ELSE 0)
                                     - (IF v \in KernelFrames THEN 1 ELSE 0)
               /\ v \in KernelFrames' => v \in KernelFrames
    <3>1. refs[v] \in Int /\ refs'[v] = IF v = k THEN refs[k] - 1 ELSE refs[v]
      BY <1>1, <1>4, Zenon DEF Types, Krelease
    <3> QED BY <3>1, <1>6, <1>7, <1>12
  <2> QED BY <2>1, <1>1, <1>4, <1>8, <1>13, SharingPointers, Zenon
<1>15. Control'
  <2>1. \A x \in Frames : x \in Roots => x \in Roots'
    BY <1>2, <1>5, <1>9, FrameIsNotNone DEF Roots
  <2>2. ASSUME NEW q \in Procs PROVE SlotControl(q)'
    <3>0. SlotControl(q) /\ SlotControl(p) /\ z # None /\ \A r \in Procs : loc[r].kid # z
      BY <1>1, KidState, ProcFacts, ConstAssumption, Zenon
    <3>1. CASE q = p
      BY <3>0, <3>1, <1>1, <1>2, <1>9, FrameIsNotNone, Zenon DEF SlotControl, Live, States
    <3>2. CASE q = z
      <4>1. /\ pgdir'[q] = None /\ kstack'[q] = None /\ loc'[q].dir = None
            /\ loc'[q].kid = None /\ st'[q] = "zombie"
        BY <3>2, <1>1, <1>2, <1>9, Zenon
      <4> QED BY <4>1, Zenon DEF SlotControl, Live
    <3>3. CASE q # p /\ q # z
      <4>1. loc[q].kid # p /\ loc[q].kid # z
        BY <3>0, <1>1, KidState, Zenon
      <4>3. loc[q].kid \in Procs => /\ st'[loc[q].kid] = st[loc[q].kid]
                                    /\ pgdir'[loc[q].kid] = pgdir[loc[q].kid]
        BY <4>1, <1>9, Zenon
      <4>4. ASSUME loc[q].kid # None, NEW r \in Procs, r # q
            PROVE  loc'[r].kid # loc[q].kid
        <5>1. loc[r].kid # loc[q].kid
          BY <3>0, <4>4, Zenon DEF SlotControl
        <5> QED BY <5>1, <4>1, <4>4, <1>9, Zenon
      <4> QED BY <3>3, <4>3, <4>4, <1>9, SlotKept, Zenon
    <3> QED BY <3>1, <3>2, <3>3, Zenon
  <2> QED BY <2>1, <2>2, <1>1, <1>4, Zenon DEF Control
<1>16. ASSUME NEW q \in Procs PROVE ProcLoops(q)'
  <2>1. CASE q = p
    <3>1. UserMapped(p) /\ TlbAgrees(p)
      BY <1>1, ProcFacts, Zenon DEF ProcLoops, Live, States
    <3>2. UserMapped(p)'
      BY <3>1, <1>1, <1>4, <1>9, Zenon DEF UserMapped
    <3>3. TlbAgrees(p)'
      BY <3>1, <1>4, <1>9 DEF TlbAgrees
    <3>4. LoopBounds(p)'
      BY <1>9, Zenon DEF LoopBounds
    <3>5. DirMapped(p)'
      BY <1>9 DEF DirMapped, VPages
    <3> QED BY <2>1, <3>2, <3>3, <3>4, <3>5, Zenon DEF ProcLoops
  <2>2. CASE q = z
    BY <2>2, <1>1, <1>9, Zenon DEF ProcLoops, Live
  <2>3. CASE q # p /\ q # z
    BY <2>3, <1>4, <1>9, OthersSameTables, Zenon
  <2> QED BY <2>1, <2>2, <2>3, Zenon
<1>17. halted' # "remap"
  BY <1>4, ProcFacts, Zenon
<1> QED BY <1>10, <1>14, <1>15, <1>16, <1>17, LoopsAreProcLoops, Zenon DEF IInv, Walks
=============================================================================
