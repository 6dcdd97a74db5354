------------------------------ MODULE VmProof -------------------------------
(***************************************************************************)
(* The theorems about Vm, for any number of processes, frames and pages,   *)
(* any page size and any translation cache.                                *)
(***************************************************************************)
EXTENDS VmPages, VmSlots

(* The machine after userinit() satisfies the invariant.                   *)
LEMMA InitIInv ==
  ASSUME Counting, Init
  PROVE  IInv
<1> DEFINE k == NFrames
           d == NFrames - 1
           f == NFrames - 2
           e == [frame |-> f, flags |-> {"P", "W", "U"}]
<1>1. /\ freelist = [i \in 1 .. NFrames - 3 |-> NFrames - 2 - i]
      /\ refs = [g \in Frames |-> IF g >= f THEN 1 ELSE 0]
      /\ checksum = [g \in Frames |-> 0]
      /\ mem = [g \in Frames |-> IF g >= f THEN Zero ELSE Junk]
      /\ pt = [g \in Frames |-> IF g = d THEN [EmptyTable EXCEPT ![1] = e]
                                         ELSE EmptyTable]
      /\ pgdir = [p \in Procs |-> IF p = InitProc THEN d ELSE None]
      /\ kstack = [p \in Procs |-> IF p = InitProc THEN k ELSE None]
      /\ sz = [p \in Procs |-> IF p = InitProc THEN 2 * PGSIZE ELSE 0]
      /\ st = [p \in Procs |-> IF p = InitProc THEN "user" ELSE "unused"]
      /\ loc = [p \in Procs |-> NoLocals]
      /\ tlb = [p \in Procs |-> EmptyTable]
      /\ halted = "no"
  BY Zenon DEF Init
<1>2. /\ k \in Frames /\ d \in Frames /\ f \in Frames /\ k # d /\ d # f /\ k # f
      /\ k \in Nat /\ d \in Nat /\ f \in Nat /\ k = d + 1 /\ d = f + 1
      /\ \A g \in Frames : g \in Nat /\ (g >= f <=> g \in {f, d, k})
  BY ConstAssumption DEF Frames
<1>3. e \in Pte /\ NoPte \in Pte /\ e # NoPte /\ e.frame = f /\ e.flags = {"P", "W", "U"}
  BY <1>2, FrameIsNotNone, Zenon DEF Pte, NoPte, Flags
<1>4. 1 \in VPages /\ 0 \in VPages /\ EmptyTable \in [VPages -> Pte]
      /\ \A g \in VPages : EmptyTable[g] = NoPte
  BY <1>3, ConstAssumption DEF VPages, EmptyTable
<1>5. NoLocals \in Locals /\ NoLocals.dir = None /\ NoLocals.kid = None
  BY LocalsMade, Zenon
<1> HIDE DEF e
<1>6. /\ pt \in [Frames -> [VPages -> Pte]]
      /\ \A x \in Frames, g \in VPages :
           pt[x][g] = IF x = d /\ g = 1 THEN e ELSE NoPte
  BY <1>1, <1>2, <1>3, <1>4, Zenon
<1>7. 2 * PGSIZE \in 0 .. MaxSz /\ 0 \in 0 .. MaxSz /\ 1 * PGSIZE < 2 * PGSIZE
  <2>1. /\ 2 \in Int /\ 1 \in Int /\ NPages + 1 \in Int /\ PGSIZE \in Nat
        /\ 2 < NPages + 1
    BY ConstAssumption
  <2>2. 2 * PGSIZE < (NPages + 1) * PGSIZE /\ 1 * PGSIZE < 2 * PGSIZE
    BY <2>1, PagesApart
  <2>3. (NPages + 1) * PGSIZE \in Nat /\ 2 * PGSIZE \in Nat
    BY <2>1, ConstAssumption
  <2> QED BY <2>1, <2>2, <2>3 DEF MaxSz
<1>8. /\ freelist \in Seq(Frames) /\ Len(freelist) = NFrames - 3
      /\ \A i \in 1 .. NFrames - 3 : freelist[i] = NFrames - 2 - i
  BY <1>1, ConstAssumption DEF Frames
<1>9. Types
  <2>1. /\ refs \in [Frames -> Int] /\ checksum \in [Frames -> Int]
        /\ mem \in [Frames -> Contents]
    BY <1>1, ConstAssumption
  <2>2. /\ pgdir \in [Procs -> Frames \cup {None}] /\ kstack \in [Procs -> Frames \cup {None}]
        /\ sz \in [Procs -> 0 .. MaxSz]
    BY <1>1, <1>2, <1>7, Zenon
  <2>3. /\ st \in [Procs -> States] /\ loc \in [Procs -> Locals]
        /\ tlb \in [Procs -> [VPages -> Pte]]
    BY <1>1, <1>4, <1>5, Zenon DEF States
  <2> QED BY <2>1, <2>2, <2>3, <1>1, <1>6, <1>8, Zenon DEF Types
<1>10. \A v \in Frames : v \in KernelFrames <=> v = d \/ v = k
  BY <1>1, <1>2, <1>5, KernelFramesAre, FrameIsNotNone, ConstAssumption, ZenonT(30)
<1>11. Distinct
  BY <1>1, <1>2, <1>5, FrameIsNotNone, Zenon DEF Distinct
<1>12. NoPte.frame = None /\ NoPte.flags = {}
  BY Zenon DEF NoPte
<1>13. Private /\ Apart /\ ReadOnlyIsCow
  BY <1>2, <1>3, <1>6, <1>10, <1>12 DEF Private, Apart, ReadOnlyIsCow
<1>14. ASSUME NEW g \in Frames
       PROVE  refs[g] = Cardinality(PteHolders(g)) + (IF g \in KernelFrames THEN 1 ELSE 0)
  <2>1. refs[g] = IF g \in {f, d, k} THEN 1 ELSE 0
    BY <1>1, <1>2, Zenon
  <2>2. CASE g = f
    <3>1. PteHolders(g) = {<<d, 1>>}
      <4>1. \A x \in Frames, y \in VPages : pt[x][y].frame = g <=> x = d /\ y = 1
        BY <2>2, <1>2, <1>3, <1>6, <1>12, FrameIsNotNone, Zenon
      <4>2. d \in Frames /\ 1 \in VPages
        BY <1>2, <1>4, Zenon
      <4> HIDE DEF d
      <4> QED BY <4>1, <4>2 DEF PteHolders
    <3>2. Cardinality(PteHolders(g)) = 1
      BY <3>1, FinSingleton, Zenon
    <3> QED BY <2>1, <2>2, <3>2, <1>2, <1>10
  <2>3. CASE g # f
    <3>1. PteHolders(g) = {}
      BY <2>3, <1>3, <1>6, <1>12, FrameIsNotNone DEF PteHolders
    <3>2. Cardinality(PteHolders(g)) = 0
      BY <3>1, FinEmpty, Zenon
    <3> QED BY <2>1, <2>3, <3>2, <1>2, <1>10, SMTT(30)
  <2> QED BY <2>2, <2>3, Zenon
<1>15. FreeListed
  <2>1. \A g \in Frames : (\E i \in 1 .. NFrames - 3 : g = NFrames - 2 - i) <=> g < f
    <3>1. ASSUME NEW g \in Frames, g < f PROVE \E i \in 1 .. NFrames - 3 : g = NFrames - 2 - i
      <4>1. NFrames - 2 - g \in 1 .. NFrames - 3 /\ g = NFrames - 2 - (NFrames - 2 - g)
        BY <3>1, ConstAssumption DEF Frames
      <4> QED BY <4>1, Zenon
    <3> QED BY <3>1, ConstAssumption DEF Frames
  <2>2. \A g \in Frames : g \in FreeFrames <=> g < f
    BY <2>1, <1>8 DEF FreeFrames
  <2>3. \A g \in Frames : refs[g] = 0 <=> g < f
    BY <1>1, <1>2
  <2>4. \A g \in FreeFrames : g \in Frames
    BY <1>8 DEF FreeFrames
  <2>5. NoDup(freelist)
    BY <1>8, ConstAssumption DEF NoDup
  <2> QED BY <2>2, <2>3, <2>4, <2>5, Zenon DEF FreeListed
<1>16. Control
  <2>1. d \in Roots
    BY <1>1, ConstAssumption, ZenonT(40) DEF Roots
  <2>2. \A x \in Frames, g \in VPages :
          pt[x][g] # NoPte => x \in Roots /\ "P" \in pt[x][g].flags
    BY <2>1, <1>3, <1>6, Zenon
  <2>3. ASSUME NEW q \in Procs PROVE SlotControl(q)
    BY <1>1, <1>2, <1>5, FrameIsNotNone, Zenon DEF SlotControl, Live, States
  <2> QED BY <2>2, <2>3, Zenon DEF Control
<1>17. ASSUME NEW q \in Procs PROVE ProcLoops(q)
  <2>1. CASE q = InitProc
    <3>1. /\ st[q] = "user" /\ sz[q] = 2 * PGSIZE /\ pgdir[q] = d /\ loc[q].dir = None
          /\ tlb[q] = EmptyTable
      BY <2>1, <1>1, <1>5, Zenon
    <3>2. UserMapped(q)
      BY <3>1, <1>2, <1>6, <1>7, Zenon DEF UserMapped
    <3>3. TlbAgrees(q)
      BY <3>1, <1>4, Zenon DEF TlbAgrees
    <3>4. LoopBounds(q)
      BY <3>1, Zenon DEF LoopBounds
    <3> QED BY <3>1, <3>2, <3>3, <3>4, Zenon DEF ProcLoops
  <2>2. CASE q # InitProc
    BY <2>2, <1>1, Zenon DEF ProcLoops, Live
  <2> QED BY <2>1, <2>2, Zenon
<1>18. halted # "remap"
  BY <1>1, Zenon
<1>19. Counted
  BY <1>14, Zenon DEF Counted
<1> QED BY <1>9, <1>11, <1>13, <1>15, <1>16, <1>17, <1>18, <1>19, LoopsAreProcLoops, SMTT(30)
        DEF IInv, Sharing, Walks

(* Every step of the kernel keeps the invariant.                           *)
LEMMA KernelStep ==
  ASSUME Counting, IInv, NEW p \in Procs, Kernel(p)
  PROVE  IInv'
<1>1. CASE StoreHits(p) \/ StoreFaults(p)
  BY <1>1, StoreHitsStep, StoreFaultsStep, Zenon
<1>2. CASE DedupPage(p) \/ DedupReturn(p)
  BY <1>2, DedupPageStep, DedupReturnStep, Zenon
<1>3. CASE GrowPage(p) \/ GrowReturn(p) \/ ShrinkPage(p) \/ ShrinkReturn(p)
  BY <1>3, GrowPageStep, GrowReturnStep, ShrinkPageStep, ShrinkReturnStep, Zenon
<1>4. CASE ForkSetupKvm(p) \/ CopyUvmPage(p) \/ ForkReturn(p)
  BY <1>4, ForkSetupKvmStep, CopyUvmPageStep, ForkReturnStep, Zenon
<1>5. CASE (\E c \in Contents : ExecPage(p, c)) \/ ExecCommit(p)
  BY <1>5, ExecPageStep, ExecCommitStep, Zenon
<1>6. CASE FreevmPage(p) \/ FreevmRoot(p)
  BY <1>6, FreevmPageStep, FreevmRootStep, Zenon
<1> QED BY <1>1, <1>2, <1>3, <1>4, <1>5, <1>6, Zenon DEF Kernel

(* Every call a program makes keeps the invariant.                         *)
LEMMA ProgramStep ==
  ASSUME Counting, IInv, NEW p \in Procs, Program(p)
  PROVE  IInv'
<1>1. CASE \E pg \in VPages, v \in Contents : Store(p, pg, v)
  BY <1>1, StoreStep, Zenon
<1>2. CASE \E n \in 1 .. MaxSz : SysSbrkGrow(p, n) \/ SysSbrkShrink(p, n)
  BY <1>2, SysSbrkGrowStep, SysSbrkShrinkStep, Zenon
<1>3. CASE \E q \in Procs \ {p} : SysFork(p, q) \/ SysWait(p, q)
  BY <1>3, SysForkStep, SysWaitStep, Zenon
<1>4. CASE \E n \in TextPages : SysExec(p, n)
  BY <1>4, SysExecStep, Zenon
<1>5. CASE ExecBad(p) \/ SysDedup(p) \/ Exit(p)
  BY <1>5, ExecBadStep, SysDedupStep, ExitStep, Zenon
<1> QED BY <1>1, <1>2, <1>3, <1>4, <1>5, Zenon DEF Program

(* No step of the machine leaves the invariant.                            *)
LEMMA NextIInv ==
  ASSUME Counting, IInv, [Next]_vars
  PROVE  IInv'
<1>1. CASE UNCHANGED vars
  <2>1. UNCHANGED <<memory, pt, procs, st, loc, tlb, halted>>
    BY <1>1, Zenon DEF vars, memory, procs
  <2>2. halted \in {"no", "kalloc", "corrupt", "copyuvm: page not present", "init exiting"}
    BY Zenon DEF IInv, Types, Walks, Loops
  <2> QED BY <2>1, <2>2, HaltStep, Zenon
<1>2. CASE Next
  <2>1. CASE Halted
    BY <2>1, <1>1, Zenon DEF Halted
  <2>2. ASSUME NEW p \in Procs, Kernel(p) \/ Program(p) PROVE IInv'
    BY <2>2, KernelStep, ProgramStep, Zenon
  <2>3. ASSUME NEW p \in Procs, Hardware(p) PROVE IInv'
    BY <2>3, YieldStep, TlbFillStep, Zenon DEF Hardware
  <2> QED BY <1>2, <2>1, <2>2, <2>3, Zenon DEF Next
<1> QED BY <1>1, <1>2, Zenon

-----------------------------------------------------------------------------
(* What the invariant says, in the words of Vm.                            *)

(* At most one kernel pointer leads to a frame.                            *)
LEMMA OnePointer ==
  ASSUME Types, Distinct, NEW f \in Frames
  PROVE  /\ \A h, i \in KernelHolders(f) : h = i
         /\ KernelHolders(f) = {} <=> f \notin KernelFrames
<1>1. ASSUME NEW h \in KernelHolders(f), NEW i \in KernelHolders(f) PROVE h = i
  <2>1. /\ h \in Pointers /\ i \in Pointers /\ Pointer(h) = f /\ Pointer(i) = f
    BY Zenon DEF KernelHolders
  <2>2. /\ h = <<h[1], h[2]>> /\ i = <<i[1], i[2]>> /\ h[1] \in Procs /\ i[1] \in Procs
        /\ h[2] \in {"pgdir", "kstack", "dir"} /\ i[2] \in {"pgdir", "kstack", "dir"}
    BY <2>1 DEF Pointers
  <2>3. h[1] = i[1] /\ h[2] = i[2]
    BY <2>1, <2>2, FrameIsNotNone DEF Distinct, Pointer
  <2> QED BY <2>2, <2>3, Zenon
<1>2. ASSUME NEW h \in KernelHolders(f) PROVE f \in KernelFrames
  <2>1. h[1] \in Procs /\ h[2] \in {"pgdir", "kstack", "dir"} /\ Pointer(h) = f
    BY Zenon DEF KernelHolders, Pointers
  <2> QED BY <2>1, KernelFramesAre, Zenon DEF Pointer
<1>3. ASSUME f \in KernelFrames PROVE KernelHolders(f) # {}
  <2>1. PICK p \in Procs : pgdir[p] = f \/ kstack[p] = f \/ loc[p].dir = f
    BY <1>3, KernelFramesAre, Zenon
  <2>2. CASE pgdir[p] = f
    <3>1. <<p, "pgdir">> \in KernelHolders(f)
      BY <2>2, Zenon DEF KernelHolders, Pointers, Pointer
    <3> QED BY <3>1, Zenon
  <2>3. CASE kstack[p] = f
    <3>1. <<p, "kstack">> \in KernelHolders(f)
      BY <2>3, Zenon DEF KernelHolders, Pointers, Pointer
    <3> QED BY <3>1, Zenon
  <2>4. CASE loc[p].dir = f
    <3>1. <<p, "dir">> \in KernelHolders(f)
      BY <2>4, Zenon DEF KernelHolders, Pointers, Pointer
    <3> QED BY <3>1, Zenon
  <2> QED BY <2>1, <2>2, <2>3, <2>4, Zenon
<1> QED BY <1>1, <1>2, <1>3, Zenon

(* The invariant gives the type invariant: the counts are natural numbers. *)
LEMMA IInvTypeOK ==
  ASSUME Counting, IInv
  PROVE  TypeOK
<1>1. ASSUME NEW f \in Frames PROVE refs[f] \in Nat
  <2>1. Cardinality(PteHolders(f)) \in Nat
    BY EntriesFinite, FinType, Zenon
  <2> QED BY <2>1 DEF IInv, Sharing, Counted
<1>2. refs \in [Frames -> Nat]
  BY <1>1, Zenon DEF IInv, Types
<1> QED BY <1>2, Zenon DEF IInv, Types, TypeOK

(* The invariant gives the exact counts.                                   *)
LEMMA IInvRefsExact ==
  ASSUME Counting, IInv
  PROVE  RefsExact
<1>1. Types /\ Distinct /\ Counted /\ FreeListed
  BY Zenon DEF IInv, Sharing
<1>2. ASSUME NEW f \in Frames
      PROVE  Cardinality(KernelHolders(f)) = IF f \in KernelFrames THEN 1 ELSE 0
  <2>1. CASE f \in KernelFrames
    <3>1. PICK h : h \in KernelHolders(f)
      BY <2>1, <1>1, OnePointer, Zenon
    <3>2. KernelHolders(f) = {h}
      BY <3>1, <1>1, OnePointer
    <3> QED BY <2>1, <3>2, FinSingleton, Zenon
  <2>2. CASE f \notin KernelFrames
    BY <2>2, <1>1, OnePointer, FinEmpty, Zenon
  <2> QED BY <2>1, <2>2, Zenon
<1>3. \A f \in Frames : refs[f] = Cardinality(PteHolders(f)) + Cardinality(KernelHolders(f))
  BY <1>1, <1>2, Zenon DEF Counted
<1>4. FreeFrames = {f \in Frames : refs[f] = 0}
  BY <1>1, Zenon DEF FreeListed
<1>5. \A i, j \in 1 .. Len(freelist) : i # j => freelist[i] # freelist[j]
  BY <1>1, Zenon DEF FreeListed, NoDup
<1> QED BY <1>3, <1>4, <1>5, Zenon DEF RefsExact

(* The invariant gives the sharing discipline.                             *)
LEMMA IInvSharedIsCow ==
  ASSUME IInv
  PROVE  SharedIsCow
<1>1. Types /\ Distinct /\ Private /\ Apart
  BY Zenon DEF IInv, Sharing
<1>2. ASSUME NEW f \in Frames, NEW h \in PteHolders(f), NEW i \in PteHolders(f), h # i
      PROVE  /\ h[1] = i[1] /\ "COW" \in pt[h[1]][h[2]].flags
             /\ "W" \notin pt[h[1]][h[2]].flags
  <2>1. /\ h[1] \in Frames /\ h[2] \in VPages /\ i[1] \in Frames /\ i[2] \in VPages
        /\ pt[h[1]][h[2]].frame = f /\ pt[i[1]][i[2]].frame = f
        /\ h[1] # i[1] \/ h[2] # i[2]
    BY <1>2 DEF PteHolders
  <2> QED BY <2>1, <1>1, FrameIsNotNone DEF Private
<1>3. ASSUME NEW f \in Frames PROVE PteHolders(f) = {} \/ KernelHolders(f) = {}
  BY <1>1, OnePointer, FrameIsNotNone DEF Apart, PteHolders
<1>4. ASSUME NEW f \in Frames PROVE \A h, i \in KernelHolders(f) : h = i
  BY <1>1, OnePointer, Zenon
<1> QED BY <1>2, <1>3, <1>4 DEF SharedIsCow

-----------------------------------------------------------------------------
LOCAL FS == INSTANCE FiniteSetTheorems

(* The library counts the sets Vm counts.                                  *)
LEMMA FinSame ==
  ASSUME NEW S
  PROVE  /\ Cardinality(S) = FS!Cardinality(S)
         /\ IsFiniteSet(S) <=> FS!IsFiniteSet(S)
BY Zenon DEF Cardinality, FS!Cardinality, IsFiniteSet, FS!IsFiniteSet

(* The facts about finite sets that the other modules assume.              *)
LEMMA CountingHolds == Counting
<1>1. \A S : IsFiniteSet(S) => Cardinality(S) \in Nat
  BY FS!FS_CardinalityType, FinSame, Zenon
<1>2. /\ IsFiniteSet({}) /\ Cardinality({}) = 0
      /\ \A S : IsFiniteSet(S) => (Cardinality(S) = 0 <=> S = {})
  BY FS!FS_EmptySet, FinSame, Zenon
<1>3. ASSUME NEW S, NEW x, IsFiniteSet(S)
      PROVE  Cardinality(S \cup {x}) =
               IF x \in S THEN Cardinality(S) ELSE Cardinality(S) + 1
  BY <1>3, FS!FS_AddElement, FinSame
<1>4. ASSUME NEW S, NEW x, IsFiniteSet(S)
      PROVE  Cardinality(S \ {x}) =
               IF x \in S THEN Cardinality(S) - 1 ELSE Cardinality(S)
  BY <1>4, FS!FS_RemoveElement, FinSame, Zenon
<1>5. \A x : Cardinality({x}) = 1
  BY FS!FS_Singleton, FinSame, Zenon
<1>6. \A S : IsFiniteSet(S) => \A T \in SUBSET S : IsFiniteSet(T)
  BY FS!FS_Subset, FinSame, Zenon
<1>7. \A a, b \in Int : IsFiniteSet(a .. b)
  BY FS!FS_Interval, FinSame, Zenon
<1>8. ASSUME NEW S, NEW T, IsFiniteSet(S), IsFiniteSet(T)
      PROVE  IsFiniteSet(S \X T)
  BY <1>8, FS!FS_Product, FinSame, Zenon
<1> QED BY <1>1, <1>2, <1>3, <1>4, <1>5, <1>6, <1>7, <1>8, Zenon DEF Counting

-----------------------------------------------------------------------------
(* The inductive invariant holds in every reachable state.                 *)
THEOREM IInvHolds == Spec => []IInv
<1>1. Init => IInv
  BY InitIInv, CountingHolds, Zenon
<1>2. IInv /\ [Next]_vars => IInv'
  BY NextIInv, CountingHolds, Zenon
<1> QED BY <1>1, <1>2, PTL DEF Spec

(* Type correctness, for any number of processes, frames and pages: above  *)
(* all, no krelease() takes a reference count below zero.                  *)
THEOREM TypeCorrect == Spec => []TypeOK
<1>1. IInv => TypeOK
  BY IInvTypeOK, CountingHolds, SMTT(30)
<1> QED BY <1>1, IInvHolds, PTL

(* frameinfo[].refs is exactly the number of entries and kernel pointers   *)
(* that hold a frame, and the free list is exactly the frames with none:   *)
(* kalloc(), krelease(), kretain(), dedup(), copyonwrite(), fork(), exec(),*)
(* exit() and wait() leak no frame and free none twice or too early.       *)
THEOREM RefsAreExact == Spec => []RefsExact
<1>1. IInv => RefsExact
  BY IInvRefsExact, CountingHolds
<1> QED BY <1>1, IInvHolds, PTL

(* Only entries of one table share a frame, and only read-only and         *)
(* copy-on-write: a store through the table never shows on another page.   *)
THEOREM SharingIsCow == Spec => []SharedIsCow
<1>1. IInv => SharedIsCow
  BY IInvSharedIsCow, SMTT(30)
<1> QED BY <1>1, IInvHolds, PTL

(* copyonwrite() never meets a present page that is neither writable nor   *)
(* copy-on-write, so its krelease() without a copy is dead code.           *)
THEOREM ReadOnlyPagesAreCow == Spec => []ReadOnlyIsCow
<1>1. IInv => ReadOnlyIsCow
  BY Zenon DEF IInv, Sharing
<1> QED BY <1>1, IInvHolds, PTL

(* mappages() never finds the entry it is to fill present: no sequence of  *)
(* sbrk(), fork() and exec() reaches panic("remap").                       *)
THEOREM NeverRemaps == Spec => [](halted # "remap")
<1>1. IInv => halted # "remap"
  BY Zenon DEF IInv, Walks, Loops
<1> QED BY <1>1, IInvHolds, PTL
=============================================================================
