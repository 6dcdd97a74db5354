------------------------------ MODULE VmPages -------------------------------
(***************************************************************************)
(* The pages of one process: copyonwrite() and dedup(), and the loops that *)
(* fill and empty a table in sbrk(), copyuvm(), exec() and freevm(), keep  *)
(* the invariant page by page.                                             *)
(***************************************************************************)
EXTENDS VmInv

(* copyonwrite(): the entry moves to a frame of the free list, and its old *)
(* frame is released.                                                      *)
LEMMA SharingCopy ==
  ASSUME Counting, Types, Sharing, SamePointers,
         NEW p \in Procs, NEW d \in Frames, d = pgdir[p],
         NEW pg \in VPages, pg = loc[p].at,
         NEW old \in Frames, pt[d][pg].frame = old,
         NEW new, freelist # <<>>, new = Head(freelist), CowCopy(p, old, new)
  PROVE  /\ Sharing' /\ pt' \in [Frames -> [VPages -> Pte]]
         /\ refs' \in [Frames -> Int] /\ freelist' \in Seq(Frames)
         /\ mem' \in [Frames -> Contents]
         /\ pt'[d][pg] = [frame |-> new, flags |-> {"P", "U", "W"}]
         /\ \A x \in Frames, g \in VPages :
              x # d \/ g # pg => pt'[x][g] = pt[x][g]
<1> DEFINE e == [frame |-> new, flags |-> {"P", "U", "W"}]
<1>a. /\ refs' = [refs EXCEPT ![new] = 1, ![old] = @ - 1]
      /\ freelist' = IF refs[old] = 1 THEN <<old>> \o Tail(freelist) ELSE Tail(freelist)
      /\ mem' = [mem EXCEPT ![new] = mem[old], ![old] = IF refs[old] = 1 THEN Junk ELSE @]
      /\ pt' = [pt EXCEPT ![d][pg] = e]
  BY Zenon DEF CowCopy, CowCopyWith
<1>b. /\ freelist \in Seq(Frames) /\ refs \in [Frames -> Int] /\ NoDup(freelist)
      /\ mem \in [Frames -> Contents] /\ FreeFrames = Elems(freelist)
      /\ pt \in [Frames -> [VPages -> Pte]]
      /\ FreeFrames = {f \in Frames : refs[f] = 0}
  BY ZenonT(40) DEF Types, Sharing, FreeListed, FreeFrames, Elems
<1>1. /\ new \in Frames /\ new # None /\ refs[new] = 0
      /\ Tail(freelist) \in Seq(Frames) /\ NoDup(Tail(freelist))
      /\ Elems(Tail(freelist)) = FreeFrames \ {new}
  BY <1>b, TakeHead, FrameIsNotNone, Zenon
<1>2. new \notin KernelFrames /\ Cardinality(PteHolders(new)) = 0
  BY <1>1, EntriesFinite DEF Sharing, Counted
<1>3. \A x \in Frames, g \in VPages : pt[x][g].frame # new
  BY <1>2, EntryCounts
<1>4. refs[old] >= 1
  <2>1. Cardinality(PteHolders(old)) >= 1
    BY EntryCounts, Zenon
  <2> QED BY <2>1, EntriesFinite DEF Sharing, Counted
<1>5. old # new
  BY <1>1, <1>4
<1>6. refs' \in [Frames -> Int] /\ mem' \in [Frames -> Contents]
        /\ \A f \in Frames : refs'[f] = IF f = new THEN 1 ELSE IF f = old THEN refs[f] - 1
                                                                ELSE refs[f]
  <2>1. refs' \in [Frames -> Int]
    BY <1>a, <1>b
  <2>2. mem' \in [Frames -> Contents]
    BY <1>a, <1>b, ConstAssumption, Zenon
  <2>3. ASSUME NEW f \in Frames
        PROVE  refs'[f] = IF f = new THEN 1 ELSE IF f = old THEN refs[f] - 1 ELSE refs[f]
    BY <1>a, <1>b, <1>1, <1>5, Zenon
  <2> QED BY <2>1, <2>2, <2>3, Zenon
<1>7. FreeListed' /\ freelist' \in Seq(Frames)
  <2>0. FreeFrames' = Elems(freelist')
    BY Zenon DEF FreeFrames, Elems
  <2>1. CASE refs[old] = 1
    <3>1. old \notin Elems(Tail(freelist)) /\ freelist' = <<old>> \o Tail(freelist)
      BY <1>1, <1>b, <2>1, <1>a
    <3>2. /\ freelist' \in Seq(Frames) /\ NoDup(freelist')
          /\ Elems(freelist') = (FreeFrames \ {new}) \cup {old}
      BY <3>1, <1>1, PutFront, Zenon
    <3>3. {f \in Frames : refs'[f] = 0} = (FreeFrames \ {new}) \cup {old}
      BY <1>b, <1>6, <1>1, <1>5, <2>1
    <3> QED BY <2>0, <3>2, <3>3, Zenon DEF FreeListed
  <2>2. CASE refs[old] # 1
    <3>1. {f \in Frames : refs'[f] = 0} = FreeFrames \ {new}
      BY <1>b, <1>6, <1>1, <1>4, <1>5, <2>2
    <3> QED BY <2>0, <2>2, <3>1, <1>1, <1>a, Zenon DEF FreeListed
  <2> QED BY <2>1, <2>2, Zenon
<1>8. e \in Pte /\ e.frame = new /\ e.flags = {"P", "U", "W"}
  BY <1>1, Zenon DEF Pte, Flags
<1> HIDE DEF e
<1>9. /\ pt' \in [Frames -> [VPages -> Pte]] /\ pt'[d][pg] = e
      /\ \A x \in Frames, g \in VPages : x # d \/ g # pg => pt'[x][g] = pt[x][g]
  BY <1>a, <1>b, <1>8, EntryUpdate
<1>10. KernelFrames' = KernelFrames /\ Distinct'
  BY PointersKept, Zenon DEF Sharing
<1>11. Private'
  BY <1>3, <1>8, <1>9, SMTT(30) DEF Sharing, Private
<1>12. Apart'
  BY <1>2, <1>8, <1>9, <1>10 DEF Sharing, Apart
<1>13. ReadOnlyIsCow'
  BY <1>8, <1>9 DEF Sharing, ReadOnlyIsCow
<1>14. Counted'
  <2> SUFFICES ASSUME NEW v \in Frames
               PROVE  refs'[v] = Cardinality(PteHolders(v)')
                                  + (IF v \in KernelFrames THEN 1 ELSE 0)
    BY <1>10, Zenon DEF Counted
  <2>1. Cardinality(PteHolders(v)') = Cardinality(PteHolders(v))
          + (IF e.frame = v THEN 1 ELSE 0) - (IF old = v THEN 1 ELSE 0)
    <3>1. \A x \in Frames, g \in VPages :
            x # d \/ g # pg => pt'[x][g].frame = pt[x][g].frame
      BY <1>9, Zenon
    <3>2. pt'[d][pg].frame = e.frame
      BY <1>9, Zenon
    <3> QED BY <3>1, <3>2, EntryChange
  <2>2. refs[v] = Cardinality(PteHolders(v)) + (IF v \in KernelFrames THEN 1 ELSE 0)
    BY Zenon DEF Sharing, Counted
  <2> QED BY <2>1, <2>2, <1>1, <1>2, <1>5, <1>6, <1>8, EntriesFinite
<1> QED BY <1>6, <1>7, <1>9, <1>10, <1>11, <1>12, <1>13, <1>14, Zenon DEF Sharing, e

(* dedup() merges a page into the one before it: both entries end copy-on- *)
(* write on the earlier frame, and the later frame is released.            *)
LEMMA SharingMerge ==
  ASSUME Counting, Types, Sharing, SamePointers, NEW p \in Procs, NEW sums,
         NEW d \in Frames, d = pgdir[p],
         NEW a \in VPages, a = loc[p].at, a - 1 \in VPages, DedupMerge(p, sums)
  PROVE  /\ Sharing' /\ pt' \in [Frames -> [VPages -> Pte]]
         /\ refs' \in [Frames -> Int] /\ freelist' \in Seq(Frames)
         /\ mem' \in [Frames -> Contents]
         /\ \A x \in Frames, g \in VPages :
              \/ pt'[x][g] = pt[x][g]
              \/ /\ x = d /\ pt[x][g] # NoPte /\ pt'[x][g] # NoPte
                 /\ "P" \in pt'[x][g].flags /\ "W" \notin pt'[x][g].flags
<1> DEFINE b == a - 1
           current == pt[d][a].frame
           previous == pt[d][b].frame
           pte1 == pt[d][b].flags \cup {"COW"}
           e1 == [frame |-> previous, flags |-> pte1 \ {"W"}]
           e2 == [frame |-> previous, flags |-> (pte1 \cup {"P", "U", "COW"}) \ {"W"}]
<1>a. a > 1 /\ uva2ka(d, a) = current /\ uva2ka(d, b) = previous
        /\ current # None /\ previous # None /\ "P" \in pt[d][b].flags
  BY Zenon DEF DedupMerge, MayCompare, uva2ka
<1>b. /\ pt' = [pt EXCEPT ![d] = [@ EXCEPT ![b] = e1, ![a] = e2]]
      /\ refs' = [[refs EXCEPT ![current] = @ - 1] EXCEPT ![previous] = @ + 1]
      /\ KfreeAtZero(current, refs[current] - 1)
  BY <1>a, Zenon DEF DedupMerge, DedupMergeWith, PreviousFlags
<1>c. /\ freelist \in Seq(Frames) /\ refs \in [Frames -> Int] /\ NoDup(freelist)
      /\ mem \in [Frames -> Contents] /\ FreeFrames = Elems(freelist)
      /\ pt \in [Frames -> [VPages -> Pte]]
      /\ FreeFrames = {f \in Frames : refs[f] = 0}
  BY Zenon DEF Types, Sharing, FreeListed, FreeFrames, Elems
<1>d. /\ current \in Frames /\ previous \in Frames /\ pt[d][b].flags \in SUBSET Flags
      /\ b \in VPages /\ b # a /\ pt[d][a] # NoPte /\ pt[d][b] # NoPte
  <2>1. pt[d][a] \in Pte /\ pt[d][b] \in Pte
    BY <1>c, Zenon
  <2>2. b # a
    BY DEF VPages
  <2>3. ASSUME NEW e \in Pte, e.frame # None
        PROVE  e.frame \in Frames /\ e.flags \in SUBSET Flags /\ e # NoPte
    BY <2>3, PteFacts, Zenon DEF NoPte
  <2> QED BY <1>a, <2>1, <2>2, <2>3, Zenon
<1>e. /\ e1 \in Pte /\ e2 \in Pte /\ e1.frame = previous /\ e2.frame = previous
      /\ "COW" \in e1.flags /\ "W" \notin e1.flags /\ "P" \in e1.flags
      /\ "COW" \in e2.flags /\ "W" \notin e2.flags /\ "P" \in e2.flags
      /\ e1 # NoPte /\ e2 # NoPte
  BY <1>a, <1>d, FrameIsNotNone, Zenon DEF Pte, Flags, NoPte
<1> HIDE DEF e1, e2, pte1, b
<1>1. /\ pt' \in [Frames -> [VPages -> Pte]] /\ pt'[d][a] = e2 /\ pt'[d][b] = e1
      /\ \A x \in Frames, g \in VPages :
           x # d \/ (g # a /\ g # b) => pt'[x][g] = pt[x][g]
  BY <1>b, <1>c, <1>d, <1>e, ZenonT(40)
<1> HIDE DEF current, previous
<1>2. refs[current] >= 1 /\ refs[previous] >= 1
  <2>1. Cardinality(PteHolders(current)) >= 1 /\ Cardinality(PteHolders(previous)) >= 1
    BY <1>d, EntryCounts, Zenon DEF current, previous
  <2> QED BY <2>1, <1>d, EntriesFinite DEF Sharing, Counted
<1>3. current = previous => refs[current] >= 2
  <2>1. current = previous => Cardinality(PteHolders(current)) >= 2
    BY <1>d, TwoEntriesCount, Zenon DEF current, previous
  <2> QED BY <2>1, <1>d, EntriesFinite DEF Sharing, Counted
<1>4. /\ refs' \in [Frames -> Int]
      /\ \A f \in Frames :
           refs'[f] = refs[f] + (IF f = previous THEN 1 ELSE 0)
                              - (IF f = current THEN 1 ELSE 0)
  <2>1. CASE current = previous
    BY <2>1, <1>b, <1>c, <1>d
  <2>2. CASE current # previous
    BY <2>2, <1>b, <1>c, <1>d
  <2> QED BY <2>1, <2>2, Zenon
<1>5. mem' \in [Frames -> Contents]
  BY <1>b, <1>c, ConstAssumption, Zenon DEF KfreeAtZero
<1>6. FreeListed' /\ freelist' \in Seq(Frames)
  <2>0. FreeFrames' = Elems(freelist')
    BY Zenon DEF FreeFrames, Elems
  <2>1. CASE refs[current] = 1
    <3>1. current \notin Elems(freelist) /\ freelist' = <<current>> \o freelist
      BY <1>b, <1>c, <2>1 DEF KfreeAtZero
    <3>2. /\ freelist' \in Seq(Frames) /\ NoDup(freelist')
          /\ Elems(freelist') = FreeFrames \cup {current}
      BY <3>1, <1>c, <1>d, PutFront, Zenon
    <3>3. {f \in Frames : refs'[f] = 0} = FreeFrames \cup {current}
      <4>1. ASSUME NEW f \in Frames
            PROVE  refs'[f] = 0 <=> refs[f] = 0 \/ f = current
        <5>1. refs[f] \in Int /\ refs[current] \in Int
          BY <1>c, <1>d, Zenon
        <5>2. refs'[f] = refs[f] + (IF f = previous THEN 1 ELSE 0)
                                 - (IF f = current THEN 1 ELSE 0)
          BY <1>4, Zenon
        <5> QED BY <5>1, <5>2, <1>2, <1>3, <2>1
      <4> QED BY <4>1, <1>c, <1>d, Zenon
    <3> QED BY <2>0, <3>2, <3>3, Zenon DEF FreeListed
  <2>2. CASE refs[current] # 1
    <3>1. freelist' = freelist
      BY <1>b, <1>c, <1>d, <2>2 DEF KfreeAtZero
    <3>2. {f \in Frames : refs'[f] = 0} = FreeFrames
      <4>1. ASSUME NEW f \in Frames
            PROVE  refs'[f] = 0 <=> refs[f] = 0
        <5>1. refs[f] \in Int /\ refs[current] \in Int
          BY <1>c, <1>d
        <5>2. refs'[f] = refs[f] + (IF f = previous THEN 1 ELSE 0)
                                 - (IF f = current THEN 1 ELSE 0)
          BY <1>4
        <5> QED BY <5>1, <5>2, <1>2, <1>3, <2>2, SMTT(30)
      <4> QED BY <4>1, <1>c, Zenon
    <3> QED BY <2>0, <3>1, <3>2, <1>c, Zenon DEF FreeListed
  <2> QED BY <2>1, <2>2, Zenon
<1>7. KernelFrames' = KernelFrames /\ Distinct'
  BY PointersKept, Zenon DEF Sharing
<1>8. pt[d][a].frame = current /\ pt[d][b].frame = previous /\ previous # None
  BY <1>d, FrameIsNotNone, Zenon DEF current, previous
<1>9. Private'
  <2>1. SUFFICES ASSUME NEW x \in Frames, NEW y \in Frames,
                        NEW g \in VPages, NEW h \in VPages,
                        pt'[x][g].frame # None, pt'[x][g].frame = pt'[y][h].frame,
                        x # y \/ g # h
                 PROVE  /\ x = y /\ "COW" \in pt'[x][g].flags
                        /\ "W" \notin pt'[x][g].flags
    BY DEF Private
  <2>2. CASE x = d /\ g \in {a, b} /\ y = d /\ h \in {a, b}
    BY <2>2, <1>1, <1>e, Zenon
  <2>3. CASE x = d /\ g \in {a, b} /\ ~(y = d /\ h \in {a, b})
    <3>1. pt[d][b].frame = pt[y][h].frame /\ pt[d][b].frame # None
            /\ (d # y \/ b # h)
      BY <2>3, <2>1, <1>1, <1>e, <1>8, ZenonT(40)
    <3>2. d = y
      BY <3>1, <1>d DEF Sharing, Private
    <3> QED BY <3>2, <2>3, <1>1, <1>e, Zenon
  <2>4. CASE ~(x = d /\ g \in {a, b}) /\ y = d /\ h \in {a, b}
    <3>1. pt[d][b].frame = pt[x][g].frame /\ pt[x][g].frame # None
            /\ (d # x \/ b # g) /\ pt'[x][g] = pt[x][g]
      BY <2>4, <2>1, <1>1, <1>e, <1>8, SMTT(30)
    <3>2. x = d /\ "COW" \in pt[x][g].flags /\ "W" \notin pt[x][g].flags
      BY <3>1, <1>d DEF Sharing, Private
    <3> QED BY <3>1, <3>2, <2>4, Zenon
  <2>5. CASE ~(x = d /\ g \in {a, b}) /\ ~(y = d /\ h \in {a, b})
    BY <2>5, <2>1, <1>1, SMTT(30) DEF Sharing, Private
  <2> QED BY <2>2, <2>3, <2>4, <2>5, Zenon
<1>10. Apart'
  BY <1>1, <1>d, <1>e, <1>7, <1>8 DEF Sharing, Apart
<1>11. ReadOnlyIsCow'
  BY <1>1, <1>e, Zenon DEF Sharing, ReadOnlyIsCow
<1>12. Counted'
  <2> SUFFICES ASSUME NEW v \in Frames
               PROVE  refs'[v] = Cardinality(PteHolders(v)')
                                  + (IF v \in KernelFrames THEN 1 ELSE 0)
    BY <1>7, Zenon DEF Counted
  <2>0. \A x \in Frames, g \in VPages :
          x # d \/ g # a => pt'[x][g].frame = pt[x][g].frame
    BY <1>1, <1>e, <1>8, Zenon
  <2>1. Cardinality(PteHolders(v)') = Cardinality(PteHolders(v))
          + (IF previous = v THEN 1 ELSE 0) - (IF current = v THEN 1 ELSE 0)
    BY <2>0, <1>1, <1>e, <1>8, EntryChange, SMTT(30)
  <2>2. refs[v] = Cardinality(PteHolders(v)) + (IF v \in KernelFrames THEN 1 ELSE 0)
    BY Zenon DEF Sharing, Counted
  <2> QED BY <2>1, <2>2, <1>4, EntriesFinite
<1>13. \A x \in Frames, g \in VPages :
         \/ pt'[x][g] = pt[x][g]
         \/ /\ x = d /\ pt[x][g] # NoPte /\ pt'[x][g] # NoPte
            /\ "P" \in pt'[x][g].flags /\ "W" \notin pt'[x][g].flags
  BY <1>1, <1>d, <1>e
<1> QED
  BY <1>1, <1>4, <1>5, <1>6, <1>7, <1>9, <1>10, <1>11, <1>12, <1>13, Zenon DEF Sharing

(* copyonwrite(): the page is not copy-on-write only if it is not mapped,  *)
(* so the krelease() for other pages does not happen.                      *)
LEMMA StoreFaultsStep ==
  ASSUME Counting, IInv, NEW p \in Procs, StoreFaults(p)
  PROVE  IInv'
<1> DEFINE d == pgdir[p]
           a == loc[p].at
           old == uva2ka(d, a)
<1>1. halted = "no" /\ st[p] = "store" /\ ~StoreMayProceed(p)
  BY Zenon DEF StoreFaults
<1>2. CASE KallocFault
  BY <1>2, HaltStep, Zenon DEF KallocFault
<1>3. CASE /\ CopyOnWrite(p) /\ tlb' = [tlb EXCEPT ![p][a] = NoPte]
           /\ UNCHANGED <<checksum, procs, st, loc, halted>>
  <2>1. /\ st[p] \in Live /\ UserMapped(p) /\ LoopBounds(p) /\ TlbAgrees(p)
        /\ loc[p].dir = None /\ d \in Frames
    BY <1>1, ProcFacts, OwnTables, Zenon DEF ProcLoops, Live, States, SlotControl
  <2>2. a \in VPages
    <3>1. a <= NPages
      BY <1>1, <2>1, Zenon DEF LoopBounds
    <3>2. a \in Nat /\ NPages \in Nat
      BY ProcFacts, ConstAssumption, Zenon
    <3> QED BY <3>1, <3>2 DEF VPages
  <2>3. /\ st' = [st EXCEPT ![p] = st[p]] /\ loc' = [loc EXCEPT ![p] = loc[p]]
        /\ st[p] \in States /\ loc[p] \in Locals
    BY <1>3, Zenon DEF IInv, Types
  <2>4. /\ tlb' \in [Procs -> [VPages -> Pte]]
        /\ \A q \in Procs : q # p => tlb'[q] = tlb[q]
        /\ tlb'[p][a] = NoPte /\ \A g \in VPages : g # a => tlb'[p][g] = tlb[p][g]
    <3>1. NoPte \in Pte
      BY Zenon DEF Pte
    <3> QED BY <1>3, <2>2, <3>1, Zenon DEF IInv, Types
  <2>5. st'[p] = "store" /\ pgdir'[p] = d /\ sz'[p] = sz[p] /\ loc'[p] = loc[p]
    BY <1>1, <1>3, Zenon DEF procs
  <2>6. CASE old = None
    <3>1. UNCHANGED <<freelist, refs, mem, pt>>
      BY <1>3, <2>6, Zenon DEF CopyOnWrite
    <3>2. UserMapped(p)' /\ LoopBounds(p)'
      BY <2>1, <2>5, <3>1, <1>1, Zenon DEF UserMapped, LoopBounds
    <3>3. TlbAgrees(p)'
      BY <2>1, <2>4, <2>5, <3>1, Zenon DEF TlbAgrees
    <3>4. ProcLoops(p)'
      BY <3>2, <3>3, <2>1, <2>5, Zenon DEF ProcLoops
    <3> QED BY <1>1, <1>3, <2>1, <2>3, <2>4, <3>1, <3>4, StepOfOneInPlace, Zenon
            DEF IInv, Types, procs
  <2>7. CASE old # None
    <3>0. /\ {"P", "U"} \subseteq pt[d][a].flags /\ old = pt[d][a].frame
          /\ pt[d][a] # NoPte
      <4>1. {"P", "U"} \subseteq pt[d][a].flags /\ old = pt[d][a].frame
        BY <2>7, Zenon DEF uva2ka
      <4>2. NoPte.flags = {}
        BY Zenon DEF NoPte
      <4> QED BY <4>1, <4>2, ZenonT(40)
    <3>1. old \in Frames
      <4>1. Types
        BY ProcFacts, Zenon
      <4>2. pt[d][a].frame \in Frames \cup {None}
        BY <4>1, <2>1, <2>2, EntryTypes, Zenon
      <4> QED BY <4>2, <3>0, <2>7, Zenon
    <3>2. "W" \notin pt[d][a].flags
      BY <3>0, <2>1, <2>2, <1>1, Zenon DEF StoreMayProceed, Translation, TlbAgrees
    <3>3. "COW" \in pt[d][a].flags
      BY <3>0, <3>2, <2>1, <2>2, Zenon DEF IInv, Sharing, ReadOnlyIsCow
    <3> DEFINE new == Head(freelist)
    <3>4. freelist # <<>> /\ CowCopy(p, old, new)
      BY <1>3, <2>7, <3>3, Zenon DEF CopyOnWrite
    <3>5. SamePointers
      BY <1>3, Zenon DEF SamePointers, procs
    <3>6. /\ Sharing' /\ pt' \in [Frames -> [VPages -> Pte]]
          /\ refs' \in [Frames -> Int] /\ freelist' \in Seq(Frames)
          /\ mem' \in [Frames -> Contents]
          /\ pt'[d][a] = [frame |-> new, flags |-> {"P", "U", "W"}]
          /\ \A x \in Frames, g \in VPages : x # d \/ g # a => pt'[x][g] = pt[x][g]
      <4>1. /\ Types /\ Sharing /\ d = pgdir[p] /\ a = loc[p].at /\ new = Head(freelist)
            /\ d \in Frames /\ freelist # <<>> /\ CowCopy(p, old, new)
        BY <2>1, <3>4, ProcFacts, Zenon
      <4>2. pt[d][a].frame = old
        BY <3>0, Zenon
      <4> HIDE DEF old, new, d, a
      <4> QED BY <2>2, <3>1, <3>5, <4>1, <4>2, SharingCopy, SMTT(30)
    <3>7. "P" \in pt'[d][a].flags
      BY <3>6
    <3>8. \A x \in Frames, g \in VPages :
            /\ pt'[x][g] # NoPte => "P" \in pt'[x][g].flags
            /\ pt'[x][g] # pt[x][g] => x \in {pgdir[p], loc[p].dir}
      BY <3>6, <3>7 DEF IInv, Walks, Control
    <3>9. ProcLoops(p)'
      <4>1. \A g \in VPages : pt'[d][g] # NoPte => pt[d][g] # NoPte
        BY <2>1, <3>0, <3>6, Zenon
      <4>2. UserMapped(p)' /\ LoopBounds(p)'
        BY <2>1, <2>5, <4>1, <1>1, Zenon DEF UserMapped, LoopBounds
      <4>3. TlbAgrees(p)'
        <5>1. \A g \in VPages : tlb'[p][g] # NoPte =>
                tlb'[p][g] = tlb[p][g] /\ pt'[d][g] = pt[d][g]
          BY <2>1, <2>4, <3>6, Zenon
        <5> QED BY <5>1, <2>1, <2>5, Zenon DEF TlbAgrees
      <4> QED BY <4>2, <4>3, <2>1, <2>5 DEF ProcLoops
    <3>10. /\ UNCHANGED <<pgdir, kstack>> /\ halted' = "no" /\ checksum' \in [Frames -> Int]
           /\ sz' \in [Procs -> 0 .. MaxSz] /\ \A q \in Procs : q # p => sz'[q] = sz[q]
      BY <1>1, <1>3, Zenon DEF IInv, Types, procs
    <3> QED BY <1>1, <2>1, <2>3, <2>4, <3>6, <3>8, <3>9, <3>10, StepOfOne, Zenon
  <2> QED BY <2>6, <2>7, Zenon
<1> QED BY <1>2, <1>3, Zenon DEF StoreFaults

(* dedup() compares a page with the one before it and may merge them.      *)
LEMMA DedupPageStep ==
  ASSUME Counting, IInv, NEW p \in Procs, DedupPage(p)
  PROVE  IInv'
<1> DEFINE d == pgdir[p]
           a == loc[p].at
           current == uva2ka(d, a)
           sums == IF current = None THEN checksum ELSE UpdateChecksum(current)
           l == Advance(loc[p])
<1>1. /\ halted = "no" /\ st[p] = "dedup" /\ a < loc[p].lim
      /\ checksum' = sums /\ loc' = [loc EXCEPT ![p].at = @ + 1]
      /\ UNCHANGED <<procs, st, tlb, halted>>
      /\ DedupMerge(p, sums) \/ DedupKeep(p, sums)
  BY Zenon DEF DedupPage
<1>2. /\ st[p] \in Live /\ UserMapped(p) /\ LoopBounds(p) /\ TlbAgrees(p)
      /\ loc[p].dir = None /\ d \in Frames
  BY <1>1, ProcFacts, OwnTables, Zenon DEF ProcLoops, Live, States, SlotControl
<1>3. a \in VPages
  BY <1>1, <1>2, ProcFacts, ConstAssumption DEF LoopBounds, VPages
<1>4. checksum' \in [Frames -> Int]
  <2>1. current # None => current \in Frames
    BY <1>2, <1>3, EntryTypes, ProcFacts, Zenon DEF uva2ka
  <2>2. current # None => Sum[mem[current]] \in Int
    <3>1. mem \in [Frames -> Contents] /\ Sum \in [Contents -> Int]
      BY ConstAssumption, Zenon DEF IInv, Types
    <3> HIDE DEF current
    <3> QED BY <2>1, <3>1, Zenon
  <2>3. checksum \in [Frames -> Int]
    BY Zenon DEF IInv, Types
  <2> HIDE DEF current
  <2> QED BY <1>1, <2>2, <2>3, Zenon DEF UpdateChecksum
<1> HIDE DEF sums
<1>5. /\ loc' = [loc EXCEPT ![p] = l] /\ l \in Locals /\ l.dir = None /\ l.kid = loc[p].kid
      /\ l.lim = loc[p].lim /\ loc'[p] = l
  BY <1>1, <1>2, <1>3, Advanced, Zenon
<1> HIDE DEF l
<1>6. /\ st' = [st EXCEPT ![p] = st[p]] /\ st[p] \in States
      /\ st'[p] = "dedup" /\ pgdir'[p] = d /\ sz'[p] = sz[p] /\ tlb'[p] = tlb[p]
  BY <1>1, Zenon DEF IInv, Types, procs
<1>7. LoopBounds(p)'
  BY <1>1, <1>2, <1>5, <1>6, Zenon DEF LoopBounds
<1>10. /\ UNCHANGED <<pgdir, kstack>> /\ halted' = "no"
       /\ sz' \in [Procs -> 0 .. MaxSz] /\ \A q \in Procs : q # p => sz'[q] = sz[q]
       /\ tlb' \in [Procs -> [VPages -> Pte]] /\ \A q \in Procs : q # p => tlb'[q] = tlb[q]
  BY <1>1, Zenon DEF IInv, Types, procs
<1>8. CASE DedupKeep(p, sums)
  <2>1. UNCHANGED <<freelist, refs, mem, pt>>
    BY <1>8, Zenon DEF DedupKeep
  <2>2. UserMapped(p)' /\ TlbAgrees(p)'
    BY <1>1, <1>2, <1>6, <2>1, Zenon DEF UserMapped, TlbAgrees
  <2>3. ProcLoops(p)'
    BY <2>2, <1>5, <1>7, Zenon DEF ProcLoops
  <2>4. mem' \in [Frames -> Contents]
    BY <2>1, ZenonT(40) DEF IInv, Types
  <2> QED BY <1>2, <1>4, <1>5, <1>6, <1>10, <2>1, <2>3, <2>4, StepOfOneInPlace, Zenon
<1>9. CASE DedupMerge(p, sums)
  <2>1. a > 1 /\ a - 1 \in VPages
    <3>1. a > 1
      BY <1>9, Zenon DEF DedupMerge, MayCompare
    <3> HIDE DEF a
    <3> QED BY <3>1, <1>3, ConstAssumption DEF VPages
  <2>2. SamePointers
    BY <1>1, <1>2, <1>5, ProcFacts, Zenon DEF SamePointers, procs, Types
  <2>3. /\ Sharing' /\ pt' \in [Frames -> [VPages -> Pte]]
        /\ refs' \in [Frames -> Int] /\ freelist' \in Seq(Frames)
        /\ mem' \in [Frames -> Contents]
        /\ \A x \in Frames, g \in VPages :
             \/ pt'[x][g] = pt[x][g]
             \/ /\ x = d /\ pt[x][g] # NoPte /\ pt'[x][g] # NoPte
                /\ "P" \in pt'[x][g].flags /\ "W" \notin pt'[x][g].flags
    BY <1>9, <1>2, <1>3, <2>1, <2>2, ProcFacts, SharingMerge, Zenon
  <2>4. \A x \in Frames, g \in VPages :
          /\ pt'[x][g] # NoPte => "P" \in pt'[x][g].flags
          /\ pt'[x][g] # pt[x][g] => x \in {pgdir[p], loc[p].dir}
    BY <2>3, Zenon DEF IInv, Walks, Control
  <2>5. \A g \in VPages : pt'[d][g] # NoPte => pt[d][g] # NoPte
    BY <1>2, <2>3, Zenon
  <2>6. UserMapped(p)'
    BY <1>1, <1>2, <1>6, <2>5, Zenon DEF UserMapped
  <2>7. TlbAgrees(p)'
    <3>1. \A g \in VPages : {"W", "U"} \subseteq pt'[d][g].flags
                               => {"W", "U"} \subseteq pt[d][g].flags
      BY <1>2, <2>3, Zenon
    <3> QED BY <1>2, <1>6, <3>1, Zenon DEF TlbAgrees
  <2>8. ProcLoops(p)'
    BY <2>6, <2>7, <1>5, <1>7, Zenon DEF ProcLoops
  <2> QED BY <1>2, <1>4, <1>5, <1>6, <1>10, <2>3, <2>4, <2>8, StepOfOne, ZenonT(40)
<1> QED BY <1>1, <1>8, <1>9, Zenon

-----------------------------------------------------------------------------
(* sbrk() begins to grow the process.                                      *)
LEMMA SysSbrkGrowStep ==
  ASSUME IInv, NEW p \in Procs, NEW n \in 1 .. MaxSz, SysSbrkGrow(p, n)
  PROVE  IInv'
<1> DEFINE m == sz[p] + n
           l == LoopFrom(PageUp(sz[p]), m)
<1>0. /\ m \in 0 .. MaxSz /\ sz[p] <= m /\ sz[p] \in Nat
      /\ PageUp(sz[p]) \in 0 .. NPages + 1 /\ PageUp(sz[p]) * PGSIZE >= sz[p]
      /\ \A pg \in Nat : pg * PGSIZE < sz[p] => pg < PageUp(sz[p])
  <2>1. sz[p] \in 0 .. MaxSz /\ MaxSz \in Nat
    BY ProcFacts, Zenon
  <2>2. m \in 0 .. MaxSz /\ sz[p] <= m /\ sz[p] \in Nat
    BY <2>1 DEF SysSbrkGrow
  <2> QED BY <2>1, <2>2, PageUpFacts, Zenon
<1>1. /\ l \in Locals /\ l.dir = None /\ l.kid = None /\ l.at = PageUp(sz[p]) /\ l.lim = m
  BY <1>0, LoopLocals
<1>2. /\ st[p] = "user" /\ st' = [st EXCEPT ![p] = "grow"] /\ loc' = [loc EXCEPT ![p] = l]
      /\ UNCHANGED <<memory, pt, procs, tlb, halted>> /\ halted = "no"
  BY Zenon DEF SysSbrkGrow, Running
<1> HIDE DEF l, m
<1>3. loc[p].dir = None /\ loc[p].kid = None
  BY <1>2, ProcFacts, Zenon DEF SlotControl
<1>4. ProcLoops(p)'
  <2>1. st'[p] = "grow" /\ loc'[p] = l
    BY <1>2, Zenon DEF IInv, Types
  <2>2. UserMapped(p) /\ TlbAgrees(p)
    BY <1>2, ProcFacts, Zenon DEF ProcLoops, Live, States
  <2>3. TlbAgrees(p)'
    BY <1>2, <2>1, <2>2, Zenon DEF TlbAgrees, procs
  <2>4. UserMapped(p)'
    <3>1. ASSUME NEW pg \in VPages, pt[pgdir[p]][pg] # NoPte
          PROVE  pg < PageUp(sz[p]) /\ pg * PGSIZE < m
      <4>1. pg \in Nat /\ pg * PGSIZE < sz[p]
        BY <2>2, <1>2, <3>1 DEF UserMapped, VPages
      <4>2. pg * PGSIZE \in Int /\ m \in Int
        BY <4>1, <1>0, ConstAssumption
      <4> QED BY <4>1, <4>2, <1>0
    <3> QED BY <3>1, <2>1, <1>1, <1>2, Zenon DEF UserMapped, procs
  <2>5. LoopBounds(p)'
    BY <2>1, <1>0, <1>1, <1>2, Zenon DEF LoopBounds, procs
  <2> QED BY <2>1, <2>3, <2>4, <2>5, <1>1, Zenon DEF ProcLoops
<1> QED BY <1>1, <1>2, <1>3, <1>4, StepOfOneInPlace, Zenon DEF IInv, Types, memory, procs, Live, States

(* allocuvm() adds a page to the process's table.                          *)
LEMMA GrowPageStep ==
  ASSUME Counting, IInv, NEW p \in Procs, GrowPage(p)
  PROVE  IInv'
<1>1. halted = "no" /\ st[p] = "grow" /\ loc[p].at * PGSIZE < loc[p].lim
  BY Zenon DEF GrowPage
<1>2. CASE KallocFault
  BY <1>2, HaltStep, Zenon DEF KallocFault
<1>3. CASE MapNewPage(p, pgdir[p], Zero)
  <2> DEFINE d == pgdir[p]
             a == loc[p].at
             l == Advance(loc[p])
  <2>1. a \in VPages
    BY <1>1, ProcFacts, PageBelow, Zenon
  <2>2. st[p] \in Live /\ UserMapped(p) /\ LoopBounds(p) /\ TlbAgrees(p) /\ loc[p].dir = None
    BY <1>1, ProcFacts, ZenonT(40) DEF ProcLoops, Live, States, SlotControl
  <2>3. d \in Frames
    BY <2>2, ProcFacts, OwnTables, Zenon
  <2>4. pt[d][a] = NoPte
    BY <2>1, <2>2, <1>1 DEF UserMapped, VPages
  <2>5. Zero \in Contents
    BY ConstAssumption, Zenon
  <2>6. /\ freelist' \in Seq(Frames) /\ refs' \in [Frames -> Int]
        /\ mem' \in [Frames -> Contents] /\ pt' \in [Frames -> [VPages -> Pte]]
        /\ SamePointers => Sharing'
        /\ \A x \in Frames, g \in VPages : x # d \/ g # a => pt'[x][g] = pt[x][g]
        /\ "P" \in pt'[d][a].flags
        /\ loc' = [loc EXCEPT ![p].at = @ + 1]
        /\ UNCHANGED <<checksum, procs, st, tlb, halted>>
    BY <1>3, <2>1, <2>3, <2>4, <2>5, MapNewPageFacts, Zenon
  <2>7. loc'[p] = l /\ l.dir = loc[p].dir /\ l.lim = loc[p].lim /\ l.at = a + 1
    BY <2>1, <2>6, Advanced, Zenon
  <2> HIDE DEF l
  <2>8. ProcLoops(p)'
    <3>0. /\ st'[p] = "grow" /\ pgdir'[p] = d /\ sz'[p] = sz[p] /\ tlb'[p] = tlb[p]
          /\ a \in Nat /\ sz[p] \in Nat /\ loc[p].lim \in Nat /\ PGSIZE \in Nat
          /\ a * PGSIZE >= sz[p] /\ sz[p] <= loc[p].lim
      BY <2>6, <1>1, <2>2, ProcFacts, ConstAssumption, Zenon DEF procs, LoopBounds
    <3>1. UserMapped(p)'
      <4>1. ASSUME NEW pg \in VPages, pt'[d][pg] # NoPte
            PROVE  pg < a + 1 /\ pg * PGSIZE < loc[p].lim
        <5>1. CASE pg = a
          BY <5>1, <1>1, <3>0
        <5>2. CASE pg # a
          <6>1. pt[d][pg] # NoPte
            BY <4>1, <5>2, <2>3, <2>6, Zenon
          <6>2. pg < a /\ pg * PGSIZE < loc[p].lim /\ pg \in Nat
            BY <6>1, <2>2, <1>1 DEF UserMapped, VPages
          <6> QED BY <6>2, <3>0
        <5> QED BY <5>1, <5>2, Zenon
      <4> QED BY <4>1, <3>0, <2>7, Zenon DEF UserMapped
    <3>2. LoopBounds(p)'
      <4>1. (a + 1) * PGSIZE = a * PGSIZE + PGSIZE /\ a * PGSIZE \in Int
        BY <3>0
      <4>2. (a + 1) * PGSIZE >= sz[p]
        BY <4>1, <3>0
      <4> QED BY <4>2, <3>0, <2>7, Zenon DEF LoopBounds
    <3>3. TlbAgrees(p)'
      <4>1. ASSUME NEW pg \in VPages, tlb[p][pg] # NoPte
            PROVE  pg # a /\ pt'[d][pg] = pt[d][pg]
        <5>1. pg * PGSIZE < sz[p] /\ pg \in Nat
          BY <4>1, <2>2 DEF TlbAgrees, VPages
        <5>2. pg # a
          <6>1. a * PGSIZE \in Int
            BY <3>0
          <6> QED BY <6>1, <5>1, <3>0
        <5> QED BY <5>2, <2>3, <2>6, Zenon
      <4> QED BY <4>1, <3>0, <2>2 DEF TlbAgrees
    <3> QED BY <3>1, <3>2, <3>3, <2>2, <2>7, Zenon DEF ProcLoops
  <2> QED BY <1>1, <2>1, <2>3, <2>6, <2>8, TableLoopStep, Zenon
<1> QED BY <1>2, <1>3, Zenon DEF GrowPage

(* growproc() returns from growing.                                        *)
LEMMA GrowReturnStep ==
  ASSUME IInv, NEW p \in Procs, GrowReturn(p)
  PROVE  IInv'
<1>1. /\ st[p] = "grow" /\ Return(p) /\ halted' = "no" /\ SwitchUvm(p)
      /\ UNCHANGED <<memory, pt, pgdir, kstack>> /\ sz' = [sz EXCEPT ![p] = loc[p].lim]
  BY Zenon DEF GrowReturn
<1>2. UserMapped(p)
  BY <1>1, ProcFacts, Zenon DEF ProcLoops, Live, States
<1>3. /\ sz' \in [Procs -> 0 .. MaxSz] /\ sz'[p] = loc[p].lim
      /\ \A q \in Procs : q # p => sz'[q] = sz[q]
  BY <1>1, ProcFacts, Zenon DEF Types
<1>4. \A pg \in VPages : pt[pgdir[p]][pg] # NoPte => pg * PGSIZE < sz'[p]
  BY <1>1, <1>2, <1>3, Zenon DEF UserMapped
<1>5. mem' \in [Frames -> Contents]
  BY <1>1, Zenon DEF IInv, Types, memory
<1> QED BY <1>1, <1>3, <1>4, <1>5, Flushed, ReturnStep, Zenon DEF memory

(* sbrk() begins to shrink the process.                                    *)
LEMMA SysSbrkShrinkStep ==
  ASSUME IInv, NEW p \in Procs, NEW n \in 1 .. MaxSz, SysSbrkShrink(p, n)
  PROVE  IInv'
<1> DEFINE m == sz[p] - n
           l == LoopFrom(PageUp(m), m)
<1>0. /\ m \in 0 .. MaxSz /\ m <= sz[p] /\ sz[p] \in Nat /\ PageUp(m) \in 0 .. NPages + 1
      /\ \A pg \in Nat : pg < PageUp(m) => pg * PGSIZE < m
  <2>1. sz[p] \in 0 .. MaxSz /\ MaxSz \in Nat
    BY ProcFacts
  <2>2. m \in 0 .. MaxSz /\ m <= sz[p] /\ sz[p] \in Nat
    BY <2>1 DEF SysSbrkShrink
  <2> HIDE DEF m
  <2> QED BY <2>2, PageUpFacts, Zenon
<1>1. l \in Locals /\ l.dir = None /\ l.kid = None /\ l.at = PageUp(m) /\ l.lim = m
  BY <1>0, LoopLocals, Zenon
<1>2. /\ st[p] = "user" /\ st' = [st EXCEPT ![p] = "shrink"] /\ loc' = [loc EXCEPT ![p] = l]
      /\ UNCHANGED <<memory, pt, procs, tlb, halted>> /\ halted = "no"
  BY Zenon DEF SysSbrkShrink, Running
<1> HIDE DEF l, m
<1>3. loc[p].dir = None /\ loc[p].kid = None
  BY <1>2, ProcFacts, Zenon DEF SlotControl
<1>4. ProcLoops(p)'
  <2>1. st'[p] = "shrink" /\ loc'[p] = l
    BY <1>2, Zenon DEF IInv, Types
  <2>2. UserMapped(p) /\ TlbAgrees(p)
    BY <1>2, ProcFacts, Zenon DEF ProcLoops, Live, States
  <2>3. TlbAgrees(p)'
    BY <1>2, <2>1, <2>2, Zenon DEF TlbAgrees, procs
  <2>4. UserMapped(p)'
    <3>1. ASSUME NEW pg \in VPages, pt[pgdir[p]][pg] # NoPte
          PROVE  pg * PGSIZE < sz[p] /\ (pg * PGSIZE < m \/ pg >= PageUp(m))
      <4>1. pg \in Nat /\ pg * PGSIZE < sz[p]
        BY <2>2, <1>2, <3>1 DEF UserMapped, VPages
      <4> QED BY <4>1, <1>0
    <3> QED BY <3>1, <2>1, <1>1, <1>2, Zenon DEF UserMapped, procs
  <2>5. LoopBounds(p)'
    BY <2>1, Zenon DEF LoopBounds
  <2> QED BY <2>1, <2>3, <2>4, <2>5, <1>1, Zenon DEF ProcLoops
<1> QED BY <1>1, <1>2, <1>3, <1>4, StepOfOneInPlace, Zenon DEF IInv, Types, memory, procs, Live, States

(* deallocuvm() releases a page.                                           *)
LEMMA ShrinkPageStep ==
  ASSUME Counting, IInv, NEW p \in Procs, ShrinkPage(p)
  PROVE  IInv'
<1> DEFINE d == pgdir[p]
           a == loc[p].at
           l == Advance(loc[p])
<1>1. /\ halted = "no" /\ st[p] = "shrink" /\ a * PGSIZE < sz[p] /\ ReleasePage(d, a)
      /\ loc' = [loc EXCEPT ![p].at = @ + 1]
      /\ UNCHANGED <<checksum, procs, st, tlb, halted>>
  BY Zenon DEF ShrinkPage
<1>2. a \in VPages
  BY <1>1, ProcFacts, PageBelow, Zenon
<1>3. st[p] \in Live /\ UserMapped(p) /\ TlbAgrees(p) /\ loc[p].dir = None
  BY <1>1, ProcFacts, Zenon DEF ProcLoops, Live, States, SlotControl
<1>4. d \in Frames
  BY <1>3, ProcFacts, OwnTables, Zenon
<1>5. /\ freelist' \in Seq(Frames) /\ refs' \in [Frames -> Int]
      /\ mem' \in [Frames -> Contents] /\ pt' \in [Frames -> [VPages -> Pte]]
      /\ SamePointers => Sharing'
      /\ \A x \in Frames, g \in VPages : x # d \/ g # a => pt'[x][g] = pt[x][g]
      /\ pt'[d][a] = NoPte
  BY <1>1, <1>2, <1>4, ReleasePageFacts, Zenon
<1>6. loc'[p] = l /\ l.dir = None /\ l.lim = loc[p].lim /\ l.at = a + 1 /\ st'[p] = "shrink"
        /\ pgdir'[p] = d /\ sz'[p] = sz[p] /\ tlb'[p] = tlb[p]
  BY <1>1, <1>2, <1>3, Advanced, Zenon DEF procs
<1> HIDE DEF l
<1>7. ProcLoops(p)'
  <2>1. UserMapped(p)'
    <3>1. ASSUME NEW pg \in VPages, pt'[d][pg] # NoPte
          PROVE  pg * PGSIZE < sz[p] /\ (pg * PGSIZE < loc[p].lim \/ pg >= a + 1)
      <4>1. pg # a /\ pt[d][pg] # NoPte
        BY <3>1, <1>4, <1>5, Zenon
      <4>2. pg * PGSIZE < sz[p] /\ (pg * PGSIZE < loc[p].lim \/ pg >= a)
        BY <4>1, <1>1, <1>3, Zenon DEF UserMapped
      <4>3. pg \in Int /\ a \in Int
        BY <1>2 DEF VPages
      <4> QED BY <4>1, <4>2, <4>3
    <3> QED BY <3>1, <1>6, Zenon DEF UserMapped
  <2>2. LoopBounds(p)'
    BY <1>6, Zenon DEF LoopBounds
  <2>3. TlbAgrees(p)'
    <3>1. ASSUME NEW pg \in VPages, tlb[p][pg] # NoPte,
                 {"W", "U"} \subseteq pt'[d][pg].flags
          PROVE  {"W", "U"} \subseteq pt[d][pg].flags
      <4>1. pg # a
        BY <3>1, <1>5 DEF NoPte
      <4> QED BY <3>1, <4>1, <1>4, <1>5, Zenon
    <3> QED BY <3>1, <1>3, <1>6, Zenon DEF TlbAgrees
  <2> QED BY <2>1, <2>2, <2>3, <1>6, Zenon DEF ProcLoops
<1> QED BY <1>1, <1>2, <1>4, <1>5, <1>7, TableLoopStep, Zenon

(* growproc() returns from shrinking.                                      *)
LEMMA ShrinkReturnStep ==
  ASSUME IInv, NEW p \in Procs, ShrinkReturn(p)
  PROVE  IInv'
<1>1. /\ st[p] = "shrink" /\ Return(p) /\ halted' = "no"
      /\ UNCHANGED <<memory, pt, pgdir, kstack>> /\ loc[p].at * PGSIZE >= sz[p]
  BY Zenon DEF ShrinkReturn
<1>2. UserMapped(p) /\ TlbAgrees(p)
  BY <1>1, ProcFacts, Zenon DEF ProcLoops, Live, States
<1>3. mem' \in [Frames -> Contents]
  BY <1>1, ZenonT(40) DEF IInv, Types, memory
<1>4. CASE loc[p].lim = 0
  <2>1. UNCHANGED <<sz, tlb>>
    BY <1>4, Zenon DEF ShrinkReturn
  <2>2. \A pg \in VPages : pt[pgdir[p]][pg] # NoPte => pg * PGSIZE < sz'[p]
    BY <1>1, <1>2, <2>1, Zenon DEF UserMapped
  <2>3. TlbAgrees(p)'
    BY <1>1, <1>2, <2>1, Zenon DEF TlbAgrees
  <2>4. /\ sz' \in [Procs -> 0 .. MaxSz] /\ \A q \in Procs : q # p => sz'[q] = sz[q]
        /\ tlb' \in [Procs -> [VPages -> Pte]] /\ \A q \in Procs : q # p => tlb'[q] = tlb[q]
    BY <2>1, ZenonT(40) DEF IInv, Types
  <2> QED BY <1>1, <1>3, <2>2, <2>3, <2>4, ReturnStep, Zenon DEF memory
<1>5. CASE loc[p].lim # 0
  <2>1. sz' = [sz EXCEPT ![p] = loc[p].lim] /\ SwitchUvm(p)
    BY <1>5, Zenon DEF ShrinkReturn
  <2>2. /\ sz' \in [Procs -> 0 .. MaxSz] /\ sz'[p] = loc[p].lim
        /\ \A q \in Procs : q # p => sz'[q] = sz[q]
    BY <2>1, ProcFacts, ZenonT(40) DEF Types
  <2>3. ASSUME NEW pg \in VPages, pt[pgdir[p]][pg] # NoPte
        PROVE  pg * PGSIZE < sz'[p]
    <3>1. pg * PGSIZE < sz[p] /\ (pg * PGSIZE < loc[p].lim \/ pg >= loc[p].at)
      BY <1>1, <1>2, <2>3, Zenon DEF UserMapped
    <3>2. pg \in Nat /\ loc[p].at \in Nat /\ sz[p] \in Nat /\ pg * PGSIZE \in Int
            /\ loc[p].at * PGSIZE \in Int
      BY ProcFacts, ConstAssumption DEF VPages
    <3>3. pg * PGSIZE < loc[p].at * PGSIZE
      BY <3>1, <3>2, <1>1
    <3>4. pg < loc[p].at
      BY <3>2, <3>3, PagesInOrder
    <3> QED BY <3>1, <3>2, <3>4, <2>2
  <2> QED BY <1>1, <1>3, <2>1, <2>2, <2>3, Flushed, ReturnStep, Zenon DEF memory
<1> QED BY <1>4, <1>5, Zenon

-----------------------------------------------------------------------------
(* exec() adds a page to the table it builds.                              *)
LEMMA ExecPageStep ==
  ASSUME Counting, IInv, NEW p \in Procs, NEW c \in Contents, ExecPage(p, c)
  PROVE  IInv'
<1>1. halted = "no" /\ st[p] = "exec" /\ loc[p].at <= loc[p].lim
  BY Zenon DEF ExecPage
<1>2. CASE KallocFault
  BY <1>2, HaltStep, Zenon DEF KallocFault
<1>3. CASE MapNewPage(p, loc[p].dir, c)
  <2> DEFINE d == loc[p].dir
             a == loc[p].at
             l == Advance(loc[p])
  <2>1. st[p] \in Live /\ LoopBounds(p) /\ d # None /\ DirMapped(p)
    BY <1>1, ProcFacts, Zenon DEF ProcLoops, Live, States, SlotControl
  <2>2. d \in Frames /\ d # pgdir[p]
    BY <2>1, ProcFacts, OwnTables, Zenon
  <2>3. loc[p].lim \in 3 .. NPages /\ a \in Nat /\ NPages \in Nat
    BY <2>1, <1>1, ProcFacts, ConstAssumption, Zenon DEF LoopBounds
  <2>4. a \in VPages
    BY <2>3, <1>1 DEF VPages
  <2>5. pt[d][a] = NoPte
    BY <2>1, <2>3, <2>4, <1>1 DEF DirMapped
  <2>6. /\ freelist' \in Seq(Frames) /\ refs' \in [Frames -> Int]
        /\ mem' \in [Frames -> Contents] /\ pt' \in [Frames -> [VPages -> Pte]]
        /\ SamePointers => Sharing'
        /\ \A x \in Frames, g \in VPages : x # d \/ g # a => pt'[x][g] = pt[x][g]
        /\ "P" \in pt'[d][a].flags
        /\ loc' = [loc EXCEPT ![p].at = @ + 1]
        /\ UNCHANGED <<checksum, procs, st, tlb, halted>>
    BY <1>3, <2>2, <2>4, <2>5, MapNewPageFacts, Zenon
  <2>7. loc'[p] = l /\ l.dir = d /\ l.lim = loc[p].lim /\ l.at = a + 1 /\ st'[p] = "exec"
    BY <2>4, <2>6, <1>1, Advanced, Zenon
  <2> HIDE DEF l
  <2>8. LoopBounds(p)'
    BY <2>3, <2>7, <1>1 DEF LoopBounds
  <2>9. DirMapped(p)'
    <3>1. ASSUME NEW pg \in VPages, pt'[d][pg] # NoPte PROVE pg < a + 1
      <4>1. CASE pg = a
        BY <4>1, <2>3
      <4>2. CASE pg # a
        <5>1. pt[d][pg] # NoPte
          BY <3>1, <4>2, <2>2, <2>6, Zenon
        <5>2. pg < a /\ pg \in Nat
          BY <5>1, <2>1, <1>1 DEF DirMapped, VPages
        <5> QED BY <5>2, <2>3
      <4> QED BY <4>1, <4>2, Zenon
    <3> QED BY <3>1, <2>7, Zenon DEF DirMapped
  <2>10. ProcLoops(p)'
    BY <1>1, <2>6, <2>8, <2>9, DirLoop, Zenon
  <2> QED BY <1>1, <2>2, <2>4, <2>6, <2>10, TableLoopStep, ZenonT(40)
<1> QED BY <1>2, <1>3, Zenon DEF ExecPage

(* copyuvm() copies a page into the child's table.                         *)
LEMMA CopyUvmPageStep ==
  ASSUME Counting, IInv, NEW p \in Procs, CopyUvmPage(p)
  PROVE  IInv'
<1> DEFINE d == loc[p].dir
           a == loc[p].at
           l == Advance(loc[p])
           pte == pt[pgdir[p]][a]
<1>1. halted = "no" /\ st[p] = "copy" /\ a * PGSIZE < loc[p].lim
  BY Zenon DEF CopyUvmPage, CopyUvmPageWith
<1>2. CASE KallocFault
  BY <1>2, HaltStep DEF KallocFault
<1>3. CASE Panic("copyuvm: page not present")
  BY <1>3, HaltStep, Zenon DEF Panic
<1>4. CASE ~KallocFault /\ ~Panic("copyuvm: page not present")
  <2>1. /\ "P" \in pte.flags
        /\ loc' = [loc EXCEPT ![p].at = @ + 1]
        /\ UNCHANGED <<checksum, procs, st, tlb, halted>>
    BY <1>4, Zenon DEF CopyUvmPage, CopyUvmPageWith
  <2>2. PICK f \in Frames :
          /\ Kalloc(f) /\ mem' = [mem EXCEPT ![f] = mem[pte.frame]]
          /\ pt' = [pt EXCEPT ![d][a] = [frame |-> f, flags |-> pte.flags]]
    BY <1>4, ZenonT(40) DEF CopyUvmPage, CopyUvmPageWith
  <2>3. st[p] \in Live /\ LoopBounds(p) /\ d # None /\ DirMapped(p)
    BY <1>1, ProcFacts, Zenon DEF ProcLoops, Live, States, SlotControl
  <2>4. d \in Frames /\ d # pgdir[p] /\ pgdir[p] \in Frames
    BY <2>3, ProcFacts, OwnTables, Zenon
  <2>5. a \in VPages
    BY <1>1, ProcFacts, PageBelow, Zenon
  <2>6. pte \in Pte /\ pte.frame \in Frames /\ pte.flags \in SUBSET Flags
    BY <2>1, <2>4, <2>5, EntryTypes, ProcFacts, Zenon
  <2>7. "P" \in pte.flags /\ "W" \notin pte.flags => "COW" \in pte.flags
    BY <2>4, <2>5, Zenon DEF IInv, Sharing, ReadOnlyIsCow
  <2>8. /\ Types /\ Sharing /\ pt \in [Frames -> [VPages -> Pte]]
        /\ mem' \in [Frames -> Contents]
    BY <2>2, <2>6, Zenon DEF IInv, Types
  <2> HIDE DEF pte
  <2>9. /\ freelist # <<>> /\ f = Head(freelist) /\ freelist' = Tail(freelist)
        /\ refs' = [refs EXCEPT ![f] = 1]
    BY <2>2, Zenon DEF Kalloc
  <2>10. refs' \in [Frames -> Int] /\ freelist' \in Seq(Frames)
    BY <2>8, <2>9, AllocFacts, Zenon
  <2>11. PICK e \in Pte : e = [frame |-> f, flags |-> pte.flags]
    BY <2>6, Zenon DEF Pte
  <2>12. /\ pt' \in [Frames -> [VPages -> Pte]] /\ pt'[d][a] = e
         /\ \A x \in Frames, g \in VPages : x # d \/ g # a => pt'[x][g] = pt[x][g]
    BY <2>2, <2>4, <2>5, <2>8, <2>11, EntryUpdate
  <2>13. "P" \in e.flags
    BY <2>1, <2>11, Zenon
  <2>14. loc'[p] = l /\ l.dir = d /\ l.lim = loc[p].lim /\ l.at = a + 1 /\ st'[p] = "copy"
           /\ sz'[p] = sz[p]
    BY <2>5, <2>1, <1>1, Advanced, ZenonT(40) DEF procs
  <2> HIDE DEF l
  <2>15. pt[d][a] = NoPte
    BY <2>3, <2>5, <1>1 DEF DirMapped, VPages
  <2>16. SamePointers => Sharing'
    BY <2>2, <2>4, <2>5, <2>6, <2>7, <2>8, <2>9, <2>15, SharingMap, ZenonT(40)
  <2>17. LoopBounds(p)'
    BY <2>3, <2>14, <1>1, Zenon DEF LoopBounds
  <2>18. DirMapped(p)'
    <3>1. ASSUME NEW pg \in VPages, pt'[d][pg] # NoPte
          PROVE  pg < a + 1 /\ pg * PGSIZE < loc[p].lim
      <4>1. CASE pg = a
        BY <4>1, <1>1, ProcFacts
      <4>2. CASE pg # a
        <5>1. pt[d][pg] # NoPte
          BY <3>1, <4>2, <2>4, <2>12, Zenon
        <5>2. pg < a /\ pg \in Nat /\ pg * PGSIZE < loc[p].lim /\ a \in Nat
          BY <5>1, <2>3, <1>1, ProcFacts DEF DirMapped, VPages
        <5> QED BY <5>2
      <4> QED BY <4>1, <4>2, Zenon
    <3> QED BY <3>1, <2>14, Zenon DEF DirMapped
  <2>19. ProcLoops(p)'
    BY <1>1, <2>1, <2>12, <2>17, <2>18, DirLoop, Zenon
  <2> QED BY <1>1, <2>1, <2>4, <2>5, <2>8, <2>10, <2>12, <2>13, <2>16, <2>19, TableLoopStep, Zenon
<1> QED BY <1>2, <1>3, <1>4, Zenon

(* freevm() releases a page.                                               *)
LEMMA FreevmPageStep ==
  ASSUME Counting, IInv, NEW p \in Procs, FreevmPage(p)
  PROVE  IInv'
<1> DEFINE d == loc[p].dir
           a == loc[p].at
           l == Advance(loc[p])
<1>1. /\ halted = "no" /\ st[p] = "free" /\ a <= NPages /\ ReleasePage(d, a)
      /\ loc' = [loc EXCEPT ![p].at = @ + 1]
      /\ UNCHANGED <<checksum, procs, st, tlb, halted>>
  BY Zenon DEF FreevmPage
<1>2. a \in VPages
  BY <1>1, ProcFacts, ConstAssumption DEF VPages
<1>3. st[p] \in Live /\ d # None /\ DirMapped(p)
  BY <1>1, ProcFacts, Zenon DEF ProcLoops, Live, States, SlotControl
<1>4. d \in Frames
  BY <1>3, ProcFacts, OwnTables, Zenon
<1>5. /\ freelist' \in Seq(Frames) /\ refs' \in [Frames -> Int]
      /\ mem' \in [Frames -> Contents] /\ pt' \in [Frames -> [VPages -> Pte]]
      /\ SamePointers => Sharing'
      /\ \A x \in Frames, g \in VPages : x # d \/ g # a => pt'[x][g] = pt[x][g]
      /\ pt'[d][a] = NoPte
  BY <1>1, <1>2, <1>4, ReleasePageFacts, Zenon
<1>6. loc'[p] = l /\ l.dir = d /\ l.at = a + 1 /\ st'[p] = "free"
  BY <1>1, <1>2, Advanced, Zenon
<1> HIDE DEF l
<1>7. LoopBounds(p)'
  BY <1>6, Zenon DEF LoopBounds
<1>8. DirMapped(p)'
  <2>1. ASSUME NEW pg \in VPages, pt'[d][pg] # NoPte PROVE pg >= a + 1
    <3>1. pg # a /\ pt[d][pg] # NoPte
      BY <2>1, <1>4, <1>5, Zenon
    <3>2. pg >= a /\ pg \in Int /\ a \in Int
      BY <3>1, <1>1, <1>2, <1>3 DEF DirMapped, VPages
    <3> QED BY <3>1, <3>2
  <2> QED BY <2>1, <1>6, Zenon DEF DirMapped
<1>9. ProcLoops(p)'
  BY <1>1, <1>5, <1>7, <1>8, DirLoop, Zenon
<1> QED BY <1>1, <1>2, <1>4, <1>5, <1>9, TableLoopStep, Zenon
=============================================================================
