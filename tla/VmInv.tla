------------------------------- MODULE VmInv --------------------------------
(***************************************************************************)
(* Proofs about Vm, for any number of processes, frames and pages, any     *)
(* page size and any translation cache.                                    *)
(*                                                                         *)
(* The inductive invariant has three parts: types, Sharing (what the       *)
(* frames, their counts and the entries say about each other) and Walks    *)
(* (what the processes are doing to the tables).  Sharing is about few     *)
(* variables and few kinds of change, so its lemmas are about the change   *)
(* and not about the action.                                               *)
(*                                                                         *)
(* Here: the invariant, what it says of one process, the steps that change *)
(* no table, and the changes of Sharing.                                   *)
(***************************************************************************)
EXTENDS Vm, TLAPS

Types ==
  /\ freelist \in Seq(Frames)
  /\ refs \in [Frames -> Int]
  /\ checksum \in [Frames -> Int]
  /\ mem \in [Frames -> Contents]
  /\ pt \in [Frames -> [VPages -> Pte]]
  /\ pgdir \in [Procs -> Frames \cup {None}]
  /\ kstack \in [Procs -> Frames \cup {None}]
  /\ sz \in [Procs -> 0 .. MaxSz]
  /\ st \in [Procs -> States]
  /\ loc \in [Procs -> Locals]
  /\ tlb \in [Procs -> [VPages -> Pte]]
  /\ halted \in {"no", "kalloc", "corrupt", "remap",
                 "copyuvm: page not present", "init exiting"}

(* The elements of a list and their being different.                       *)
Elems(s) == {s[i] : i \in 1 .. Len(s)}
NoDup(s) == \A i, j \in 1 .. Len(s) : i # j => s[i] # s[j]

(* No frame has two kernel pointers to it.                                 *)
Distinct ==
  \A p, q \in Procs :
    /\ p # q => /\ pgdir[p] # None => pgdir[p] # pgdir[q]
                /\ kstack[p] # None => kstack[p] # kstack[q]
                /\ loc[p].dir # None => loc[p].dir # loc[q].dir
    /\ pgdir[p] # None => pgdir[p] # kstack[q] /\ pgdir[p] # loc[q].dir
    /\ kstack[p] # None => kstack[p] # loc[q].dir

(* Entries for one frame are copy-on-write and in one table.               *)
Private ==
  \A d, e \in Frames, pg, g \in VPages :
    /\ pt[d][pg].frame # None /\ pt[d][pg].frame = pt[e][g].frame
    /\ d # e \/ pg # g
    => d = e /\ "COW" \in pt[d][pg].flags /\ "W" \notin pt[d][pg].flags

Apart ==
  \A d \in Frames, pg \in VPages :
    pt[d][pg].frame # None => pt[d][pg].frame \notin KernelFrames

Counted ==
  \A f \in Frames : refs[f] = Cardinality(PteHolders(f))
                               + (IF f \in KernelFrames THEN 1 ELSE 0)

FreeListed ==
  FreeFrames = {f \in Frames : refs[f] = 0} /\ NoDup(freelist)

Sharing == Distinct /\ Private /\ Apart /\ Counted /\ FreeListed /\ ReadOnlyIsCow
Walks == Control /\ Loops
IInv == Types /\ Sharing /\ Walks

-----------------------------------------------------------------------------
(* PGROUNDUP and the loops over pages, for any page size.                  *)

(* A page whose first byte lies below another's comes before it.           *)
LEMMA PagesInOrder ==
  ASSUME NEW a \in Int, NEW b \in Int, a * PGSIZE < b * PGSIZE
  PROVE  a < b
<1>1. SUFFICES ASSUME a >= b PROVE FALSE
  OBVIOUS
<1>2. PICK k \in Nat : a = b + k
  BY <1>1
<1>3. a * PGSIZE = b * PGSIZE + k * PGSIZE
  BY <1>2, ConstAssumption
<1>4. k * PGSIZE >= 0
  BY ConstAssumption
<1> QED BY <1>3, <1>4, ConstAssumption

(* A page before another starts at least a page below it.                  *)
LEMMA PagesApart ==
  ASSUME NEW a \in Int, NEW b \in Int, a < b
  PROVE  a * PGSIZE < b * PGSIZE
<1>1. PICK k \in Nat : b = a + 1 + k
  OBVIOUS
<1>2. k * PGSIZE \in Nat /\ PGSIZE \in Nat /\ PGSIZE > 0
  BY ConstAssumption
<1>3. b * PGSIZE = a * PGSIZE + PGSIZE + k * PGSIZE /\ a * PGSIZE \in Int
  BY <1>1, <1>2
<1> QED BY <1>2, <1>3

(* PGROUNDUP(a) is the first page boundary at or above a, within the bound *)
(* whenever a is.                                                          *)
LEMMA PageUpFacts ==
  ASSUME NEW a \in 0 .. MaxSz
  PROVE  /\ PageUp(a) \in 0 .. NPages + 1
         /\ PageUp(a) * PGSIZE >= a
         /\ \A pg \in Nat : pg < PageUp(a) => pg * PGSIZE < a
         /\ \A pg \in Nat : pg * PGSIZE < a => pg < PageUp(a)
<1> DEFINE q == (a + PGSIZE - 1) \div PGSIZE
<1>0. PGSIZE \in Nat /\ PGSIZE >= 1 /\ NPages \in Nat /\ a \in Nat
  BY ConstAssumption DEF MaxSz
<1>1. q \in Nat /\ q * PGSIZE <= a + PGSIZE - 1 /\ a + PGSIZE - 1 < (q + 1) * PGSIZE
  BY <1>0
<1>6. PageUp(a) = q
  BY Zenon DEF PageUp
<1> HIDE DEF q
<1>2. q * PGSIZE >= a
  BY <1>0, <1>1
<1>3. q < NPages + 2
  <2>1. q * PGSIZE < (NPages + 2) * PGSIZE
    BY <1>0, <1>1 DEF MaxSz
  <2> QED BY <2>1, <1>0, <1>1, PagesInOrder
<1>4. ASSUME NEW pg \in Nat, pg < q PROVE pg * PGSIZE < a
  <2>1. (pg + 1) * PGSIZE <= q * PGSIZE
    <3> DEFINE k == q - pg - 1
    <3>1. k \in Nat /\ q = pg + 1 + k
      BY <1>1, <1>4
    <3> HIDE DEF k
    <3>2. q * PGSIZE = (pg + 1) * PGSIZE + k * PGSIZE /\ k * PGSIZE >= 0
      BY <3>1, <1>0
    <3> QED BY <3>1, <3>2, <1>0, <1>1
  <2> QED BY <2>1, <1>0, <1>1
<1>5. ASSUME NEW pg \in Nat, pg * PGSIZE < a PROVE pg < q
  <2>1. pg * PGSIZE < q * PGSIZE
    BY <1>5, <1>2, <1>0, <1>1
  <2> QED BY <2>1, <1>1, PagesInOrder
<1> QED BY <1>1, <1>2, <1>3, <1>4, <1>5, <1>6, <1>0

(* A loop over the pages below a size stays inside the table.              *)
LEMMA PageBelow ==
  ASSUME NEW a \in 0 .. MaxSz, NEW pg \in Nat, pg * PGSIZE < a
  PROVE  pg \in VPages
<1>1. pg * PGSIZE < (NPages + 1) * PGSIZE /\ NPages \in Nat
  BY ConstAssumption DEF MaxSz
<1> QED BY <1>1, PagesInOrder DEF VPages

-----------------------------------------------------------------------------
(* Entries and the kernel's pointers.                                      *)

SamePointers == /\ pgdir' = pgdir /\ kstack' = kstack
                /\ \A p \in Procs : loc'[p].dir = loc[p].dir

(* An entry has a frame and flags; NoPte is the one without a frame.       *)
LEMMA PteFacts ==
  ASSUME NEW e \in Pte
  PROVE  /\ e.frame \in Frames \cup {None} /\ e.flags \in SUBSET Flags
         /\ e.frame = None <=> e = NoPte
         /\ e = NoPte => e.flags = {}
BY ConstAssumption DEF Pte, NoPte, Frames

(* The same for the entries of the page tables.                            *)
LEMMA EntryTypes ==
  ASSUME Types, NEW x \in Frames, NEW g \in VPages
  PROVE  /\ pt[x][g] \in Pte
         /\ pt[x][g].frame \in Frames \cup {None}
         /\ pt[x][g].flags \in SUBSET Flags
         /\ pt[x][g].frame = None <=> pt[x][g] = NoPte
         /\ pt[x][g] = NoPte => pt[x][g].flags = {}
<1>1. pt[x][g] \in Pte
  BY Zenon DEF Types
<1> QED BY <1>1, PteFacts, Zenon

(* Frames are numbers, the null pointer is not one of them.                *)
LEMMA FrameIsNotNone ==
  /\ None \notin Frames /\ \A f \in Frames : f # None
  /\ \A f \in Frames : f \in Int
BY ConstAssumption DEF Frames

(* Writing one entry of one table leaves the others.                       *)
LEMMA EntryUpdate ==
  ASSUME NEW T \in [Frames -> [VPages -> Pte]], NEW U,
         NEW d \in Frames, NEW pg \in VPages, NEW e \in Pte,
         U = [T EXCEPT ![d][pg] = e]
  PROVE  /\ U \in [Frames -> [VPages -> Pte]]
         /\ U[d][pg] = e
         /\ \A x \in Frames, g \in VPages :
              x # d \/ g # pg => U[x][g] = T[x][g]
BY Zenon

(* With the kernel's pointers unchanged its frames are unchanged.          *)
LEMMA PointersKept ==
  ASSUME SamePointers
  PROVE  KernelFrames' = KernelFrames /\ (Distinct => Distinct')
<1>1. {loc'[p].dir : p \in Procs} = {loc[p].dir : p \in Procs}
  BY Zenon DEF SamePointers
<1>2. KernelFrames' = KernelFrames
  BY <1>1, Zenon DEF SamePointers, KernelFrames
<1>3. Distinct => Distinct'
  BY DEF SamePointers, Distinct
<1> QED BY <1>2, <1>3, Zenon

(* Nothing that Sharing talks about changes.                               *)
LEMMA SharingKept ==
  ASSUME Sharing, SamePointers, UNCHANGED <<freelist, refs, pt>>
  PROVE  Sharing'
<1>1. KernelFrames' = KernelFrames /\ Distinct'
  BY PointersKept, Zenon DEF Sharing
<1>2. \A f : PteHolders(f)' = PteHolders(f)
  BY Zenon DEF PteHolders
<1>3. Private' /\ Apart' /\ ReadOnlyIsCow' /\ FreeListed'
  BY <1>1 DEF Sharing, Private, Apart, ReadOnlyIsCow, FreeListed, FreeFrames
<1>4. Counted'
  BY <1>1, <1>2, Zenon DEF Sharing, Counted
<1> QED BY <1>1, <1>3, <1>4, Zenon DEF Sharing

(* A kernel frame has a pointer of some process to it.                     *)
LEMMA KernelFramesAre ==
  ASSUME NEW v
  PROVE  /\ v \in KernelFrames <=>
              \E p \in Procs : pgdir[p] = v \/ kstack[p] = v \/ loc[p].dir = v
         /\ v \in KernelFrames' <=>
              \E p \in Procs : pgdir'[p] = v \/ kstack'[p] = v \/ loc'[p].dir = v
BY Zenon DEF KernelFrames

-----------------------------------------------------------------------------
(* What a process does concerns its own tables and loops.                  *)

ProcLoops(q) ==
  st[q] \in Live => /\ UserMapped(q) /\ LoopBounds(q) /\ TlbAgrees(q)
                    /\ loc[q].dir # None => DirMapped(q)

(* Loops, one process at a time.                                           *)
LEMMA LoopsAreProcLoops ==
  /\ Loops <=> halted # "remap" /\ \A q \in Procs : ProcLoops(q)
  /\ Loops' <=> halted' # "remap" /\ \A q \in Procs : ProcLoops(q)'
BY Zenon DEF Loops, ProcLoops

(* A process that is not touched, its tables included, stays right.        *)
LEMMA OtherLoops ==
  ASSUME NEW q \in Procs, ProcLoops(q),
         st'[q] = st[q], loc'[q] = loc[q], pgdir'[q] = pgdir[q],
         sz'[q] = sz[q], tlb'[q] = tlb[q],
         st[q] \in Live => \A g \in VPages : pt'[pgdir[q]][g] = pt[pgdir[q]][g],
         loc[q].dir # None => \A g \in VPages : pt'[loc[q].dir][g] = pt[loc[q].dir][g]
  PROVE  ProcLoops(q)'
BY Zenon DEF ProcLoops, UserMapped, LoopBounds, TlbAgrees, DirMapped

(* The frames a live process works on are its own.                         *)
LEMMA OwnTables ==
  ASSUME Types, Sharing, Control, NEW p \in Procs, st[p] \in Live
  PROVE  /\ pgdir[p] \in Frames /\ kstack[p] \in Frames
         /\ loc[p].dir # None => loc[p].dir \in Frames /\ loc[p].dir # pgdir[p]
         /\ \A q \in Procs : q # p =>
              /\ pgdir[q] # pgdir[p] /\ loc[q].dir # pgdir[p]
              /\ loc[p].dir # None => pgdir[q] # loc[p].dir /\ loc[q].dir # loc[p].dir
<1>1. pgdir[p] # None /\ kstack[p] # None
  BY Zenon DEF Control, SlotControl
<1>2. pgdir[p] \in Frames /\ kstack[p] \in Frames
  BY <1>1, Zenon DEF Types
<1>3. loc[p] \in Locals
  BY Zenon DEF Types
<1>4. loc[p].dir \in Frames \cup {None}
  BY <1>3, Zenon DEF Locals
<1> QED BY <1>1, <1>2, <1>4, Zenon DEF Sharing, Distinct

(* A live process that keeps its pointers changes its own state and adds   *)
(* entries to its own tables only.                                         *)
LEMMA ControlKept ==
  ASSUME Types, Control, NEW p \in Procs, NEW s \in States, NEW l,
         st[p] \in Live,
         UNCHANGED <<pgdir, kstack>>,
         st' = [st EXCEPT ![p] = s], loc' = [loc EXCEPT ![p] = l],
         l.dir = loc[p].dir, l.kid = loc[p].kid,
         s \in Live \cup {"zombie"},
         s \in {"copy", "exec", "free"} <=> st[p] \in {"copy", "exec", "free"},
         s \in {"fork", "copy"} <=> st[p] \in {"fork", "copy"},
         st[p] = "free" => s = "free",
         \A x \in Frames, g \in VPages : pt'[x][g] # NoPte =>
           /\ "P" \in pt'[x][g].flags
           /\ pt[x][g] # NoPte \/ x \in {pgdir[p], loc[p].dir}
  PROVE  Control' /\ SamePointers
<1>0. \A q \in Procs : loc'[q].dir = loc[q].dir /\ loc'[q].kid = loc[q].kid
  BY Zenon DEF Types
<1>1. SamePointers
  BY <1>0, Zenon DEF SamePointers
<1>2. Roots' = Roots
  BY <1>0 DEF Roots
<1>3. \A x \in Frames, g \in VPages :
        pt'[x][g] # NoPte => x \in Roots' /\ "P" \in pt'[x][g].flags
  BY <1>2, Zenon DEF Control, Roots
<1>4. ASSUME NEW q \in Procs PROVE SlotControl(q)'
  <2>1. SlotControl(q) /\ SlotControl(p)
    BY Zenon DEF Control
  <2>2. \A k \in Procs : k # p => st'[k] = st[k]
    BY Zenon DEF Types
  <2>3. st'[p] = s
    BY Zenon DEF Types
  <2>4. ASSUME loc[q].kid # None
        PROVE  /\ loc[q].kid \in Procs /\ loc[q].kid # p
               /\ st'[loc[q].kid] = st[loc[q].kid] /\ pgdir'[loc[q].kid] = pgdir[loc[q].kid]
    <3>1. loc[q].kid \in Procs
      <4>1. loc[q] \in Locals
        BY Zenon DEF Types
      <4> QED BY <2>4, <4>1, Zenon DEF Locals
    <3>2. st[loc[q].kid] \in {"embryo", "zombie"}
      BY <2>1, <2>4, Zenon DEF SlotControl
    <3>3. loc[q].kid # p
      BY <3>2, Zenon DEF Live
    <3> QED BY <3>1, <3>3, <2>2, Zenon
  <2>5. \A r \in Procs : q # r /\ loc'[q].kid # None => loc'[q].kid # loc'[r].kid
    BY <1>0, <2>1, Zenon DEF SlotControl
  <2>6. /\ loc'[q].dir = loc[q].dir /\ loc'[q].kid = loc[q].kid
        /\ pgdir'[q] = pgdir[q] /\ kstack'[q] = kstack[q]
    BY <1>0, Zenon
  <2>7. CASE q = p
    <3>1. pgdir[q] # None /\ kstack[q] # None
      BY <2>1, <2>7, Zenon DEF SlotControl
    <3> QED BY <2>1, <2>3, <2>4, <2>5, <2>6, <2>7, <3>1 DEF SlotControl, Live
  <2>8. CASE q # p
    <3>1. st'[q] = st[q]
      BY <2>2, <2>8, Zenon
    <3> QED BY <2>1, <2>4, <2>5, <2>6, <3>1 DEF SlotControl
  <2> QED BY <2>7, <2>8, Zenon
<1> QED BY <1>1, <1>3, <1>4, Zenon DEF Control

(* One process takes a step and keeps its pointers: what is left to show   *)
(* is about its own tables and loops.                                      *)
LEMMA StepOfOne ==
  ASSUME IInv, NEW p \in Procs, NEW s \in States, NEW l \in Locals,
         st[p] \in Live,
         UNCHANGED <<pgdir, kstack>>,
         st' = [st EXCEPT ![p] = s], loc' = [loc EXCEPT ![p] = l],
         l.dir = loc[p].dir, l.kid = loc[p].kid,
         s \in Live \cup {"zombie"},
         s \in {"copy", "exec", "free"} <=> st[p] \in {"copy", "exec", "free"},
         s \in {"fork", "copy"} <=> st[p] \in {"fork", "copy"},
         st[p] = "free" => s = "free",
         freelist' \in Seq(Frames), refs' \in [Frames -> Int],
         checksum' \in [Frames -> Int], mem' \in [Frames -> Contents],
         pt' \in [Frames -> [VPages -> Pte]],
         sz' \in [Procs -> 0 .. MaxSz], \A q \in Procs : q # p => sz'[q] = sz[q],
         tlb' \in [Procs -> [VPages -> Pte]], \A q \in Procs : q # p => tlb'[q] = tlb[q],
         halted' \in {"no", "kalloc", "corrupt", "copyuvm: page not present",
                      "init exiting"},
         SamePointers => Sharing',
         \A x \in Frames, g \in VPages :
           /\ pt'[x][g] # NoPte => "P" \in pt'[x][g].flags
           /\ pt'[x][g] # pt[x][g] => x \in {pgdir[p], loc[p].dir},
         ProcLoops(p)'
  PROVE  IInv'
<1>1. Types /\ Sharing /\ Control /\ \A q \in Procs : ProcLoops(q)
  BY LoopsAreProcLoops, Zenon DEF IInv, Walks
<1>2. Control' /\ SamePointers
  <2>1. \A x \in Frames, g \in VPages : pt'[x][g] # NoPte =>
          /\ "P" \in pt'[x][g].flags
          /\ pt[x][g] # NoPte \/ x \in {pgdir[p], loc[p].dir}
    BY Zenon
  <2> QED BY <1>1, <2>1, ControlKept, Zenon
<1>3. Types'
  BY <1>1, Zenon DEF Types
<1>4. Sharing'
  BY <1>2, Zenon
<1>5. ASSUME NEW q \in Procs, q # p PROVE ProcLoops(q)'
  <2>1. ProcLoops(q) /\ st'[q] = st[q] /\ loc'[q] = loc[q] /\ pgdir'[q] = pgdir[q]
          /\ sz'[q] = sz[q] /\ tlb'[q] = tlb[q]
    BY <1>1, <1>5, Zenon DEF Types
  <2>2. /\ pgdir[q] # pgdir[p] /\ loc[q].dir # pgdir[p]
        /\ loc[p].dir # None => pgdir[q] # loc[p].dir /\ loc[q].dir # loc[p].dir
    BY <1>1, <1>5, OwnTables, Zenon
  <2>3. st[q] \in Live => pgdir[q] \in Frames /\ pgdir[q] # None
    BY <1>1, OwnTables, FrameIsNotNone, Zenon
  <2>4. loc[q].dir # None => loc[q].dir \in Frames
    BY <1>1, Zenon DEF Types, Locals
  <2>5. st[q] \in Live => \A g \in VPages : pt'[pgdir[q]][g] = pt[pgdir[q]][g]
    BY <2>2, <2>3, Zenon
  <2>6. loc[q].dir # None => \A g \in VPages : pt'[loc[q].dir][g] = pt[loc[q].dir][g]
    BY <2>2, <2>4, Zenon
  <2> QED BY <2>1, <2>5, <2>6, OtherLoops, Zenon
<1>6. Loops'
  BY <1>5, LoopsAreProcLoops, Zenon
<1> QED BY <1>2, <1>3, <1>4, <1>6, Zenon DEF IInv, Walks

(* The tables, the counts and the free list stay as they are.              *)
LEMMA StepOfOneInPlace ==
  ASSUME IInv, NEW p \in Procs, NEW s \in States, NEW l \in Locals,
         st[p] \in Live,
         UNCHANGED <<pgdir, kstack, freelist, refs, pt>>,
         st' = [st EXCEPT ![p] = s], loc' = [loc EXCEPT ![p] = l],
         l.dir = loc[p].dir, l.kid = loc[p].kid,
         s \in Live \cup {"zombie"},
         s \in {"copy", "exec", "free"} <=> st[p] \in {"copy", "exec", "free"},
         s \in {"fork", "copy"} <=> st[p] \in {"fork", "copy"},
         st[p] = "free" => s = "free",
         checksum' \in [Frames -> Int], mem' \in [Frames -> Contents],
         sz' \in [Procs -> 0 .. MaxSz], \A q \in Procs : q # p => sz'[q] = sz[q],
         tlb' \in [Procs -> [VPages -> Pte]], \A q \in Procs : q # p => tlb'[q] = tlb[q],
         halted' \in {"no", "kalloc", "corrupt", "copyuvm: page not present",
                      "init exiting"},
         ProcLoops(p)'
  PROVE  IInv'
<1>1. /\ freelist' \in Seq(Frames) /\ refs' \in [Frames -> Int]
      /\ pt' \in [Frames -> [VPages -> Pte]]
  BY Zenon DEF IInv, Types
<1>2. SamePointers => Sharing'
  BY SharingKept, Zenon DEF IInv
<1>3. \A x \in Frames, g \in VPages :
        /\ pt'[x][g] # NoPte => "P" \in pt'[x][g].flags
        /\ pt'[x][g] # pt[x][g] => x \in {pgdir[p], loc[p].dir}
  BY ZenonT(40) DEF IInv, Walks, Control
<1> QED BY <1>1, <1>2, <1>3, StepOfOne, Zenon

(* What the invariant says of one process.                                 *)
LEMMA ProcFacts ==
  ASSUME IInv, NEW p \in Procs
  PROVE  /\ loc[p] \in Locals /\ sz[p] \in 0 .. MaxSz /\ sz[p] \in Nat
         /\ loc[p].at \in 0 .. NPages + 1 /\ loc[p].at \in Nat
         /\ loc[p].lim \in 0 .. MaxSz /\ loc[p].lim \in Nat
         /\ loc[p].dir \in Frames \cup {None} /\ loc[p].kid \in Procs \cup {None}
         /\ loc[p].val \in Contents
         /\ SlotControl(p) /\ ProcLoops(p) /\ Types /\ Sharing /\ Control
         /\ st[p] \in States /\ MaxSz \in Nat /\ halted # "remap"
<1>1. loc[p] \in Locals /\ sz[p] \in 0 .. MaxSz /\ st[p] \in States
  BY Zenon DEF IInv, Types
<1>2. NPages \in Nat /\ MaxSz \in Nat
  BY ConstAssumption DEF MaxSz
<1>3. SlotControl(p) /\ ProcLoops(p) /\ Types /\ Sharing /\ Control /\ halted # "remap"
  BY LoopsAreProcLoops, Zenon DEF IInv, Walks, Control
<1>4. /\ loc[p].at \in 0 .. NPages + 1 /\ loc[p].lim \in 0 .. MaxSz
      /\ loc[p].dir \in Frames \cup {None} /\ loc[p].kid \in Procs \cup {None}
      /\ loc[p].val \in Contents
  BY <1>1, Zenon DEF Locals
<1>5. sz[p] \in Nat /\ loc[p].at \in Nat /\ loc[p].lim \in Nat
  BY <1>1, <1>2, <1>4
<1> QED BY <1>1, <1>2, <1>3, <1>4, <1>5, Zenon

(* A process that is not touched when no table changes.                    *)
LEMMA OthersSameTables ==
  ASSUME IInv, NEW q \in Procs, pt' = pt,
         st'[q] = st[q], loc'[q] = loc[q], pgdir'[q] = pgdir[q],
         sz'[q] = sz[q], tlb'[q] = tlb[q]
  PROVE  ProcLoops(q)'
<1>1. ProcLoops(q)
  BY ProcFacts, Zenon
<1> QED BY <1>1, OtherLoops, Zenon

(* A slot that fork() or wait() of another process holds is not in use.    *)
LEMMA KidState ==
  ASSUME IInv, NEW q \in Procs, NEW r \in Procs, loc[q].kid = r
  PROVE  st[r] = "embryo" \/ (st[r] = "zombie" /\ pgdir[r] = None)
<1>1. r # None
  BY ConstAssumption, Zenon
<1>2. SlotControl(q)
  BY ProcFacts, Zenon
<1> QED BY <1>1, <1>2, Zenon DEF SlotControl

(* A slot that is not touched, nor the slot it holds, stays right.         *)
LEMMA SlotKept ==
  ASSUME IInv, NEW q \in Procs, loc'[q] = loc[q], st'[q] = st[q],
         pgdir'[q] = pgdir[q], kstack'[q] = kstack[q],
         loc[q].kid \in Procs => /\ st'[loc[q].kid] = st[loc[q].kid]
                                 /\ pgdir'[loc[q].kid] = pgdir[loc[q].kid],
         loc[q].kid # None => \A r \in Procs : r # q => loc'[r].kid # loc[q].kid
  PROVE  SlotControl(q)'
<1>1. SlotControl(q) /\ loc[q].kid \in Procs \cup {None}
  BY ProcFacts, Zenon
<1> QED BY <1>1, Zenon DEF SlotControl

-----------------------------------------------------------------------------
(* The locals of a process.                                                *)

(* The locals of a process outside every call.                             *)
LEMMA LocalsMade ==
  /\ NoLocals \in Locals /\ NoLocals.dir = None /\ NoLocals.kid = None
  /\ NoLocals.at = 0 /\ NoLocals.lim = 0 /\ NoLocals.val = Zero
<1>1. NPages \in Nat /\ MaxSz \in Nat
  BY ConstAssumption DEF MaxSz
<1> QED BY <1>1, ConstAssumption DEF NoLocals, Locals

(* The locals of a store.                                                  *)
LEMMA StoreLocals ==
  ASSUME NEW a \in 0 .. NPages + 1, NEW v \in Contents
  PROVE  /\ StoreAt(a, v) \in Locals /\ StoreAt(a, v).dir = None
         /\ StoreAt(a, v).kid = None /\ StoreAt(a, v).at = a
BY LocalsMade, Zenon DEF Locals, StoreAt

(* The locals of a walk over the process's own table.                      *)
LEMMA LoopLocals ==
  ASSUME NEW a \in 0 .. NPages + 1, NEW m \in 0 .. MaxSz
  PROVE  /\ LoopFrom(a, m) \in Locals /\ LoopFrom(a, m).dir = None
         /\ LoopFrom(a, m).kid = None /\ LoopFrom(a, m).at = a
         /\ LoopFrom(a, m).lim = m
BY LocalsMade, Zenon DEF Locals, LoopFrom

(* The locals of a call that holds a table or a slot.                      *)
LEMMA HoldingLocals ==
  ASSUME NEW d \in Frames \cup {None}, NEW k \in Procs \cup {None}
  PROVE  /\ Holding(d, k) \in Locals /\ Holding(d, k).dir = d
         /\ Holding(d, k).kid = k /\ Holding(d, k).at = 0
BY LocalsMade, Zenon DEF Locals, Holding

(* The loops' i += PGSIZE.                                                 *)
Advance(l) == [l EXCEPT !.at = l.at + 1]

(* The locals after one turn of a walk.                                    *)
LEMMA AdvanceLocals ==
  ASSUME NEW l \in Locals, l.at + 1 \in 0 .. NPages + 1
  PROVE  /\ Advance(l) \in Locals /\ Advance(l).dir = l.dir
         /\ Advance(l).kid = l.kid /\ Advance(l).at = l.at + 1
         /\ Advance(l).lim = l.lim
BY Zenon DEF Locals, Advance

(* The loops' step to the next page.                                       *)
LEMMA Advanced ==
  ASSUME IInv, NEW p \in Procs, loc[p].at \in VPages,
         loc' = [loc EXCEPT ![p].at = @ + 1]
  PROVE  /\ loc' = [loc EXCEPT ![p] = Advance(loc[p])] /\ loc'[p] = Advance(loc[p])
         /\ Advance(loc[p]) \in Locals /\ Advance(loc[p]).dir = loc[p].dir
         /\ Advance(loc[p]).kid = loc[p].kid /\ Advance(loc[p]).lim = loc[p].lim
         /\ Advance(loc[p]).at = loc[p].at + 1
<1>1. loc \in [Procs -> Locals]
  BY Zenon DEF IInv, Types
<1>2. loc' = [loc EXCEPT ![p] = Advance(loc[p])]
  BY <1>1, Zenon DEF Advance
<1>3. loc'[p] = Advance(loc[p])
  BY <1>1, <1>2, Zenon
<1>4. loc[p] \in Locals /\ loc[p].at + 1 \in 0 .. NPages + 1
  BY <1>1, ConstAssumption DEF VPages
<1> QED BY <1>2, <1>3, <1>4, AdvanceLocals, Zenon

(* A loop that changes one entry of one of the process's own tables.       *)
LEMMA TableLoopStep ==
  ASSUME IInv, NEW p \in Procs, st[p] \in {"grow", "exec", "copy", "shrink", "free"},
         NEW d \in Frames, d \in {pgdir[p], loc[p].dir}, loc[p].at \in VPages,
         \A x \in Frames, g \in VPages :
           x # d \/ g # loc[p].at => pt'[x][g] = pt[x][g],
         pt'[d][loc[p].at] # NoPte => "P" \in pt'[d][loc[p].at].flags,
         loc' = [loc EXCEPT ![p].at = @ + 1],
         UNCHANGED <<checksum, procs, st, tlb, halted>>, halted = "no",
         freelist' \in Seq(Frames), refs' \in [Frames -> Int],
         mem' \in [Frames -> Contents], pt' \in [Frames -> [VPages -> Pte]],
         SamePointers => Sharing',
         ProcLoops(p)'
  PROVE  IInv'
<1> DEFINE l == Advance(loc[p])
<1>1. /\ loc' = [loc EXCEPT ![p] = l] /\ l \in Locals
      /\ l.dir = loc[p].dir /\ l.kid = loc[p].kid
  BY Advanced, Zenon
<1> HIDE DEF l
<1>2. st' = [st EXCEPT ![p] = st[p]] /\ st[p] \in States /\ st[p] \in Live
  BY Zenon DEF IInv, Types, Live, States
<1>3. \A x \in Frames, g \in VPages :
        /\ pt'[x][g] # NoPte => "P" \in pt'[x][g].flags
        /\ pt'[x][g] # pt[x][g] => x \in {pgdir[p], loc[p].dir}
  BY DEF IInv, Walks, Control
<1>4. /\ UNCHANGED <<pgdir, kstack>> /\ checksum' \in [Frames -> Int]
      /\ sz' \in [Procs -> 0 .. MaxSz] /\ \A q \in Procs : q # p => sz'[q] = sz[q]
      /\ tlb' \in [Procs -> [VPages -> Pte]] /\ \A q \in Procs : q # p => tlb'[q] = tlb[q]
      /\ halted' = "no"
  BY Zenon DEF IInv, Types, procs
<1> QED BY <1>1, <1>2, <1>3, <1>4, StepOfOne, Zenon

(* Work on the table being built or torn down leaves the one in use alone. *)
LEMMA DirLoop ==
  ASSUME IInv, NEW p \in Procs, st[p] \in {"exec", "copy", "free"},
         \A x \in Frames, g \in VPages :
           x # loc[p].dir \/ g # loc[p].at => pt'[x][g] = pt[x][g],
         UNCHANGED <<procs, st, tlb>>,
         LoopBounds(p)', DirMapped(p)'
  PROVE  ProcLoops(p)'
<1>1. UserMapped(p) /\ TlbAgrees(p) /\ st[p] \in Live /\ loc[p].dir # None
  BY ProcFacts, Zenon DEF ProcLoops, Live, States, SlotControl
<1>2. pgdir[p] \in Frames /\ pgdir[p] # loc[p].dir
  BY <1>1, ProcFacts, OwnTables, Zenon
<1>3. \A g \in VPages : pt'[pgdir[p]][g] = pt[pgdir[p]][g]
  BY <1>2, Zenon
<1>4. pgdir'[p] = pgdir[p] /\ sz'[p] = sz[p] /\ st'[p] = st[p] /\ tlb'[p] = tlb[p]
  BY Zenon DEF procs
<1>5. UserMapped(p)' /\ TlbAgrees(p)'
  BY <1>1, <1>3, <1>4, Zenon DEF UserMapped, TlbAgrees
<1> QED BY <1>5, Zenon DEF ProcLoops

(* The machine stops: everything else stays.                               *)
LEMMA HaltStep ==
  ASSUME IInv, UNCHANGED <<memory, pt, procs, st, loc, tlb>>,
         halted' \in {"no", "kalloc", "corrupt", "copyuvm: page not present",
                      "init exiting"}
  PROVE  IInv'
<1>1. Types'
  BY Zenon DEF IInv, Types, memory, procs
<1>2. Sharing'
  BY SharingKept, Zenon DEF IInv, SamePointers, memory, procs
<1>3. Control'
  <2>1. pt' = pt /\ pgdir' = pgdir /\ kstack' = kstack /\ loc' = loc /\ st' = st
    BY Zenon DEF procs
  <2>2. Roots' = Roots
    BY <2>1, Zenon DEF Roots
  <2>3. ASSUME NEW q \in Procs PROVE SlotControl(q)'
    <3>1. SlotControl(q)
      BY ProcFacts, Zenon
    <3> QED BY <2>1, <3>1, Zenon DEF SlotControl
  <2> QED BY <2>1, <2>2, <2>3, Zenon DEF IInv, Walks, Control
<1>4. Loops'
  <2>1. ASSUME NEW q \in Procs PROVE ProcLoops(q)'
    BY OtherLoops, ProcFacts, Zenon DEF memory, procs
  <2> QED BY <2>1, LoopsAreProcLoops, Zenon
<1> QED BY <1>1, <1>2, <1>3, <1>4, Zenon DEF IInv, Walks

(* Going back to the program with the tables as they are.                  *)
LEMMA ReturnStep ==
  ASSUME IInv, NEW p \in Procs, st[p] \in {"store", "dedup", "grow", "shrink"},
         Return(p), UNCHANGED <<freelist, refs, checksum, pt, pgdir, kstack>>,
         mem' \in [Frames -> Contents],
         sz' \in [Procs -> 0 .. MaxSz], \A q \in Procs : q # p => sz'[q] = sz[q],
         tlb' \in [Procs -> [VPages -> Pte]], \A q \in Procs : q # p => tlb'[q] = tlb[q],
         halted' \in {"no", "corrupt"},
         \A pg \in VPages : pt[pgdir[p]][pg] # NoPte => pg * PGSIZE < sz'[p],
         TlbAgrees(p)'
  PROVE  IInv'
<1>1. st' = [st EXCEPT ![p] = "user"] /\ loc' = [loc EXCEPT ![p] = NoLocals]
  BY Zenon DEF Return
<1>2. loc[p].dir = None /\ loc[p].kid = None
  BY ProcFacts, Zenon DEF SlotControl
<1>3. ProcLoops(p)'
  <2>1. st'[p] = "user" /\ loc'[p] = NoLocals
    BY <1>1, Zenon DEF IInv, Types
  <2>2. UserMapped(p)'
    BY <2>1, Zenon DEF UserMapped
  <2>3. LoopBounds(p)'
    BY <2>1, Zenon DEF LoopBounds
  <2> QED BY <2>1, <2>2, <2>3, LocalsMade, Zenon DEF ProcLoops
<1>4. "user" \in States /\ "user" \in Live \cup {"zombie"} /\ st[p] \in Live
  BY Zenon DEF States, Live
<1>5. checksum' \in [Frames -> Int]
  BY Zenon DEF IInv, Types
<1> QED BY <1>1, <1>2, <1>3, <1>4, <1>5, LocalsMade, StepOfOneInPlace, Zenon

(* A fresh translation cache says nothing.                                 *)
LEMMA Flushed ==
  ASSUME IInv, NEW p \in Procs, SwitchUvm(p)
  PROVE  /\ tlb' \in [Procs -> [VPages -> Pte]]
         /\ \A q \in Procs : q # p => tlb'[q] = tlb[q]
         /\ TlbAgrees(p)'
<1>1. EmptyTable \in [VPages -> Pte] /\ \A pg \in VPages : EmptyTable[pg] = NoPte
  BY Zenon DEF EmptyTable, Pte
<1>2. /\ tlb' \in [Procs -> [VPages -> Pte]]
      /\ \A q \in Procs : q # p => tlb'[q] = tlb[q]
      /\ tlb'[p] = EmptyTable
  BY <1>1, ZenonT(40) DEF IInv, Types, SwitchUvm
<1> QED BY <1>1, <1>2, Zenon DEF TlbAgrees

-----------------------------------------------------------------------------
(* The steps that change no table.                                         *)

(* A store instruction begins.                                             *)
LEMMA StoreStep ==
  ASSUME IInv, NEW p \in Procs, NEW pg \in VPages, NEW v \in Contents, Store(p, pg, v)
  PROVE  IInv'
<1> DEFINE l == StoreAt(pg, v)
<1>1. l \in Locals /\ l.dir = None /\ l.kid = None /\ l.at = pg
  BY StoreLocals, ConstAssumption DEF VPages
<1>2. /\ st[p] = "user" /\ st' = [st EXCEPT ![p] = "store"] /\ loc' = [loc EXCEPT ![p] = l]
      /\ UNCHANGED <<memory, pt, procs, tlb, halted>> /\ halted = "no"
  BY Zenon DEF Store, Running
<1> HIDE DEF l
<1>3. loc[p].dir = None /\ loc[p].kid = None
  BY <1>2, ProcFacts, Zenon DEF SlotControl
<1>4. ProcLoops(p)'
  <2>1. st'[p] = "store" /\ loc'[p] = l
    BY <1>2, Zenon DEF IInv, Types
  <2>2. UserMapped(p) /\ TlbAgrees(p)
    BY <1>2, ProcFacts, Zenon DEF ProcLoops, Live, States
  <2>3. UserMapped(p)' /\ TlbAgrees(p)'
    BY <1>2, <2>1, <2>2, Zenon DEF UserMapped, TlbAgrees, procs
  <2>4. LoopBounds(p)'
    BY <2>1, <1>1 DEF LoopBounds, VPages
  <2> QED BY <2>1, <2>3, <2>4, <1>1, Zenon DEF ProcLoops
<1> QED BY <1>1, <1>2, <1>3, <1>4, StepOfOneInPlace, Zenon DEF IInv, Types, memory, procs, Live, States

(* dedup() begins.                                                         *)
LEMMA SysDedupStep ==
  ASSUME IInv, NEW p \in Procs, SysDedup(p)
  PROVE  IInv'
<1> DEFINE l == LoopFrom(0, PageUp(sz[p]))
<1>0. PageUp(sz[p]) \in 0 .. NPages + 1 /\ PageUp(sz[p]) \in 0 .. MaxSz
  <2>1. PageUp(sz[p]) \in 0 .. NPages + 1
    BY ProcFacts, PageUpFacts, Zenon
  <2>2. NPages + 1 <= MaxSz /\ NPages \in Nat /\ MaxSz \in Nat
    BY ConstAssumption DEF MaxSz
  <2> QED BY <2>1, <2>2
<1>1. l \in Locals /\ l.dir = None /\ l.kid = None /\ l.at = 0 /\ l.lim = PageUp(sz[p])
  BY <1>0, LoopLocals, ConstAssumption
<1>2. /\ st[p] = "user" /\ st' = [st EXCEPT ![p] = "dedup"] /\ loc' = [loc EXCEPT ![p] = l]
      /\ UNCHANGED <<memory, pt, procs, tlb, halted>> /\ halted = "no"
  BY Zenon DEF SysDedup, Running
<1> HIDE DEF l
<1>3. loc[p].dir = None /\ loc[p].kid = None
  BY <1>2, ProcFacts, Zenon DEF SlotControl
<1>4. ProcLoops(p)'
  <2>1. st'[p] = "dedup" /\ loc'[p] = l
    BY <1>2, Zenon DEF IInv, Types
  <2>2. UserMapped(p) /\ TlbAgrees(p)
    BY <1>2, ProcFacts, Zenon DEF ProcLoops, Live, States
  <2>3. UserMapped(p)' /\ TlbAgrees(p)'
    BY <1>2, <2>1, <2>2, Zenon DEF UserMapped, TlbAgrees, procs
  <2>4. LoopBounds(p)'
    BY <2>1, <1>0, <1>1 DEF LoopBounds
  <2> QED BY <2>1, <2>3, <2>4, <1>1, Zenon DEF ProcLoops
<1> QED BY <1>1, <1>2, <1>3, <1>4, StepOfOneInPlace, Zenon DEF IInv, Types, memory, procs, Live, States

(* A store lands in a frame.                                               *)
LEMMA StoreHitsStep ==
  ASSUME IInv, NEW p \in Procs, StoreHits(p)
  PROVE  IInv'
<1>1. /\ st[p] = "store" /\ Return(p) /\ halted' \in {"no", "corrupt"}
      /\ UNCHANGED <<freelist, refs, checksum, pt, procs, tlb>>
  BY Zenon DEF StoreHits
<1>2. mem' \in [Frames -> Contents]
  BY ProcFacts, Zenon DEF IInv, Types, StoreHits
<1>3. UserMapped(p) /\ TlbAgrees(p)
  BY <1>1, ProcFacts, Zenon DEF ProcLoops, Live, States
<1>4. TlbAgrees(p)'
  BY <1>1, <1>3, Zenon DEF TlbAgrees, procs
<1>5. \A pg \in VPages : pt[pgdir[p]][pg] # NoPte => pg * PGSIZE < sz'[p]
  BY <1>1, <1>3, Zenon DEF UserMapped, procs
<1>6. /\ sz' \in [Procs -> 0 .. MaxSz] /\ \A q \in Procs : q # p => sz'[q] = sz[q]
      /\ tlb' \in [Procs -> [VPages -> Pte]] /\ \A q \in Procs : q # p => tlb'[q] = tlb[q]
  BY <1>1, Zenon DEF IInv, Types, procs
<1> QED BY <1>1, <1>2, <1>4, <1>5, <1>6, ReturnStep, Zenon DEF procs

(* dedup() returns.                                                        *)
LEMMA DedupReturnStep ==
  ASSUME IInv, NEW p \in Procs, DedupReturn(p)
  PROVE  IInv'
<1>1. /\ st[p] = "dedup" /\ Return(p) /\ halted' = "no"
      /\ UNCHANGED <<memory, pt, procs, tlb>>
  BY Zenon DEF DedupReturn
<1>3. UserMapped(p) /\ TlbAgrees(p)
  BY <1>1, ProcFacts, Zenon DEF ProcLoops, Live, States
<1>4. TlbAgrees(p)'
  BY <1>1, <1>3, Zenon DEF TlbAgrees, procs
<1>5. \A pg \in VPages : pt[pgdir[p]][pg] # NoPte => pg * PGSIZE < sz'[p]
  BY <1>1, <1>3, Zenon DEF UserMapped, procs
<1>6. /\ sz' \in [Procs -> 0 .. MaxSz] /\ \A q \in Procs : q # p => sz'[q] = sz[q]
      /\ tlb' \in [Procs -> [VPages -> Pte]] /\ \A q \in Procs : q # p => tlb'[q] = tlb[q]
      /\ mem' \in [Frames -> Contents]
  BY <1>1, ZenonT(40) DEF IInv, Types, procs, memory
<1> QED BY <1>1, <1>4, <1>5, <1>6, ReturnStep, Zenon DEF procs, memory

(* exec() fails and goes on to free the table it was building.             *)
LEMMA ExecBadStep ==
  ASSUME IInv, NEW p \in Procs, ExecBad(p)
  PROVE  IInv'
<1> DEFINE l == [loc[p] EXCEPT !.at = 0]
<1>0. loc[p] \in Locals /\ 0 \in 0 .. NPages + 1
  BY ProcFacts, ConstAssumption
<1>1. l \in Locals /\ l.dir = loc[p].dir /\ l.kid = loc[p].kid /\ l.at = 0
  BY <1>0, Zenon DEF Locals
<1>2. /\ st[p] = "exec" /\ st' = [st EXCEPT ![p] = "free"] /\ loc' = [loc EXCEPT ![p] = l]
      /\ UNCHANGED <<memory, pt, procs, tlb, halted>> /\ halted = "no"
  BY Zenon DEF ExecBad, IInv, Types
<1> HIDE DEF l
<1>4. ProcLoops(p)'
  <2>1. st'[p] = "free" /\ loc'[p] = l
    BY <1>2, Zenon DEF IInv, Types
  <2>2. UserMapped(p) /\ TlbAgrees(p)
    BY <1>2, ProcFacts, Zenon DEF ProcLoops, Live, States
  <2>3. UserMapped(p)' /\ TlbAgrees(p)'
    BY <1>2, <2>1, <2>2, Zenon DEF UserMapped, TlbAgrees, procs
  <2>4. LoopBounds(p)'
    BY <2>1, Zenon DEF LoopBounds
  <2>5. DirMapped(p)'
    BY <2>1, <1>1 DEF DirMapped, VPages
  <2> QED BY <2>3, <2>4, <2>5, Zenon DEF ProcLoops
<1> QED BY <1>1, <1>2, <1>4, StepOfOneInPlace, ZenonT(40) DEF IInv, Types, memory, procs, Live, States

(* exit() makes a zombie, or panics in init.                               *)
LEMMA ExitStep ==
  ASSUME IInv, NEW p \in Procs, Exit(p)
  PROVE  IInv'
<1>1. st[p] \in {"user", "store"} /\ UNCHANGED <<memory, pt, procs, tlb>>
  BY Zenon DEF Exit, Panic
<1>2. CASE p = InitProc
  BY <1>1, <1>2, HaltStep, Zenon DEF Exit, Panic
<1>3. CASE p # InitProc
  <2>1. /\ st' = [st EXCEPT ![p] = "zombie"] /\ loc' = [loc EXCEPT ![p] = NoLocals]
        /\ halted' = "no"
    BY <1>3, Zenon DEF Exit
  <2>2. loc[p].dir = None /\ loc[p].kid = None
    BY <1>1, ProcFacts, Zenon DEF SlotControl
  <2>3. ProcLoops(p)'
    <3>1. st'[p] = "zombie"
      BY <2>1, Zenon DEF IInv, Types
    <3> QED BY <3>1, Zenon DEF ProcLoops, Live
  <2> QED BY <1>1, <2>1, <2>2, <2>3, LocalsMade, StepOfOneInPlace, Zenon
          DEF IInv, Types, memory, procs, Live, States
<1> QED BY <1>2, <1>3, Zenon

(* A reload of cr3 empties the cached translations.                        *)
LEMMA YieldStep ==
  ASSUME IInv, NEW p \in Procs, Yield(p)
  PROVE  IInv'
<1>1. /\ st[p] \in {"user", "store"} /\ UNCHANGED <<memory, pt, procs, st, loc>>
      /\ halted' = "no" /\ SwitchUvm(p)
  BY Zenon DEF Yield
<1>2. /\ st' = [st EXCEPT ![p] = st[p]] /\ loc' = [loc EXCEPT ![p] = loc[p]]
      /\ st[p] \in States /\ loc[p] \in Locals
  BY <1>1, Zenon DEF IInv, Types
<1>3. ProcLoops(p)'
  <2>2. UserMapped(p) /\ LoopBounds(p) /\ loc[p].dir = None
    BY <1>1, ProcFacts, Zenon DEF ProcLoops, Live, States, SlotControl
  <2>3. UserMapped(p)' /\ LoopBounds(p)' /\ loc'[p].dir = None
    BY <1>1, <2>2, Zenon DEF UserMapped, LoopBounds, procs
  <2> QED BY <2>3, Flushed, <1>1, Zenon DEF ProcLoops
<1>4. st[p] \in Live
  BY <1>1, Zenon DEF Live, States
<1> QED BY <1>1, <1>2, <1>3, <1>4, Flushed, StepOfOneInPlace, Zenon DEF IInv, Types, memory, procs

(* The CPU caches a translation.                                           *)
LEMMA TlbFillStep ==
  ASSUME IInv, NEW p \in Procs, NEW pg \in VPages, TlbFill(p, pg)
  PROVE  IInv'
<1>1. /\ st[p] \in {"user", "store"} /\ UNCHANGED <<memory, pt, procs, st, loc>>
      /\ halted' = "no" /\ "P" \in pt[pgdir[p]][pg].flags
      /\ tlb' = [tlb EXCEPT ![p][pg] = pt[pgdir[p]][pg]]
  BY Zenon DEF TlbFill
<1>2. /\ st' = [st EXCEPT ![p] = st[p]] /\ loc' = [loc EXCEPT ![p] = loc[p]]
      /\ st[p] \in States /\ loc[p] \in Locals
  BY <1>1, Zenon DEF IInv, Types
<1>3. st[p] \in Live
  BY <1>1, Zenon DEF Live, States
<1>4. pgdir[p] \in Frames
  BY <1>3, OwnTables, ProcFacts, Zenon
<1>5. pt[pgdir[p]][pg] \in Pte /\ pt[pgdir[p]][pg] # NoPte
  BY <1>1, <1>4, EntryTypes, ProcFacts, Zenon
<1>6. /\ tlb' \in [Procs -> [VPages -> Pte]]
      /\ \A q \in Procs : q # p => tlb'[q] = tlb[q]
      /\ tlb'[p][pg] = pt[pgdir[p]][pg]
      /\ \A g \in VPages : g # pg => tlb'[p][g] = tlb[p][g]
  BY <1>1, <1>5, Zenon DEF IInv, Types
<1>7. ProcLoops(p)'
  <2>2. UserMapped(p) /\ LoopBounds(p) /\ TlbAgrees(p) /\ loc[p].dir = None
    BY <1>1, ProcFacts, Zenon DEF ProcLoops, Live, States, SlotControl
  <2>3. UserMapped(p)' /\ LoopBounds(p)' /\ loc'[p].dir = None
    BY <1>1, <2>2, Zenon DEF UserMapped, LoopBounds, procs
  <2>4. pg * PGSIZE < sz[p]
    BY <2>2, <1>1, <1>5, Zenon DEF UserMapped
  <2>5. TlbAgrees(p)'
    BY <2>2, <2>4, <1>1, <1>6, Zenon DEF TlbAgrees, procs
  <2> QED BY <2>3, <2>5, Zenon DEF ProcLoops
<1> QED BY <1>1, <1>2, <1>3, <1>6, <1>7, StepOfOneInPlace, Zenon DEF IInv, Types, memory, procs

-----------------------------------------------------------------------------
(* What one change of the tables, the counts or the kernel's pointers does *)
(* to Sharing: a frame is taken from the free list, mapped, unmapped or    *)
(* given back.                                                             *)

(* What the proofs need to know of finite sets.  VmProof shows it from the *)
(* library's theorems, which would slow down every proof here if they were *)
(* in scope.                                                               *)
Counting ==
  /\ \A S : IsFiniteSet(S) => Cardinality(S) \in Nat
  /\ IsFiniteSet({}) /\ Cardinality({}) = 0
  /\ \A S : IsFiniteSet(S) => (Cardinality(S) = 0 <=> S = {})
  /\ \A S, x : IsFiniteSet(S) =>
       /\ Cardinality(S \cup {x}) =
            IF x \in S THEN Cardinality(S) ELSE Cardinality(S) + 1
       /\ Cardinality(S \ {x}) =
            IF x \in S THEN Cardinality(S) - 1 ELSE Cardinality(S)
  /\ \A x : Cardinality({x}) = 1
  /\ \A S : IsFiniteSet(S) => \A T \in SUBSET S : IsFiniteSet(T)
  /\ \A a, b \in Int : IsFiniteSet(a .. b)
  /\ \A S, T : IsFiniteSet(S) /\ IsFiniteSet(T) => IsFiniteSet(S \X T)

LEMMA FinType ==
  ASSUME Counting, NEW S, IsFiniteSet(S)
  PROVE  Cardinality(S) \in Nat
BY Zenon DEF Counting

LEMMA FinEmpty ==
  ASSUME Counting
  PROVE
  /\ IsFiniteSet({}) /\ Cardinality({}) = 0
  /\ \A S : IsFiniteSet(S) => (Cardinality(S) = 0 <=> S = {})
BY Zenon DEF Counting

LEMMA FinAdd ==
  ASSUME Counting, NEW S, NEW x, IsFiniteSet(S)
  PROVE  Cardinality(S \cup {x}) =
           IF x \in S THEN Cardinality(S) ELSE Cardinality(S) + 1
BY Zenon DEF Counting

LEMMA FinRemove ==
  ASSUME Counting, NEW S, NEW x, IsFiniteSet(S)
  PROVE  Cardinality(S \ {x}) =
           IF x \in S THEN Cardinality(S) - 1 ELSE Cardinality(S)
BY Zenon DEF Counting

LEMMA FinSingleton ==
  ASSUME Counting, NEW x
  PROVE  Cardinality({x}) = 1
BY Zenon DEF Counting

LEMMA FinSubset ==
  ASSUME Counting, NEW S, IsFiniteSet(S), NEW T \in SUBSET S
  PROVE  IsFiniteSet(T)
BY Zenon DEF Counting

LEMMA FinInterval ==
  ASSUME Counting, NEW a \in Int, NEW b \in Int
  PROVE  IsFiniteSet(a .. b)
BY Zenon DEF Counting

LEMMA FinProduct ==
  ASSUME Counting, NEW S, IsFiniteSet(S), NEW T, IsFiniteSet(T)
  PROVE  IsFiniteSet(S \X T)
BY Zenon DEF Counting

-----------------------------------------------------------------------------
(* Counting the holders of a frame.                                        *)

(* Two finite sets that differ in one element at most.                     *)
LEMMA CountChange ==
  ASSUME Counting, NEW A, NEW B, IsFiniteSet(A), IsFiniteSet(B), NEW x,
         \A y : y # x => (y \in A <=> y \in B)
  PROVE  Cardinality(B) = Cardinality(A) + (IF x \in B THEN 1 ELSE 0)
                                         - (IF x \in A THEN 1 ELSE 0)
<1>1. Cardinality(A) \in Nat /\ Cardinality(B) \in Nat
  BY FinType, Zenon
<1>2. CASE x \in A <=> x \in B
  <2>1. A = B BY <1>2
  <2>2. Cardinality(B) = Cardinality(A) BY <2>1, Zenon
  <2> QED BY <2>2, <1>1, <1>2
<1>3. CASE x \in B /\ x \notin A
  <2>1. B = A \cup {x} BY <1>3, Zenon
  <2>2. Cardinality(B) = Cardinality(A) + 1 BY <2>1, <1>3, FinAdd, Zenon
  <2> QED BY <2>2, <1>1, <1>3
<1>4. CASE x \notin B /\ x \in A
  <2>1. A = B \cup {x} BY <1>4, Zenon
  <2>2. Cardinality(A) = Cardinality(B) + 1 BY <2>1, <1>4, FinAdd, Zenon
  <2> QED BY <2>2, <1>1, <1>4
<1> QED BY <1>2, <1>3, <1>4, Zenon

(* Entries are counted over a finite set.                                  *)
LEMMA EntriesFinite ==
  ASSUME Counting, NEW f
  PROVE  IsFiniteSet(Frames \X VPages) /\ IsFiniteSet(PteHolders(f))
           /\ Cardinality(PteHolders(f)) \in Nat
<1>1. IsFiniteSet(Frames) /\ IsFiniteSet(VPages)
  BY ConstAssumption, FinInterval DEF Frames, VPages
<1>2. IsFiniteSet(Frames \X VPages)
  BY <1>1, FinProduct, Zenon
<1> QED BY <1>2, FinSubset, FinType, Zenon DEF PteHolders

(* A frame some entry maps is counted, and one that is not counted is free *)
(* of entries.                                                             *)
LEMMA EntryCounts ==
  ASSUME Counting, NEW d \in Frames, NEW pg \in VPages, NEW f, pt[d][pg].frame = f
  PROVE  Cardinality(PteHolders(f)) >= 1
<1>1. <<d, pg>> \in PteHolders(f)
  BY Zenon DEF PteHolders
<1>2. Cardinality(PteHolders(f)) # 0
  BY <1>1, EntriesFinite, FinEmpty, Zenon
<1> QED BY <1>2, EntriesFinite

(* A frame with two entries has at least two holders.                      *)
LEMMA TwoEntriesCount ==
  ASSUME Counting, NEW d \in Frames, NEW pg \in VPages, NEW g \in VPages, pg # g, NEW f,
         pt[d][pg].frame = f, pt[d][g].frame = f
  PROVE  Cardinality(PteHolders(f)) >= 2
<1>1. <<d, pg>> \in PteHolders(f) /\ <<d, g>> \in PteHolders(f)
  BY Zenon DEF PteHolders
<1> DEFINE S == PteHolders(f) \ {<<d, pg>>}
<1>2. <<d, g>> \in S /\ IsFiniteSet(S)
  BY <1>1, EntriesFinite, FinSubset, Zenon
<1>3. Cardinality(S) # 0 /\ Cardinality(S) \in Nat
  BY <1>2, FinEmpty, FinType, Zenon
<1>4. Cardinality(S) = Cardinality(PteHolders(f)) - 1
  BY <1>1, EntriesFinite, FinRemove, Zenon
<1> QED BY <1>3, <1>4, EntriesFinite

(* When the frame of one entry changes, so do two counts.                  *)
LEMMA EntryChange ==
  ASSUME Counting, NEW d \in Frames, NEW pg \in VPages, NEW f,
         \A e \in Frames, g \in VPages :
           e # d \/ g # pg => pt'[e][g].frame = pt[e][g].frame
  PROVE  Cardinality(PteHolders(f)') = Cardinality(PteHolders(f))
           + (IF pt'[d][pg].frame = f THEN 1 ELSE 0)
           - (IF pt[d][pg].frame = f THEN 1 ELSE 0)
<1> DEFINE A == PteHolders(f)
           B == PteHolders(f)'
           x == <<d, pg>>
<1>1. IsFiniteSet(A) /\ IsFiniteSet(B)
  BY EntriesFinite, FinSubset, Zenon DEF PteHolders
<1>2. \A y : y # x => (y \in A <=> y \in B)
  BY DEF PteHolders
<1>3. (x \in B <=> pt'[d][pg].frame = f) /\ (x \in A <=> pt[d][pg].frame = f)
  BY Zenon DEF PteHolders
<1> HIDE DEF A, B, x
<1>4. Cardinality(B) = Cardinality(A) + (IF x \in B THEN 1 ELSE 0)
                                      - (IF x \in A THEN 1 ELSE 0)
  BY <1>1, <1>2, CountChange
<1> QED BY <1>3, <1>4, Zenon DEF A, B

(* A frame the kernel points to has no entry, and its pointer counts.      *)
LEMMA KernelFrameCounts ==
  ASSUME Counting, Types, Sharing, NEW f \in Frames, f \in KernelFrames
  PROVE  refs[f] = 1 /\ \A x \in Frames, g \in VPages : pt[x][g].frame # f
<1>1. \A x \in Frames, g \in VPages : pt[x][g].frame # f
  BY FrameIsNotNone, Zenon DEF Sharing, Apart
<1>2. PteHolders(f) = {}
  BY <1>1, Zenon DEF PteHolders
<1>3. Cardinality(PteHolders(f)) = 0
  BY <1>2, FinEmpty, Zenon
<1> QED BY <1>1, <1>3 DEF Sharing, Counted

-----------------------------------------------------------------------------
(* The free list: taking its head and putting a frame in front of it.      *)

(* Taking the head of a list without repetitions removes one element.      *)
LEMMA TakeHead ==
  ASSUME NEW s \in Seq(Frames), s # <<>>, NoDup(s)
  PROVE  /\ Head(s) \in Frames /\ Head(s) \in Elems(s)
         /\ Tail(s) \in Seq(Frames) /\ NoDup(Tail(s))
         /\ Elems(Tail(s)) = Elems(s) \ {Head(s)}
<1>1. Len(s) \in Nat /\ Len(s) >= 1 /\ Head(s) = s[1] /\ Len(Tail(s)) = Len(s) - 1
        /\ \A i \in 1 .. Len(s) - 1 : Tail(s)[i] = s[i + 1]
  OBVIOUS
<1>2. Tail(s) \in Seq(Frames) /\ Head(s) \in Frames /\ Head(s) \in Elems(s)
  BY <1>1 DEF Elems
<1>3. NoDup(Tail(s))
  BY <1>1 DEF NoDup
<1>4. ASSUME NEW v \in Elems(Tail(s)) PROVE v \in Elems(s) \ {Head(s)}
  <2>1. PICK i \in 1 .. Len(s) - 1 : v = s[i + 1]
    BY <1>1, Zenon DEF Elems
  <2>2. i + 1 \in 1 .. Len(s) /\ i + 1 # 1
    BY <2>1, <1>1
  <2> QED BY <2>1, <2>2, <1>1 DEF Elems, NoDup
<1>5. ASSUME NEW v \in Elems(s) \ {Head(s)} PROVE v \in Elems(Tail(s))
  <2>1. PICK i \in 1 .. Len(s) : v = s[i] /\ i # 1
    BY <1>1, Zenon DEF Elems
  <2>2. i - 1 \in 1 .. Len(s) - 1 /\ Tail(s)[i - 1] = s[(i - 1) + 1]
    BY <2>1, <1>1
  <2>3. (i - 1) + 1 = i
    BY <2>1
  <2> QED BY <2>1, <2>2, <2>3, <1>1, Zenon DEF Elems
<1> QED BY <1>2, <1>3, <1>4, <1>5, Zenon

(* Putting a new element in front adds it and repeats nothing.             *)
LEMMA PutFront ==
  ASSUME NEW s \in Seq(Frames), NoDup(s), NEW f \in Frames, f \notin Elems(s)
  PROVE  /\ <<f>> \o s \in Seq(Frames) /\ NoDup(<<f>> \o s)
         /\ Elems(<<f>> \o s) = Elems(s) \cup {f}
<1> DEFINE t == <<f>> \o s
<1>1. t \in Seq(Frames) /\ Len(s) \in Nat /\ Len(t) = Len(s) + 1 /\ t[1] = f
        /\ \A i \in 2 .. Len(t) : t[i] = s[i - 1]
  OBVIOUS
<1> HIDE DEF t
<1>2. NoDup(t)
  <2> SUFFICES ASSUME NEW i \in 1 .. Len(t), NEW j \in 1 .. Len(t), i # j
               PROVE  t[i] # t[j]
    BY Zenon DEF NoDup
  <2>1. CASE i = 1
    BY <2>1, <1>1 DEF Elems
  <2>2. CASE j = 1
    BY <2>2, <1>1 DEF Elems
  <2>3. CASE i # 1 /\ j # 1
    BY <2>3, <1>1 DEF NoDup
  <2> QED BY <2>1, <2>2, <2>3, Zenon
<1>3. ASSUME NEW v \in Elems(s) PROVE v \in Elems(t)
  <2>1. PICK i \in 1 .. Len(s) : v = s[i]
    BY Zenon DEF Elems
  <2>2. i + 1 \in 2 .. Len(t) /\ (i + 1) - 1 = i /\ i + 1 \in 1 .. Len(t)
    BY <2>1, <1>1
  <2>3. t[i + 1] = v
    BY <2>1, <2>2, <1>1, Zenon
  <2> QED BY <2>2, <2>3, Zenon DEF Elems
<1>4. Elems(t) \subseteq Elems(s) \cup {f} /\ f \in Elems(t)
  <2>1. ASSUME NEW v \in Elems(t) PROVE v \in Elems(s) \cup {f}
    <3>1. PICK i \in 1 .. Len(t) : v = t[i]
      BY Zenon DEF Elems
    <3>2. CASE i = 1
      BY <1>1, <3>1, <3>2
    <3>3. CASE i # 1
      <4>1. i \in 2 .. Len(t) /\ i - 1 \in 1 .. Len(s)
        BY <1>1, <3>1, <3>3
      <4>2. v = s[i - 1]
        BY <1>1, <3>1, <4>1, Zenon
      <4> QED BY <4>1, <4>2, Zenon DEF Elems
    <3> QED BY <3>2, <3>3
  <2>2. 1 \in 1 .. Len(t) /\ t[1] = f
    BY <1>1
  <2> QED BY <2>1, <2>2, Zenon DEF Elems
<1> QED BY <1>1, <1>2, <1>3, <1>4, Zenon DEF t

(* The head of the free list has no holder; taking it leaves the list      *)
(* exact.                                                                  *)
LEMMA AllocFacts ==
  ASSUME Counting, Types, Sharing, freelist # <<>>, NEW f, f = Head(freelist),
         freelist' = Tail(freelist), refs' = [refs EXCEPT ![f] = 1]
  PROVE  /\ f \in Frames /\ refs[f] = 0
         /\ f \notin KernelFrames
         /\ \A d \in Frames, pg \in VPages : pt[d][pg].frame # f
         /\ Cardinality(PteHolders(f)) = 0
         /\ refs' \in [Frames -> Int] /\ freelist' \in Seq(Frames)
         /\ FreeListed'
<1>1. freelist \in Seq(Frames) /\ NoDup(freelist) /\ FreeFrames = Elems(freelist)
        /\ refs \in [Frames -> Int]
  BY Zenon DEF Types, Sharing, FreeListed, FreeFrames, Elems
<1>2. /\ f \in Frames /\ f \in FreeFrames /\ freelist' \in Seq(Frames)
      /\ NoDup(freelist') /\ Elems(freelist') = FreeFrames \ {f}
  BY <1>1, TakeHead, Zenon
<1>3. refs[f] = 0
  BY <1>2, Zenon DEF Sharing, FreeListed
<1>4. f \notin KernelFrames /\ Cardinality(PteHolders(f)) = 0
  BY <1>2, <1>3, EntriesFinite DEF Sharing, Counted
<1>5. \A d \in Frames, pg \in VPages : pt[d][pg].frame # f
  BY <1>4, EntryCounts
<1>6. FreeListed'
  <2>1. FreeFrames' = FreeFrames \ {f}
    BY <1>2, Zenon DEF FreeFrames, Elems
  <2>2. {g \in Frames : refs'[g] = 0} = {g \in Frames : refs[g] = 0} \ {f}
    BY <1>1, <1>2
  <2> QED BY <2>1, <2>2, <1>2, Zenon DEF FreeListed, Sharing
<1> QED BY <1>1, <1>2, <1>3, <1>4, <1>5, <1>6

(* Dropping one of the holders of a frame leaves the list exact.           *)
LEMMA ReleaseFacts ==
  ASSUME Types, Sharing, NEW f \in Frames, refs[f] >= 1, Krelease(f)
  PROVE  /\ FreeListed'
         /\ refs' \in [Frames -> Int] /\ freelist' \in Seq(Frames)
         /\ mem' \in [Frames -> Contents]
<1>1. freelist \in Seq(Frames) /\ NoDup(freelist) /\ FreeFrames = Elems(freelist)
        /\ refs \in [Frames -> Int] /\ FreeFrames = {g \in Frames : refs[g] = 0}
  BY Zenon DEF Types, Sharing, FreeListed, FreeFrames, Elems
<1>2. refs' \in [Frames -> Int] /\ refs' = [refs EXCEPT ![f] = refs[f] - 1]
  BY <1>1 DEF Krelease
<1>3. mem' \in [Frames -> Contents]
  BY ConstAssumption, Zenon DEF Krelease, KfreeAtZero, Types
<1>4. CASE refs[f] = 1
  <2>1. freelist' = <<f>> \o freelist /\ f \notin Elems(freelist)
    BY <1>1, <1>4 DEF Krelease, KfreeAtZero
  <2>2. freelist' \in Seq(Frames) /\ NoDup(freelist')
          /\ Elems(freelist') = FreeFrames \cup {f}
    BY <2>1, <1>1, PutFront, Zenon
  <2>3. {g \in Frames : refs'[g] = 0} = {g \in Frames : refs[g] = 0} \cup {f}
    BY <1>1, <1>2, <1>4
  <2>4. FreeFrames' = Elems(freelist')
    BY Zenon DEF FreeFrames, Elems
  <2> QED BY <2>2, <2>3, <2>4, <1>1, <1>2, <1>3, Zenon DEF FreeListed
<1>5. CASE refs[f] # 1
  <2>1. freelist' = freelist
    BY <1>1, <1>5 DEF Krelease, KfreeAtZero
  <2>2. {g \in Frames : refs'[g] = 0} = {g \in Frames : refs[g] = 0}
    BY <1>1, <1>2, <1>5
  <2> QED BY <2>1, <2>2, <1>1, <1>2, <1>3, Zenon DEF FreeListed, FreeFrames, Elems
<1> QED BY <1>4, <1>5, Zenon

-----------------------------------------------------------------------------
(* A new page: an empty entry gets a frame of the free list.               *)
LEMMA SharingMap ==
  ASSUME Counting, Types, Sharing, SamePointers,
         freelist # <<>>, NEW f, f = Head(freelist),
         freelist' = Tail(freelist), refs' = [refs EXCEPT ![f] = 1],
         NEW d \in Frames, NEW pg \in VPages, pt[d][pg] = NoPte,
         NEW fl \in SUBSET Flags, "P" \in fl /\ "W" \notin fl => "COW" \in fl,
         pt' = [pt EXCEPT ![d][pg] = [frame |-> f, flags |-> fl]]
  PROVE  Sharing' /\ pt' \in [Frames -> [VPages -> Pte]]
<1> DEFINE e == [frame |-> f, flags |-> fl]
<1>1. /\ f \in Frames /\ f # None /\ refs[f] = 0 /\ f \notin KernelFrames
      /\ Cardinality(PteHolders(f)) = 0 /\ FreeListed'
      /\ \A x \in Frames, g \in VPages : pt[x][g].frame # f
  BY AllocFacts, FrameIsNotNone, Zenon
<1>2. e \in Pte /\ e.frame = f /\ e.flags = fl
  BY <1>1, Zenon DEF Pte
<1> HIDE DEF e
<1>3. pt' = [pt EXCEPT ![d][pg] = e]
  BY Zenon DEF e
<1>4. /\ pt' \in [Frames -> [VPages -> Pte]]
      /\ pt'[d][pg] = e
      /\ \A x \in Frames, g \in VPages : x # d \/ g # pg => pt'[x][g] = pt[x][g]
  <2>1. pt \in [Frames -> [VPages -> Pte]] BY Zenon DEF Types
  <2> QED BY <1>2, <1>3, <2>1, EntryUpdate
<1>5. KernelFrames' = KernelFrames /\ Distinct'
  BY PointersKept, Zenon DEF Sharing
<1>6. Private' /\ Apart' /\ ReadOnlyIsCow'
  <2>1. Private'
    BY <1>1, <1>2, <1>4 DEF Sharing, Private
  <2>2. Apart'
    BY <1>1, <1>2, <1>4, <1>5 DEF Sharing, Apart
  <2>3. ReadOnlyIsCow'
    BY <1>2, <1>4, Zenon DEF Sharing, ReadOnlyIsCow
  <2> QED BY <2>1, <2>2, <2>3, Zenon
<1>7. Counted'
  <2> SUFFICES ASSUME NEW v \in Frames
               PROVE  refs'[v] = Cardinality(PteHolders(v)')
                                  + (IF v \in KernelFrames THEN 1 ELSE 0)
    BY <1>5, Zenon DEF Counted
  <2>1. Cardinality(PteHolders(v)') = Cardinality(PteHolders(v))
          + (IF e.frame = v THEN 1 ELSE 0) - (IF NoPte.frame = v THEN 1 ELSE 0)
    BY <1>4, EntryChange
  <2>2. NoPte.frame # v
    BY FrameIsNotNone, Zenon DEF NoPte
  <2>3. refs[v] = Cardinality(PteHolders(v)) + (IF v \in KernelFrames THEN 1 ELSE 0)
    BY Zenon DEF Sharing, Counted
  <2>4. refs'[v] = IF v = f THEN 1 ELSE refs[v]
    BY Zenon DEF Types
  <2> QED BY <2>1, <2>2, <2>3, <2>4, <1>1, <1>2, EntriesFinite
<1> QED BY <1>1, <1>4, <1>5, <1>6, <1>7, Zenon DEF Sharing

(* A page goes: its entry is cleared and its frame released.               *)
LEMMA SharingUnmap ==
  ASSUME Counting, Types, Sharing, SamePointers,
         NEW d \in Frames, NEW pg \in VPages, pt[d][pg] # NoPte,
         Krelease(pt[d][pg].frame), pt' = [pt EXCEPT ![d][pg] = NoPte]
  PROVE  /\ Sharing' /\ pt' \in [Frames -> [VPages -> Pte]]
         /\ refs' \in [Frames -> Int] /\ freelist' \in Seq(Frames)
         /\ mem' \in [Frames -> Contents]
<1> DEFINE f == pt[d][pg].frame
<1>0. NoPte.frame = None /\ NoPte \in Pte /\ NoPte.flags = {}
  BY Zenon DEF Pte, NoPte
<1>1. f \in Frames
  <2>1. pt[d][pg] \in Pte
    BY Zenon DEF Types
  <2> QED BY <2>1, PteFacts, Zenon
<1>2. Cardinality(PteHolders(f)) >= 1
  BY EntryCounts, Zenon
<1>3. refs[f] >= 1
  BY <1>1, <1>2, EntriesFinite DEF Sharing, Counted
<1>4. /\ FreeListed' /\ refs' \in [Frames -> Int] /\ freelist' \in Seq(Frames)
      /\ mem' \in [Frames -> Contents]
  BY <1>1, <1>3, ReleaseFacts, Zenon
<1>5. /\ pt' \in [Frames -> [VPages -> Pte]]
      /\ pt'[d][pg] = NoPte
      /\ \A x \in Frames, g \in VPages : x # d \/ g # pg => pt'[x][g] = pt[x][g]
  <2>1. pt \in [Frames -> [VPages -> Pte]] BY Zenon DEF Types
  <2> QED BY <1>0, <2>1, EntryUpdate
<1>6. KernelFrames' = KernelFrames /\ Distinct'
  BY PointersKept, Zenon DEF Sharing
<1>7. Private' /\ Apart' /\ ReadOnlyIsCow'
  <2>1. Private'
    BY <1>0, <1>5 DEF Sharing, Private
  <2>2. Apart'
    BY <1>0, <1>5, <1>6, Zenon DEF Sharing, Apart
  <2>3. ReadOnlyIsCow'
    BY <1>0, <1>5, Zenon DEF Sharing, ReadOnlyIsCow
  <2> QED BY <2>1, <2>2, <2>3, Zenon
<1>8. Counted'
  <2> SUFFICES ASSUME NEW v \in Frames
               PROVE  refs'[v] = Cardinality(PteHolders(v)')
                                  + (IF v \in KernelFrames THEN 1 ELSE 0)
    BY <1>6, Zenon DEF Counted
  <2>1. Cardinality(PteHolders(v)') = Cardinality(PteHolders(v))
          + (IF NoPte.frame = v THEN 1 ELSE 0) - (IF f = v THEN 1 ELSE 0)
    BY <1>5, EntryChange
  <2>2. NoPte.frame # v
    BY FrameIsNotNone, Zenon DEF NoPte
  <2>3. refs[v] = Cardinality(PteHolders(v)) + (IF v \in KernelFrames THEN 1 ELSE 0)
    BY Zenon DEF Sharing, Counted
  <2>4. refs'[v] = IF v = f THEN refs[v] - 1 ELSE refs[v]
    BY <1>1, ZenonT(40) DEF Types, Krelease
  <2> QED BY <2>1, <2>2, <2>3, <2>4, <1>1, EntriesFinite
<1> QED BY <1>4, <1>5, <1>6, <1>7, <1>8, Zenon DEF Sharing

(* The kernel's pointers move, and perhaps one appears or goes.            *)
LEMMA SharingPointers ==
  ASSUME Counting, Types, Sharing, Distinct', FreeListed',
         \A x \in Frames, g \in VPages :
           /\ pt'[x][g].frame = pt[x][g].frame
           /\ \A b \in {"P", "W", "COW"} :
                b \in pt'[x][g].flags <=> b \in pt[x][g].flags,
         \A v \in Frames :
           /\ refs'[v] = refs[v] + (IF v \in KernelFrames' THEN 1 ELSE 0)
                                 - (IF v \in KernelFrames THEN 1 ELSE 0)
           /\ v \in KernelFrames' => \/ v \in KernelFrames
                                     \/ \A x \in Frames, g \in VPages : pt[x][g].frame # v
  PROVE  Sharing'
<1>1. Private'
  BY DEF Sharing, Private
<1>2. Apart'
  <2>1. \A x \in Frames, g \in VPages : pt[x][g].frame \in Frames \cup {None}
    BY EntryTypes, Zenon
  <2> QED BY <2>1 DEF Sharing, Apart
<1>3. ReadOnlyIsCow'
  BY Zenon DEF Sharing, ReadOnlyIsCow
<1>4. Counted'
  <2> SUFFICES ASSUME NEW v \in Frames
               PROVE  refs'[v] = Cardinality(PteHolders(v)')
                                  + (IF v \in KernelFrames' THEN 1 ELSE 0)
    BY Zenon DEF Counted
  <2>1. PteHolders(v)' = PteHolders(v)
    BY DEF PteHolders
  <2>2. refs[v] = Cardinality(PteHolders(v)) + (IF v \in KernelFrames THEN 1 ELSE 0)
    BY Zenon DEF Sharing, Counted
  <2> QED BY <2>1, <2>2, EntriesFinite
<1> QED BY <1>1, <1>2, <1>3, <1>4, Zenon DEF Sharing

(* allocuvm() and exec(): a new zeroed or loaded page at the loop's place. *)
LEMMA MapNewPageFacts ==
  ASSUME Counting, IInv, NEW p \in Procs, NEW d \in Frames, NEW c \in Contents,
         loc[p].at \in VPages, pt[d][loc[p].at] = NoPte, MapNewPage(p, d, c)
  PROVE  /\ freelist' \in Seq(Frames) /\ refs' \in [Frames -> Int]
         /\ mem' \in [Frames -> Contents] /\ pt' \in [Frames -> [VPages -> Pte]]
         /\ SamePointers => Sharing'
         /\ \A x \in Frames, g \in VPages :
              x # d \/ g # loc[p].at => pt'[x][g] = pt[x][g]
         /\ "P" \in pt'[d][loc[p].at].flags
         /\ loc' = [loc EXCEPT ![p].at = @ + 1]
         /\ UNCHANGED <<checksum, procs, st, tlb, halted>>
<1> DEFINE a == loc[p].at
           fl == {"P", "W", "U"}
<1>1. NoPte.flags = {}
  BY Zenon DEF NoPte
<1>2. PICK f \in Frames : AllocUvmPage(d, a, f, c)
  BY <1>1, Zenon DEF MapNewPage
<1>3. /\ loc' = [loc EXCEPT ![p].at = @ + 1]
      /\ UNCHANGED <<checksum, procs, st, tlb, halted>>
  BY <1>1, Zenon DEF MapNewPage
<1>4. /\ freelist # <<>> /\ f = Head(freelist) /\ freelist' = Tail(freelist)
      /\ refs' = [refs EXCEPT ![f] = 1] /\ mem' = [mem EXCEPT ![f] = c]
      /\ pt' = [pt EXCEPT ![d][a] = [frame |-> f, flags |-> fl]]
  BY <1>2, Zenon DEF AllocUvmPage, Kalloc
<1>5. /\ Types /\ Sharing /\ freelist \in Seq(Frames) /\ pt \in [Frames -> [VPages -> Pte]]
      /\ mem' \in [Frames -> Contents]
  BY <1>4, Zenon DEF IInv, Types
<1>6. refs' \in [Frames -> Int] /\ freelist' \in Seq(Frames)
  BY <1>4, <1>5, AllocFacts, Zenon
<1>7. fl \in SUBSET Flags /\ [frame |-> f, flags |-> fl] \in Pte
  BY Zenon DEF Flags, Pte
<1>8. SamePointers => Sharing'
  BY <1>4, <1>5, <1>7, SharingMap, Zenon
<1>9. PICK e \in Pte : e = [frame |-> f, flags |-> fl]
  BY <1>7, Zenon
<1>10. /\ pt' \in [Frames -> [VPages -> Pte]] /\ pt'[d][a] = e
       /\ \A x \in Frames, g \in VPages : x # d \/ g # a => pt'[x][g] = pt[x][g]
  BY <1>4, <1>5, <1>9, EntryUpdate
<1>11. "P" \in e.flags
  BY <1>9, Zenon
<1> QED BY <1>3, <1>5, <1>6, <1>8, <1>10, <1>11, Zenon

(* deallocuvm() and freevm(): the entry ends empty.                        *)
LEMMA ReleasePageFacts ==
  ASSUME Counting, IInv, NEW d \in Frames, NEW a \in VPages, ReleasePage(d, a)
  PROVE  /\ freelist' \in Seq(Frames) /\ refs' \in [Frames -> Int]
         /\ mem' \in [Frames -> Contents] /\ pt' \in [Frames -> [VPages -> Pte]]
         /\ SamePointers => Sharing'
         /\ \A x \in Frames, g \in VPages : x # d \/ g # a => pt'[x][g] = pt[x][g]
         /\ pt'[d][a] = NoPte
<1>0. Types /\ Sharing /\ pt \in [Frames -> [VPages -> Pte]]
  BY Zenon DEF IInv, Types
<1>1. CASE "P" \in pt[d][a].flags
  <2>1. Krelease(pt[d][a].frame) /\ pt' = [pt EXCEPT ![d][a] = NoPte]
    BY <1>1, Zenon DEF ReleasePage
  <2>2. pt[d][a] # NoPte
    BY <1>1 DEF NoPte
  <2>3. SamePointers => Sharing'
    BY <1>0, <2>1, <2>2, SharingUnmap, Zenon
  <2>4. pt[d][a].frame \in Frames /\ NoPte \in Pte
    BY <1>0, <2>2, EntryTypes, Zenon DEF Pte
  <2>5. refs[pt[d][a].frame] >= 1
    <3> DEFINE f == pt[d][a].frame
    <3>1. Cardinality(PteHolders(f)) >= 1
      BY EntryCounts, Zenon
    <3>2. refs[f] = Cardinality(PteHolders(f)) + (IF f \in KernelFrames THEN 1 ELSE 0)
      BY <2>4, <1>0, Zenon DEF Sharing, Counted
    <3> HIDE DEF f
    <3>3. refs[f] >= 1
      BY <3>1, <3>2, EntriesFinite
    <3> QED BY <3>3, Zenon DEF f
  <2>6. /\ refs' \in [Frames -> Int] /\ freelist' \in Seq(Frames)
        /\ mem' \in [Frames -> Contents]
    BY <1>0, <2>1, <2>4, <2>5, ReleaseFacts, Zenon
  <2>7. /\ pt' \in [Frames -> [VPages -> Pte]] /\ pt'[d][a] = NoPte
        /\ \A x \in Frames, g \in VPages : x # d \/ g # a => pt'[x][g] = pt[x][g]
    BY <1>0, <2>1, <2>4, EntryUpdate
  <2> QED BY <2>3, <2>6, <2>7, Zenon
<1>2. CASE "P" \notin pt[d][a].flags
  <2>1. UNCHANGED <<freelist, refs, mem, pt>>
    BY <1>2, Zenon DEF ReleasePage
  <2>2. pt[d][a] = NoPte
    BY <1>2, Zenon DEF IInv, Walks, Control
  <2>3. SamePointers => Sharing'
    BY <1>0, <2>1, SharingKept, Zenon
  <2> QED BY <2>1, <2>2, <2>3, Zenon DEF IInv, Types
<1> QED BY <1>1, <1>2, Zenon
=============================================================================
