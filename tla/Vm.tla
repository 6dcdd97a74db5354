--------------------------------- MODULE Vm ---------------------------------
(***************************************************************************)
(* Physical frames, page tables, page deduplication and copy-on-write:     *)
(* kalloc.c, vm.c, and the parts of proc.c, exec.c and trap.c that change  *)
(* an address space.                                                       *)
(*                                                                         *)
(* Every process may be inside the kernel at the same time (one per CPU),  *)
(* so a loop over pages is one step per page.  The four levels of a page   *)
(* table are one frame here, its root: pt[d][pg] is the last-level entry   *)
(* that walkpgdir(d, pg) finds.                                            *)
(***************************************************************************)
EXTENDS Integers, FiniteSets, Sequences

CONSTANTS Procs,        \* slots of ptable.proc
          InitProc,     \* initproc
          NFrames,      \* physical page frames handed to freerange()
          None,         \* the null pointer
          NPages,       \* bound: the last user page a program may reach
          PGSIZE,       \* bytes in a page
          Contents,     \* what the 4096 bytes of a frame can hold
          Zero, Junk,   \* a frame after memset(0) and after memset(1)
          Sum,          \* Sum[c]: the word sum that update_checksum computes
          TextPages,    \* program sizes that exec() may load, in pages
          TlbSize       \* how many translations the hardware may cache

ASSUME ConstAssumption ==
  /\ InitProc \in Procs /\ None \notin Procs /\ None \notin Int
  /\ IsFiniteSet(Procs) /\ NFrames \in Nat /\ NFrames >= 3
  /\ NPages \in Nat /\ NPages >= 2 /\ PGSIZE \in Nat \ {0}
  /\ Zero \in Contents /\ Junk \in Contents
  /\ Sum \in [Contents -> Int]
  /\ TextPages \subseteq 1 .. (NPages - 2)
  /\ TlbSize \in Nat

VARIABLES freelist,  \* kmem.freelist, the next frame to hand out first
          refs,      \* frameinfo[].refs
          checksum,  \* frameinfo[].checksum
          mem,       \* the contents of each frame
          pt,        \* the page tables, indexed by root frame
          pgdir, kstack, sz,  \* fields of struct proc
          st,        \* what each process is executing
          loc,       \* the local variables of the kernel code it is in
          tlb,       \* translations cached by the CPU it runs on
          halted     \* "no", or why the machine stopped

vars == <<freelist, refs, checksum, mem, pt, pgdir, kstack, sz, st, loc, tlb,
          halted>>

memory == <<freelist, refs, checksum, mem>>
procs == <<pgdir, kstack, sz>>

Frames == 1 .. NFrames
VPages == 0 .. NPages                   \* page 0 is never mapped
MaxSz == (NPages + 1) * PGSIZE          \* bound on proc->sz, below KERNBASE
PageUpTruncates(a) == a \div PGSIZE         \* mutant: rounds down
PageUp(a) == (a + PGSIZE - 1) \div PGSIZE   \* PGROUNDUP(a) / PGSIZE

Flags == {"P", "W", "U", "COW"}
NoPte == [frame |-> None, flags |-> {}]
Pte == {NoPte} \cup [frame: Frames, flags: SUBSET Flags]
EmptyTable == [pg \in VPages |-> NoPte]

States == {"unused", "embryo", "user", "store", "dedup", "fork", "copy",
           "grow", "shrink", "exec", "free", "zombie"}
Locals == [at: 0 .. NPages + 1, lim: 0 .. MaxSz, dir: Frames \cup {None},
           kid: Procs \cup {None}, val: Contents]
NoLocals == [at |-> 0, lim |-> 0, dir |-> None, kid |-> None, val |-> Zero]
StoreAt(pg, v) == [NoLocals EXCEPT !.at = pg, !.val = v]
LoopFrom(a, end) == [NoLocals EXCEPT !.at = a, !.lim = end]
Holding(d, np) == [NoLocals EXCEPT !.dir = d, !.kid = np]

(* uva2ka: the frame behind a user page, None when absent or not PTE_U.    *)
(* It does not ask whether walkpgdir() found a page table: the pages here  *)
(* are few enough to be entries of one, which the program's first page     *)
(* brought with it.                                                        *)
uva2ka(d, pg) == IF {"P", "U"} \subseteq pt[d][pg].flags
                 THEN pt[d][pg].frame ELSE None

(* The translation a user access goes through.                             *)
Translation(p, pg) == IF tlb[p][pg] # NoPte THEN tlb[p][pg]
                                            ELSE pt[pgdir[p]][pg]

(* The first user page holds the program's first instruction: without it   *)
(* the process cannot make a call.                                         *)
Running(p) == st[p] = "user" /\ halted = "no" /\ "U" \in Translation(p, 1).flags

Return(p) == /\ st' = [st EXCEPT ![p] = "user"]
             /\ loc' = [loc EXCEPT ![p] = NoLocals]

(***************************************************************************)
(* kalloc.c                                                                *)
(***************************************************************************)
Kalloc(f) == /\ freelist # <<>> /\ f = Head(freelist)
             /\ freelist' = Tail(freelist)
             /\ refs' = [refs EXCEPT ![f] = 1]

(* With an empty list r is 0 and the store to frameinfo[PGINDEX(V2P(0))]   *)
(* is 2^35 entries past the array: a fault in the kernel, trap() panics.   *)
KallocFault == /\ freelist = <<>>
               /\ halted' = "kalloc"
               /\ UNCHANGED <<memory, pt, procs, st, loc, tlb>>

(* kfree, called by krelease when the count it decremented became 0.       *)
KfreeAtZero(f, count) ==
  IF count = 0
  THEN freelist' = <<f>> \o freelist /\ mem' = [mem EXCEPT ![f] = Junk]
  ELSE UNCHANGED <<freelist, mem>>

Krelease(f) == /\ refs' = [refs EXCEPT ![f] = @ - 1]
               /\ KfreeAtZero(f, refs[f] - 1)

(* Mutant: adds to the old sum, f->checksum = 0 is missing.                *)
UpdateChecksumAdds(f) == [checksum EXCEPT ![f] = @ + Sum[mem[f]]]

UpdateChecksum(f) == [checksum EXCEPT ![f] = Sum[mem[f]]]

(* Mutant: trusts the checksum and skips memcmp.                           *)
FramesAreIdenticalBySum(sums, frame1, frame2) == sums[frame1] = sums[frame2]

FramesAreIdentical(sums, frame1, frame2) ==
  sums[frame1] = sums[frame2] /\ mem[frame1] = mem[frame2]

(***************************************************************************)
(* The machine after userinit(): initproc runs initcode in page 1.         *)
(***************************************************************************)
Init ==
  LET k == NFrames  d == NFrames - 1  f == NFrames - 2
  IN /\ freelist = [i \in 1 .. NFrames - 3 |-> NFrames - 2 - i]
     /\ refs = [g \in Frames |-> IF g >= f THEN 1 ELSE 0]
     /\ checksum = [g \in Frames |-> 0]
     /\ mem = [g \in Frames |-> IF g >= f THEN Zero ELSE Junk]
     /\ pt = [g \in Frames |->
                IF g = d THEN [EmptyTable EXCEPT ![1] =
                                 [frame |-> f, flags |-> {"P", "W", "U"}]]
                         ELSE EmptyTable]
     /\ pgdir = [p \in Procs |-> IF p = InitProc THEN d ELSE None]
     /\ kstack = [p \in Procs |-> IF p = InitProc THEN k ELSE None]
     /\ sz = [p \in Procs |-> IF p = InitProc THEN 2 * PGSIZE ELSE 0]
     /\ st = [p \in Procs |-> IF p = InitProc THEN "user" ELSE "unused"]
     /\ loc = [p \in Procs |-> NoLocals]
     /\ tlb = [p \in Procs |-> EmptyTable]
     /\ halted = "no"

(***************************************************************************)
(* The hardware: a CPU may cache a present translation, and reloading cr3  *)
(* (switchuvm, on every return from the scheduler) drops all of them.      *)
(***************************************************************************)
TlbFill(p, pg) ==
  /\ halted = "no" /\ st[p] \in {"user", "store"}
  /\ "P" \in pt[pgdir[p]][pg].flags
  /\ tlb[p][pg] = NoPte
  /\ Cardinality({g \in VPages : tlb[p][g] # NoPte}) < TlbSize
  /\ tlb' = [tlb EXCEPT ![p][pg] = pt[pgdir[p]][pg]]
  /\ UNCHANGED <<memory, pt, procs, st, loc, halted>>

SwitchUvm(p) == tlb' = [tlb EXCEPT ![p] = EmptyTable]

Yield(p) ==
  /\ halted = "no" /\ st[p] \in {"user", "store"}
  /\ tlb[p] # EmptyTable
  /\ SwitchUvm(p)
  /\ UNCHANGED <<memory, pt, procs, st, loc, halted>>

(***************************************************************************)
(* A user store, and the page fault it may take.                           *)
(***************************************************************************)
Store(p, pg, v) ==
  /\ Running(p)
  /\ st' = [st EXCEPT ![p] = "store"]
  /\ loc' = [loc EXCEPT ![p] = StoreAt(pg, v)]
  /\ UNCHANGED <<memory, pt, procs, tlb, halted>>

StoreMayProceed(p) == {"W", "U"} \subseteq Translation(p, loc[p].at).flags

FreeFrames == {freelist[i] : i \in 1 .. Len(freelist)}
KernelFrames == {pgdir[p] : p \in Procs} \cup {kstack[p] : p \in Procs}
                  \cup {loc[p].dir : p \in Procs}

StoreHits(p) ==
  /\ halted = "no" /\ st[p] = "store" /\ StoreMayProceed(p)
  /\ LET f == Translation(p, loc[p].at).frame
     IN /\ mem' = [mem EXCEPT ![f] = loc[p].val]
           \* Through a stale translation the store can land on the link
           \* word of a free page or inside a page the kernel uses.
        /\ halted' \in IF f \in FreeFrames \cup KernelFrames
                       THEN {"no", "corrupt"} ELSE {"no"}
  /\ Return(p)
  /\ UNCHANGED <<freelist, refs, checksum, pt, procs, tlb>>

(* trap(T_PGFLT) for a write: copyonwrite() returns 1 whatever it did, so  *)
(* trap() breaks and the store is tried again.  A fault drops the cached   *)
(* translation of its page.                                                *)
CowCopyWith(p, old, new, flags) ==
  LET last == refs[old] = 1
  IN /\ pt' = [pt EXCEPT ![pgdir[p]][loc[p].at] =
                 [frame |-> new, flags |-> flags]]
     /\ refs' = [refs EXCEPT ![new] = 1, ![old] = @ - 1]
     /\ freelist' = IF last THEN <<old>> \o Tail(freelist) ELSE Tail(freelist)
     /\ mem' = [mem EXCEPT ![new] = mem[old],
                           ![old] = IF last THEN Junk ELSE @]

(* Mutant: the copy is left read-only and copy-on-write.                   *)
CowCopyReadOnly(p, old, new) == CowCopyWith(p, old, new, {"P", "U", "COW"})

CowCopy(p, old, new) == CowCopyWith(p, old, new, {"P", "U", "W"})

CopyOnWrite(p) ==
  LET old == uva2ka(pgdir[p], loc[p].at)
      cow == "COW" \in pt[pgdir[p]][loc[p].at].flags
  IN IF old = None THEN UNCHANGED <<freelist, refs, mem, pt>>
     ELSE IF cow THEN freelist # <<>> /\ CowCopy(p, old, Head(freelist))
     ELSE Krelease(old) /\ UNCHANGED pt

CopyNeedsFrame(p) == /\ uva2ka(pgdir[p], loc[p].at) # None
                     /\ "COW" \in pt[pgdir[p]][loc[p].at].flags

StoreFaults(p) ==
  /\ halted = "no" /\ st[p] = "store" /\ ~StoreMayProceed(p)
  /\ \/ /\ CopyOnWrite(p)
        /\ tlb' = [tlb EXCEPT ![p][loc[p].at] = NoPte]
        /\ UNCHANGED <<checksum, procs, st, loc, halted>>
     \/ CopyNeedsFrame(p) /\ KallocFault

(***************************************************************************)
(* dedup(0, proc->sz): page at[p] against the page before it.              *)
(***************************************************************************)
SysDedup(p) ==
  /\ Running(p)
  /\ st' = [st EXCEPT ![p] = "dedup"]
  /\ loc' = [loc EXCEPT ![p] = LoopFrom(0, PageUp(sz[p]))]
  /\ UNCHANGED <<memory, pt, procs, tlb, halted>>

MayCompare(p) ==
  LET a == loc[p].at
  IN a > 1 /\ uva2ka(pgdir[p], a) # None /\ uva2ka(pgdir[p], a - 1) # None

(* The merge, given the flags the previous and the current page end with   *)
(* and what kretain() adds.                                                *)
DedupMergeWith(p, sums, flags1, flags2, retain) ==
  LET d == pgdir[p]
      a == loc[p].at
      previous == uva2ka(d, a - 1)
      current == uva2ka(d, a)
  IN /\ FramesAreIdentical(sums, previous, current)
     /\ pt' = [pt EXCEPT ![d] = [@ EXCEPT
                 ![a - 1] = [frame |-> previous, flags |-> flags1],
                 ![a] = [frame |-> previous, flags |-> flags2]]]
     /\ refs' = [[refs EXCEPT ![current] = @ - 1] EXCEPT ![previous] = @ + retain]
     /\ KfreeAtZero(current, refs[current] - 1)

PreviousFlags(p) == pt[pgdir[p]][loc[p].at - 1].flags

(* Mutants: the previous page stays writable; it becomes read-only but not *)
(* copy-on-write; the missing kretain().                                   *)
DedupMergeWritable(p, sums) ==
  MayCompare(p) /\ LET pte1 == PreviousFlags(p) \cup {"COW"}
                   IN DedupMergeWith(p, sums, pte1, pte1 \ {"W"}, 1)
DedupMergeNotCow(p, sums) ==
  MayCompare(p) /\ LET pte1 == PreviousFlags(p)
                   IN DedupMergeWith(p, sums, pte1 \ {"W"},
                                     (pte1 \cup {"P", "U", "COW"}) \ {"W"}, 1)
DedupMergeNoRetain(p, sums) ==
  MayCompare(p) /\ LET pte1 == PreviousFlags(p) \cup {"COW"}
                   IN DedupMergeWith(p, sums, pte1 \ {"W"}, pte1 \ {"W"}, 0)

DedupMerge(p, sums) ==
  MayCompare(p) /\ LET pte1 == PreviousFlags(p) \cup {"COW"}
                   IN DedupMergeWith(p, sums, pte1 \ {"W"},
                                     (pte1 \cup {"P", "U", "COW"}) \ {"W"}, 1)

DedupKeep(p, sums) ==
  /\ ~ /\ MayCompare(p)
       /\ FramesAreIdentical(sums, uva2ka(pgdir[p], loc[p].at - 1),
                                   uva2ka(pgdir[p], loc[p].at))
  /\ UNCHANGED <<freelist, refs, mem, pt>>

DedupPage(p) ==
  LET current == uva2ka(pgdir[p], loc[p].at)
      sums == IF current = None THEN checksum ELSE UpdateChecksum(current)
  IN /\ halted = "no" /\ st[p] = "dedup" /\ loc[p].at < loc[p].lim
     /\ checksum' = sums
     /\ DedupMerge(p, sums) \/ DedupKeep(p, sums)
     /\ loc' = [loc EXCEPT ![p].at = @ + 1]
     /\ UNCHANGED <<procs, st, tlb, halted>>

DedupReturn(p) ==
  /\ halted = "no" /\ st[p] = "dedup" /\ loc[p].at = loc[p].lim
  /\ Return(p)
  /\ UNCHANGED <<memory, pt, procs, tlb, halted>>

(***************************************************************************)
(* sbrk: growproc() with allocuvm() or deallocuvm(), one page per step.    *)
(***************************************************************************)
SysSbrkGrow(p, n) ==
  /\ Running(p) /\ n > 0
  /\ sz[p] + n <= MaxSz
  /\ st' = [st EXCEPT ![p] = "grow"]
  /\ loc' = [loc EXCEPT ![p] = LoopFrom(PageUp(sz[p]), sz[p] + n)]
  /\ UNCHANGED <<memory, pt, procs, tlb, halted>>

AllocUvmPage(d, pg, f, c) ==
  /\ Kalloc(f)
  /\ mem' = [mem EXCEPT ![f] = c]
  /\ pt' = [pt EXCEPT ![d][pg] = [frame |-> f, flags |-> {"P", "W", "U"}]]

Panic(why) ==
  /\ halted' = why
  /\ UNCHANGED <<memory, pt, procs, st, loc, tlb>>

(* mappages() panics when the entry it is to fill is present.              *)
MapNewPage(p, d, c) ==
  IF "P" \in pt[d][loc[p].at].flags
  THEN freelist # <<>> /\ Panic("remap")
  ELSE /\ \E f \in Frames : AllocUvmPage(d, loc[p].at, f, c)
       /\ loc' = [loc EXCEPT ![p].at = @ + 1]
       /\ UNCHANGED <<checksum, procs, st, tlb, halted>>

GrowPage(p) ==
  /\ halted = "no" /\ st[p] = "grow" /\ loc[p].at * PGSIZE < loc[p].lim
  /\ MapNewPage(p, pgdir[p], Zero) \/ KallocFault

GrowReturn(p) ==
  /\ halted = "no" /\ st[p] = "grow" /\ loc[p].at * PGSIZE >= loc[p].lim
  /\ sz' = [sz EXCEPT ![p] = loc[p].lim]
  /\ SwitchUvm(p)
  /\ Return(p)
  /\ UNCHANGED <<memory, pt, pgdir, kstack, halted>>

SysSbrkShrink(p, n) ==
  /\ Running(p) /\ 0 < n /\ n <= sz[p]
  /\ st' = [st EXCEPT ![p] = "shrink"]
  /\ loc' = [loc EXCEPT ![p] = LoopFrom(PageUp(sz[p] - n), sz[p] - n)]
  /\ UNCHANGED <<memory, pt, procs, tlb, halted>>

(* krelease() the page if the entry is present, and clear the entry.       *)
ReleasePage(d, pg) ==
  IF "P" \in pt[d][pg].flags
  THEN /\ Krelease(pt[d][pg].frame)
       /\ pt' = [pt EXCEPT ![d][pg] = NoPte]
  ELSE UNCHANGED <<freelist, refs, mem, pt>>

ShrinkPage(p) ==
  /\ halted = "no" /\ st[p] = "shrink" /\ loc[p].at * PGSIZE < sz[p]
  /\ ReleasePage(pgdir[p], loc[p].at)
  /\ loc' = [loc EXCEPT ![p].at = @ + 1]
  /\ UNCHANGED <<checksum, procs, st, tlb, halted>>

(* Mutant: growproc() does not store what deallocuvm() returns.            *)
ShrinkReturnKeepsSize(p) ==
  /\ halted = "no" /\ st[p] = "shrink" /\ loc[p].at * PGSIZE >= sz[p]
  /\ SwitchUvm(p)
  /\ Return(p)
  /\ UNCHANGED <<memory, pt, procs, halted>>

(* deallocuvm() returns the new size, and growproc() takes 0 for failure.  *)
ShrinkReturn(p) ==
  /\ halted = "no" /\ st[p] = "shrink" /\ loc[p].at * PGSIZE >= sz[p]
  /\ IF loc[p].lim = 0
     THEN UNCHANGED <<sz, tlb>>
     ELSE sz' = [sz EXCEPT ![p] = loc[p].lim] /\ SwitchUvm(p)
  /\ Return(p)
  /\ UNCHANGED <<memory, pt, pgdir, kstack, halted>>

(***************************************************************************)
(* fork(): allocproc() takes a slot and a kernel stack, copyuvm() a root   *)
(* from setupkvm() and then a fresh frame for every page below sz.         *)
(***************************************************************************)
SysFork(p, np) ==
  /\ Running(p) /\ st[np] = "unused"
  /\ \/ /\ \E k \in Frames : Kalloc(k) /\ kstack' = [kstack EXCEPT ![np] = k]
        /\ st' = [st EXCEPT ![p] = "fork", ![np] = "embryo"]
        /\ loc' = [loc EXCEPT ![p] = Holding(None, np)]
        /\ UNCHANGED <<checksum, mem, pt, pgdir, sz, tlb, halted>>
     \/ KallocFault

SetupKvm(p, nextState, at, lim) ==
  /\ \E d \in Frames :
       /\ Kalloc(d)
       /\ mem' = [mem EXCEPT ![d] = Zero]
       /\ loc' = [loc EXCEPT ![p].dir = d, ![p].at = at, ![p].lim = lim]
  /\ st' = [st EXCEPT ![p] = nextState]
  /\ UNCHANGED <<checksum, pt, procs, tlb, halted>>

ForkSetupKvm(p) ==
  /\ halted = "no" /\ st[p] = "fork"
  /\ SetupKvm(p, "copy", 1, sz[p]) \/ KallocFault

(* The loop body of copyuvm, given what the new frame will contain.        *)
CopyUvmPageWith(p, contents) ==
  LET pte == pt[pgdir[p]][loc[p].at]
  IN /\ halted = "no" /\ st[p] = "copy" /\ loc[p].at * PGSIZE < loc[p].lim
     /\ IF "P" \notin pte.flags THEN Panic("copyuvm: page not present")
        ELSE \/ /\ \E f \in Frames :
                     /\ Kalloc(f)
                     /\ mem' = [mem EXCEPT ![f] = contents]
                     /\ pt' = [pt EXCEPT ![loc[p].dir][loc[p].at] =
                                 [frame |-> f, flags |-> pte.flags]]
                /\ loc' = [loc EXCEPT ![p].at = @ + 1]
                /\ UNCHANGED <<checksum, procs, st, tlb, halted>>
             \/ KallocFault

(* Mutant: the memmove is missing.                                         *)
CopyUvmPageNoCopy(p) == CopyUvmPageWith(p, Junk)

CopyUvmPage(p) == CopyUvmPageWith(p, mem[pt[pgdir[p]][loc[p].at].frame])

ForkReturn(p) ==
  LET np == loc[p].kid
  IN /\ halted = "no" /\ st[p] = "copy" /\ loc[p].at * PGSIZE >= loc[p].lim
     /\ pgdir' = [pgdir EXCEPT ![np] = loc[p].dir]
     /\ sz' = [sz EXCEPT ![np] = sz[p]]
     /\ st' = [st EXCEPT ![p] = "user", ![np] = "user"]
     /\ loc' = [loc EXCEPT ![p] = NoLocals]
     /\ tlb' = [tlb EXCEPT ![np] = EmptyTable]
     /\ UNCHANGED <<memory, pt, kstack, halted>>

(***************************************************************************)
(* exec(): a new table with n text pages, an inaccessible page and a stack *)
(* page; committed, or torn down on one of the errors that end in bad.     *)
(***************************************************************************)
SysExec(p, n) ==
  /\ Running(p)
  /\ SetupKvm(p, "exec", 1, n + 2) \/ KallocFault

(* The page's contents c come from the file (loaduvm) or the arguments     *)
(* (copyout into the stack page); the guard page stays zero.               *)
ExecPage(p, c) ==
  /\ halted = "no" /\ st[p] = "exec" /\ loc[p].at <= loc[p].lim
  /\ loc[p].at = loc[p].lim - 1 => c = Zero
  /\ MapNewPage(p, loc[p].dir, c) \/ KallocFault

ClearPteU(pte) == [pte EXCEPT !.flags = @ \ {"U"}]

ExecCommit(p) ==
  /\ halted = "no" /\ st[p] = "exec" /\ loc[p].at > loc[p].lim
  /\ pt' = [pt EXCEPT ![loc[p].dir][loc[p].lim - 1] = ClearPteU(@)]
  /\ pgdir' = [pgdir EXCEPT ![p] = loc[p].dir]
  /\ sz' = [sz EXCEPT ![p] = (loc[p].lim + 1) * PGSIZE]
  /\ SwitchUvm(p)
  /\ st' = [st EXCEPT ![p] = "free"]
  /\ loc' = [loc EXCEPT ![p] = Holding(pgdir[p], None)]
  /\ UNCHANGED <<memory, kstack, halted>>

(* Mutant: tears down the table the process runs on.                       *)
ExecBadFreesOld(p) ==
  /\ halted = "no" /\ st[p] = "exec"
  /\ st' = [st EXCEPT ![p] = "free"]
  /\ loc' = [loc EXCEPT ![p].at = 0, ![p].dir = pgdir[p]]
  /\ UNCHANGED <<memory, pt, procs, tlb, halted>>

ExecBad(p) ==
  /\ halted = "no" /\ st[p] = "exec"
  /\ st' = [st EXCEPT ![p] = "free"]
  /\ loc' = [loc EXCEPT ![p].at = 0]
  /\ UNCHANGED <<memory, pt, procs, tlb, halted>>

(***************************************************************************)
(* freevm(): every mapped page, then the table itself.  Entries behind the *)
(* loop are never read again; they are cleared here.                       *)
(***************************************************************************)
FreevmPage(p) ==
  /\ halted = "no" /\ st[p] = "free" /\ loc[p].at <= NPages
  /\ ReleasePage(loc[p].dir, loc[p].at)
  /\ loc' = [loc EXCEPT ![p].at = @ + 1]
  /\ UNCHANGED <<checksum, procs, st, tlb, halted>>

(* Then exec() returns, or wait() makes the child's slot UNUSED.           *)
FreevmRoot(p) ==
  /\ halted = "no" /\ st[p] = "free" /\ loc[p].at > NPages
  /\ Krelease(loc[p].dir)
  /\ loc' = [loc EXCEPT ![p] = NoLocals]
  /\ st' = [q \in Procs |-> IF q = p THEN "user"
                            ELSE IF q = loc[p].kid THEN "unused" ELSE st[q]]
  /\ UNCHANGED <<checksum, pt, procs, tlb, halted>>

(***************************************************************************)
(* exit(), by choice or because trap() killed the process, and wait().     *)
(***************************************************************************)
Exit(p) ==
  /\ halted = "no" /\ st[p] \in {"user", "store"}
  /\ IF p = InitProc THEN Panic("init exiting")
     ELSE /\ st' = [st EXCEPT ![p] = "zombie"]
          /\ loc' = [loc EXCEPT ![p] = NoLocals]
          /\ UNCHANGED <<memory, pt, procs, tlb, halted>>

SysWait(p, q) ==
  /\ Running(p) /\ st[q] = "zombie" /\ pgdir[q] # None
  /\ Krelease(kstack[q])
  /\ kstack' = [kstack EXCEPT ![q] = None]
  /\ pgdir' = [pgdir EXCEPT ![q] = None]
  /\ st' = [st EXCEPT ![p] = "free"]
  /\ loc' = [loc EXCEPT ![p] = Holding(pgdir[q], q)]
  /\ UNCHANGED <<checksum, pt, sz, tlb, halted>>

(* panic() disables interrupts and loops forever.                          *)
Halted == halted # "no" /\ UNCHANGED vars

Kernel(p) ==
  \/ StoreHits(p) \/ StoreFaults(p)
  \/ DedupPage(p) \/ DedupReturn(p)
  \/ GrowPage(p) \/ GrowReturn(p) \/ ShrinkPage(p) \/ ShrinkReturn(p)
  \/ ForkSetupKvm(p) \/ CopyUvmPage(p) \/ ForkReturn(p)
  \/ (\E c \in Contents : ExecPage(p, c)) \/ ExecCommit(p)
  \/ FreevmPage(p) \/ FreevmRoot(p)

Program(p) ==
  \/ \E pg \in VPages, v \in Contents : Store(p, pg, v)
  \/ \E n \in 1 .. MaxSz : SysSbrkGrow(p, n) \/ SysSbrkShrink(p, n)
  \/ \E q \in Procs \ {p} : SysFork(p, q) \/ SysWait(p, q)
  \/ \E n \in TextPages : SysExec(p, n)
  \/ ExecBad(p) \/ SysDedup(p) \/ Exit(p)

Hardware(p) == Yield(p) \/ \E pg \in VPages : TlbFill(p, pg)

Next == Halted \/ \E p \in Procs : Kernel(p) \/ Program(p) \/ Hardware(p)

Spec == Init /\ [][Next]_vars

-----------------------------------------------------------------------------
TypeOK ==
  /\ freelist \in Seq(Frames)
  /\ refs \in [Frames -> Nat]
  /\ checksum \in [Frames -> Int]
  /\ mem \in [Frames -> Contents]
  /\ pt \in [Frames -> [VPages -> Pte]]
  /\ pgdir \in [Procs -> Frames \cup {None}]
  /\ kstack \in [Procs -> Frames \cup {None}]
  /\ sz \in [Procs -> 0 .. MaxSz]
  /\ st \in [Procs -> States]
  /\ loc \in [Procs -> Locals]
  /\ tlb \in [Procs -> [VPages -> Pte]]
  /\ halted \in {"no", "kalloc", "corrupt", "remap",
                 "copyuvm: page not present", "init exiting"}

(* Everything that holds a frame: a page table entry, or a pointer of the  *)
(* kernel to a root table or a kernel stack.                               *)
PteHolders(f) == {h \in Frames \X VPages : pt[h[1]][h[2]].frame = f}
Pointers == Procs \X {"pgdir", "kstack", "dir"}
Pointer(h) == IF h[2] = "pgdir" THEN pgdir[h[1]]
              ELSE IF h[2] = "kstack" THEN kstack[h[1]] ELSE loc[h[1]].dir
KernelHolders(f) == {h \in Pointers : Pointer(h) = f}

(* krelease() and kretain() keep frameinfo[].refs equal to the number of   *)
(* holders, and a frame is on the free list exactly when it has none: no   *)
(* frame leaks, none is freed while it is mapped, none is freed twice.     *)
RefsExact ==
  /\ \A f \in Frames :
       refs[f] = Cardinality(PteHolders(f)) + Cardinality(KernelHolders(f))
  /\ FreeFrames = {f \in Frames : refs[f] = 0}
  /\ \A i, j \in 1 .. Len(freelist) : i # j => freelist[i] # freelist[j]

(* Two entries share a frame only inside one table and only when both are  *)
(* copy-on-write and read-only, and no entry maps a frame the kernel uses: *)
(* this is what makes a store private to its page, and what lets dedup()   *)
(* and copyonwrite() update frameinfo without a lock.                      *)
SharedIsCow ==
  \A f \in Frames :
    LET ptes == PteHolders(f)
        kern == KernelHolders(f)
    IN /\ \A h, i \in ptes : h # i => /\ h[1] = i[1]
                                      /\ "COW" \in pt[h[1]][h[2]].flags
                                      /\ "W" \notin pt[h[1]][h[2]].flags
       /\ ptes = {} \/ kern = {}
       /\ \A h, i \in kern : h = i

(* A user page that is not writable is copy-on-write, so the krelease()    *)
(* that copyonwrite() does for any other page never happens.               *)
ReadOnlyIsCow ==
  \A d \in Frames, pg \in VPages :
    "P" \in pt[d][pg].flags /\ "W" \notin pt[d][pg].flags
      => "COW" \in pt[d][pg].flags

(* The processes and the tables agree: a live process has a table and a    *)
(* kernel stack, only a table some pointer leads to has entries, a slot is *)
(* being filled by one fork() or emptied by one wait(), and freevm() has   *)
(* dropped what lies behind its loop.                                      *)
Live == States \ {"unused", "embryo", "zombie"}
Roots == {pgdir[p] : p \in Procs} \cup {loc[p].dir : p \in Procs}

SlotControl(p) ==
  /\ st[p] \in Live => pgdir[p] # None /\ kstack[p] # None
  /\ st[p] = "unused" => pgdir[p] = None /\ kstack[p] = None
  /\ st[p] = "embryo" => pgdir[p] = None /\ kstack[p] # None
  /\ st[p] = "zombie" => (pgdir[p] = None <=> kstack[p] = None)
  /\ loc[p].dir # None <=> st[p] \in {"copy", "exec", "free"}
  /\ st[p] \in {"fork", "copy"} => /\ loc[p].kid \in Procs
                                   /\ st[loc[p].kid] = "embryo"
  /\ st[p] = "free" /\ loc[p].kid # None
       => st[loc[p].kid] = "zombie" /\ pgdir[loc[p].kid] = None
  /\ st[p] \notin {"fork", "copy", "free"} => loc[p].kid = None
  /\ \A q \in Procs : p # q /\ loc[p].kid # None => loc[p].kid # loc[q].kid

Control ==
  /\ \A d \in Frames, pg \in VPages :
       pt[d][pg] # NoPte => d \in Roots /\ "P" \in pt[d][pg].flags
  /\ \A p \in Procs : SlotControl(p)

(* The loops and the sizes agree: which pages of the table in use, and of  *)
(* the one being built or torn down, can be mapped, at each point of each  *)
(* loop; and a cached translation that refuses a store belongs to a page   *)
(* whose entry refuses it too.                                             *)
UserMapped(p) ==
  \A pg \in VPages : pt[pgdir[p]][pg] # NoPte =>
    CASE st[p] = "grow" -> pg < loc[p].at /\ pg * PGSIZE < loc[p].lim
      [] st[p] = "shrink" -> /\ pg * PGSIZE < sz[p]
                             /\ pg * PGSIZE < loc[p].lim \/ pg >= loc[p].at
      [] OTHER -> pg * PGSIZE < sz[p]

DirMapped(p) ==
  \A pg \in VPages : pt[loc[p].dir][pg] # NoPte =>
    /\ st[p] = "copy" => pg * PGSIZE < loc[p].lim
    /\ st[p] \in {"copy", "exec"} => pg < loc[p].at
    /\ st[p] = "free" => pg >= loc[p].at

LoopBounds(p) ==
  /\ st[p] = "dedup" => loc[p].lim <= NPages + 1
  /\ st[p] = "store" => loc[p].at <= NPages
  /\ st[p] = "copy" => loc[p].lim = sz[p]
  /\ st[p] = "exec" => loc[p].lim \in 3 .. NPages /\ loc[p].at <= loc[p].lim + 1
  /\ st[p] = "grow" => loc[p].at * PGSIZE >= sz[p] /\ sz[p] <= loc[p].lim

TlbAgrees(p) ==
  \A pg \in VPages : tlb[p][pg] # NoPte =>
    /\ pg * PGSIZE < sz[p]
    /\ {"W", "U"} \subseteq pt[pgdir[p]][pg].flags
         => {"W", "U"} \subseteq tlb[p][pg].flags

Loops ==
  /\ halted # "remap"
  /\ \A p \in Procs : st[p] \in Live =>
       /\ UserMapped(p) /\ LoopBounds(p) /\ TlbAgrees(p)
       /\ loc[p].dir # None => DirMapped(p)
=============================================================================
