-------------------------------- MODULE MCVm --------------------------------
(* Small instances of Vm.                                                  *)
EXTENDS VmProps, TLC

(* 1 and 2 are different contents with the same word sum.                  *)
MCContents == {0, 1, 2}
MCSum == <<1, 1>> @@ (0 :> 0)
MCSum1 == (0 :> 0)
MCSum0 == (0 :> 0) @@ (1 :> 0)

(* Frame numbers are interchangeable: no operation looks at them.  The     *)
(* view names a frame by its place on the free list or by its holders, and *)
(* drops the contents of the kernel's own frames, which nothing reads.     *)
EntriesOf(root, kind, f) ==
  UNION {{<<p, kind, pg>> : pg \in {g \in VPages : pt[root[p]][g].frame = f}} :
           p \in {q \in Procs : root[q] # None}}
NewRoot == [p \in Procs |-> loc[p].dir]
Name(f) ==
  {<<i, "free", 0>> : i \in {j \in 1 .. Len(freelist) : freelist[j] = f}}
  \cup {<<p, "kernel", 0>> : p \in {q \in Procs : f \in {kstack[q], pgdir[q], loc[q].dir}}}
  \cup EntriesOf(pgdir, "pgdir", f) \cup EntriesOf(NewRoot, "dir", f)
Entry(pte) ==
  IF pte = NoPte THEN <<>>
  ELSE <<pte.flags, Name(pte.frame), mem[pte.frame], checksum[pte.frame],
         refs[pte.frame]>>
Table(d) == IF d = None THEN <<>> ELSE [pg \in VPages |-> Entry(pt[d][pg])]
FrameView ==
  <<[p \in Procs |-> <<st[p], sz[p], [loc[p] EXCEPT !.dir = None], kstack[p] = None,
                       Table(pgdir[p]), Table(loc[p].dir),
                       [pg \in VPages |-> Entry(tlb[p][pg])]>>],
    [i \in 1 .. Len(freelist) |-> <<mem[freelist[i]], checksum[freelist[i]]>>],
    halted>>
=============================================================================
