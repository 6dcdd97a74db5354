------------------------------ MODULE VmProps -------------------------------
(***************************************************************************)
(* What the machine of Vm promises a program: its calls end and do to its  *)
(* memory what they say, whatever frames it shares.                        *)
(***************************************************************************)
EXTENDS Vm

(* The panics of mappages() and copyuvm() are unreachable: the pages below *)
(* proc->sz are exactly the mapped ones whenever sbrk() or fork() walks    *)
(* them, after any sequence of calls.  (One process in half pages is the   *)
(* hard case for sbrk(), two processes are for fork().)                    *)
NoPanic == halted \notin {"remap", "copyuvm: page not present"}

(* What a load from page pg by p returns.                                  *)
Load(p, pg) == IF "U" \in Translation(p, pg).flags
               THEN mem[Translation(p, pg).frame] ELSE None

(* dedup() is invisible to the program: no step of it changes what a load  *)
(* returns (dedup_reader.c reads back what it wrote before the call).      *)
DedupPreservesLoads ==
  [][\A p \in Procs : st[p] = "dedup" =>
       \A pg \in VPages : Load(p, pg)' = Load(p, pg)]_vars

(* When dedup() returns, neighbouring user pages with equal contents are   *)
(* on one frame, runs of any length included.                              *)
DedupMergesNeighbours ==
  [][\A p \in Procs : (st[p] = "dedup" /\ st'[p] = "user") =>
       \A pg \in 2 .. NPages :
         LET f == uva2ka(pgdir[p], pg)
             g == uva2ka(pgdir[p], pg - 1)
         IN f # None /\ g # None /\ mem[f] = mem[g] => f = g]_vars

(* The memory of each live process, read through its page table: the pages *)
(* below its size, which sbrk changes when it returns or starts to shrink. *)
Space ==
  [p \in Procs |-> [pg \in VPages |->
     IF \/ st[p] \in {"unused", "embryo", "zombie"}
        \/ pt[pgdir[p]][pg] = NoPte
        \/ pg * PGSIZE >= IF st[p] = "shrink" THEN loc[p].lim ELSE sz[p]
     THEN None ELSE mem[pt[pgdir[p]][pg].frame]]]

(* The call a process is in, as far as its memory is concerned.            *)
CallName(s) == CASE s \in {"unused", "embryo", "zombie"} -> "absent"
                 [] s \in {"fork", "copy"} -> "fork"
                 [] s \in {"dedup", "shrink", "free"} -> "return"
                 [] OTHER -> s
Calls == [p \in Procs |-> IF st[p] = "store" THEN <<"store", loc[p].at, loc[p].val>>
                          ELSE <<CallName(st[p]), 0, Zero>>]

Abs == INSTANCE AddrSpace WITH Pages <- VPages, NoPage <- None, space <- Space,
                               call <- Calls

(* Frames, sharing and faults implement private memories: a step changes   *)
(* what a program can see only as the call it is in says (a store its one  *)
(* page, exec() all or nothing), or changes nothing.                       *)
ImplementsAddrSpace == Abs!Spec

(* Every process gets the CPU again and again (scheduler() walks the whole *)
(* table), so code it has begun to execute goes on.                        *)
Fairness == \A p \in Procs : WF_vars(Kernel(p))

FairSpec == Spec /\ Fairness

(* A store to a page the process has ends, however many copy-on-write      *)
(* faults other processes and calls put in its way.                        *)
StoreCompletes ==
  \A p \in Procs :
    (st[p] = "store" /\ uva2ka(pgdir[p], loc[p].at) # None)
      ~> (st[p] # "store" \/ halted # "no")
=============================================================================
