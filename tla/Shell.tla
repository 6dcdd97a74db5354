-------------------------------- MODULE Shell -------------------------------
(* The shell runs `left | right' (runcmd(), case PIPE, in sh.c): its own   *)
(* process makes the pipe and two children, which put the pipe in place of *)
(* a descriptor and then run a program.  The programs are arbitrary: they  *)
(* make some calls, at most MaxCalls, on their standard input and output.  *)
EXTENDS Pipe

CONSTANTS
  Sh, Left, Right,
  MaxCalls      \* bound: MaxCalls[p] calls are made by the program of p

Children == {Left, Right}

ASSUME ProcsAssumption == Procs = {Sh, Left, Right} /\ Cardinality(Procs) = 3

VARIABLES
  step,      \* step[p]: the call of runcmd() p is at
  p_,        \* int p[2], which the children inherit
  calls      \* calls[p]: calls the program of p may still make

vars == <<kvars, step, p_, calls>>

(* Mutants: `right' keeps the write end; the shell keeps both ends.        *)
RuncmdRightKeeps(p) ==
  CASE p = Sh -> <<<<"pipe">>, <<"fork", Left>>, <<"fork", Right>>,
                   <<"close", p_[1]>>, <<"close", p_[2]>>, <<"wait">>, <<"wait">>>>
    [] p = Left -> <<<<"close", 1>>, <<"dup", p_[2]>>, <<"close", p_[1]>>, <<"close", p_[2]>>>>
    [] p = Right -> <<<<"close", 0>>, <<"dup", p_[1]>>, <<"close", p_[1]>>>>
RuncmdShKeeps(p) ==
  CASE p = Sh -> <<<<"pipe">>, <<"fork", Left>>, <<"fork", Right>>, <<"wait">>, <<"wait">>>>
    [] p = Left -> <<<<"close", 1>>, <<"dup", p_[2]>>, <<"close", p_[1]>>, <<"close", p_[2]>>>>
    [] p = Right -> <<<<"close", 0>>, <<"dup", p_[1]>>, <<"close", p_[1]>>, <<"close", p_[2]>>>>
(* The calls runcmd() makes, in their order.                               *)
Runcmd(p) ==
  CASE p = Sh -> <<<<"pipe">>, <<"fork", Left>>, <<"fork", Right>>,
                   <<"close", p_[1]>>, <<"close", p_[2]>>, <<"wait">>, <<"wait">>>>
    [] p = Left -> <<<<"close", 1>>, <<"dup", p_[2]>>, <<"close", p_[1]>>, <<"close", p_[2]>>>>
    [] p = Right -> <<<<"close", 0>>, <<"dup", p_[1]>>, <<"close", p_[1]>>, <<"close", p_[2]>>>>
At(p, name) == step[p] <= Len(Runcmd(p)) /\ Runcmd(p)[step[p]][1] = name
Arg(p) == Runcmd(p)[step[p]][2]
Over(p) == step[p] = Len(Runcmd(p)) + 1

(* sh has made sure that 0, 1 and 2 are open (main()): the console, entry  *)
(* 1 of the file table.  More of its descriptors, and entries of the file  *)
(* table that other processes have open, may be in use.                    *)
ConsoleRefs(fds) == Cardinality({fd \in Fds : fds[fd] = 1})
Init ==
  /\ \E fds \in {[fd \in Fds |-> IF fd < k THEN 1 ELSE None] : k \in 3 .. NOFILE},
        others \in {k .. NFILE : k \in 2 .. NFILE + 1} :
       /\ ofile = [p \in Procs |-> IF p = Sh THEN fds ELSE [fd \in Fds |-> None]]
       /\ file = [f \in Files |->
            IF f = 1 THEN [type |-> "INODE", ref |-> ConsoleRefs(fds),
                           readable |-> TRUE, writable |-> TRUE]
            ELSE IF f \in others THEN [type |-> "INODE", ref |-> 1,
                                       readable |-> TRUE, writable |-> FALSE]
            ELSE NoFile]
  /\ pipe = NoPipe /\ lock = None
  /\ chan = [p \in Procs |-> None] /\ killed = [p \in Procs |-> FALSE]
  /\ at = [p \in Procs |-> IF p = Sh THEN "user" ELSE "unborn"]
  /\ call = [p \in Procs |-> NoCall]
  /\ step = [p \in Procs |-> 1]
  /\ p_ = <<None, None>> /\ calls = MaxCalls

Advance(p) == step' = [step EXCEPT ![p] = @ + 1]
Panic(p) == step' = [step EXCEPT ![p] = Len(Runcmd(p)) + 1]

(* pipe(p); a failure is panic("pipe"), and the shell's process exits.     *)
ShPipe(p) ==
  /\ At(p, "pipe") /\ SysPipe(p)
  /\ LET new == Open(ofile'[p]) \ Open(ofile[p])
     IN IF new = {} THEN Panic(p) /\ UNCHANGED p_
        ELSE Advance(p) /\ p_' = <<Min(new), Max(new)>>
  /\ UNCHANGED calls

(* fork1(), which may find no process or no memory: panic("fork").         *)
ShFork(p) ==
  /\ At(p, "fork")
  /\ \/ Fork(p, Arg(p)) /\ Advance(p)
     \/ InUser(p) /\ Panic(p) /\ UNCHANGED kvars
  /\ UNCHANGED <<p_, calls>>

ShClose(p) == At(p, "close") /\ SysClose(p, Arg(p)) /\ Advance(p) /\ UNCHANGED <<p_, calls>>
ShDup(p) == At(p, "dup") /\ SysDup(p, Arg(p)) /\ Advance(p) /\ UNCHANGED <<p_, calls>>

(* wait() takes a zombie of its children (see Proc).                       *)
ShWait(p) ==
  /\ At(p, "wait") /\ InUser(p)
  /\ \E c \in Children : at[c] = "zombie" /\ at' = [at EXCEPT ![c] = "reaped"]
  /\ Advance(p)
  /\ UNCHANGED <<file, ofile, pipe, lock, chan, killed, call, p_, calls>>

(* The program of a child: any call, on standard input or output.  A       *)
(* read() of more than PIPESIZE bytes is no different from one of PIPESIZE. *)
InProgram(p) == p \in Children /\ Over(p)
Program(p) ==
  /\ InProgram(p) /\ calls[p] > 0
  /\ calls' = [calls EXCEPT ![p] = @ - 1]
  /\ \E fd \in {0, 1} :
       \/ SysDup(p, fd)
       \/ SysClose(p, fd)
       \/ \E k \in 0 .. PIPESIZE : SysRead(p, fd, k)
       \/ \E k \in 0 .. MaxN : SysWrite(p, fd, [i \in 1 .. k |-> i])
  /\ UNCHANGED <<step, p_>>

(* A killed process exits before it is back in its program.                *)
ProgramExit(p) ==
  /\ killed[p] \/ Over(p)
  /\ Exit(p)
  /\ UNCHANGED <<step, p_, calls>>

Step(p) ==
  \/ KernelStep(p) /\ UNCHANGED <<step, p_, calls>>
  \/ ShPipe(p) \/ ShFork(p) \/ ShClose(p) \/ ShDup(p) \/ ShWait(p)
  \/ Program(p) \/ ProgramExit(p)

Next == \E p \in Procs : Step(p) \/ (Kill(p) /\ UNCHANGED <<step, p_, calls>>)

(* The machine runs someone as long as someone can run.  No more is        *)
(* needed: every process has a bounded number of calls to make.            *)
Spec == Init /\ [][Next]_vars /\ WF_vars(\E p \in Procs : Step(p))
-----------------------------------------------------------------------------
(* A file's reference count is the number of descriptors that name it, so  *)
(* fileclose() tells the pipe exactly when an end has no descriptor left:  *)
(* an end is open as long as someone has it or is about to close it.       *)
EndsFollowDescriptors ==
  LET holds(w) == \E p \in Procs, fd \in Fds :
                    /\ ofile[p][fd] # None /\ file[ofile[p][fd]].type = "PIPE"
                    /\ file[ofile[p][fd]].writable = w
      closing(w) == \E p \in Procs : at[p] \in {"close", "exitclose"} /\ call[p].end = w
  IN /\ \A p \in Procs, fd \in Fds : ofile[p][fd] # None => file[ofile[p][fd]].ref > 0
     /\ pipe.writeopen = (holds(TRUE) \/ closing(TRUE))
     /\ pipe.readopen = (holds(FALSE) \/ closing(FALSE))
     /\ pipe.page = (pipe.readopen \/ pipe.writeopen)

(* No wakeup is lost: once the lock is free, who sleeps in pipewrite()     *)
(* would find no room and a reader, and who sleeps in piperead() nothing   *)
(* to read and a writer.  The second is claimed only while nobody has been *)
(* killed: pipewrite() returns -1 to a killed process without waking the   *)
(* readers of the bytes it has stored.                                     *)
ReaderWaits == lock = None => \A p \in Procs : chan[p] = "nread" => Empty /\ pipe.writeopen
WriterWaits == lock = None => \A p \in Procs : chan[p] = "nwrite" => Full /\ pipe.readopen
NoLostWakeup == WriterWaits /\ ((\A p \in Procs : ~killed[p]) => ReaderWaits)

(* When its program starts, a child has the pipe in place of its standard  *)
(* output or input, and no other descriptor of it: with the write end left *)
(* open in `right', `right' would wait for itself.                         *)
Wired ==
  \A p \in Children : InProgram(p) /\ calls[p] = MaxCalls[p] /\ at[p] = "user" =>
    LET fd == IF p = Left THEN 1 ELSE 0
        f == ofile[p][fd]
    IN /\ f # None /\ file[f].type = "PIPE" /\ file[f].writable = (p = Left)
       /\ \A d \in Fds \ {fd} : ofile[p][d] # None => file[ofile[p][d]].type # "PIPE"

(* A pipe is a bounded queue of bytes: none is lost, reordered or made up, *)
(* and a reader sees the end of the data only when no writer is left.      *)
PQ == INSTANCE PipeQueue WITH
        Capacity <- PIPESIZE,
        q <- Contents,
        unsent <- [p \in Procs |->
                     IF at[p] \in {"write", "writesleep"} THEN call[p].buf ELSE <<>>],
        got <- [p \in Procs |-> IF at[p] = "user" THEN call[p].buf ELSE <<>>],
        writers <- pipe.writeopen,
        readers <- pipe.readopen
ImplementsPipeQueue == PQ!Spec

(* The command ends, whatever the programs do and whoever is killed: no    *)
(* process of it is left in the pipe.                                      *)
PipelineEnds == <>(\A p \in Procs : at[p] \in {"unborn", "zombie", "reaped"})
=============================================================================
