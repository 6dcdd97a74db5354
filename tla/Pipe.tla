-------------------------------- MODULE Pipe --------------------------------
(* Open files and pipes: the file table and its reference counts (file.c), *)
(* the descriptor tables and the calls on them (sysfile.c), and a pipe's   *)
(* ring buffer with its lock, its sleepers and its last close (pipe.c).    *)
(* The calls are operators that a program (module Shell) makes; what a     *)
(* call does after it may have to wait is an action of this module.        *)
EXTENDS Naturals, Sequences, FiniteSets, FiniteSetsExt

CONSTANTS
  Procs,      \* processes
  None,
  NFILE,      \* entries of the file table
  NOFILE,     \* descriptors of a process
  PIPESIZE,
  UintMod,    \* the range of uint, a multiple of PIPESIZE
  MaxN,       \* bound: bytes of one read() or write()
  MaxKills    \* bound: processes killed

ASSUME UintAssumption == UintMod % PIPESIZE = 0 /\ PIPESIZE < UintMod

Files == 1 .. NFILE
Fds == 0 .. NOFILE - 1
NoFile == [type |-> "NONE", ref |-> 0, readable |-> FALSE, writable |-> FALSE]
NoPipe == [page |-> FALSE, data |-> [i \in 0 .. PIPESIZE - 1 |-> None],
           nread |-> 0, nwrite |-> 0, readopen |-> FALSE, writeopen |-> FALSE]

(* The code never looks at a byte: the bytes of one write() are told apart *)
(* by their place in it.                                                   *)
Bytes == 1 .. MaxN

VARIABLES
  file,     \* ftable.file
  ofile,    \* ofile[p]: the descriptors of p
  pipe,     \* the pipe; page: its page is allocated
  lock,     \* who holds p->lock
  chan,     \* chan[p]: the counter p sleeps on
  killed,
  at,       \* where p is in the kernel; "user" outside
  call      \* p's call: its arguments; afterwards the bytes read

kvars == <<file, ofile, pipe, lock, chan, killed, at, call>>

NoCall == [f |-> None, n |-> 0, buf |-> <<>>, end |-> FALSE]

Min2(a, b) == IF a < b THEN a ELSE b

(* Back to the program.                                                    *)
Return(p) == at' = [at EXCEPT ![p] = "user"] /\ call' = [call EXCEPT ![p] = NoCall]

(***************************************************************************)
(* The file table.                                                         *)
(***************************************************************************)
FreeFiles(ft) == {f \in Files : ft[f].ref = 0}
filealloc(ft) == Min(FreeFiles(ft))

(* Mutant: filedup() does not count.                                       *)
FiledupUncounted(ft, f) == ft
filedup(ft, f) == [ft EXCEPT ![f].ref = @ + 1]

(* fileclose() up to the release of ftable.lock: the entry is free before  *)
(* the pipe hears of it.                                                   *)
fileclose(ft, f) ==
  IF ft[f].ref > 1 THEN [ft EXCEPT ![f].ref = @ - 1]
  ELSE [ft EXCEPT ![f].ref = 0, ![f].type = "NONE"]
LastPipeRef(ft, f) == ft[f].ref = 1 /\ ft[f].type = "PIPE"

Open(fds) == {fd \in Fds : fds[fd] # None}
fdalloc(fds) == Min(Fds \ Open(fds))
CanFdalloc(fds) == Fds \ Open(fds) # {}

(***************************************************************************)
(* The ring buffer.                                                        *)
(***************************************************************************)
Full == pipe.nwrite = (pipe.nread + PIPESIZE) % UintMod
Empty == pipe.nread = pipe.nwrite
Used == (pipe.nwrite + UintMod - pipe.nread) % UintMod

Byte(i) == pipe.data[((pipe.nread + i) % UintMod) % PIPESIZE]
Contents == [i \in 1 .. Used |-> Byte(i - 1)]

(* data[nwrite++ % PIPESIZE] = s[i], for the bytes of s one after another. *)
Store(s) ==
  LET off(j) == 1 + ((j + PIPESIZE - (pipe.nwrite % PIPESIZE)) % PIPESIZE)
  IN [pipe EXCEPT !.nwrite = (@ + Len(s)) % UintMod,
        !.data = [j \in DOMAIN @ |-> IF off(j) <= Len(s) THEN s[off(j)] ELSE @[j]]]
(* Mutant: a read() drops what it does not return.                         *)
RemoveAll(k) == [pipe EXCEPT !.nread = pipe.nwrite]
Remove(k) == [pipe EXCEPT !.nread = (@ + k) % UintMod]

Wakeup(c) == [q \in Procs |-> IF chan[q] = c THEN None ELSE chan[q]]

(* p runs in the kernel and can have the pipe's lock.                      *)
CanLock(p) == chan[p] = None /\ lock \in {None, p}

(***************************************************************************)
(* piperead(): each step is what happens under the lock; the tests of      *)
(* proc->killed and sleep() are separate, since kill() does not take this  *)
(* lock.                                                                   *)
(***************************************************************************)
PipeRead(p) ==
  /\ at[p] = "read" /\ CanLock(p)
  /\ IF Empty /\ pipe.writeopen
     THEN IF killed[p] THEN Return(p) /\ lock' = None /\ UNCHANGED <<pipe, chan>>
          ELSE /\ lock' = p /\ at' = [at EXCEPT ![p] = "readsleep"]
               /\ UNCHANGED <<pipe, chan, call>>
     ELSE LET k == Min2(call[p].n, Used)
          IN /\ pipe' = Remove(k)
             /\ chan' = Wakeup("nwrite")
             /\ lock' = None
             /\ at' = [at EXCEPT ![p] = "user"]
             /\ call' = [call EXCEPT ![p] = [NoCall EXCEPT !.buf = SubSeq(Contents, 1, k)]]
  /\ UNCHANGED <<file, ofile, killed>>

(* sleep(&p->nread, &p->lock): the lock is released as p falls asleep.     *)
ReadSleep(p) ==
  /\ at[p] = "readsleep"
  /\ chan' = [chan EXCEPT ![p] = "nread"] /\ lock' = None
  /\ at' = [at EXCEPT ![p] = "read"]
  /\ UNCHANGED <<file, ofile, pipe, killed, call>>

(***************************************************************************)
(* pipewrite(): bytes go in until the pipe is full or all are in.          *)
(***************************************************************************)
PipeWrite(p) ==
  /\ at[p] = "write" /\ CanLock(p) /\ (call[p].buf = <<>> \/ ~Full)
  /\ LET k == Min2(Len(call[p].buf), PIPESIZE - Used)
         rest == SubSeq(call[p].buf, k + 1, Len(call[p].buf))
     IN /\ pipe' = Store(SubSeq(call[p].buf, 1, k))
        /\ IF rest = <<>>
           THEN Return(p) /\ chan' = Wakeup("nread") /\ lock' = None
           ELSE /\ call' = [call EXCEPT ![p].buf = rest] /\ lock' = p
                /\ UNCHANGED <<at, chan>>
  /\ UNCHANGED <<file, ofile, killed>>

PipeFull(p) ==
  /\ at[p] = "write" /\ CanLock(p) /\ call[p].buf # <<>> /\ Full
  /\ IF ~pipe.readopen \/ killed[p]
     THEN Return(p) /\ lock' = None /\ UNCHANGED chan
     ELSE /\ chan' = Wakeup("nread") /\ lock' = p
          /\ at' = [at EXCEPT ![p] = "writesleep"] /\ UNCHANGED call
  /\ UNCHANGED <<file, ofile, pipe, killed>>

WriteSleep(p) ==
  /\ at[p] = "writesleep"
  /\ chan' = [chan EXCEPT ![p] = "nwrite"] /\ lock' = None
  /\ at' = [at EXCEPT ![p] = "write"]
  /\ UNCHANGED <<file, ofile, pipe, killed, call>>

(* Mutant: pipeclose() wakes its own end.                                  *)
CloseWakesOwn(writable) == Wakeup(IF writable THEN "nwrite" ELSE "nread")
(* pipeclose(), on the last reference to one end: the other may sleep.     *)
CloseWakes(writable) == Wakeup(IF writable THEN "nread" ELSE "nwrite")
PipeClose(p) ==
  /\ at[p] \in {"close", "exitclose"} /\ CanLock(p)
  /\ LET shut == IF call[p].end THEN [pipe EXCEPT !.writeopen = FALSE]
                 ELSE [pipe EXCEPT !.readopen = FALSE]
     IN pipe' = IF shut.readopen \/ shut.writeopen THEN shut ELSE NoPipe
  /\ chan' = CloseWakes(call[p].end)
  /\ at' = [at EXCEPT ![p] = IF @ = "close" THEN "user" ELSE "exit"]
  /\ call' = [call EXCEPT ![p] = NoCall]
  /\ UNCHANGED <<file, ofile, lock, killed>>

(***************************************************************************)
(* System calls, by p in user mode.                                        *)
(***************************************************************************)
InUser(p) == at[p] = "user" /\ ~killed[p]

SysDup(p, fd) ==
  LET f == ofile[p][fd]
  IN /\ InUser(p)
     /\ IF f = None \/ ~CanFdalloc(ofile[p]) THEN Return(p) /\ UNCHANGED <<file, ofile>>
        ELSE /\ ofile' = [ofile EXCEPT ![p][fdalloc(ofile[p])] = f]
             /\ file' = filedup(file, f)
             /\ Return(p)
     /\ UNCHANGED <<pipe, lock, chan, killed>>

(* fileclose() of the descriptor fd; `pipeclose' follows when it was the   *)
(* last reference to an end of the pipe.                                   *)
CloseFd(p, fd, from, to) ==
  LET f == ofile[p][fd]
  IN /\ ofile' = [ofile EXCEPT ![p][fd] = None]
     /\ file' = fileclose(file, f)
     /\ IF LastPipeRef(file, f)
        THEN /\ at' = [at EXCEPT ![p] = to]
             /\ call' = [call EXCEPT ![p] = [NoCall EXCEPT !.end = file[f].writable]]
        ELSE at' = [at EXCEPT ![p] = from] /\ call' = [call EXCEPT ![p] = NoCall]
SysClose(p, fd) ==
  /\ InUser(p)
  /\ IF ofile[p][fd] = None THEN Return(p) /\ UNCHANGED <<file, ofile>>
     ELSE CloseFd(p, fd, "user", "close")
  /\ UNCHANGED <<pipe, lock, chan, killed>>

(* read() and write(): fileread() and filewrite().  A file that is not a   *)
(* pipe is the console here, and its transfer is not followed.             *)
SysRead(p, fd, k) ==
  LET f == ofile[p][fd]
  IN /\ InUser(p)
     /\ IF f = None THEN Return(p)
        ELSE IF ~file[f].readable THEN Return(p)
        ELSE IF file[f].type # "PIPE" THEN Return(p)
        ELSE /\ at' = [at EXCEPT ![p] = "read"]
             /\ call' = [call EXCEPT ![p] = [NoCall EXCEPT !.f = f, !.n = k]]
     /\ UNCHANGED <<file, ofile, pipe, lock, chan, killed>>
SysWrite(p, fd, s) ==
  LET f == ofile[p][fd]
  IN /\ InUser(p)
     /\ IF f = None THEN Return(p)
        ELSE IF ~file[f].writable THEN Return(p)
        ELSE IF file[f].type # "PIPE" THEN Return(p)
        ELSE /\ at' = [at EXCEPT ![p] = "write"]
             /\ call' = [call EXCEPT ![p] = [NoCall EXCEPT !.f = f, !.n = Len(s), !.buf = s]]
     /\ UNCHANGED <<file, ofile, pipe, lock, chan, killed>>

(* pipealloc() and the two descriptors; whatever is missing, the rest is   *)
(* given back.  Both entries are taken before anyone can know of them.     *)
End(w) == [type |-> "PIPE", ref |-> 1, readable |-> ~w, writable |-> w]
SysPipe(p) ==
  LET f0 == filealloc(file)
      f1 == filealloc([file EXCEPT ![f0].ref = 1])
      fd0 == fdalloc(ofile[p])
      fd1 == fdalloc([ofile[p] EXCEPT ![fd0] = f0])
  IN /\ InUser(p) /\ ~pipe.page
     /\ IF Cardinality(FreeFiles(file)) < 2 \/ Cardinality(Fds \ Open(ofile[p])) < 2
        THEN Return(p) /\ UNCHANGED <<file, ofile, pipe>>
        ELSE /\ file' = [file EXCEPT ![f0] = End(FALSE), ![f1] = End(TRUE)]
             /\ ofile' = [ofile EXCEPT ![p][fd0] = f0, ![p][fd1] = f1]
             /\ pipe' = [NoPipe EXCEPT !.page = TRUE, !.readopen = TRUE, !.writeopen = TRUE]
             /\ Return(p)
     /\ UNCHANGED <<lock, chan, killed>>

(* fork()'s share of the descriptors: one more reference for each.         *)
Fork(p, child) ==
  /\ InUser(p) /\ at[child] = "unborn"
  /\ ofile' = [ofile EXCEPT ![child] = ofile[p]]
  /\ file' = [f \in Files |->
       [file[f] EXCEPT !.ref = @ + Cardinality({fd \in Fds : ofile[p][fd] = f})]]
  /\ at' = [at EXCEPT ![child] = "user"]
  /\ UNCHANGED <<pipe, lock, chan, killed, call>>

(* exit() closes the descriptors in order.                                 *)
ExitFd(p) ==
  /\ at[p] = "exit"
  /\ IF Open(ofile[p]) # {} THEN CloseFd(p, Min(Open(ofile[p])), "exit", "exitclose")
     ELSE /\ at' = [at EXCEPT ![p] = "zombie"] /\ UNCHANGED <<file, ofile, call>>
  /\ UNCHANGED <<pipe, lock, chan, killed>>

Exit(p) ==
  /\ at[p] = "user" /\ at' = [at EXCEPT ![p] = "exit"]
  /\ UNCHANGED <<file, ofile, pipe, lock, chan, killed, call>>

(* kill(), by a process outside this model; one that is exiting no longer  *)
(* looks at killed.                                                        *)
Kill(p) ==
  /\ at[p] \notin {"unborn", "exit", "exitclose", "zombie", "reaped"} /\ ~killed[p]
  /\ Cardinality({q \in Procs : killed[q]}) < MaxKills
  /\ killed' = [killed EXCEPT ![p] = TRUE] /\ chan' = [chan EXCEPT ![p] = None]
  /\ UNCHANGED <<file, ofile, pipe, lock, at, call>>

KernelStep(p) ==
  \/ PipeRead(p) \/ ReadSleep(p) \/ PipeWrite(p) \/ PipeFull(p) \/ WriteSleep(p)
  \/ PipeClose(p) \/ ExitFd(p)
=============================================================================
