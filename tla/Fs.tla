--------------------------------- MODULE Fs ---------------------------------
(* Inodes, directories and path names (fs.c) and the system calls on them  *)
(* (sysfile.c).  A step ends where the code gives up a lock another        *)
(* process may be waiting for; a directory is a function from names, a     *)
(* file has its bytes in blocks.  The blocks of directories and the        *)
(* transactions around each call (see Log) are left out.                   *)
EXTENDS Blocks

CONSTANTS
  Procs, None,
  Names,        \* names of entries, besides . and ..
  NInodes,      \* sb.ninodes: inode numbers are below it
  NINODE,       \* the entries of icache
  NFILE, NOFILE \* the entries of ftable, descriptors of a process

Inodes == 1 .. NInodes - 1
Slots == 1 .. NINODE
ROOTINO == 1
Dots == {".", ".."}

VARIABLES
  used, data,  \* the bitmap, and the contents of the blocks
  dinode,    \* dinode[i]: the type, nlink, size and addrs of inode i on the disk
  dir,       \* dir[i]: the entries of directory i; 0: none
  dotdot,    \* dotdot[i]: what its .. entry names
  icache,    \* icache[s]: [inum, ref, valid, type, nlink, size, addrs]
  lock,      \* lock[s]: who holds the sleep lock of entry s
  file,      \* file[f]: [ref, ip, off, writable]
  cwd, ofile,
  frame,     \* frame[p]: the system call p is in
  panicked,
  lapse      \* "none", or which of two gaps in the locking was entered

blocks == <<used, data>>
dvars == <<used, data, dinode, dir, dotdot>>
vars == <<dvars, icache, lock, file, cwd, ofile, frame, panicked, lapse>>

NoEntries == [n \in Names |-> 0]
NoInode == [type |-> "none", nlink |-> 0, size |-> 0, addrs |-> NoAddrs]
NoEntry == [inum |-> 0, ref |-> 0, valid |-> FALSE, type |-> "none", nlink |-> 0,
            size |-> 0, addrs |-> NoAddrs]
NoFile == [ref |-> 0, ip |-> None, off |-> 0, writable |-> FALSE]

(* A frame holds a reference to ip, to tgt and to each of puts, which are  *)
(* the arguments of the iput() calls that come next.                       *)
NoCall == [op |-> "none", at |-> "idle", rest |-> <<>>, new |-> <<>>, parent |-> FALSE,
           name |-> None, ip |-> None, tgt |-> None, puts |-> <<>>, free |-> "no",
           fd |-> 0, buf |-> <<>>, logged |-> 0]

(* The image mkfs makes of the given files, named in order, with their     *)
(* bytes: inode 1 is the root directory.                                   *)
Mkfs(names, bytes) ==
  LET inode(type) == [NoInode EXCEPT !.type = type, !.nlink = 1]
      start == [free |-> NMeta, data |-> [b \in Blocks |-> Zeroes],
                dinode |-> [i \in Inodes |-> IF i = ROOTINO THEN inode("DIR")
                              ELSE IF i <= Len(names) + 1 THEN inode("FILE") ELSE NoInode]]
  IN FoldLeft(LAMBDA m, k : iappend(m, k + 1, bytes[k]), start, [k \in 1 .. Len(names) |-> k])
Image(names, bytes) ==
  LET m == Mkfs(names, bytes)
  IN /\ used = 0 .. m.free - 1 /\ data = m.data /\ dinode = m.dinode
     /\ dir = [i \in Inodes |-> [x \in Names |->
                 IF i = ROOTINO /\ x \in Range(names) THEN 1 + CHOOSE k \in DOMAIN names : names[k] = x ELSE 0]]
     /\ dotdot = [i \in Inodes |-> ROOTINO]

(* One process, in the root directory; the others are yet to be forked.    *)
InitWith(p0, names, bytes) ==
  /\ Image(names, bytes)
  /\ icache = [s \in Slots |-> IF s = 1
                 THEN [NoEntry EXCEPT !.inum = ROOTINO, !.ref = 1] ELSE NoEntry]
  /\ lock = [s \in Slots |-> None] /\ file = [f \in 1 .. NFILE |-> NoFile]
  /\ cwd = [p \in Procs |-> IF p = p0 THEN 1 ELSE None]
  /\ ofile = [p \in Procs |-> [fd \in 1 .. NOFILE |-> None]]
  /\ frame = [p \in Procs |-> NoCall] /\ panicked = "no" /\ lapse = "none"

(***************************************************************************)
(* The inode cache.                                                        *)
(***************************************************************************)
(* The first of S; when there is none the caller panics.                   *)
First(S) == IF S = {} THEN 1 ELSE CHOOSE x \in S : \A y \in S : x <= y

Cached(i) == {s \in Slots : icache[s].ref > 0 /\ icache[s].inum = i}
Unused == {s \in Slots : icache[s].ref = 0}
CanIget(i) == Cached(i) \cup Unused # {}
Slot(i) == IF Cached(i) # {} THEN First(Cached(i)) ELSE First(Unused)
iget(ic, i) ==
  [ic EXCEPT ![Slot(i)] = IF Cached(i) # {} THEN [@ EXCEPT !.ref = @ + 1]
                          ELSE [NoEntry EXCEPT !.inum = i, !.ref = 1]]
(* Mutant: idup() does not count.                                          *)
IdupUncounted(ic, s) == ic
idup(ic, s) == [ic EXCEPT ![s].ref = @ + 1]

(* ilock(), once the sleep lock is free, reads the inode if need be.       *)
Disk(s) == dinode[icache[s].inum]
Load(s) ==
  IF icache[s].valid THEN icache
  ELSE [icache EXCEPT ![s] = [inum |-> @.inum, ref |-> @.ref, valid |-> TRUE,
                               type |-> Disk(s).type, nlink |-> Disk(s).nlink,
                               size |-> Disk(s).size, addrs |-> Disk(s).addrs]]
NoType(s) == ~icache[s].valid /\ Disk(s).type = "none"
Reused(s) == icache[s].valid /\ icache[s].type = "none"
(* ilock(s), and then what panics with message m unless it is "no".        *)
IlocksThen(s, m) ==
  /\ lock[s] = None
  /\ panicked' = IF icache[s].ref < 1 THEN "ilock" ELSE IF NoType(s) THEN "ilock: no type" ELSE m
Ilocks(s) == IlocksThen(s, "no")
(* ilock(s), then iget(i) unless i is 0.                                   *)
IlocksAndGets(s, i) == IlocksThen(s, IF i # 0 /\ ~CanIget(i) THEN "iget: no inodes" ELSE "no")

(* iupdate() of entry s of ic.                                             *)
iupdate(d, ic, s) ==
  [d EXCEPT ![ic[s].inum] = [type |-> ic[s].type, nlink |-> ic[s].nlink,
                             size |-> ic[s].size, addrs |-> ic[s].addrs]]
Content(ic, s) == With(used, data, ic[s].size, ic[s].addrs)

dirlookup(i, name) ==
  CASE name = "." -> i [] name = ".." -> dotdot[i] [] OTHER -> dir[i][name]
(* Mutant: every directory passes for empty.                               *)
IsdiremptyAny(i) == TRUE
isdirempty(i) == dir[i] = NoEntries
Enter(i, name, j) == [dir EXCEPT ![i][name] = j]

(* A lapse: an entry that iput() is freeing has been found by ialloc()     *)
(* and iget(), or a directory without a name is searched or added to.      *)
Lapse(s, removed) ==
  lapse' = IF lapse # "none" THEN lapse
           ELSE IF Reused(s) THEN "reused" ELSE IF removed THEN "removed" ELSE "none"
Removed(ic, s) == ic[s].nlink = 0

At(p, l) == panicked = "no" /\ frame[p].at = l /\ frame[p].puts = <<>>
Set(p, f) == frame' = [frame EXCEPT ![p] = f]

(* iput(): the last reference to an inode without links frees it, without  *)
(* icache.lock and without the sleep lock.                                 *)
Iput(p) ==
  LET f == frame[p]
      s == Head(f.puts)
      frees == icache[s].ref = 1 /\ icache[s].valid /\ icache[s].nlink = 0
  IN /\ panicked = "no" /\ f.puts # <<>> /\ f.free = "no"
     /\ IF frees THEN Set(p, [f EXCEPT !.free = "itrunc"]) /\ UNCHANGED icache
        ELSE /\ icache' = [icache EXCEPT ![s].ref = @ - 1]
             /\ Set(p, [f EXCEPT !.puts = Tail(@)])
     /\ UNCHANGED <<dvars, lock, file, cwd, ofile, panicked, lapse>>

(* itrunc(), type = 0, iupdate().                                          *)
Itrunc(p) ==
  LET s == Head(frame[p].puts)
      a == itrunc(Content(icache, s))
      ic == [icache EXCEPT ![s].type = "none", ![s].size = a.size, ![s].addrs = a.addrs]
  IN /\ panicked = "no" /\ frame[p].free = "itrunc"
     /\ used' = a.used /\ panicked' = a.panic
     /\ icache' = ic /\ dinode' = iupdate(dinode, ic, s)
     /\ dir' = [dir EXCEPT ![ic[s].inum] = NoEntries]
     /\ Set(p, [frame[p] EXCEPT !.free = "unref"])
     /\ UNCHANGED <<data, dotdot, lock, file, cwd, ofile, lapse>>
Ifree(p) ==
  LET f == frame[p]
      s == Head(f.puts)
  IN /\ panicked = "no" /\ f.free = "unref"
     /\ icache' = [icache EXCEPT ![s].valid = FALSE, ![s].ref = @ - 1]
     /\ Set(p, [f EXCEPT !.puts = Tail(@), !.free = "no"])
     /\ UNCHANGED <<dvars, lock, file, cwd, ofile, panicked, lapse>>
(***************************************************************************)
(* namex(): the walk along a path, to its last element or one before it.   *)
(***************************************************************************)
Absolute(path) == path # <<>> /\ path[1] = "/"
StartGets(path) == IF Absolute(path) THEN ROOTINO ELSE 0
Start(p, path) == IF Absolute(path) THEN Slot(ROOTINO) ELSE cwd[p]
StartRef(p, path, ic) == IF Absolute(path) THEN iget(ic, ROOTINO) ELSE idup(ic, cwd[p])
Elements(path) == IF Absolute(path) THEN Tail(path) ELSE path
Creates(op) == op \in {"create", "mkdir", "mknod"}
Failed(f) == IF f.op = "newlink" THEN "bad" ELSE "fail"

Call(p, c) ==
  /\ At(p, "idle")
  /\ panicked' = IF Absolute(c.path) /\ ~CanIget(ROOTINO) THEN "iget: no inodes" ELSE "no"
  /\ icache' = StartRef(p, c.path, icache)
  /\ Set(p, [NoCall EXCEPT !.op = c.op, !.at = "walk", !.rest = Elements(c.path), !.new = c.new,
                           !.ip = Start(p, c.path), !.parent = Creates(c.op) \/ c.op = "unlink"])
  /\ UNCHANGED <<dvars, lock, file, cwd, ofile, lapse>>

Walk(p) ==
  LET f == frame[p]
      s == f.ip
      ic == Load(s)
      failed == [f EXCEPT !.at = Failed(f), !.ip = None, !.puts = <<s>>]
      stop == f.parent /\ Len(f.rest) = 1
      n == dirlookup(ic[s].inum, f.rest[1])
  IN /\ At(p, "walk")
     /\ IF f.rest = <<>>
        THEN /\ Set(p, IF f.parent THEN failed ELSE [f EXCEPT !.at = f.op])
             /\ UNCHANGED <<icache, panicked, lapse>>
        ELSE /\ IlocksAndGets(s, IF ic[s].type = "DIR" /\ ~stop THEN n ELSE 0)
             /\ Lapse(s, f.rest[1] = ".." /\ Removed(ic, s) /\ ic[s].type = "DIR")
             /\ IF ic[s].type # "DIR" THEN Set(p, failed) /\ icache' = ic
                ELSE IF stop THEN Set(p, [f EXCEPT !.at = f.op, !.name = f.rest[1]]) /\ icache' = ic
                ELSE IF n = 0 THEN Set(p, failed) /\ icache' = ic
                ELSE /\ icache' = iget(ic, n)
                     /\ Set(p, [f EXCEPT !.rest = Tail(@), !.ip = Slot(n), !.puts = <<s>>])
     /\ UNCHANGED <<dvars, lock, file, cwd, ofile>>

(***************************************************************************)
(* open(), and create() for open(), mkdir() and mknod().                   *)
(***************************************************************************)
FreeFds(p) == {fd \in 1 .. NOFILE : ofile[p][fd] = None}
fdalloc(p) == First(FreeFds(p))
FreeFiles == {f \in 1 .. NFILE : file[f].ref = 0}
filealloc == First(FreeFiles)

(* filealloc(), fdalloc(), iunlock(), for the locked inode s.              *)
OpenFd(p, s) ==
  LET f == [frame[p] EXCEPT !.ip = None, !.tgt = None]
  IN IF FreeFds(p) = {} \/ FreeFiles = {}
     THEN Set(p, [f EXCEPT !.at = "fail", !.puts = <<s>>]) /\ UNCHANGED <<file, ofile>>
     ELSE /\ Set(p, [f EXCEPT !.at = "ok"])
          /\ ofile' = [ofile EXCEPT ![p][fdalloc(p)] = filealloc]
          /\ file' = [file EXCEPT ![filealloc] = [ref |-> 1, ip |-> s, off |-> 0, writable |-> f.op # "open"]]

SysOpen(p) ==
  LET s == frame[p].ip
  IN /\ At(p, "open") \/ At(p, "openw")
     /\ Ilocks(s) /\ Lapse(s, FALSE) /\ icache' = Load(s)
     /\ IF Load(s)[s].type = "DIR" /\ frame[p].op = "openw"
        THEN Set(p, [frame[p] EXCEPT !.at = "fail", !.ip = None, !.puts = <<s>>]) /\ UNCHANGED <<file, ofile>>
        ELSE OpenFd(p, s)
     /\ UNCHANGED <<dvars, lock, cwd>>

TypeOf(op) == CASE op = "create" -> "FILE" [] op = "mkdir" -> "DIR" [] OTHER -> "DEV"
FreeInodes == {i \in Inodes : dinode[i].type = "none"}
ialloc == First(FreeInodes)

(* The name is there: give up the directory for it.                        *)
CreateFound(p) ==
  LET f == frame[p]
      d == f.ip
      n == dirlookup(icache[d].inum, f.name)
  IN /\ Creates(f.op) /\ At(p, f.op) /\ n # 0
     /\ IlocksAndGets(d, n) /\ Lapse(d, f.name = ".." /\ Removed(Load(d), d)) /\ icache' = iget(Load(d), n)
     /\ Set(p, [f EXCEPT !.at = "found", !.ip = None, !.tgt = Slot(n), !.puts = <<d>>])
     /\ UNCHANGED <<dvars, lock, file, cwd, ofile>>
Found(p) ==
  LET f == frame[p]
      s == f.tgt
  IN /\ At(p, "found") /\ Ilocks(s) /\ Lapse(s, FALSE) /\ icache' = Load(s)
     /\ IF f.op = "create" /\ Load(s)[s].type = "FILE" THEN OpenFd(p, s)
        ELSE Set(p, [f EXCEPT !.at = "fail", !.tgt = None, !.puts = <<s>>]) /\ UNCHANGED <<file, ofile>>
     /\ UNCHANGED <<dvars, lock, cwd>>

(* It is not: ialloc() marks an inode allocated on the disk ...            *)
CreateNew(p) ==
  LET f == frame[p]
      d == f.ip
      i == ialloc
  IN /\ Creates(f.op) /\ At(p, f.op) /\ dirlookup(icache[d].inum, f.name) = 0
     /\ IlocksThen(d, IF FreeInodes = {} THEN "ialloc: no inodes"
                      ELSE IF CanIget(i) THEN "no" ELSE "iget: no inodes")
     /\ Lapse(d, Removed(Load(d), d))
     /\ dinode' = [dinode EXCEPT ![i] = [NoInode EXCEPT !.type = TypeOf(f.op)]]
     /\ icache' = iget(Load(d), i)
     /\ lock' = [lock EXCEPT ![d] = p]
     /\ Set(p, [f EXCEPT !.at = "made", !.tgt = Slot(i)])
     /\ UNCHANGED <<blocks, dir, dotdot, file, cwd, ofile>>

(* ... and ilock() reads it back; it gets its link, its dots, its name.    *)
Made(p) ==
  LET f == frame[p]
      d == f.ip
      s == f.tgt
      i == icache[s].inum
      subdir == f.op = "mkdir"
      ic == [Load(s) EXCEPT ![s].nlink = 1, ![d].nlink = IF subdir THEN @ + 1 ELSE @]
  IN /\ At(p, "made") /\ Ilocks(s) /\ Lapse(s, FALSE)
     /\ icache' = ic
     /\ dinode' = IF subdir THEN iupdate(iupdate(dinode, ic, s), ic, d) ELSE iupdate(dinode, ic, s)
     /\ dir' = Enter(icache[d].inum, f.name, i)
     /\ dotdot' = IF subdir THEN [dotdot EXCEPT ![i] = icache[d].inum] ELSE dotdot
     /\ lock' = [lock EXCEPT ![d] = None, ![s] = p]
     /\ Set(p, [f EXCEPT !.at = "created", !.ip = None, !.puts = <<d>>])
     /\ UNCHANGED <<blocks, file, cwd, ofile>>
(* Mutant: create() leaves the inode locked.                               *)
CreatedLocked(p) ==
  LET f == frame[p]
      s == f.tgt
  IN /\ At(p, "created") /\ UNCHANGED lock
     /\ IF f.op = "create" THEN OpenFd(p, s)
        ELSE Set(p, [f EXCEPT !.at = "ok", !.tgt = None, !.puts = <<s>>]) /\ UNCHANGED <<file, ofile>>
     /\ UNCHANGED <<dvars, icache, cwd, panicked, lapse>>
Created(p) ==
  LET f == frame[p]
      s == f.tgt
  IN /\ At(p, "created") /\ lock' = [lock EXCEPT ![s] = None]
     /\ IF f.op = "create" THEN OpenFd(p, s)
        ELSE Set(p, [f EXCEPT !.at = "ok", !.tgt = None, !.puts = <<s>>]) /\ UNCHANGED <<file, ofile>>
     /\ UNCHANGED <<dvars, icache, cwd, panicked, lapse>>

(***************************************************************************)
(* link() and unlink().                                                    *)
(***************************************************************************)
(* The link is counted first, then the new name is looked up.              *)
SysLink(p) ==
  LET f == frame[p]
      s == f.ip
      ic == [Load(s) EXCEPT ![s].nlink = @ + 1]
  IN /\ At(p, "link") /\ IlocksAndGets(s, IF Load(s)[s].type = "DIR" THEN 0 ELSE StartGets(f.new)) /\ Lapse(s, FALSE)
     /\ IF Load(s)[s].type = "DIR"
        THEN /\ Set(p, [f EXCEPT !.at = "fail", !.ip = None, !.puts = <<s>>])
             /\ icache' = Load(s) /\ UNCHANGED dinode
        ELSE /\ icache' = StartRef(p, f.new, ic) /\ dinode' = iupdate(dinode, ic, s)
             /\ Set(p, [f EXCEPT !.op = "newlink", !.at = "walk", !.rest = Elements(f.new),
                                 !.new = <<>>, !.parent = TRUE, !.ip = Start(p, f.new), !.tgt = s])
     /\ UNCHANGED <<blocks, dir, dotdot, lock, file, cwd, ofile>>
(* dirlink(), which fails when the name is there; it gets that inode and   *)
(* puts it, with its link, at once.                                        *)
NewLink(p) ==
  LET f == frame[p]
      d == f.ip
      n == dirlookup(icache[d].inum, f.name)
      there == n # 0
  IN /\ At(p, "newlink") /\ IlocksAndGets(d, n) /\ Lapse(d, ~there /\ Removed(Load(d), d)) /\ icache' = Load(d)
     /\ IF there
        THEN /\ Set(p, [f EXCEPT !.at = "bad", !.ip = None, !.puts = <<d>>])
             /\ UNCHANGED dir
        ELSE /\ dir' = Enter(icache[d].inum, f.name, icache[f.tgt].inum)
             /\ Set(p, [f EXCEPT !.at = "ok", !.ip = None, !.tgt = None, !.puts = <<d, f.tgt>>])
     /\ UNCHANGED <<blocks, dinode, dotdot, lock, file, cwd, ofile>>
LinkBad(p) ==
  LET f == frame[p]
      s == f.tgt
      ic == [Load(s) EXCEPT ![s].nlink = @ - 1]
  IN /\ At(p, "bad") /\ Ilocks(s) /\ Lapse(s, FALSE)
     /\ icache' = ic /\ dinode' = iupdate(dinode, ic, s)
     /\ Set(p, [f EXCEPT !.at = "fail", !.tgt = None, !.puts = <<s>>])
     /\ UNCHANGED <<blocks, dir, dotdot, lock, file, cwd, ofile>>

(* unlink() holds the directory while it locks the inode.                  *)
SysUnlink(p) ==
  LET f == frame[p]
      d == f.ip
      n == dirlookup(icache[d].inum, f.name)
  IN /\ At(p, "unlink") /\ IlocksAndGets(d, IF f.name \in Dots THEN 0 ELSE n) /\ Lapse(d, FALSE)
     /\ IF f.name \in Dots \/ n = 0
        THEN /\ Set(p, [f EXCEPT !.at = "fail", !.ip = None, !.puts = <<d>>])
             /\ icache' = Load(d) /\ UNCHANGED lock
        ELSE /\ icache' = iget(Load(d), n) /\ lock' = [lock EXCEPT ![d] = p]
             /\ Set(p, [f EXCEPT !.at = "victim", !.tgt = Slot(n)])
     /\ UNCHANGED <<dvars, file, cwd, ofile>>
Victim(p) ==
  LET f == frame[p]
      d == f.ip
      s == f.tgt
      isdir == Load(s)[s].type = "DIR"
      ic == [Load(s) EXCEPT ![d].nlink = IF isdir THEN @ - 1 ELSE @]
  IN /\ At(p, "victim") /\ Lapse(s, FALSE)
     /\ IlocksThen(s, IF Load(s)[s].nlink < 1 THEN "unlink: nlink < 1" ELSE "no")
     /\ IF isdir /\ ~isdirempty(icache[s].inum)
        THEN /\ lock' = [lock EXCEPT ![d] = None] /\ icache' = Load(s)
             /\ Set(p, [f EXCEPT !.at = "fail", !.ip = None, !.tgt = None, !.puts = <<s, d>>])
             /\ UNCHANGED <<dinode, dir>>
        ELSE /\ dir' = Enter(icache[d].inum, f.name, 0)
             /\ icache' = ic /\ dinode' = IF isdir THEN iupdate(dinode, ic, d) ELSE dinode
             /\ lock' = [lock EXCEPT ![d] = None, ![s] = p]
             /\ Set(p, [f EXCEPT !.at = "drop", !.ip = None, !.puts = <<d>>])
     /\ UNCHANGED <<blocks, dotdot, file, cwd, ofile>>
Drop(p) ==
  LET f == frame[p]
      s == f.tgt
      ic == [icache EXCEPT ![s].nlink = @ - 1]
  IN /\ At(p, "drop") /\ icache' = ic /\ dinode' = iupdate(dinode, ic, s)
     /\ lock' = [lock EXCEPT ![s] = None]
     /\ Set(p, [f EXCEPT !.at = "ok", !.tgt = None, !.puts = <<s>>])
     /\ UNCHANGED <<blocks, dir, dotdot, file, cwd, ofile, panicked, lapse>>

(***************************************************************************)
(* chdir(), close(), exit().                                               *)
(***************************************************************************)
SysChdir(p) ==
  LET f == frame[p]
      s == f.ip
      isdir == Load(s)[s].type = "DIR"
  IN /\ At(p, "chdir") /\ Ilocks(s) /\ Lapse(s, FALSE) /\ icache' = Load(s)
     /\ Set(p, [f EXCEPT !.at = IF isdir THEN "ok" ELSE "fail", !.ip = None,
                         !.puts = <<IF isdir THEN cwd[p] ELSE s>>])
     /\ cwd' = [cwd EXCEPT ![p] = IF isdir THEN s ELSE @]
     /\ UNCHANGED <<dvars, lock, file, ofile>>

(* fileclose() of a descriptor: iput() when no other has the file.         *)
LastRef(p, fd) == ofile[p][fd] # None /\ file[ofile[p][fd]].ref = 1
fileclose(p, fd) ==
  /\ file' = IF LastRef(p, fd) THEN [file EXCEPT ![ofile[p][fd]] = NoFile]
             ELSE [file EXCEPT ![ofile[p][fd]].ref = @ - 1]
  /\ ofile' = [ofile EXCEPT ![p][fd] = None]
Inode(p, fd) == IF LastRef(p, fd) THEN <<file[ofile[p][fd]].ip>> ELSE <<>>

Close(p, fd) ==
  /\ At(p, "idle")
  /\ Set(p, [NoCall EXCEPT !.op = "close", !.at = IF ofile[p][fd] # None THEN "ok" ELSE "fail",
                           !.puts = Inode(p, fd)])
  /\ IF ofile[p][fd] # None THEN fileclose(p, fd) ELSE UNCHANGED <<file, ofile>>
  /\ UNCHANGED <<dvars, icache, lock, cwd, panicked, lapse>>

(* exit() closes the descriptors one by one, then gives up cwd.            *)
OpenFds(p) == {fd \in 1 .. NOFILE : ofile[p][fd] # None}
Exit(p) ==
  /\ At(p, "idle") /\ Set(p, [NoCall EXCEPT !.op = "exit", !.at = "exit"])
  /\ UNCHANGED <<dvars, icache, lock, file, cwd, ofile, panicked, lapse>>
ExitClose(p) ==
  LET fd == First(OpenFds(p))
  IN /\ At(p, "exit") /\ OpenFds(p) # {}
     /\ Set(p, [frame[p] EXCEPT !.puts = Inode(p, fd)]) /\ fileclose(p, fd)
     /\ UNCHANGED <<dvars, icache, lock, cwd, panicked, lapse>>
ExitCwd(p) ==
  /\ At(p, "exit") /\ OpenFds(p) = {}
  /\ Set(p, [frame[p] EXCEPT !.at = "ok", !.puts = <<cwd[p]>>])
  /\ cwd' = [cwd EXCEPT ![p] = None]
  /\ UNCHANGED <<dvars, icache, lock, file, ofile, panicked, lapse>>

(* fork(): the child q gets the files and the directory of p.              *)
Gone(p) == At(p, "idle") /\ cwd[p] = None
Refs(p, f) == Cardinality({fd \in 1 .. NOFILE : ofile[p][fd] = f})
Fork(p, q) ==
  /\ At(p, "idle") /\ Gone(q)
  /\ file' = [f \in 1 .. NFILE |-> [file[f] EXCEPT !.ref = @ + Refs(p, f)]]
  /\ ofile' = [ofile EXCEPT ![q] = ofile[p]]
  /\ icache' = idup(icache, cwd[p]) /\ cwd' = [cwd EXCEPT ![q] = cwd[p]]
  /\ UNCHANGED <<dvars, lock, frame, panicked, lapse>>

(***************************************************************************)
(* read() and write().                                                     *)
(***************************************************************************)
Io(p, op, fd, bytes) ==
  LET f == ofile[p][fd]
  IN /\ At(p, "idle")
     /\ Set(p, [NoCall EXCEPT !.op = op, !.fd = fd, !.buf = bytes,
                  !.at = IF f # None /\ (op = "write" => file[f].writable) THEN op ELSE "fail"])
     /\ UNCHANGED <<dvars, icache, lock, file, cwd, ofile, panicked, lapse>>

FileRead(p) ==
  LET f == frame[p]
      k == ofile[p][f.fd]
      s == file[k].ip
      bytes == readi(Content(Load(s), s), file[k].off, Len(f.buf))
  IN /\ At(p, "read") /\ Ilocks(s) /\ Lapse(s, FALSE) /\ icache' = Load(s)
     /\ file' = [file EXCEPT ![k].off = @ + Len(bytes)]
     /\ Set(p, [f EXCEPT !.at = "ok", !.buf = bytes])
     /\ UNCHANGED <<dvars, lock, cwd, ofile>>

(* filewrite(): a transaction for every MaxWrite bytes.                    *)
FileWrite(p) ==
  LET f == frame[p]
      k == ofile[p][f.fd]
      s == file[k].ip
      n == Lesser(Len(f.buf), MaxWrite)
      a == writei(Content(Load(s), s), file[k].off, SubSeq(f.buf, 1, n))
      ic == [Load(s) EXCEPT ![s].size = a.size, ![s].addrs = a.addrs]
      grows == a.size > Load(s)[s].size
      fails == Fails(Content(Load(s), s), file[k].off, n)
  IN /\ At(p, "write") /\ f.buf # <<>> /\ Lapse(s, FALSE)
     /\ IlocksThen(s, IF fails THEN "no" ELSE a.panic)
     /\ IF fails
        THEN /\ Set(p, [f EXCEPT !.at = "fail"]) /\ icache' = Load(s)
             /\ UNCHANGED <<blocks, dinode, file>>
        ELSE /\ used' = a.used /\ data' = a.data
             /\ icache' = ic /\ dinode' = IF grows THEN iupdate(dinode, ic, s) ELSE dinode
             /\ file' = [file EXCEPT ![k].off = @ + n]
             /\ Set(p, [f EXCEPT !.buf = SubSeq(@, n + 1, Len(@)), !.logged = Cardinality(a.logged)])
     /\ UNCHANGED <<dir, dotdot, lock, cwd, ofile>>

FileWritten(p) ==
  /\ At(p, "write") /\ frame[p].buf = <<>> /\ Set(p, [frame[p] EXCEPT !.at = "ok"])
  /\ UNCHANGED <<dvars, icache, lock, file, cwd, ofile, panicked, lapse>>

(* The call returns; the caller sees whether it worked.                    *)
Return(p) ==
  /\ At(p, "ok") \/ At(p, "fail")
  /\ Set(p, NoCall)
  /\ UNCHANGED <<dvars, icache, lock, file, cwd, ofile, panicked, lapse>>

KernelStep(p) ==
  \/ Iput(p) \/ Itrunc(p) \/ Ifree(p) \/ Walk(p)
  \/ SysOpen(p) \/ CreateFound(p) \/ Found(p) \/ CreateNew(p) \/ Made(p) \/ Created(p)
  \/ SysLink(p) \/ NewLink(p) \/ LinkBad(p) \/ SysUnlink(p) \/ Victim(p) \/ Drop(p)
  \/ SysChdir(p) \/ ExitClose(p) \/ ExitCwd(p) \/ FileRead(p) \/ FileWrite(p) \/ FileWritten(p)
=============================================================================
