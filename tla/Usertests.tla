------------------------------ MODULE Usertests -----------------------------
(* The file-system tests of usertests.c, as programs over the system calls *)
(* of Fs: what each call must return, and, where a test forks, two         *)
(* processes whose calls interleave.  Loops are cut to a few rounds, and   *)
(* lengths scaled to blocks of three bytes.                                *)
EXTENDS Fs

CONSTANTS Parent, Child, Rounds

ASSUME ProcsAssumption == Procs = {Parent, Child}

VARIABLES
  script,   \* script[p]: the calls to come; each step is a set to choose from
  want      \* want[p]: what the call p is in must return: ok or fail or any of
            \* them, and the bytes a read() may return

tvars == <<script, want>>
allvars == <<vars, tvars>>

Do(op, path, w) == [op |-> op, path |-> path, new |-> <<>>, fd |-> 0, bytes |-> <<>>,
                    want |-> [ret |-> w, bytes |-> {<<>>}]]
Mkdir(path, w) == {Do("mkdir", path, w)}
Mknod(path, w) == {Do("mknod", path, w)}
Create(path, w) == {Do("create", path, w)}
Open(path, w) == {Do("open", path, w)}
OpenW(path, w) == {Do("openw", path, w)}
Chdir(path, w) == {Do("chdir", path, w)}
Unlink(path, w) == {Do("unlink", path, w)}
Link(old, new, w) == {[Do("link", old, w) EXCEPT !.new = new]}
Shut(fd) == {[Do("close", <<>>, {"ok", "fail"}) EXCEPT !.fd = fd]}
Quit == {Do("exit", <<>>, {"ok"})}
Bytes(n, b) == [k \in 1 .. n |-> b]
Write(fd, n, b, w) == {[Do("write", <<>>, w) EXCEPT !.fd = fd, !.bytes = Bytes(n, b)]}
Read(fd, n, w) == {[Do("read", <<>>, {"ok"}) EXCEPT !.fd = fd, !.bytes = Bytes(n, 0), !.want.bytes = w]}
(* What the parent does between fork() and wait().                         *)
Beside(s) == <<{Do("fork", <<>>, {"ok"})}>> \o s \o <<{Do("wait", <<>>, {"ok"})}>>
ok == {"ok"}
fail == {"fail"}
any == {"ok", "fail"}
Touch(path, w) == <<Create(path, w), Shut(1)>>
Times(n, s) == [i \in 1 .. n * Len(s) |-> s[((i - 1) % Len(s)) + 1]]

Root == <<"/">>
Test(parent, child) == [parent |-> parent, child |-> child]

opentest == Test(<<Open(<<"cat">>, ok), Shut(1), Open(<<"xx">>, fail)>>, <<>>)
createtest == Test(Touch(<<"ff">>, ok) \o <<Unlink(<<"ff">>, any), OpenW(<<"ff">>, fail)>>, <<>>)
dirtest ==
  Test(<<Mkdir(<<"dd">>, ok), Chdir(<<"dd">>, ok), Chdir(<<"..">>, ok), Unlink(<<"dd">>, ok)>>, <<>>)

iputtest ==
  Test(<<Mkdir(<<"dd">>, ok), Chdir(<<"dd">>, ok), Unlink(<<"..", "dd">>, ok), Chdir(Root, ok)>>, <<>>)
exitiputtest ==
  Test(Beside(<<>>),
       <<Mkdir(<<"dd">>, ok), Chdir(<<"dd">>, ok), Unlink(<<"..", "dd">>, ok), Quit>>)
(* The pause in open() that the test's comment asks for is an              *)
(* interleaving here.                                                      *)
openiputtest ==
  Test(<<Mkdir(<<"dd">>, ok)>> \o Beside(<<Unlink(<<"dd">>, ok)>>), <<OpenW(<<"dd">>, fail), Quit>>)

writetest ==
  Test(<<Create(<<"ff">>, ok)>> \o Times(2, <<Write(1, 1, 1, ok), Write(1, 1, 2, ok)>>) \o
       <<Shut(1), Open(<<"ff">>, ok), Read(1, 4, {<<1, 2, 1, 2>>}), Shut(1), Unlink(<<"ff">>, ok)>>, <<>>)
writetest1 ==
  Test(<<Create(<<"ff">>, ok)>> \o [i \in 1 .. MAXFILE |-> Write(1, BSIZE, i, ok)] \o
       <<Shut(1), Open(<<"ff">>, ok)>> \o
       [i \in 1 .. MAXFILE |-> Read(1, BSIZE, {Bytes(BSIZE, i)})] \o
       <<Read(1, BSIZE, {<<>>}), Shut(1), Unlink(<<"ff">>, ok)>>, <<>>)
bigwrite ==
  LET round(sz) == <<Create(<<"ff">>, ok), Write(1, sz, 1, ok), Write(1, sz, 1, ok), Shut(1),
                     Unlink(<<"ff">>, any)>>
  IN Test(<<Unlink(<<"ff">>, any)>> \o round(2) \o round(5) \o round((MAXFILE * BSIZE) \div 2), <<>>)
bigfile ==
  LET rounds == (MAXFILE * BSIZE) \div 4
  IN Test(<<Unlink(<<"ff">>, any), Create(<<"ff">>, ok)>> \o
          [i \in 1 .. rounds |-> Write(1, 4, i, ok)] \o <<Shut(1), Open(<<"ff">>, ok)>> \o
          [i \in 1 .. 2 * rounds |-> Read(1, 2, {Bytes(2, (i + 1) \div 2)})] \o
          <<Read(1, 2, {<<>>}), Shut(1), Unlink(<<"ff">>, any)>>, <<>>)

(* The offset is shared.  The test counts bytes; these are the orders of   *)
(* whole writes.                                                           *)
sharedfd ==
  LET orders == {<<1, 1, 2, 2>>, <<1, 2, 1, 2>>, <<1, 2, 2, 1>>,
                 <<2, 1, 1, 2>>, <<2, 1, 2, 1>>, <<2, 2, 1, 1>>}
      twice(s) == [k \in 1 .. 8 |-> s[(k + 1) \div 2]]
  IN Test(<<Unlink(<<"ff">>, any), Create(<<"ff">>, ok)>> \o Beside(Times(2, <<Write(1, 2, 1, ok)>>)) \o
          <<Shut(1), Open(<<"ff">>, ok), Read(1, 9, {twice(s) : s \in orders}), Shut(1),
            Unlink(<<"ff">>, any)>>,
          Times(2, <<Write(1, 2, 2, ok)>>) \o <<Quit>>)
(* Two of its four processes.                                              *)
fourfiles ==
  LET fill(n, b) == <<Create(n, ok)>> \o Times(2, <<Write(1, 2, b, ok)>>)
      check(n, b) == <<Open(n, ok), Read(1, 5, {Bytes(4, b)}), Shut(1), Unlink(n, any)>>
  IN Test(<<Unlink(<<"ff">>, any), Unlink(<<"xx">>, any)>> \o Beside(fill(<<"ff">>, 1) \o <<Shut(1)>>) \o
          check(<<"ff">>, 1) \o check(<<"xx">>, 2),
          fill(<<"xx">>, 2) \o <<Quit>>)

(* Two of its four processes.                                              *)
CreateDelete(n0, n1, n2) ==
  Touch(n0, ok) \o Touch(n1, ok) \o Touch(n2, ok) \o <<Unlink(n1, ok)>>
Exists(n) == <<Open(n, ok), Shut(1)>>
createdelete ==
  Test(Beside(CreateDelete(<<"ff">>, <<"dd">>, <<"xx">>))
         \o Exists(<<"ff">>) \o <<Open(<<"dd">>, fail)>> \o Exists(<<"xx">>)
         \o Exists(<<"C0">>) \o <<Open(<<"C1">>, fail)>> \o Exists(<<"C2">>)
         \o Times(2, <<Unlink(<<"ff">>, any)>>) \o Times(2, <<Unlink(<<"C1">>, any)>>),
       CreateDelete(<<"C0">>, <<"C1">>, <<"C2">>) \o <<Quit>>)

unlinkread ==
  Test(<<Create(<<"ff">>, ok), Write(1, 2, 1, any), Shut(1), OpenW(<<"ff">>, ok),
         Unlink(<<"ff">>, ok), Create(<<"ff">>, ok), Write(2, 1, 2, any), Shut(2),
         Read(1, 9, {<<1, 1>>}), Write(1, 4, 1, ok), Shut(1), Unlink(<<"ff">>, any)>>, <<>>)

linktest ==
  Test(<<Unlink(<<"ff">>, any), Unlink(<<"xx">>, any), Create(<<"ff">>, ok), Write(1, 2, 1, ok),
         Shut(1), Link(<<"ff">>, <<"xx">>, ok), Unlink(<<"ff">>, any), Open(<<"ff">>, fail),
         Open(<<"xx">>, ok), Read(1, 9, {<<1, 1>>}), Shut(1), Link(<<"xx">>, <<"xx">>, fail),
         Unlink(<<"xx">>, any), Link(<<"xx">>, <<"ff">>, fail), Link(<<".">>, <<"ff">>, fail)>>, <<>>)

(* Rounds 0 and 1 of its loops; instead of the listing of the directory,   *)
(* the files are opened.                                                   *)
concreate ==
  LET opens(n) == Times(Rounds, <<Open(n, any), Shut(1)>>)
      unlinks(n) == Times(Rounds, <<Unlink(n, any)>>)
      C0 == <<"C0">>
      C1 == <<"C1">>
  IN Test(<<Unlink(C0, any)>> \o Beside(Touch(C0, ok)) \o
          <<Unlink(C1, any)>> \o Beside(<<Link(C0, C1, any)>>) \o
          Exists(C0) \o Exists(C1) \o Beside(unlinks(C0)) \o Beside(opens(C1)),
          Touch(C0, ok) \o <<Quit, Link(C0, C1, any), Quit>> \o
          opens(C0) \o <<Quit>> \o unlinks(C1) \o <<Quit>>)

(* Each round does one of the three, and closes what it has opened.        *)
linkunlink ==
  LET round == <<Create(<<"xx">>, any) \cup Link(<<"cat">>, <<"xx">>, any)
                   \cup Unlink(<<"xx">>, any), Shut(1)>>
  IN Test(<<Unlink(<<"xx">>, any)>> \o Beside(Times(Rounds, round)), Times(Rounds, round) \o <<Quit>>)

subdir ==
  LET dd == <<"dd">>
      ff == <<"dd", "ff">>
      dddd == <<"dd", "dd">>
      deep == <<"dd", "dd", "ff">>
      ffff == <<"dd", "dd", "C0">>
      notdir == <<"dd", "ff", "ff">>
      none == <<"dd", "xx", "ff">>
      xx == <<"dd", "dd", "xx">>
      write(n, b) == <<Create(n, ok), Write(1, 2, b, any), Shut(1)>>
      read(n, b) == <<Open(n, ok), Read(1, 9, {Bytes(2, b)}), Shut(1)>>
  IN Test(<<Unlink(<<"ff">>, any), Mkdir(dd, ok)>> \o write(ff, 1) \o
          <<Unlink(dd, fail), Mkdir(Root \o dddd, ok)>> \o write(deep, 2) \o
          read(<<"dd", "dd", "..", "ff">>, 1) \o
          <<Link(deep, ffff, ok), Unlink(deep, ok), Open(deep, fail), Chdir(dd, ok),
            Chdir(<<"dd", "..", "..", "dd">>, ok), Chdir(<<"dd", "..", "..", "..", "dd">>, ok),
            Chdir(<<".", "..">>, ok)>> \o read(ffff, 2) \o <<Open(deep, fail),
            Create(notdir, fail), Create(none, fail), Create(dd, fail), OpenW(dd, fail),
            Link(notdir, xx, fail), Link(none, xx, fail), Link(ff, ffff, fail),
            Mkdir(notdir, fail), Mkdir(none, fail), Mkdir(ffff, fail),
            Unlink(none, fail), Unlink(notdir, fail), Chdir(ff, fail), Chdir(<<"dd", "xx">>, fail),
            Unlink(ffff, ok), Unlink(ff, ok), Unlink(dd, fail), Unlink(dddd, ok),
            Unlink(dd, ok)>>, <<>>)

rmdot ==
  Test(<<Mkdir(<<"dd">>, ok), Chdir(<<"dd">>, ok), Unlink(<<".">>, fail),
         Unlink(<<"..">>, fail), Chdir(Root, ok), Unlink(<<"dd", ".">>, fail),
         Unlink(<<"dd", "..">>, fail), Unlink(<<"dd">>, ok)>>, <<>>)

dirfile ==
  LET xx == <<"ff", "xx">>
  IN Test(Touch(<<"ff">>, ok) \o
          <<Chdir(<<"ff">>, fail), Open(xx, fail), Create(xx, fail), Mkdir(xx, fail),
            Unlink(xx, fail), Link(<<"cat">>, xx, fail), Unlink(<<"ff">>, ok),
            OpenW(<<".">>, fail), Open(<<".">>, ok), Write(1, 1, 1, fail), Shut(1)>>, <<>>)

(* Two of its NINODE + 1 rounds, with as few inodes.                       *)
iref ==
  LET round == <<Mkdir(<<"dd">>, ok), Chdir(<<"dd">>, ok), Mkdir(<<>>, any),
                 Link(<<"cat">>, <<>>, any), Create(<<>>, any), Shut(1)>>
               \o Touch(<<"xx">>, any) \o <<Unlink(<<"xx">>, any)>>
  IN Test(Times(2, round) \o <<Chdir(Root, any)>>, <<>>)

(* Not in usertests.c: a directory is removed while an inode is made in    *)
(* it, with init's mknod() for the third type of inode.                    *)
removal ==
  Test(<<Mknod(<<"C0">>, ok), Mkdir(<<"dd">>, ok)>> \o Beside(Touch(<<"dd", "ff">>, any))
         \o <<Unlink(<<"C0">>, ok)>>,
       <<Unlink(<<"dd">>, any), Quit>>)

Tests ==
  {opentest, createtest, dirtest, iputtest, exitiputtest, openiputtest, writetest, writetest1,
   bigwrite, bigfile, sharedfd, fourfiles, createdelete, unlinkread, linktest, concreate,
   linkunlink, subdir, rmdot, dirfile, iref, removal}

(* The file cat needs the indirect block.                                  *)
Init ==
  /\ InitWith(Parent, <<"cat">>, <<Bytes(NDIRECT * BSIZE + 1, 7)>>)
  /\ \E t \in Tests : script = [p \in Procs |-> IF p = Parent THEN t.parent ELSE t.child]
  /\ want = [p \in Procs |-> [ret |-> any, bytes |-> {<<>>}]]

IoOps == {"read", "write"}
NoPath == {"close", "exit", "fork", "wait"} \cup IoOps
Program(p) ==
  /\ cwd[p] # None /\ script[p] # <<>>
  /\ \E c \in Head(script[p]) :
       /\ \/ c.op \notin NoPath /\ Call(p, c)
          \/ c.op \in IoOps /\ Io(p, c.op, c.fd, c.bytes)
          \/ c.op = "close" /\ Close(p, c.fd)
          \/ c.op = "exit" /\ Exit(p)
          \/ c.op = "fork" /\ Fork(Parent, Child)
          \/ c.op = "wait" /\ At(p, "idle") /\ Gone(Child) /\ UNCHANGED vars
       /\ want' = [want EXCEPT ![p] = c.want]
  /\ script' = [script EXCEPT ![p] = Tail(@)]

Step(p) == ((KernelStep(p) \/ Return(p)) /\ UNCHANGED tvars) \/ Program(p)
Next == \E p \in Procs : Step(p)

Spec == Init /\ [][Next]_allvars /\ WF_allvars(Next)
-----------------------------------------------------------------------------
Idle == \A p \in Procs : At(p, "idle")

(* The number of references to entry s: working directories, system calls  *)
(* and open files.                                                         *)
Held(p, s) ==
  LET f == frame[p]
      one(b) == IF b THEN 1 ELSE 0
  IN one(cwd[p] = s) + one(f.ip = s) + one(f.tgt = s)
       + Cardinality({k \in DOMAIN f.puts : f.puts[k] = s})
Held2(s) == Held(Parent, s) + Held(Child, s) + Cardinality({f \in 1 .. NFILE : file[f].ip = s})

(* Every entry of the inode cache counts the open files, working           *)
(* directories and system calls that use it, no inode has two entries, and *)
(* every open file counts its descriptors: iget(), idup(), iput(),         *)
(* filedup() and fileclose() match along every error path.                 *)
RefsExact ==
  /\ \A s \in Slots : icache[s].ref = Held2(s)
  /\ \A i \in Inodes : Cardinality(Cached(i)) <= 1
  /\ \A f \in 1 .. NFILE : file[f].ref = Refs(Parent, f) + Refs(Child, f)

(* The links of an inode, from the directories: its names, for a directory *)
(* the .. of its subdirectories, for the root the link mkfs gives it.      *)
Links(i) ==
  Cardinality({e \in Inodes \X Names : dir[e[1]][e[2]] = i})
  + Cardinality({j \in Inodes \ {ROOTINO} :
                  dotdot[j] = i /\ dinode[j].type = "DIR" /\ dinode[j].nlink > 0})
  + (IF i = ROOTINO THEN 1 ELSE 0)

(* Between system calls the disk is consistent: nlink is the number of     *)
(* links, an inode with links is allocated, and one without is allocated   *)
(* only while it is in use.  This fails once iput() frees an inode another *)
(* process is creating, or an inode is created in a directory that has     *)
(* been removed: nothing in the code prevents either.                      *)
DiskConsistent ==
  lapse = "none" /\ Idle =>
    \A i \in Inodes :
      IF dinode[i].type = "none" THEN Links(i) = 0
      ELSE dinode[i].nlink = Links(i) /\ (Links(i) > 0 \/ Cached(i) # {})

(* An entry of a directory names an allocated inode: iput() frees only an  *)
(* inode whose link count has fallen to zero.  iput() does so without the  *)
(* inode's lock, and linkunlink violates this.                             *)
EntriesAllocated ==
  \A i \in Inodes, x \in Names : dir[i][x] # 0 => dinode[dir[i][x]].type # "none"

(* The bitmap marks the metadata blocks and the blocks of inodes, and no   *)
(* block belongs to two inodes or twice to one: balloc(), bfree(), bmap()  *)
(* and itrunc() neither leak a block nor hand it out twice, starting from  *)
(* the image mkfs writes.                                                  *)
BlocksOwnedOnce ==
  lapse = "none" =>
    LET places == {e \in Inodes \X Places : dinode[e[1]].addrs[e[2]] # 0}
        blocksOf == {dinode[e[1]].addrs[e[2]] : e \in places}
    IN /\ used = (0 .. NMeta - 1) \cup blocksOf
       /\ Cardinality(used) = NMeta + Cardinality(places)

(* One transaction of filewrite(), even unaligned and with the indirect    *)
(* block to allocate, fits into the log when no other call shares it.      *)
WritesFitLog == \A p \in Procs : frame[p].logged <= LOGSIZE - 1

(* Every call of the tests returns what the test demands, the bytes of     *)
(* each read() included, and no call panics, under every interleaving      *)
(* without a lapse.                                                        *)
TestsPass ==
  lapse = "none" =>
    /\ panicked = "no"
    /\ \A p \in Procs, ret \in any : At(p, ret) => ret \in want[p].ret
    /\ \A p \in Procs : At(p, "ok") /\ frame[p].op = "read" => frame[p].buf \in want[p].bytes

(* The tests come to their end: no two calls wait for each other's inodes. *)
TestsEnd == <>(lapse # "none" \/ \A p \in Procs : At(p, "idle") /\ script[p] = <<>>)
=============================================================================
