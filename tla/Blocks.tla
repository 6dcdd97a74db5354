------------------------------- MODULE Blocks -------------------------------
(* Blocks and what inodes hold in them (fs.c), and the image mkfs makes    *)
(* (mkfs.c), as operators on a record                                      *)
(*   used, data     the bitmap, and the contents of the blocks             *)
(*   size, addrs    of the inode at hand                                   *)
(*   logged         the blocks log_write() was called for                  *)
(*   panic          "no", or the message                                   *)
(* A block holds BSIZE bytes and an indirect block as many addresses.  The *)
(* places of an inode are its NDIRECT direct addresses, the address of the *)
(* indirect block, then the addresses in that block.                       *)
EXTENDS Naturals, Sequences, FiniteSets, SequencesExt

CONSTANTS
  BSIZE, NDIRECT,
  FSSIZE,       \* blocks of the disk; one block of bitmap covers them
  NMeta,        \* the first of them: boot, super, log, inodes, bitmap
  MAXOPBLOCKS   \* what begin_op() reserves for a system call

LOGSIZE == 3 * MAXOPBLOCKS
NINDIRECT == BSIZE
MAXFILE == NDIRECT + NINDIRECT
BitmapBlock == NMeta - 1
InodeBlock == NMeta - 2

ASSUME BlocksAssumption == NMeta >= 2 /\ NMeta < FSSIZE /\ MAXOPBLOCKS > 1

Blocks == 0 .. FSSIZE - 1
Places == 0 .. MAXFILE
Zeroes == [c \in 0 .. BSIZE - 1 |-> 0]
NoAddrs == [n \in Places |-> 0]

With(used, data, size, addrs) ==
  [used |-> used, data |-> data, size |-> size, addrs |-> addrs, logged |-> {}, panic |-> "no"]

(* balloc() takes the lowest free block: what its kth call returns.        *)
Free(a) == Blocks \ a.used
balloc(a, k) == CHOOSE b \in Free(a) : Cardinality({x \in Free(a) : x < b}) = k - 1

(* The place of block bn of a file, and all those bmap() needs for it.     *)
Place(bn) == IF bn < NDIRECT THEN bn ELSE bn + 1
bmap(bn) == {Place(bn)} \cup (IF bn < NDIRECT THEN {} ELSE {NDIRECT})

(* Mutant: a file cannot be filled to its last byte.                       *)
FailsAtEnd(a, off, n) == off > a.size \/ off + n >= MAXFILE * BSIZE
(* writei() of src at off, whose blocks bmap() allocates in order; -1 is   *)
(* Fails.                                                                  *)
Fails(a, off, n) == off > a.size \/ off + n > MAXFILE * BSIZE
BlocksFor(off, n) == {(off + k) \div BSIZE : k \in 0 .. n - 1}
Allocate(a, missing) ==
  [n \in Places |-> IF n \in missing THEN balloc(a, Cardinality({m \in missing : m <= n}))
                    ELSE a.addrs[n]]
writei(a, off, src) ==
  LET bns == BlocksFor(off, Len(src))
      missing == {n \in UNION {bmap(bn) : bn \in bns} : a.addrs[n] = 0}
      addrs == Allocate(a, missing)
      new == {addrs[n] : n \in missing}
      byte(bn, c) == (bn * BSIZE + c + 1) - off
      block(bn, old) == [c \in DOMAIN old |-> IF byte(bn, c) \in DOMAIN src THEN src[byte(bn, c)] ELSE old[c]]
      old(b) == IF b \in new THEN Zeroes ELSE a.data[b]
      written == [b \in Blocks |-> {bn \in bns : addrs[Place(bn)] = b}]
      grows == off + Len(src) > a.size
  IN IF Cardinality(missing) > Cardinality(Free(a)) THEN [a EXCEPT !.panic = "balloc: out of blocks"]
     ELSE [a EXCEPT !.used = @ \cup new, !.addrs = addrs,
                    !.size = IF grows THEN off + Len(src) ELSE @,
                    !.data = [b \in Blocks |-> IF written[b] = {} THEN old(b)
                                               ELSE block(CHOOSE bn \in written[b] : TRUE, old(b))],
                    !.logged = {addrs[Place(bn)] : bn \in bns} \cup new
                               \cup (IF new = {} THEN {} ELSE {BitmapBlock})
                               \cup (IF \E n \in missing : n > NDIRECT THEN {addrs[NDIRECT]} ELSE {})
                               \cup (IF grows THEN {InodeBlock} ELSE {})]

(* readi(): what there is of n bytes at off.                               *)
Lesser(m, n) == IF m < n THEN m ELSE n
readi(a, off, n) ==
  [k \in 1 .. Lesser(n, a.size - off) |->
     LET o == off + k - 1 IN a.data[a.addrs[Place(o \div BSIZE)]][o % BSIZE]]

(* Mutant: the blocks the indirect block names are not freed.              *)
InUseInInode(a) == {n \in Places : n <= NDIRECT /\ a.addrs[n] # 0}
(* itrunc() frees the direct blocks, those of the indirect block, itself.  *)
InUse(a) == {n \in Places : a.addrs[n] # 0}
itrunc(a) ==
  LET bs == {a.addrs[n] : n \in InUse(a)}
  IN [a EXCEPT !.used = @ \ bs, !.size = 0, !.addrs = NoAddrs,
               !.panic = IF bs \subseteq a.used THEN "no" ELSE "freeing free block"]

(* Mutant: no block is kept for a write that is not aligned.               *)
MaxWriteAligned == ((LOGSIZE - 1 - 1) \div 2) * BSIZE
(* filewrite()'s bytes per transaction.                                    *)
MaxWrite == ((LOGSIZE - 1 - 1 - 2) \div 2) * BSIZE

(***************************************************************************)
(* mkfs hands out blocks in order, from the first after the metadata: the  *)
(* bytes of each file in turn; the bitmap, written last, has all of them.  *)
(***************************************************************************)
iappend(m, inum, bytes) ==
  LET last == (Len(bytes) - 1) \div BSIZE
      places == IF bytes = <<>> THEN {} ELSE 0 .. Place(last)
      block(b) == [c \in 0 .. BSIZE - 1 |->
                     LET k == (b * BSIZE) + c + 1 IN IF k \in DOMAIN bytes THEN bytes[k] ELSE 0]
  IN [m EXCEPT !.free = @ + Cardinality(places), !.dinode[inum].size = Len(bytes),
               !.dinode[inum].addrs = [n \in Places |-> IF n \in places THEN m.free + n ELSE 0],
               !.data = [b \in Blocks |-> IF \E bn \in 0 .. last : places # {} /\ b = m.free + Place(bn)
                                          THEN block(CHOOSE bn \in 0 .. last : b = m.free + Place(bn))
                                          ELSE m.data[b]]]
=============================================================================
