------------------------------- MODULE Bcache -------------------------------
(* The buffer cache (bio.c) over the disk driver (ide.c): NBUF buffers     *)
(* with sleep locks (sleeplock.c), recycled in LRU order, and the queue of *)
(* requests the disk works off, one interrupt each.                        *)
EXTENDS Naturals, Sequences, FiniteSets, SequencesExt

CONSTANTS
  Procs,
  None,
  NBUF,
  Blocks,
  BadBlocks,     \* blocks the disk cannot read
  Vals,          \* contents of a block
  Inner,         \* blocks that a process may read while it holds another
  Written,       \* bound: the blocks that are ever written
  MaxSpurious    \* bound: interrupts without a reason

ASSUME BlocksAssumption == BadBlocks \cup Inner \cup Written \subseteq Blocks

Bufs == 1 .. NBUF

VARIABLES
  buf,       \* buf[b]: [blockno, valid, dirty, refcnt, lock, data]
  lru,       \* bcache.head: most recently used first
  idequeue,
  dev,       \* the disk: the command it works on, and the data it has read
  disk,      \* the blocks on it
  irq,       \* is an IDE interrupt pending?
  spurious,  \* interrupts without a reason so far
  at,        \* where p is
  mine,      \* mine[p]: the buffer p is in bread(), bwrite() or brelse() with
  chan,      \* chan[p]: what p sleeps on
  halted     \* "no", or the message of the panic

vars == <<buf, lru, idequeue, dev, disk, irq, spurious, at, mine, chan, halted>>
pvars == <<at, mine, chan>>
dvars == <<dev, disk, irq, spurious>>

NoBuf == [blockno |-> None, valid |-> FALSE, dirty |-> FALSE, refcnt |-> 0,
          lock |-> None, data |-> None]
Idle == [busy |-> FALSE, write |-> FALSE, blockno |-> None, data |-> None]

(* binit() puts each buffer before the earlier ones.                       *)
Init ==
  /\ buf = [b \in Bufs |-> NoBuf] /\ lru = Reverse([i \in Bufs |-> i])
  /\ idequeue = <<>> /\ dev = Idle /\ (\E v \in Vals : disk = [blk \in Blocks |-> v])
  /\ irq = FALSE /\ spurious = 0
  /\ at = [p \in Procs |-> "run"] /\ mine = [p \in Procs |-> None]
  /\ chan = [p \in Procs |-> None] /\ halted = "no"

Goto(p, l) == at' = [at EXCEPT ![p] = l]
Wakeup(c) == [p \in Procs |-> IF chan[p] = c THEN None ELSE chan[p]]
Runs(p, l) == halted = "no" /\ at[p] = l /\ chan[p] = None
Return(p) == at' = [at EXCEPT ![p] = "run"] /\ mine' = [mine EXCEPT ![p] = None]
Held(p) == {b \in Bufs : buf[b].lock = p}

(***************************************************************************)
(* bget(): a step under bcache.lock, then acquiresleep().                  *)
(***************************************************************************)
(* A caller holds at most two buffers, the second one for a block that is  *)
(* never held first by one who asks for another: the bitmap that balloc()  *)
(* and bfree() read below bmap() and itrunc(), or the new block bzero()    *)
(* clears; the home block that write_log() and install_trans() read beside *)
(* the log block.                                                          *)
MayBread(p, blk) ==
  Held(p) = {} \/ (blk \in Inner /\ \A b \in Held(p) : buf[b].blockno \notin Inner)

Cached(blk) == {b \in Bufs : buf[b].blockno = blk}
(* Mutant: bget() does not look at B_DIRTY.                                *)
RecyclableDirty(b) == buf[b].refcnt = 0
Recyclable(b) == buf[b].refcnt = 0 /\ ~buf[b].dirty
LastRecyclable ==
  lru[CHOOSE i \in Bufs : Recyclable(lru[i]) /\ \A j \in i + 1 .. NBUF : ~Recyclable(lru[j])]

Bget(p, blk) ==
  /\ Runs(p, "run") /\ MayBread(p, blk)
  /\ IF Cached(blk) # {}
     THEN LET b == CHOOSE c \in Cached(blk) : TRUE
          IN /\ buf' = [buf EXCEPT ![b].refcnt = @ + 1]
             /\ mine' = [mine EXCEPT ![p] = b] /\ Goto(p, "lock") /\ UNCHANGED halted
     ELSE IF \E b \in Bufs : Recyclable(b)
     THEN LET b == LastRecyclable
          IN /\ buf' = [buf EXCEPT ![b].blockno = blk, ![b].valid = FALSE,
                                   ![b].dirty = FALSE, ![b].refcnt = 1]
             /\ mine' = [mine EXCEPT ![p] = b] /\ Goto(p, "lock") /\ UNCHANGED halted
     ELSE halted' = "bget: no buffers" /\ UNCHANGED <<buf, mine, at>>
  /\ UNCHANGED <<lru, idequeue, dvars, chan>>

(* Mutant: bread() does not look at B_VALID.                               *)
AlwaysReads(b) == TRUE
(* acquiresleep(); bread() then reads the block unless it is there.        *)
Reads(b) == ~buf[b].valid
AcquireSleep(p) ==
  LET b == mine[p]
  IN /\ Runs(p, "lock")
     /\ IF buf[b].lock # None
        THEN chan' = [chan EXCEPT ![p] = <<"lock", b>>] /\ UNCHANGED <<buf, at, mine>>
        ELSE /\ buf' = [buf EXCEPT ![b].lock = p]
             /\ IF Reads(b) THEN Goto(p, "iderw") /\ UNCHANGED mine ELSE Return(p)
             /\ UNCHANGED chan
     /\ UNCHANGED <<lru, idequeue, dvars, halted>>

(***************************************************************************)
(* The disk driver.  Every block is one of disk 1 and within FSSIZE: the   *)
(* panics for others, in iderw() and idestart(), are not here.             *)
(***************************************************************************)
Command(b) == [busy |-> TRUE, write |-> buf[b].dirty, blockno |-> buf[b].blockno,
               data |-> IF buf[b].dirty THEN buf[b].data ELSE None]

(* Mutant: a request goes to the front of the queue.                       *)
EnqueueFront(q, b) == <<b>> \o q
(* iderw(): its panics are about the caller; then b goes to the end of the *)
(* queue, the disk starts if b is alone there, and p sleeps on b.  What    *)
(* idestart() waits for is the end of the last command.                    *)
Enqueue(q, b) == Append(q, b)
Iderw(p) ==
  LET b == mine[p]
  IN /\ Runs(p, "iderw")
     /\ IF buf[b].lock = None \/ (buf[b].valid /\ ~buf[b].dirty)
        THEN halted' = "iderw" /\ UNCHANGED <<idequeue, dev, at, chan>>
        ELSE /\ idequeue = <<>> => ~dev.busy
             /\ idequeue' = Enqueue(idequeue, b)
             /\ dev' = IF idequeue = <<>> THEN Command(b) ELSE dev
             /\ chan' = [chan EXCEPT ![p] = <<"buf", b>>]
             /\ Goto(p, "wait") /\ UNCHANGED halted
     /\ UNCHANGED <<buf, lru, disk, irq, spurious, mine>>

(* The loop around sleep() in iderw().                                     *)
IoWait(p) ==
  LET b == mine[p]
  IN /\ Runs(p, "wait")
     /\ IF buf[b].valid /\ ~buf[b].dirty THEN Return(p) /\ UNCHANGED chan
        ELSE chan' = [chan EXCEPT ![p] = <<"buf", b>>] /\ UNCHANGED <<at, mine>>
     /\ UNCHANGED <<buf, lru, idequeue, dvars, halted>>

(* The disk does what it was told, and interrupts.                         *)
DiskDone ==
  /\ dev.busy
  /\ IF dev.write
     THEN disk' = [disk EXCEPT ![dev.blockno] = dev.data] /\ dev' = Idle
     ELSE dev' = [dev EXCEPT !.busy = FALSE, !.data = disk[dev.blockno]] /\ UNCHANGED disk
  /\ irq' = TRUE
  /\ UNCHANGED <<buf, lru, idequeue, spurious, pvars, halted>>

(* "spurious IDE interrupt"; also that of a command for whose end          *)
(* ideintr() has waited, which finds its request served already.           *)
SpuriousIrq ==
  /\ ~irq /\ spurious < MaxSpurious
  /\ irq' = TRUE /\ spurious' = spurious + 1
  /\ UNCHANGED <<buf, lru, idequeue, dev, disk, pvars, halted>>

(* ideintr() waits for the disk to be ready before it takes the data of a  *)
(* read, and before it starts the next request.  A read that failed leaves *)
(* the data as it was, and makes it valid all the same.                    *)
TakesData(b) == ~buf[b].dirty /\ buf[b].blockno \notin BadBlocks
Served(b) == [buf EXCEPT ![b].valid = TRUE, ![b].dirty = FALSE,
                         ![b].data = IF TakesData(b) THEN dev.data ELSE @]
Ideintr ==
  /\ halted = "no" /\ irq /\ irq' = FALSE
  /\ IF idequeue = <<>> THEN UNCHANGED <<buf, idequeue, dev, chan>>
     ELSE LET b == Head(idequeue)
          IN /\ dev.busy => buf[b].dirty /\ Len(idequeue) = 1
             /\ buf' = Served(b)
             /\ idequeue' = Tail(idequeue)
             /\ chan' = Wakeup(<<"buf", b>>)
             /\ dev' = IF Len(idequeue) > 1 THEN Command(idequeue[2])
                       ELSE IF dev.busy THEN dev ELSE Idle
  /\ UNCHANGED <<lru, disk, spurious, at, mine, halted>>

(***************************************************************************)
(* What the holder of a buffer does with it.                               *)
(***************************************************************************)
(* Change the data and bwrite() it.                                        *)
MayWrite(p, b) == Runs(p, "run") /\ b \in Held(p) /\ buf[b].blockno \in Written
Bwrite(p, b, v) ==
  /\ MayWrite(p, b)
  /\ buf' = [buf EXCEPT ![b].data = v, ![b].dirty = TRUE]
  /\ mine' = [mine EXCEPT ![p] = b] /\ Goto(p, "iderw")
  /\ UNCHANGED <<lru, idequeue, dvars, chan, halted>>

(* Change the data and log_write() it: the buffer stays dirty until the    *)
(* commit writes it, however many others are.                              *)
LogWrite(p, b, v) ==
  /\ MayWrite(p, b)
  /\ buf' = [buf EXCEPT ![b].data = v, ![b].dirty = TRUE]
  /\ UNCHANGED <<lru, idequeue, dvars, pvars, halted>>

(* brelse(): the lock is free before the reference is dropped.             *)
Brelse(p, b) ==
  /\ Runs(p, "run") /\ b \in Held(p)
  /\ buf' = [buf EXCEPT ![b].lock = None]
  /\ chan' = Wakeup(<<"lock", b>>)
  /\ mine' = [mine EXCEPT ![p] = b] /\ Goto(p, "unref")
  /\ UNCHANGED <<lru, idequeue, dvars, halted>>

(* Mutant: only the last reference is dropped.                             *)
DropLast(refcnt) == IF refcnt = 1 THEN 0 ELSE refcnt
Drop(refcnt) == refcnt - 1
Unref(p) ==
  LET b == mine[p]
  IN /\ Runs(p, "unref")
     /\ buf' = [buf EXCEPT ![b].refcnt = Drop(@)]
     /\ lru' = IF Drop(buf[b].refcnt) = 0 THEN <<b>> \o Remove(lru, b) ELSE lru
     /\ Return(p)
     /\ UNCHANGED <<idequeue, dvars, chan, halted>>

(* panic() does not return.                                                *)
Panicked == halted # "no" /\ UNCHANGED vars

KernelStep(p) == AcquireSleep(p) \/ Iderw(p) \/ IoWait(p) \/ Unref(p)

Next ==
  \/ \E p \in Procs :
       \/ KernelStep(p)
       \/ \E blk \in Blocks : Bget(p, blk)
       \/ \E b \in Bufs :
            Brelse(p, b) \/ \E v \in Vals : Bwrite(p, b, v) \/ LogWrite(p, b, v)
  \/ DiskDone \/ SpuriousIrq \/ Ideintr \/ Panicked

Spec == Init /\ [][Next]_vars
-----------------------------------------------------------------------------
InUse(b) == buf[b].dirty \/ \E p \in Procs : b \in Held(p) \/ mine[p] = b

(* bget() panics only when the cache is really full: every buffer is in    *)
(* the hands of a process or keeps what log_write() left in it.  No        *)
(* reference outlives its brelse(), whoever waited for the lock meanwhile. *)
(* iderw() never panics: it is called with a locked buffer that needs the  *)
(* disk, also by one who waited while another process read the block.      *)
PanicsOnlyWhenFull ==
  halted # "no" => halted = "bget: no buffers" /\ \A b \in Bufs : InUse(b)

(* A request is never forgotten: who sleeps on a buffer finds it in the    *)
(* queue, who sleeps on its lock finds it locked, and the first request of *)
(* the queue is the disk's command or has an interrupt on its way; also    *)
(* when interrupts come that nothing has caused.                           *)
NoLostRequest ==
  /\ \A p \in Procs, b \in Bufs :
       /\ chan[p] = <<"buf", b>> => b \in ToSet(idequeue) /\ buf[b].lock = p
       /\ chan[p] = <<"lock", b>> => buf[b].lock # None
  /\ idequeue # <<>> => dev.busy \/ irq
  /\ dev.busy /\ idequeue # <<>> /\ ~irq => dev.blockno = buf[Head(idequeue)].blockno

Good == Blocks \ BadBlocks
Usable(blk) == {b \in Cached(blk) : buf[b].valid \/ buf[b].dirty}
HolderOf(blk) ==
  IF Usable(blk) = {} THEN None ELSE buf[CHOOSE b \in Usable(blk) : TRUE].lock
ContentOf(blk) ==
  IF Usable(blk) # {} THEN buf[CHOOSE b \in Usable(blk) : TRUE].data
  ELSE IF dev.busy /\ dev.write /\ dev.blockno = blk THEN dev.data ELSE disk[blk]
BS == INSTANCE BlockStore WITH
        Blocks <- Good,
        content <- [blk \in Good |-> ContentOf(blk)],
        holder <- [blk \in Good |-> HolderOf(blk)]

(* Every block has one copy and one holder at a time, whichever buffer it  *)
(* is in: nobody reads an older content than was written last, and no      *)
(* eviction, interrupt or request of another block changes it.  A block    *)
(* the disk cannot read is left out.                                       *)
ImplementsBlockStore == BS!Spec
=============================================================================
