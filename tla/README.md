# A verification of xv6-64 with page dedup and copy-on-write

The system is the x86-64 port of xv6 in this repository, extended with
`dedup()` (merge neighbouring equal pages of a process) and copy-on-write.
This directory holds TLA+ models of its kernel, the TLC runs that check them on
small instances, and TLAPS proofs about virtual memory, the log and the process
table for every size of them.

## The system

| part | source | what it does | modules |
|---|---|---|---|
| frames | `kalloc.c` | free list, reference counts, checksums | `Vm` |
| virtual memory | `vm.c`, `exec.c`, page faults in `trap.c` | page tables, `sbrk`, `fork`'s copy, `dedup`, `copyonwrite`, `exec` | `Vm`, `VmProps`; abstract `AddrSpace` |
| processes | `proc.c`, `sysproc.c`, `syscall.c`, clock in `trap.c` | process table, scheduler on several CPUs, `fork`, `exit`, `wait`, `kill`, `sleep` | `Proc` |
| log | `log.c` | group commit of file system calls, recovery | `Log`; abstract `AtomicDisk` |
| buffers and disk | `bio.c`, `ide.c`, `sleeplock.c` | buffers in LRU order, interrupt-driven request queue | `Bcache`; abstract `BlockStore` |
| files | `fs.c`, `sysfile.c`, `file.c`, `mkfs.c` | blocks, inodes and their cache, directories, path names, the file calls | `Blocks`, `Fs` |
| tests | `usertests.c` | programs that say what the file calls must return | `Usertests` |
| pipes, shell | `pipe.c`, `file.c`, `sysfile.c`, `sh.c` | a byte queue with two ends, the pipeline of the shell | `Pipe`, `Shell`; abstract `PipeQueue` |
| console, locks | `console.c`, `spinlock.c`, idle loop of `proc.c` | the input ring filled by interrupts; spin locks and the interrupt flag | `Spinlock`, `Console`; abstract `LineBuffer` |

The parts meet in a few places, and a model of one part keeps the others as far
as they matter there. `Vm` and `Proc` divide `struct proc` between them: `Vm` has
the memory of a process, `Proc` its state and its family. In `Vm` every process
may be in the kernel at the same time and `wait()` may find any zombie, which
includes every schedule that `Proc` allows. `Log` stands on buffers that can be
pinned, and `Bcache` lets `log_write()` pin any buffer its holder changes. `Fs` takes the transaction around a
call as given and counts the blocks the call writes (`logged`), `Log` has the
transactions.

What is hard to get right and hard to test here: several CPUs in the kernel at
once with reference counts that no lock protects; translations the hardware
still caches; sizes that are not whole pages; running out of frames, buffers,
descriptors; calls that fail half way; a machine that stops in the middle of a
commit or of recovery; a sleeper and the wakeup meant for it; a parent, a child
and `init` that exit and wait at the same time; counters that wrap. `PROJECT.json`
lists each of these at its line, with the properties that cover it.

## Modules

**`Vm`** (with `VmProps`, `MCVm`). One variable per piece of kernel state:
`freelist`, `refs`, `checksum` and `mem` for frames, `pt` for page tables, `pgdir`,
`kstack` and `sz` for processes, `tlb` for the translations a CPU caches. `st[p]` is
the call a process is in, `loc[p]` that call's locals. A call is a first step with
the checks it makes, one step per page of its loop, and a last step, because
another CPU can run between two pages. A page table is one frame, its root:
`pt[d][pg]` is what `walkpgdir(d, pg)` finds. The tables of the other three levels,
each a `kalloc()` of its own, are left out, and the pages are few enough to be
entries of one lowest table, so `walkpgdir()` never misses one. A frame's contents are one of a few
values, and `Sum` gives the checksum of each, so that two contents can collide.
Details that matter and are kept: `copyonwrite()` returns 1 on each path; its
`krelease()` also runs for pages that are not copy-on-write; `kalloc()` with no
frame left stores out of bounds before it returns 0, so `KallocFault` stops the
machine; `deallocuvm()` to size 0 looks like a failure to `growproc()`; `dedup()`
does not flush the TLB. **`AddrSpace`** is what `Vm` promises: each process has a
private memory, which changes only as the call it is in says. A store replaces
the page it names, `exec()` replaces everything at once or nothing, `dedup()`
changes nothing.

**`Log`** (with `MCLog`). The disk (`disk`, `dlog`, `dhead`) survives a crash; the
buffers (`buf`, `dirty`), `lh`, `outstanding` and `committing` do not. A step is
what happens under one hold of `log.lock`, or one block written. `Crash` may
happen at any step, recovery included. `log_write()` makes its size check before
it takes the lock, so the check and the append are two steps. A log block past
the end of the log is the block that lies there (`AfterLog`). **`AtomicDisk`** is
the promise: the ended calls become durable together, when no call is half way.

**`Proc`** (with `MCProc`). The fields of `struct proc`, where each process is in
the kernel (`at`), and for each CPU the process it runs, the place of its
scheduler in the table and how far it is in a clock interrupt. `ptlock` and
`tickslock` are held across steps where the code holds them across a switch. The
stores that `fork()` makes without `ptable.lock` are steps of their own. System
calls run with interrupts off.

**`Pipe`, `Shell`** (with `MCShell`). `Pipe` has the file table, the descriptors and
the ring with its wrapping counters; a call that has to wait goes on in an action
of its own. `Shell` is `runcmd()` of a pipeline: it makes the pipe and two
children, which close and duplicate descriptors and then run arbitrary programs.
**`PipeQueue`** is a bounded queue of bytes with two ends that close.

**`Bcache`** (with `MCBcache`). `bget()` with its two searches of the LRU list,
`bread()`, `bwrite()`, `brelse()`, the sleep lock of a buffer, `iderw()` and
`ideintr()` with the queue. A process may hold a second buffer for the blocks in
`Inner`, as `bmap()`, `itrunc()`, `write_log()` and `install_trans()` do; the order
of the two is what keeps processes from waiting for each other in a circle.
`log_write()` leaves a buffer dirty, so that the cache can fill up and `bget()`
panic. A disk read may fail, and an interrupt may come without a reason. Block
numbers are within the disk, so the panics of `idestart()` for others are not
there. **`BlockStore`** is a block for each number, with one holder.

**`Spinlock`, `Console`** (with `MCConsole`). `acquire()`, `release()`, `pushcli()` and
`popcli()` on each CPU's flags; `consoleintr()` with the editing keys and
`consoleread()` on the ring; the scheduler's loop as far as an idle CPU halts in
it. **`LineBuffer`** is a sequence of finished lines and the one being edited.

**`Blocks`, `Fs`, `Usertests`** (with `MCFs`). `Blocks` has the operators on bitmap and
block map: `balloc()`, `bfree()`, `bmap()`, `itrunc()`, `readi()`, `writei()`. `Fs` has
the inode cache with its references and sleep locks, `namex()` one component a
step, and the calls of `sysfile.c`, each cut where it gives a lock away. A
directory is a function from names to inodes. `Usertests` runs the file system
tests as programs: each call carries what the test demands of it.

**`VmInv`, `VmPages`, `VmSlots`, `VmProof`**, **`LogInv`, `LogProof`**, **`ProcInv`**
and **`ProcProof`** hold the proofs.

Definitions marked "mutant" are faulty variants of the definition that follows
them; they are used by no specification and show that a property can fail.

## Runs

| run | instance | what it shows |
|---|---|---|
| `vm_single` | 1 process, 7 frames, 3 pages of 2 bytes, text page 1, no TLB | stores, `sbrk` by half pages, `dedup`, `exec` and its failures: counts are exact, read-only pages are copy-on-write, `mappages()` does not panic (`copyuvm()` does not run here), `dedup` is invisible and merges every equal pair of neighbours although two contents have one checksum; implements `AddrSpace` |
| `vm_fork` | 2 processes, 6 frames, 2 pages, no TLB, fair | `fork`, `exit`, `wait` between and during the other's calls, down to the last frame; implements `AddrSpace`; neither `mappages()` nor `copyuvm()` panics; a store to a page the process has completes |
| `vm_tlb` | 2 processes, 6 frames, 2 pages, TLB of 1 | with stale translations, shared frames are still copy-on-write and never shared between tables |
| `vm_stale_tlb` | 1 process, 5 frames, 2 pages, TLB of 1 | violated: after `dedup()` a cached translation reads a freed frame |
| `log` | 2 processes, 3 blocks, calls of 2 writes, log of 6, crashes | atomicity and durability, write-ahead order, no forgotten sleeper |
| `proc` | 3 slots, 2 CPUs, 3 pids, ticks modulo 3 | one CPU per running process, a waiting parent for each child, no missed wakeup, different pids |
| `proc_live` | 2 slots, 2 CPUs, ticks modulo 2, fair | killed processes exit, zombies are reaped |
| `shell` | 3 files, 5 descriptors, ring of 2 with counters modulo 4, writes of up to 4, one kill | the pipe is a queue, an end closes with its last descriptor, both programs get exactly their end, no missed wakeup, the command ends |
| `bcache` | 2 processes, 3 buffers, 4 blocks of which two are written and one is bad, 1 spurious interrupt | one holder and the last content for each block, no forgotten request; `iderw()` never panics, `bget()` only when every buffer is held or dirty, which does happen |
| `console` | 2 CPUs, 2 readers, ring of 2 with counters modulo 4, one kill | the ring is a line buffer, no missed wakeup, no lock taken twice by an interrupt, idle CPUs halt with interrupts on |
| `fs` | 8 inodes (NInodes is the first number past them), 5 cache entries, 2 descriptors, 16 blocks of 3 bytes, 2 rounds | the tests pass in every interleaving of their two processes, references are exact, blocks have one owner, link counts are right between calls, a write fits into the log, nobody waits for ever |
| `fs_iput_race` | as `fs` | violated: a directory entry names a free inode |

Bounds. Three pages give `dedup()` a run longer than a pair, and pages of two
bytes give `sbrk()` sizes that end inside a page. The frames are enough for a
second table beside the first, and few enough that `kalloc()` also finds none.
In `log` LOGSIZE is three times MAXOPBLOCKS as in `param.h`, and `nlog` is LOGSIZE
as in `mkfs.c`, so the log on disk has one block less than the header has entries.
The run has three blocks, so no transaction fills the log and the panic of
`log_write()` is not reached; what happens at the end of the log is a matter for
the proofs. Three slots give a parent, a child and `init`.
`proc_live` has two slots, so a child never has a child of its own there: handing
children over to `init` is checked in `proc`.
`MaxPid` bounds the number of forks (the wrap of the `int` is left out), `TickMod` stands for 2^32, small enough that
the counter wraps; so does `UintMod` in `shell` and `console`. A ring of two bytes
is full, empty and wraps within one write. Three buffers for two processes that
hold up to two each and two blocks that can stay dirty are few enough to run out,
as NBUF = LOGSIZE can in the kernel. Blocks of three
bytes give a file direct and indirect blocks and the maximal size after a few
writes. `FrameView` names a frame by who holds it, `BufView` and `RingView` do the
same for buffers and ring positions, since no operation looks at the number;
`LogView` leaves out log blocks that no header and no commit under way counts.

Deadlock is checked except in `proc` and `proc_live`, where `panic()` ends
everything, and in `shell` and `fs`, whose programs end.

Fairness. `vm_fork` assumes that a process inside the kernel or retrying a store
goes on: the scheduler walks the whole table and kernel loops do not wait.
`proc_live` assumes that a pending clock interrupt is taken (it stays pending
until interrupts are on) and that a CPU that spins on a lock gets it if it is
free again and again. The second is more than `xchg` promises and is what the
code relies on. `shell` and `fs` assume only that somebody goes on when somebody
can: which process it is stays open. A program is never assumed to make a call,
except in `shell` and `fs`, where the programs are given.

## Proofs

Each result holds for every value of the constants that the named assumption of
its module allows.

### Virtual memory

For every number of processes, frames and pages, any page size, any contents and
checksum function and any TLB size (`ConstAssumption`), `VmProof` proves:

| theorem | statement |
|---|---|
| `TypeCorrect` | `Spec => []TypeOK` |
| `RefsAreExact` | `Spec => []RefsExact`: no frame leaks or is freed while in use |
| `SharingIsCow` | `Spec => []SharedIsCow` |
| `ReadOnlyPagesAreCow` | `Spec => []ReadOnlyIsCow` |
| `NeverRemaps` | the panic of `mappages()` is unreachable |

They rest on one inductive invariant, `IInv` in `VmInv`:

- `Types` is `TypeOK` with integer counts, since that they are natural follows
  only from the counting below;
- `Sharing`: the free list has no duplicates and is the frames with count 0, each
  count is the number of holders, and frames are shared only inside one table
  between read-only copy-on-write entries;
- `Walks`: which slots have a table and a stack in each state of `fork`, `exec`,
  `exit` and `wait` (`Control`), and which pages can be mapped at each point of
  each loop (`Loops`), the TLB included.

The last is what makes the first two inductive. That `krelease()` drops a count
above 0 needs an entry that is mapped, and that an entry being filled was empty
needs the position of the loop. `VmInv` has the lemmas about counting holders
(adding or removing one holder changes a cardinality by one) and rounding;
`VmPages` the actions that change entries of a table; `VmSlots` the ones that
create and drop tables and slots; `VmProof` puts them together.

### The log

For any number of processes, blocks and log sizes (`LogAssumption`), over crashes
and recoveries, `LogProof` proves `ControlHolds`, `LogTypeCorrect`, `WakeupComes`,
`DataHolds`, `LogIsAtomic` (`ImplementsAtomicDisk`), `LogIsWrittenAhead`
(`WriteAhead`), `OverrunNeedsRace` and `RacelessLogIsAtomic`.

`Control` (in `LogInv`) is the inductive invariant of the locking: one process
commits, alone; `outstanding` counts the running calls; a buffer has one holder;
the header is empty between transactions. `Data` relates buffers, log blocks and
home blocks at each point of commit and recovery.

`LogIsAtomic` and `LogIsWrittenAhead` have a hypothesis, `[]Fits`: no transaction is
longer than the log blocks on disk. The code does not guarantee it. `begin_op()`
admits calls by LOGSIZE and MAXOPBLOCKS, while the log on disk has `nlog - 1` blocks
(LOGSIZE = nlog = 30 here) and one `filewrite()` may write more than MAXOPBLOCKS;
so `log_write()` can be called at the end of the log. There its size check panics,
but it is made before `log.lock` is taken, and two calls can pass it together.
`OverrunNeedsRace` proves that this is the only way to overrun the log: it assumes
`[]ChecksAlone`, that no two calls are between the check and the append at once, and
nothing about what a call writes or what is admitted. `RacelessLogIsAtomic` is
atomicity and write-ahead order from that. `HasRoom` is the invariant: whoever has
passed the check finds the room it saw.

### The process table

For any number of slots, CPUs, pids and ticks (`ProcAssumption`), `ProcProof`, with
the invariant and the lemmas on the table in `ProcInv`, proves
`ProcTypeCorrect`, `OneCpuRunsIt`, `ChildrenAreWaitedFor`, `NoWakeupIsMissed` and
`PidsAreUnique`, which are all the invariants of the run `proc`. Its invariant says
which CPU is where with which lock (`OnCpus`, `Locks`), where a process of a given
state is in the kernel (`Places`), what `fork()` is making (`Forks`), and who waits
for what (`Waiters`, `Sleepers`). The locks are what makes the others inductive: a
process that is about to sleep still holds the lock its waker needs.

### How the proofs are laid out

One lemma per action says that the action keeps the invariant, and a theorem
combines them. Facts that hold because a set is finite (`Counting` in `Vm` and
`Log`, `Leasts` in `Proc`) are hypotheses of the lemmas and are shown from the
library at the end, where nothing else has the library in scope. Steps without a name are facts that every later step of
the proof uses.

### What is only model-checked

That `Vm` implements `AddrSpace` and the other statements about contents of memory
(`DedupPreservesLoads`, `DedupMergesNeighbours`), and the `copyuvm()` half of
`NoPanic` (the `mappages()` half is `NeverRemaps`). Liveness (`StoreCompletes`, `KilledExits`, `ZombieReaped`,
`PipelineEnds`, `TestsEnd`), which is out of the reach of the proof system. All of
`Shell`, `Bcache`, `Console` and `Usertests`: their invariants depend on sequences
that are edited in the middle (the LRU list, the request queue, the ring, the
programs of the tests), where a proof needs induction over data. With these
models the instances are where the cases are: a ring or a list of two or three
places goes through every position.

## Where code and comments disagree

Two are runs that TLC refutes, with the quoted lines in `PROJECT.json`: `dedup()`
without a TLB flush (`vm_stale_tlb`), and `iput()` freeing an inode without its
lock (`fs_iput_race`). `lapse` in `Fs` records when that gap is entered, or the
other one in the locking, a removed directory that is searched or added to;
`DiskConsistent`, `BlocksOwnedOnce` and what a test demands are stated up to then.

Seen while modelling, kept in the models, without a run: `copyonwrite()` returns 1
always, so a store to an absent page faults for ever; `kalloc()` on an empty list
stores outside `frameinfo[]`; `begin_op()` admits calls by LOGSIZE while the log on
disk has a block less; `kill(0)` marks an unused slot, and the next child there is
born killed; `filewrite()` may put more blocks into one transaction than
`MAXOPBLOCKS`; a disk read that fails leaves its buffer marked valid; a pipe
writer that is killed does not wake the readers.

## Not modelled

Boot code, device registers (`lapic.c`, `ioapic.c`, `mp.c`, `uart.c`, `kbd.c`), the
kernel's own mappings, ELF parsing, screen output, `memide.c` (which the Makefile
leaves out), `umalloc.c` and the user programs other than the shell's pipeline and
the file system tests: a model lets a program make any call at any time. Of
`usertests.c` the tests of memory, of arguments and of long names are left out.
