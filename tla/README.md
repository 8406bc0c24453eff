# Verification of the xv6 kernel and its user programs

TLA+ models of this kernel (xv6-riscv with the programs of the `util` lab),
checked with TLC on small instances. For the write-ahead log, the process
table, pipes, the buffer cache, the disk driver, the console and memory the
safety properties are also proved with TLAPS, for every number of processes,
CPUs, blocks, buffers, descriptors and pages.

Run a configuration with `tlc -config MCLog.cfg MCLog`, check the proofs with
`tlapm LogProofs.tla`.

## The system

| Part | State | Operations | What is hard |
|------|-------|------------|--------------|
| `log.c` write-ahead log | header in memory and on disk, log blocks, `outstanding`, `committing` | `begin_op`, `log_write`, `end_op`, `commit`, recovery | a crash between any two disk writes, group commit without the lock, space reservation, lost wakeups |
| `bio.c`, `sleeplock.c` buffer cache | buffers with `refcnt`, `valid`, LRU list, sleep-locks | `bget`, `bread`, `bwrite`, `brelse`, `bpin`, `bunpin` | waiting for a buffer that could be recycled, two buffers for a block, dirty buffers, running out |
| `virtio_disk.c` driver | descriptors, avail and used rings, `info[]`, `b->disk` | `virtio_disk_rw`, `virtio_disk_intr` | completions out of order, lost interrupts, wrapping indices, waiting for descriptors |
| `proc.c` processes | process table, `wait_lock`, `p->lock`, `c->proc` | `fork`, `exit`, `wait`, `kill`, `sleep`, `wakeup`, `yield`, `sched`, `scheduler` | locks handed over across `swtch`, orphans, `exit` against `wait`, `kill` against everything |
| `pipe.c`, `file.c` pipes | ring buffer, two ends, reference counts | `pipewrite`, `piperead`, `pipeclose`, `filedup`, `fileclose` | several readers and writers, `kill` inside a call, end of file, freeing the page |
| `fs.c`, `sysfile.c` tree | inode table, dinodes, directories | `iget`, `ilock`, `iput`, `dirlink`, `namex`, `link`, `unlink`, `create`, `open` | last reference against a new one, undoing half a call, link counts |
| `fs.c`, `file.c` contents, `mkfs.c` | bitmap, block addresses, sizes, offsets | `balloc`, `bfree`, `bmap`, `itrunc`, `readi`, `writei`, `filewrite` | failing half way, holes, a full disk, the size of a transaction |
| `kalloc.c`, `vm.c`, `exec.c` memory | free list, page tables | `kalloc`, `kfree`, `uvmalloc`, `uvmcopy`, `uvmunmap`, `exec` | failure half way, leaks and double frees |
| `console.c`, `uart.c`, `printf.c` | input line buffer, transmit ring, three locks | `consoleintr`, `consoleread`, `consolewrite`, `uartputc`, `uartstart`, `printf` | interrupt against reader and writer, wrapping indices, a transmitter written without a lock |
| `sh.c`, `init.c` and the programs `echo`, `cat`, `xargs`, `primes`, `pingpong` | processes joined by pipes | parser, `runcmd`, the main functions | descriptors left open, waiting for each other or for the wrong child |
| boot code, `string.c`, CSR and register handling, tests | | | sequential, or below the models; left out |

The parts meet in a few places. Everything sleeps and wakes through `proc.c`;
`Proc` models that pair with its locks, and the other modules use it as one
step ("asleep" until a `wakeup` of the channel, or a `kill`). File-system code
reaches the disk only through the log and the cache; `Log` uses a cache that
keeps pinned blocks and may drop or load any other, which is what `Bcache`
shows of `bio.c`, and `FileBlocks` checks its disk at the moments at which
`Log` may commit. `Bcache` in turn uses a disk that finishes a transfer before
`virtio_disk_rw` returns, which is `NoEarlyReturn` of `VirtioDisk`. `Mkfs`
makes the initial state of `FileBlocks`. The programs run on `Syscalls`, whose
pipes are the FIFO that `Pipe` implements.

## Modules

| Module | Models | Implements | Proofs |
|--------|--------|------------|--------|
| `Log` | `log.c` | `AtomicStore` | `LogProofs` |
| `Proc` | `proc.c` | | `ProcProofs` |
| `Pipe` | `pipe.c`, reference counts of `file.c` | `Channel` | `PipeProofs` |
| `Bcache` | `bio.c`, `sleeplock.c` | `BlockCache` | `BcacheProofs` |
| `VirtioDisk` | `virtio_disk.c` and the device | | `VirtioProofs` |
| `Files` | the inode layer and directories of `fs.c`, the tree-changing calls of `sysfile.c` | | |
| `FileBlocks`, `Mkfs` | blocks and contents of files in `fs.c`, `file.c`, `sysfile.c`; `mkfs.c` | `ByteFile` | |
| `Memory` | `kalloc.c`, the user half of `vm.c`, the memory of `exec.c`, `sys_exec`, `growproc`, `fork`, `exit`, `wait` | | `MemoryAccounts`, `MemoryProofs` |
| `Console` | `console.c`, `uart.c`, the lock of `printf.c` and the device | `Terminal` | `ConsoleProofs` |
| `Syscalls` | system calls as a program sees them | | |
| `ShellParser`, `Shell` | `sh.c` | | |
| `Tools`, `Primes`, `Pingpong` | `echo.c`, `cat.c`, `xargs.c`; `primes.c`; `pingpong.c` | | |
| `User` | `init.c`, and all of the programs together | | |

`AtomicStore`, `Channel`, `BlockCache`, `ByteFile` and `Terminal` say what a
component promises in a page each. The `MC` modules and their configurations
instantiate the modules for TLC. Definitions keep the names of the functions
they translate; a function that can be interrupted is split where it can be,
and the parts are named after it (`wait`, `wait_alive`, `wait_reap`, ...).
Short definitions directly before another one with the same parameters
(`AdmitIfRoom` before `Admit`) are faulty variants of it: the properties are
tested by putting them in its place.

### Log

The disk is `home` (all blocks outside the log), `logblk` and `head`; memory is
`lh`, `buf`, `pin`, `outstanding`, `committing` and the place of each process.
`begin_op`, `log_write` and both halves of `end_op` hold `log.lock`
throughout and are one step each. `commit` holds no lock: each iteration of
`write_log` and `install_trans`, and each `write_head`, is a step. `Crash`
clears the memory at any point, also during recovery, which is
`read_head`, `recover_install`, `recover_erase`. `bread`, `Evict` and `Fill`
stand for the buffer cache. `OPBLOCKS` bounds the different blocks an operation
writes. A panic in `log_write` leaves `log.lock` held, which stops everything
that needs it until a crash.

### Proc

`plock` and `wait_lock` are owned by CPUs, since a process gives its lock to
the scheduler it switches to. A step is the code between two points where
another CPU can get in. `yield` is a timer interrupt anywhere no lock is held.
The loops of `wakeup` and `wait` take one slot per step, under that slot's
lock. `fork` has three steps, as its locks have. What `exit` does to files
before it takes `wait_lock` is left out. `kill` takes pids from `KillPids`,
which never names init, whose exit panics by design. A process that has been
killed makes no new call; a kill between the test in `usertrap` and the first
step of the call has the effect of one just after that step, here and in `Pipe`.

### Pipe

`pi->lock` is a variable because `kill` does not take it: a write is one step
per test and per byte, so a kill can fall anywhere. The copy loop of `piperead`
never looks at `killed` and is one step. `nread` and `nwrite` are taken modulo
`UINT`, a multiple of `PIPESIZE` as 2^32 is of 512. The first process calls
`pipe()`, `fork` shares both ends, and each process closes what it likes;
`fileclose` and the `pipeclose` it leads to are two steps.

### Bcache

A client is one use of a buffer; a process that holds two is two clients. The
sections under `bcache.lock` and under a sleep-lock's own lock are steps.
Callers change a buffer only while they hold it, and then either log it, which
pins it, or write it; `PINS` is what the log's reservation allows. When every
buffer is in use `bget` panics with `bcache.lock` held (`bget_panic`): from then
on nobody gets or gives up a buffer, though others go on with those they have.

### VirtioDisk

Sections under `vdisk_lock` are steps, except the interrupt handler, which
takes one step per completion while the device may add more. The device
fetches chains in order and finishes them in any order. `kill` wakes sleepers
early. Ring entries that have been consumed keep their old contents.

### Files

`disk` is the dinodes, `dir` and `up` the directories, `core` the inode table,
indexed by inode number because `iget` finds an entry in use by it. A section
under `itable.lock` is a step, and so is the work on one inode between `ilock`
and `iunlock`, as far as the next `iget`, `ilock` or `iput`. `iput` of the last
reference to an unlinked inode is four steps, and between them the inode can be
allocated again; `ialloc` looks at one dinode per step. A call is a sequence of
such steps, with the pointers it holds in `ip`, `dp`, `old` and `put`, so that
the sum of these, of open files and of current directories is what `ref` must
be. File contents and blocks are left out; `dirlink` and `filealloc` may fail at
any time for want of them. A process has at most one file open. Every call is
inside a transaction, so `disk` is what the log has accepted; crashes are the
subject of `Log`. `Requests` bounds which calls are made, on which paths.

### FileBlocks and Mkfs

`Mkfs` computes the image that `mkfs` writes: the layout, the root directory
and the files appended byte by byte, the inodes and the bitmap. `FileBlocks`
starts from it. `bitmap`, `data` and `dinode` are the disk as logged, `inode`
the copy in memory, `off` the offset of each open file. A writer holds
`ip->lock` from the tests of `writei` to `iupdate`, so other writers meet it
only in the bitmap and the free blocks: each allocation of `bmap`, each block
copied, and each block freed by `itrunc` is a step. A write fails for want of a
block, also between the indirect block and the block itself, or because the
user's memory ends in the middle. `logged` is what an operation has logged, to
be compared with its reservation. A read is one step under the lock.

### Memory

Pages are counted, not named: `free` is the length of the free list. A table is
the set of page-table pages `walk` has made and the set of pages mapped; sizes
are bytes, as `p->sz` is, and `sz + n` wraps at `UINT64`. The functions of
`vm.c` are operators that return the free list, the table, and whether they
failed or panicked. An iteration of an allocating loop is a step, so processes
use up memory under each other; so are all the pages one call frees, and
`proc_pagetable` as a whole. `exec` builds its table in `job[p].new` beside the
old one, and the ends of its segments and its other failures are chosen
freely. Any process may reap any zombie. Since pages have no names, a
page mapped twice would show only when it is freed twice. Contents, permission
bits and the pages of pipes are left out.

### Console

`cons` and `tx` are the two buffers with their wrapping indices, `lock` the
owners of `cons.lock`, `uart_tx_lock` and `pr.lock`. The interrupt handler is
one actor, since the PLIC gives the interrupt to one hart until it is
completed: it takes characters from the receiver, edits the line with
`cons.lock` held while it echoes through `uartputc_sync`, and then calls
`uartstart`. Because `uartputc_sync` takes no lock, its test of the transmitter
and its write are two steps, and so are those of `uartstart`. The device is
external: a receiver of one character, a transmitter whose interrupt comes when
it has emptied and is cleared by a read of `ISR` or a write of `THR`. A kill may
come anywhere in `consoleread`. `Works` bounds keys, calls and kills, and
`ReadLens`, `WriteLens` and `PrintLens` are the lengths of the calls, which are
not 0; the proofs hold for any. The uart code also spins for ever once the
kernel has panicked; that is left out, as are panics.

### The programs

`Syscalls` gives a process a parent, a table of descriptors, a program, a place
in it and its variables. A call that does not block is one step; a read or
write of a pipe moves one item (a word, a blank, a newline, or an int of
`primes`) and blocks as the kernel's does. Descriptors 0 and 1 of init are
the console and 2 is told apart, so that messages of failures can be too.
Input from the console other than the shell's is at its end. `ShellParser` has
the mutually recursive functions of `sh.c` over tokens, with positions for
pointers; `Shell` runs their commands: `runcmd` forks, opens, dups, pipes and
waits one call at a time, and `fork1` panics without a free slot. `Primes`,
`Pingpong` and `Tools` have a step per call of their programs. In `User` init
starts the shell, which reads a script from `Scripts`; before, any line of up
to `MaxLine` tokens can be typed ahead, to be parsed and compared. `Meaning` is
the reference for the parser (it splits a line at its weakest operator) and
`Expected` that for the programs (it evaluates a command as a whole, with all
its input there from the start). Lines of `xargs` have at most `MAXARG` words
and `MAXLINE` characters; `cd` changes nothing that is modelled.

A `fork` and the calls by which the child closes and dups its descriptors before
it first blocks or execs are one step. The ends they give up are ends that only
the child itself would wait at the other side of, or that its parent keeps until
it has waited for the child, so that no process can tell when the calls happen.
Calls that fail in no
modelled state are left out with the messages they would cause: `pipe` and `dup`
(the numbers of files and descriptors are not bounded), reads of a file or an
open pipe, and the byte that `pingpong` writes, whose reader waits for it. So are
the exit statuses, which nobody looks at, the loop by which the shell opens the
console until it has three descriptors, which init has given it, and the message
of a `cd` that fails.

## Runs

| Run | Shows |
|-----|-------|
| `log` | 3 processes, 3 blocks, 2 contents, a log of 4: commit is exclusive, pins match the log, nobody sleeps in vain, and `Log` implements `AtomicStore`. The small log makes groups share it, absorb writes, fill it and panic. |
| `proc` | 4 slots and 2 CPUs, enough for a zombie whose parent exits while grandparent and init wait; 3 forks; one victim for `kill`. A stack has one CPU, no exit is lost. |
| `pipe` | 3 processes, 2 bytes, `PIPESIZE` 2 and counters that wrap at 4, calls of up to 2 bytes, the first process killed anywhere: a FIFO, nobody sleeps in vain, no use after free. Three processes are the least with two sleepers on one side. 1.9 million states. |
| `bcache` | 3 clients, 4 blocks, 2 buffers that the log may both pin, as `NBUF` is `LOGSIZE` in `param.h`: recycling under contention, and running out. `Bcache` implements `BlockCache`, no sleeper waits for a free lock, and `bget` panics only when the uses and the pins make up all buffers. |
| `virtio` | 2 requests in flight with 6 descriptors and indices that wrap at 12: descriptors have one owner, the handler finds requests that are in flight, no completion is forgotten, no call returns early. |
| `virtio_live` | 3 processes, 4 descriptors, so that one request takes three and leaves one that the others take, give back and wake each other for. Nobody sleeps for descriptors while three are free, every request that was submitted is done, and the disk never comes to a halt or a livelock with calls under way. With 2 processes and 6 descriptors `RequestDone` also holds, on 3.5 million states in 13 minutes. |
| `files` | 2 processes, 2 names, 3 inodes, so that freed inodes are reused at once: a file or directory `/a` is made, linked, opened, entered and removed while the other process is anywhere in a call on it. Reference counts are exact, no lookup finds a free inode, no entry dangles, `iput` never blocks, and nobody deadlocks. Paths do not use `..`. |
| `files_dotdot` | violated: see the findings. |
| `blocks` | 2 processes, 2 files, blocks of 2 bytes, 2 direct and 2 indirect links, 12 blocks in all, `MAXOPBLOCKS` 6: a file reaches `MAXFILE`, a write of several chunks meets another one on the same offset, the disk runs out at each allocation. Bitmap and inodes agree whenever the log may commit, files have no holes, operations fit their reservation, and files are sequences of bytes (`ByteFile`). Both processes write the same byte, to be told from what the blocks held before; with different ones the run also passes, with 1.1 million states in 7 minutes. |
| `memory` | 3 slots, pages of 2 bytes, page-table pages of 4 entries and 21 pages: room for three small processes, or for `exec` beside one other, so that each allocation of `fork`, `exec`, `sys_exec` and `sbrk`, of memory and of page-table pages, fails in some state (but for the trapframe's mapping, which uses the trampoline's page-table pages and cannot fail). Programs of up to 2 segments and 5 bytes and their stack need a second page-table page at the lowest level. All pages stay accounted for, tables map what sizes say, no assertion of `vm.c` fails. |
| `console` | buffers of 2 characters and indices that wrap at 4, so that both fill and wrap; 2 readers, 2 writers, `printf`, and five mixtures of work (`MCWorks`): editing keys against readers, a killed reader, writers against echo and `printf`. Nobody sleeps in vain, a full line is given to the readers, the transmitter is never given more than it holds, it all implements `Terminal`, and every write ends. `TXFIFO` is 3, the least that three unsynchronised writers need; the device has 16. |
| `user` | 9 processes, 7 descriptors, pipes of 2 items, 10 scripts with every kind of command, `primes` up to 8, and all lines of up to 5 of 8 tokens for the parser. One pipeline is longer than the processes suffice for. |

`CHECK_DEADLOCK FALSE` appears twice. A process that reads a pipe whose write
end it holds itself waits for ever, in the model of pipes and in the system;
and the shell of `user` waits at its prompt when the script is over. `Console`
has a step `Quiet` for the state in which nothing is left but readers that
wait, so that any other standstill is a deadlock.

Every bound is a CONSTANT: `MaxPid`, `KillPids`, `MaxN`, `Requests`, `Works`,
`ReadLens`, `WriteLens`, `PrintLens`, `Scripts`, `MaxLine`, `MaxSz`, `MaxSegs`,
`MaxArg`, and the sizes of `param.h`.

Fairness is weak throughout. In `VirtioDisk` the device serves requests, its
interrupt is taken, and a process that is RUNNABLE runs while `vdisk_lock` stays
free; the handler leaves the lock for good when the used ring is empty. Nothing
is assumed about who of several gets the descriptors. The code has no queue: a
process that has just finished may call again and take them before those it
woke have run, so that one waiter may be passed over for ever, and
`RequestDone` claims an end only for requests that were submitted, and progress
for the disk as a whole. `Console` and `User` assume only
that the machine goes on while any step is possible, since their work is
bounded: that is what the round-robin `scheduler` and the uart give.

## Findings

`files_dotdot`: the `..` of a directory that was removed but is still in use
may name a parent that has been removed and freed since; looking it up ends in
`panic("ilock: no type")`. `IlockFindsType`, which `files` checks for paths
without `..`, fails with it.

### Observations

These have no run of their own. TLC or a proof met the first seven.

* `begin_op` reserves `LOGSIZE` blocks but the log made by `mkfs` has room for
  `LOGSIZE - 1`, and `log_write` tests for room before it looks for an earlier
  entry (`log.c:220`). Operations that use their whole reservation reach the
  panic: `MCLog.cfg` violates `NoPanic`. `NoPanicSafe` proves that two blocks of
  slack are enough, and a chunk of `filewrite`, with one bitmap block, leaves
  three.
* `bget: no buffers` (`bio.c:88`) is not excluded by the sizes of `param.h`:
  `NBUF` is `LOGSIZE`, so the log may pin every buffer, and reads take one
  without a reservation. `PanicMeansFull` proves that it takes that much;
  `BuffersSuffice` that it is not reached with a buffer for every use beside the
  pins.
* `kill(0)` matches a free slot, and the process created there next is killed
  at birth (`proc.c:604`; `MCProc.cfg` with `KillPids = {0}`).
* A writer that is killed after it has written some bytes returns without
  waking the readers (`pipe.c:84`). `ReaderMustWait` of `Pipe` therefore allows
  a reader to sleep beside data once somebody was killed; end of file still
  reaches it.
* A `kill` between the test of `killed` and `sleep` leaves the victim asleep
  until its event comes: in `wait` (`proc.c:427`), `piperead`, `pipewrite` and
  `consoleread`.
* `create` and `link` do not notice that the directory they were given has been
  removed meanwhile. What they add is lost with the directory, and the inode
  keeps a link that no longer exists. `NoDangling` therefore says that `nlink`
  is at least the number of entries, not that it is equal.
* Bytes that `writei` copied before `either_copyin` failed stay in the buffer
  without being logged, and are read until the buffer is recycled (`Spill` of
  `ByteFile`).
* `mkfs` rounds the size of the root directory up by a whole block when its
  entries fill one exactly; the block beyond is not mapped (`MkfsAssumption`
  excludes it). With more than one bitmap block, a chunk of `filewrite` could
  log more than counted there.
* A commit waits for a moment with no open operation, which the code does not
  guarantee; a file that is open when its last link goes stays allocated after
  a crash.
* `>>` opens without `O_TRUNC` but at offset 0, so it overwrites. Of two
  redirections of one descriptor the first takes effect last, and wins.
* `primes` up to 280 needs 61 processes beside init and the shell, 63 of the 64
  of `NPROC`. Its 60 pipes have 120 ends, more than the 100 file structures of
  `NFILE` if they are all open at a time, and it does not look at what `pipe`
  returns. It and `xargs` do not look at a `fork` that fails; the parent of
  `pingpong` does not wait for its child, which init reaps.
* The handler's loop over the receiver comes before output, so endless typing
  could hold writers back; `Works` bounds the keys.

## Proofs

Each module of proofs shows an invariant `Inv` to be inductive, with one lemma
per conjunct that goes through the actions; TLC checked each `Inv` on the
instance of the run before it was proved. The theorems assume what the modules
assume of their constants (`LogAssumption`, `ProcAssumption`, `PipeAssumption`,
`BcacheAssumption`, `VirtioAssumption`, `ConsoleAssumption`,
`MemoryAssumption`) and nothing else, except where a theorem says so.

**Log.** `LogProofs`: `Inv == TypeOK /\ CommitQuiescent /\ PinsMatchLog /\
StageInv`. None of the four is inductive alone: that a block copied by
`write_log` is still what it was when the header is written needs that no
operation is open (`CommitQuiescent`), that its buffer was not recycled needs
the pins, and the pins need to know how far `install_trans` has come.
`StageInv` records, for every point of commit and of recovery, which part of
the log agrees with the cache and which part of the home blocks with the log.
The module then proves `CrashAtomicity`: every step of `Log` is a step of
`AtomicStore` or leaves its state alone. The mapping takes as stable state the
image recovery would leave; it changes exactly once, when the header is
written. Installing and erasing leave it alone because of `StageInv`, and a
crash turns the view into that image. It also proves `ReservationSafe` by
counting, for every open operation, the blocks it may still log,
`NoPanicSafe` from it under a stated margin, and `NoLostWakeup`.

**Proc.** `ProcProofs`: who has `p->lock` (`LockInv`) is not inductive without
knowing where a process in each state is (`PlaceInv`), that only processes at
certain points have `wait_lock` and that they run (`WaitInv`), and that a slot
`fork` is filling belongs to one parent (`ForkInv`). From these follow
`OneStackOneCPU` and `SchedSafe`. `ExitsNoticed` needs three more: the part of
the table `wait` has scanned has no zombie child (`ScanInv`), the part `wakeup`
has scanned has no sleeping parent of the exiting process (`WakeInv`), and only
init may be asleep with a zombie child, between `reparent` and the wakeup that
follows it (`ZombieInv`). All three are about steps under `wait_lock`, so
`QuietStep` treats the other steps at once: a step that does not need the lock
changes no child, makes no zombie, and sends nobody to sleep. `FamilyInv` says
that init stays and nobody is its own parent; without it `p->parent` could
change between `reparent(p)` and `wakeup(p->parent)`.

**Pipe.** `PipeProofs`: `LockInv` says what the holder of `pi->lock` may rely
on at each point, `EndsInv` that an end is open exactly while somebody has it
or is about to close it (hence `PageSafe`), and `SleepInv` why each sleeper
sleeps (hence `WritersWoken`, `ReadersWoken`). Full and empty are tests on
counters modulo `UINT`; `Distance`, `CountUp` and `CountDown` are the
arithmetic. `PipeImplementsChannel` maps the counters to the queue between them.
`Places` shows that two counters less than `PIPESIZE` apart use different
places of the buffer although they wrap, which needs `UINT % PIPESIZE = 0`;
then a write appends one byte and moves no other, and a read removes a prefix.

**Bcache.** `BcacheProofs`: `Inv` says that reference counts are exact
(`RefcntCorrect`), that a client's buffer is that of the block it wants
(`BufferRight`), that a block has one buffer, that a valid buffer nobody has
changed since agrees with the disk (`CleanInv`), and that no sleeper waits for
a free lock (`NobodyLeftAsleep`). Recycling takes a buffer with count 0, so by
exactness one that nobody uses and the log has not pinned, so by `CleanInv` one
whose loss loses nothing. `PanicMeansFull` counts: with no count 0, exactness
gives every buffer a client or a pin, and a client has one buffer at most
(`AllTaken`); after the panic these numbers stay, since they change only under
`bcache.lock` (`FullStep`). It needs nothing of the sizes. Its corollary
`BuffersSuffice` does, and states it: with `PINS + Cardinality(Client) <= NBUF`
the panic is not reached.
`CacheIsCoherent`: a block's content is that of its buffer if there is a
valid one and that of the disk if not, and only its holder changes it.

**VirtioDisk.** `VirtioProofs`: `Inv == TypeOK /\ Requests /\ NoLostInterrupt`.
`DescOwned` is not inductive: that `free_chain` gives back the descriptors of
the request it ends, and of no other, needs that the chains of two requests are
disjoint and have three members each (`ChainInv`, `OwnerInv`); that the handler
ends the right request needs that every entry of a ring that has not been
consumed is the head of a request still waited for, in one place only
(`QueueInv`). Which entries those are is a matter of indices that wrap
(`Rings`): `Window(a, b)` is the slots between two indices, `RingPush` and
`RingPop` say how it changes when one of them moves, for any `NUM` that divides
the range of the indices. A ring cannot overflow because its entries are
distinct heads among `NUM` descriptors (`AvailRoom`, `UsedRoom`). From
`Inv` follow `DescriptorsOwned`, `HandlerIsSafe` and `InterruptNotLost`;
`ReturnsServed` is an action property: the only step by which `virtio_disk_rw`
returns has `~busy`, and `ChainInv` says that then the device has served the
request. `AllocatorsWoken` needs only types beside itself: who goes to sleep for
descriptors has found fewer than three, and the only step that frees any wakes
all sleepers.

**Console.** `ConsoleProofs`: `Inv == TypeOK /\ Locks /\ Waits /\ Input /\
Output /\ Room`. `Waits` strengthens the two properties about sleepers to hold also
while a lock is held, and `Locks` says who may hold it, so that a reader cannot
go to sleep after the handler has looked for sleepers. `Input` says that the
three counters of `cons` are in order around the wrap, that a full buffer is
finished input, and that the line being edited has no newline, so that
`^U` erases all of it and nothing else. `Room` strengthens
`NoOverrun`: what is in the transmitter's FIFO and what has been decided on but
not written is at most three, because each of `uartstart`, the echo and
`printf` looks at the empty bit before it writes and the bit means an empty
FIFO. Hence the assumption `TXFIFO >= 3`; the 16550 has 16. `ConsoleIsTerminal`
maps the rings to the sequences between their counters. `Window` of a ring
whose size divides the range of the counters loses its head when the first
counter moves, gains an entry when the second does, and keeps the others when a
free place is written; each action of `Console` is then a step of `Terminal` or
leaves its state alone.

**Memory.** `MemoryAccounts` and `MemoryProofs`: `Inv == Types /\ Calls /\
PagesConserved /\ SpaceExact /\ NoVmPanic`. The three properties need each
other. That `uvmunmap` finds each page it is asked for, and `freewalk` none,
needs that the table maps what the size says; that a table maps it after a
failure half way needs that `uvmdealloc` undoes what `uvmalloc` did and nothing
else; and that `walk` never meets the trapframe's page needs that a process has
fewer pages than there are (`FewPages`, from `PagesConserved`). `Calls` adds
what a process owns on its way through each call: outside `exec` it has no
second table, `uvmalloc` moves in whole pages from the rounded old size to at
most the rounded new one (`Growing`), and the slot `fork` is filling belongs to
that `fork` alone (`Child`), so that no two processes work on one table.
`MemoryAccounts` has the arithmetic of rounding to pages, what each operator of
`vm.c` does to the length of the free list and the size of a table when it
succeeds, fails or would panic (`WalkLevelFacts`, `MapFacts`, `UnmapIs`,
`GrowNext`, `DeallocFacts`, `FreepagetableFacts`, ...), and that a step which
changes one slot changes the pages in use by that slot's (`Accounts`, `StepOne`).
`MemoryProofs` has a lemma for each action. The initial
state needs up to nine pages, whatever the fan-out of page-table pages; hence
`NPAGE >= 9`. `NPAGE < TRAPFRAME` says that memory runs out before addresses
do (2^15 pages against 2^26 on this machine), and the bound on `UINT64` that a
size near the bound `MaxSz` does not wrap unless `n` is negative.

Only model-checked, and why:

* liveness (`RequestDone`, `WritesEnd`, `Terminates`), which is out of reach of
  the prover;
* the parser and the reference evaluator, which are recursive, and with them
  the programs of `User`, whose commands are the parser's trees;
* `Files` and `FileBlocks`. `IlockFindsType` of `Files` holds only when no path
  uses `..` (see the findings), so it is a property of the instance. The
  invariants of `FileBlocks` count blocks over sets built from the whole disk,
  the initial state is a fold over the bytes of the files that `mkfs` is given,
  and `ByteFile` is about contents put together from those blocks.

Proved and checked by no run: `TypeOK` of the first six proved components,
`ReservationFits` and `NoPanic` of `Log`, `SchedLocks` of `Proc`, `RefcntExact`
and `RightBuffer` of `Bcache`, `WriterMustWait` of `Console` (whose run has
`WritesEnd`). The `TypeOK` of `Files` and `Memory` document the
variables.

## Not modelled

* `find`, `sleep` and the remaining programs are sequential; so are `string.c`,
  `ulib.c`, `printf` formatting and `umalloc.c`, whose free list no modelled
  program returns memory to. `usertests.c` and `grind.c` are tests.
* Boot code, assembly, the PLIC's set-up, CSRs, page-table permissions and the
  kernel's own page table are hardware state below these models. `copyin` and
  `copyout` appear as calls that may fail.
* `sys_sleep` and `ticks`, `mknod`, `fstat` and the fetching of arguments;
  `NFILE` and `NINODE`, whose exhaustion is a `filealloc` that fails in `Files`
  and a panic.
* Spinlocks are taken as atomic: a lock is a variable where another actor can
  see it held, and a critical section one step elsewhere. `push_off` nesting is
  not modelled. The pid counter's overflow after 2^31 forks is not reached.
* `Files` and `FileBlocks` describe two sides of the same inodes and are not
  composed; their product is beyond TLC on instances in which either is
  interesting. Crashes are in `Log` only, which the others reach through
  transactions.

## Plan

1. Proofs of `RefsExact` and `NoDangling` in `Files`.
2. Orphaned inodes after a crash, with `Files` over `AtomicStore`.
3. `sys_sleep` and `ticks`; the free list of `umalloc`.
