# A TLA+ model of toy-os-riscv

toy-os-riscv is an xv6-like kernel in Rust for one RISC-V hart, with a small
userland. This directory holds TLA+ modules that model it, TLC configurations
that check them on small instances, and TLAPS proofs. `PROJECT.json` maps every
definition to the lines it models and lists runs, findings and hazards.

## Inventory

| part | state | operations | what is hard |
|---|---|---|---|
| `cpu.rs`, `spinlock.rs` | SIE, `noff`, `intena`, locks | `push_off`, `pop_off`, acquire, release | nesting across a context switch |
| `proc.rs` | process slots, saved contexts, `cpu.proc`, `NEXT_PID`, `WAIT_LOCK` | scheduler, `fork`, `exit`, `wait`, `sleep`, `wakeup`, `yield_cpu`, `forkret` | lost wakeups, orphans, slot reuse |
| `trap.rs`, `timer.rs`, `plic.rs` | `sepc`, `sstatus`, pending interrupts | user and kernel traps, timer tick, UART interrupt | traps inside the scheduler and inside traps |
| `console.rs`, `uart.rs` | the line buffer with `r`, `w`, `e` | `intr`, `read` | edited by the interrupt handler while reads are under way |
| `pipe.rs` | ring, counters, open ends | `read`, `write`, `close`, `alloc` | blocking on both sides, end of file |
| `file.rs`, descriptor part of `syscall.rs` | file table, descriptor tables | `open`, `close`, `dup`, `pipe`, `chdir`, fork and exit | failures half-way, full tables |
| inode cache of `fs.rs` | reference counts | `iget`, `idup`, `iput` | a slot reused while referred to |
| `kalloc.rs`, `vm.rs`, `loader.rs`, `memlayout.rs` | free list, page tables, address spaces | `fork`, `exec`, `sbrk`, `freeproc` | an allocation that fails at any step |
| rest of `fs.rs` | buffer cache, bitmap, dinodes, directories | `bread`, `balloc`, `writei`, `itrunc`, `create`, `mkdir`, path walk | a disk or a cache that runs out half-way |
| `user/src/allocator.rs` | the list of free blocks | `alloc`, `dealloc` | splitting, coalescing, growth |
| `sh.rs`, `init.rs`, `echo.rs`, `cat.rs` | the shell's job, descriptors, children | parsing; `pipe`, `fork`, `dup`, `exec`, `wait` | an end of a pipe kept open, a child not waited for |

The kernel runs system calls with interrupts off on a single hart, so kernel code
is atomic between the points where it calls `swtch`, returns to user mode, or (in
the scheduler and on the way out of a trap) has SIE set. Those points are the
steps of the models. A failed `assert` or `panic!` is a state variable (`fault`,
`obj.panic`, `m.panic`, ...), so that "no assertion fails" is an invariant.

## Modules

* **Cpu** — SIE, `noff` and `intena` as a record, and `push_off`, `pop_off`,
  `critical` (acquire and release) as functions on it.
* **Proc** — processes, scheduler and traps. `on` says whose code the hart
  executes (`Null`: the scheduler), `frame[p].pc` where the kernel code of `p`
  stands. One action per stretch of code between switch points: `SchedulerTop`,
  `SchedulerSkip`, `SchedulerRun`, `SchedulerReturn`; `Forkret`, `YieldReturn`,
  `SleepReturn`, `Usertrapret`, `Kret`; `Fork` (and its failures), `Exit`,
  `Wait`/`WaitAgain`, `Read`/`ReadAgain`; the timer and UART interrupts in user
  mode, in the kernel and in the scheduler. Of console input it keeps whether
  a line is available and whether what the UART has received enters one: `intr`
  wakes the readers only then.
* **ProcTree** — what `fork`, `exit` and `wait` promise: a tree of pids.
  `Proc` implements it (`ImplementsTree`).
* **FileTable** — file table, descriptor tables, the table of pipes and the inode
  reference counts, under every path of `sys_open`, `sys_close`, `sys_dup`,
  `sys_pipe`, `sys_chdir`, `fork`, `exit` and `wait`, by several processes.
* **Inodes** — the file system below names: `balloc`, `bfree`, `ialloc`, the inode
  cache (`iget`, `idup`, `iput`, `iupdate`, eviction), `bmap` with the indirect
  block, `readi`, `writei`, `zero_fill`, `itrunc`. An operation is a function on a
  record `m` of disk and cache, so one that fails half-way leaves what the code
  leaves. It reads and writes the disk directly, which `BufCache` justifies.
* **Fs**, **FileTree** — directories, path walking, `create`, `mkdir`, and `open`
  with all its flags, `read`, `write`, `close`, `mkdir` and `chdir` over `Inodes`;
  and the tree of files they implement, which knows no blocks, inodes or caches.
* **BufCache** — `bread` with `bget`, `bwrite` and `brelse` on the slots of the
  buffer cache, nested as the file system nests them.
* **Pipe**, **ByteStream** — one pipe with blocking readers and writers, and the
  bounded byte stream it implements. A blocked call is `Again`.
* **Console**, **LineInput** — the line buffer between `intr` and several readers,
  and line input as a user sees it: typed characters, entered characters.
* **Memory**, **PrivateMemory** — pages, the free list, page tables and the calls
  that build and free address spaces; and the promise that each process has a
  memory of its own. A call is a function on a record of what it has done so far,
  so an allocation that fails leaves what the code leaves. `PGSIZE`, `MAXVA` and
  the fan-out of a table are constants: with small ones, tables are shared
  between heap and stack, or not, as in a large address space.
* **UserHeap** — `alloc` (first fit, splitting, growth by `sbrk`) and `dealloc`
  (ordered insertion, coalescing) of user programs. The list is the sequence of
  its blocks.
* **CommandLine** — `parse_job` and `parse_command` on tokens, and the grammar of
  `docs/decisions.md` D0051 as a separate definition.
* **Shell** — composition: init, the shell and the commands of a pipeline over
  what the kernel modules promise (`ProcTree` for processes, `FileTable` for
  descriptors, `ByteStream` for pipes). A process is a list of the calls it has
  still to make; a step is one call, and any of `pipe`, `fork`, `exec`, `open` and
  the parser's allocation may fail. At the prompt comes a line, one too long for
  the shell's buffer, or end of file.
* **ProcProofs**, **ProcTreeProofs**, **PipeProofs**, **ConsoleProofs**,
  **FileTableLemmas**, **FileTableProofs**, **BufCacheProofs**,
  **UserHeapProofs** — TLAPS proofs.
* **MC...** — instances for TLC.

Operators marked "Wrong:" are variants of a definition with a plausible bug; the
runs detect each of them when it takes the definition's place.

## Runs

States are for two workers.

| run | bounds | checks | result |
|---|---|---|---|
| proc | 3 slots, 3 pids, pointers null, good and bad | `RunningIsOnHart`, `LocksMaskInterrupts`, `SyscallsNotInterrupted`, `NoLostWakeup`, `OnlyWaitPanics`, `ImplementsTree`; `RunnableRuns`, `InputWakes`, `WaiterReturns` under fairness | holds (81,585 states) |
| proc_bad_ptr | 3 slots | `NoPanic` | **violated** |
| proc_kernel_trap | 3 slots | `KernelTrapReturns` | **violated** |
| file | 2 processes, 3 files, 3 descriptors, 1 pipe, 2 inode slots for 3 inodes | `RefcntIsExact`, `PipeEndsMatchFiles`, `InodesKeptWhileOwned`, `NoPanic` | holds (568,082) |
| file_cwd_leak | as file | `CwdRefsBalance` | **violated** |
| pipe | ring of 3, 2 readers, 2 writers, 6 bytes | `RingIsBounded`, `NoLostWakeup`, `SlotKeptWhileBlocked`, `ImplementsStream`; `CloseReleases`, `DataReachesReader` under fairness | holds (23,848) |
| console | buffer of 3, 2 readers, 5 keys in bursts of 2 | `BufferNeverStalls`, `NoLostWakeup`, `ImplementsLine`; `InputReachesReader` under fairness | holds (110,296) |
| memory | 2 processes, 16 pages of 2 bytes, stores to a data page and to the stack | `PagesConserved`, `MappedIsOwned`, `NoPanic`, `ImplementsMemory` | holds (116,760) |
| memory_sbrk | sbrk of up to 4 bytes (2 pages) | `NoPanic` | **violated** |
| memory_short_file | a file cut inside its headers | `NoPanic` | **violated** |
| fs | 7 blocks of 4 cells, 1 direct and 2 indirect per inode, 6 inodes, 3 cache slots, 2 open files, 3 writes | `NoPanic`, `BlocksOwnedOnce`, `NothingUnsaved`, `InodeRefsExact`, `LinksCounted`, `ImplementsFileTree`; deadlock | holds (99,104) |
| shell | 5 processes, 9 descriptors, 4 pipes of 1 byte, memory runs out once | `ParserIsGrammar`, `PromptIsClean`, `StagesWired`, `WaitsFindChildren`, `PipelineDelivers`; `PromptReturns`, `ShellRespawns` under fairness; deadlock | holds (156,505) |

The type invariant of a module is part of one of its invariants
(`RefcntIsExact`, `RingIsBounded`, `BufferNeverStalls`, `PagesConserved`,
`BlocksOwnedOnce`, `StagesWired`); that of `Proc` is proved.

Why the bounds are enough to be interesting. Three slots give init, a child and
a grandchild, so orphans, reuse of slots and a full table occur; that a fourth
adds nothing to the safety properties is what the proofs for any number of slots
say. (A spurious wakeup in `wait` does not occur with three.) The
file run fills the file table, the pipe table, a descriptor table and the inode
cache. The ring of a pipe and the console buffer wrap around and fill up. Memory
has so few pages that every allocation of `fork`, `exec` and `sbrk` fails in some
state. The disk of fs runs out of blocks in a direct block, in the indirect block
and behind it, and of inodes and cache slots in the middle of `create`, `mkdir` and
a path walk; a cell is a byte of a file or an entry of a directory. The shell reads
every line of up to four tokens and pipelines of up to five commands, so that
processes and descriptors run out inside a pipeline, and more goes through a pipe
than it holds.

The run memory keeps two of the defects below out: `sbrk` grows by at most one page
per call, and files are complete but for their last segment. In Proc a step after
a failed assertion, or after a return to the wrong place, is not modelled
(`Halted`), so the liveness properties end there.

A panic of `fs::root()` with an inode cache full of other inodes does not occur in
the file run because it has too few inodes for it; in the system it cannot
occur because init keeps the root as its working directory.

Bounds that cut behaviour: `MaxPid` (no fork beyond it), `MaxRootRef` (no fork
beyond that many references to the root, which leak), `MaxBytes`, `MaxChunk`,
`MaxKeys`, `MaxBurst`, `MaxSbrk`, `MaxWrites`, `MaxNoMemory`, `MaxTyped`, and
`Stores`, the addresses user code writes. The runs of FileTable, Pipe, Console and
Memory do not check deadlock, because they may use a bound up or have every
process blocked or exited.

What fs shows the calls to leave behind when something runs out, which no document
excludes: an inode (and its blocks) that a failed `create` or `mkdir` has
allocated; blocks recorded only in the cached inode after a failed `zero_fill` or
second `balloc`; an inode allocated under a parent that is not a directory; the
file made by an `open` with `O_CREATE` that then finds no file slot or is refused;
zeros below the offset of a write that stops. `LinksCounted` and `BlocksOwnedOnce`
state what holds nevertheless, and `FileTree` lets programs see the last two only.

### Fairness

`Proc` assumes that the hart goes on executing (weak fairness of the scheduler and
of each process's kernel code) and that interrupts that stay pending are taken
once SIE is on often enough (strong fairness of the timer interrupt in user mode
and of the UART interrupt): the timer is re-armed on every tick, and both stay
pending until they are taken. Nothing is assumed of user programs.
`Pipe` and `Console` assume that a process that was woken runs
again, which is `RunnableRuns` of `Proc`; they assume nothing about when
processes call `read`, `write` or `close`. `Shell` assumes only that some process
that can go on does (weak fairness of all steps together, again `RunnableRuns`),
not which one, and that nobody has to type.

## Findings

1. **`wait` keeps `WAIT_LOCK`** (`src/src/proc.rs:592`): when the status cannot be
   copied out, it returns -1 without the release, and `usertrapret` panics.
   `docs/journal.md:479` says a following `wait` reaps the child.
2. **`sepc` and `sstatus` are not saved by kernel traps** (`src/src/trap.rs:98`),
   although `docs/decisions.md:244` says they are: a process preempted inside the
   kernel may return to another trap's origin.
3. **`fork` leaks a reference to the root inode** (`src/src/proc.rs:550`): the one
   `allocproc` took is overwritten; `docs/decisions.md:907` has `cwd` own it.
4. **`uvmalloc` leaves pages mapped** (`src/src/vm.rs:504`) when `kalloc` fails
   after the first page; freeing the process later panics in `freewalk`.
5. **`load_elf_from_inode` skips its clean-up** (`src/src/loader.rs:170`) when a
   program header cannot be read; `exec` panics where it should fail.

## Proofs

All theorems hold for every value of the constants.

**Processes** (`ProcProofs`, `ProcTreeProofs`; any number of slots, pids and exit
codes): `TypeCorrect`, `ControlCorrect`, `OneRunning`, `SyscallsMasked`,
`LocksCounted`, `ParentsAlive`, `WakeupsNotLost`, `PanicsOnlyInWait`, `KinshipKept`,
`TreeImplemented`, and `PanicFree` under the assumption that no status pointer is
bad (finding 1 is what happens otherwise). `TypeOK` is inductive by itself. None of
the safety invariants is: that one process runs depends on which contexts may be
switched to, which depends on the locks held at each switch. `Control` states all
of this together: which saved contexts go with which process state, what the hart
holds in each context (`HartHolds`), and when interrupts may be on; it is inductive
relative to `TypeOK`. `OneRunning`, `SyscallsMasked`, `LocksCounted`, `PanicFree` and
`PanicsOnlyInWait` follow from it. `ParentsAlive` and `WakeupsNotLost` need `Kinship`
besides (init is never reaped and is the oldest process, pids are handed out in
order), and are proved inductive together: that `exit` wakes the right process
rests on parents being alive. `TreeImplemented` maps each step of the table to a
step of `ProcTree` or a stutter; it needs that slots in use have distinct pids, so
that the tree, which knows pids only, is a function of the table.

**Pipes** (`PipeProofs`; any size, any number of readers and writers):
`RingBounded`, `WakeupsNotLost`, `SlotKept`, `StreamImplemented`. The inductive
invariant adds to the three properties what a blocked call has to do still and that
an end is open while somebody uses it. The refinement maps the ring between `nread`
and `nwrite` to a queue; that a byte stored at `nwrite % PIPESIZE` overwrites none
of them rests on the bound and a lemma about remainders.

**Console input** (`ConsoleProofs`; any size of the ring, any readers and letters,
bursts of any length): `NeverStallsHolds`, `NoLostWakeupHolds`, `LineImplemented`.
The inductive invariant says that the indices are in order within one turn, that a
full ring is readable, that every cell from `r` to `e` holds a stored character (so
that a read never hands out a stale one), that a read under way has less than it
wants, and that nobody sleeps on input. A burst is a recursive function of the
number of its keys: that both `intr` and `LineInput` compute what their equations
say, and agree after every key, is proved by induction on that number. The
refinement maps the stretches from `r` to `w` and from `w` to `e` to sequences; that
storing a key overwrites none of them rests on a lemma about remainders.

**File table** (`FileTableLemmas`, `FileTableProofs`; any number of processes, and of
pipes, and any tables of at least three files and descriptors, as init needs):
`RefcntHolds`, `PipeEndsHold`, `InodesHold`, `NoPanicHolds`. The four properties are
proved from one inductive invariant, which adds that a free file is blank (else a
stale kind would count as an end of a pipe), that each end of a pipe is one file,
that only live processes have descriptors (so `freeproc` closes nothing under
`p.lock`), and that init stays in the root directory (so the root keeps its slot).
It is stated of tables given as parameters, and `close_open_files` and the
loop of `fork` keep it one descriptor at a time, by induction. The facts about
cardinalities are collected in `Counting`, which `CountingHolds` proves from the
library.

**Buffer cache** (`BufCacheProofs`; more than two buffers, any disk):
`CacheIsTransparent`. A buffer is the block of the disk from `bread` to `brelse`, no
block is in two slots, `bread` always finds a slot and `brelse` never panics. The
invariant: `refcnt` counts the holders, valid data is the disk's, a block has one
slot. A free slot exists because at most two buffers are held at a time
(`bmap_alloc` and `itrunc` hold the indirect block while `balloc` and `bfree` hold
another).

**User heap** (`UserHeapProofs`; any sequence of requests): `HeapStaysWhole` (the list is
in address order, no two of its blocks touch, free and used blocks partition what
`sbrk` gave), `FragmentationHeals` (when everything is freed there is one block) and
`GrowthNeverInVain` (after a successful `sbrk` the second search succeeds). The
inductive invariant is the partition with the order of the list; the lemmas say
what inserting and taking a block do to it. `GrowthNeverInVain` says
that the null of `unwrap_or` after `grow_heap` is never returned.

These two modules have no run: their properties are proved outright and need no
fairness.

Induction. The library's induction theorems take a predicate as a parameter, which
the installed provers cannot instantiate. The proofs use a set in its place: the
finite intervals are well-founded under inclusion, so a nonempty set of naturals
has a least element (`LeastNumber`), hence a set that contains 0 and with every
number the next contains them all (`Climb`). A recursive function is shown to
satisfy its equation by finding, for every bound, a function that does.

Only model-checked: the liveness properties (liveness under fairness and ENABLED are
outside what the prover handles), and everything about `Memory`, `Inodes`, `Fs`,
`CommandLine` and `Shell`. `Memory`, `Inodes` and `Fs` compute with folds over
sequences whose steps may each fail, and `Memory` with page tables that are trees;
a proof needs an invariant for every intermediate record of each call, which has
not been attempted. `LineInput` lets any character be typed, so it says nothing
about which character a key stands for, only about order, loss and EOF.

## Not modelled

* Console output and echo, which change no kernel state.
* Permission bits of page tables, the kernel's own page table, and `copyin`,
  `copyinstr` and `copyout` beyond whether they fail. A pointer that cannot be
  read or written occurs in `wait`, in `pipe` and in `read` from a file (whose
  offset has then moved already); elsewhere the call fails before it changes
  anything, or, reading from a pipe or the console, the bytes are gone.
* Device inodes in `Fs` (no disk of the repository holds one; `FileTable` has
  them), and several processes in `Fs` beyond the files they hold open: file
  system calls run with interrupts off and do not sleep.
* Crashes of the file system: the disk is an array in memory, nothing survives.
* The contents of heap blocks, and failing allocations of the shell after its
  first one on a line.
* `wc`, `ls`, `mkdir`, `clear` and the test programs: sequential, without state of
  their own. `cat` is modelled as it is: it ignores the result of `write_all`.
* Splitting a line at blanks, formatting and messages.
* The shell's exit when reading the line fails: its descriptor 0 is the console,
  whose `read` does not fail. And orphans of the shell: it allocates only before it
  forks and waits for every child, so it leaves none to init (`Proc` has orphans).
* The boot sequence, the choice of the PLIC source, and the assembly of `swtch` and
  the trampoline beyond what they save and restore.

## Plan

1. Proofs: conservation of pages in `Memory`, with its folds written as recursive
   functions as in `Console`.
2. `Proc` and `FileTable` composed, so that `exit` closes files on which other
   processes block.
3. Runs of `UserHeap` and `BufCache` beside their proofs, on instances with pages
   and blocks of a few units.
