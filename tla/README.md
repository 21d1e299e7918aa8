# xv6 with signals: a TLA+ model of the kernel

xv6 is a small Unix kernel for multiprocessor x86; this repository adds POSIX-like
signals to it (`signal.c`, `syssignal.c`, `jmptohandler.S`, `restoreuser.S`, changes in
`proc.c`, `trap.c`, `sysproc.c`, `exec.c`). The modules here model the kernel from the
process table to the file system, and the shell on top of it. TLC checks them on small
instances; TLAPS proves the safety of the process table, signals, clock, log, buffer cache
and disk driver for every size of them.

`PROJECT.json` lists the parts of the system with their status, which definition models
which lines, every run with what it shows, the hazards of the code (what is hard to test,
at its line, with the properties that would notice it) and the theorems.

## 1. Parts and modules

| Part | Code | Modules |
|---|---|---|
| process table, scheduler | `proc.c`, `swtch.S` | `Proc`; abstract: `ProcLife` |
| signals | `signal.c`, `syssignal.c`, `*.S` | `Signal` (extends `Proc`) |
| traps, interrupts, clock, sleep, exec's signals | `trap.c`, `sysproc.c`, `exec.c` | `Kernel` (extends `Signal`) |
| log | `log.c` | `Log`; abstract: `AtomicDisk` |
| buffer cache, sleep locks, disk drivers | `bio.c`, `sleeplock.c`, `ide.c`, `memide.c` | `Bcache` |
| names, inode cache, directories | `fs.c`, `sysfile.c` | `Fs` |
| blocks and contents of files | `fs.c`, `file.c` | `Inode` |
| pipes | `pipe.c` | `Pipe` |
| open files | `file.c`, `sysfile.c` | `File` (extends `Pipe`) |
| shell and its parser, cat, init | `sh.c`, `cat.c`, `init.c` | `Shell` (extends `File`, `Parse`) |
| pages and address spaces | `kalloc.c`, `vm.c`, `exec.c`, parts of `main.c`, `proc.c`, `syscall.c` | `Memory` |
| console input | `console.c` | `Console`; abstract: `Lines` |

`MC*` modules hold values of constants for TLC, `*Inv` modules inductive invariants, the
others (`KernelTypes`, `KernelSteps`, `KernelProofs`, `LogProofs`, `BcacheProofs`) proofs.

The parts meet at promises. `Shell` takes fork, exit and wait at their word (`Kernel` shows
them). `Log` takes from the buffer cache that a block has one copy, which stays while it is
dirty or held (`Bcache` shows it), and `Fs` takes from `Log` that a crash leaves the last
commit. `Inode` and `Fs` share no state: an inode's contents are blocks in one and directory
entries in the other.

### State and steps

Throughout, a step is a stretch of code between two points where another CPU, a process or
an interrupt can get in: usually what is done under one spin lock.

**Proc, Signal, Kernel.** A CPU `c` executes kernel code for the process `cpu[c]`
(`myproc()`, 0 in the scheduler). `pc[p]` is the point the kernel thread of `p` has reached,
`"user"` in user code; `stk[p]` holds the points to return to when `psig()` or an interrupt
handler was called on top of other kernel code. `lp`, `tpid`, `tsig`, `isig`, `ticks0` are
locals that survive a point. `ptlock` and `tickslock` are the CPUs that hold those locks.
A critical section of `ptable.lock` that ends in `release()` is one step that needs the lock
free; one that ends in `sched()` keeps the lock until the process that runs next lets it go,
as `swtch()` does. Fields of `struct proc` keep their names; a bit mask is the set of its bits;
`frames[p]` is the stack of signal frames on the user stack, each with its signal and whether
its return address is that of `sigreturn`. `tf[p]` says whether `p->tf` points to a frame with
user segments, which `Kill()` reads without a lock.

| Code | Actions |
|---|---|
| `scheduler`, `sched`, `yield`, `forkret` | `scheduler`, `sched`, `yield`, `yield_ret`, `forkret` |
| `fork`, `allocproc` | `allocproc`, `allocproc_kstack`, `fork_fail`, `fork_copy`, `fork_run` |
| `exit`, `wait`, `kill` | `exit` (with `adopt`, `wake_init`), `wait` (one pass), `kill` in `sys_kill`, `term`, `Kill_kill` |
| `sys_sleep`, `sleep`, the tick | `sys_sleep`, `sleep_loop`, `sleep_sig`, `sleep`, `sleep_wake`, `sleep_reacquire`, `sleep_end`, `trap_tick`, `idle_tick` |
| `psig`, `term`, `core`, `stop` | `psig`, `term`, `psig_term`, `psig_core`, `psig_core_ret`, `psig_stop`, `psig_stop_ret`, `psig_user`, `jmptohandler` |
| `Kill`, `raise` | `Kill` (checks), `Kill_scan` (per slot, unlocked), `Kill_post` (critical section), `Kill_kill` |
| `signal`, masks, `sigreturn`, `exec` | `signal`, `sys_sigmask`, `sigreturn`, `exec` |
| `trap` | `trap_syscall`, `trap_sysret`, `trap_killcheck`, `trap_intr`, `trap_fault`, `trap_overrun`, `trap_intr_killed`, `trap_intr_sig`, `trap_intr_ret` |
| `panic` | the machine stops (`Frozen`) |

**Log.** `disk`, `dlog`, `dhead` are the home blocks, the log and its header on disk, one
block written per step; `cache` and `dirty` the buffers; `lh`, `outstanding`, `committing` are
`struct log`; `phase` and `tail` say how far `commit()` or recovery is. `begin_op`, `modify` with
`log_write` and `log_append` (the unlocked test and the locked part), `end_op`, `write_log`,
`write_head`, `install_trans`, `clear`, `end_commit`, `read_head`; `evict` recycles a clean
buffer; `spurious` is a SIGCONT to a sleeper; `crash` stops the machine between any two steps.

**Bcache.** `buf` (flags, refcnt, data, the pid in the sleep lock), `lru`, `idequeue`, the
drive and the medium. `bget`, `bread` (acquiresleep), `bwrite`, `log_write` (a pinned buffer),
`releasesleep` and `brelse`, `iderw` of either driver, `iderw_wait`, `ideintr`; `drive_done`
is the hardware. `latest` is a history variable. A caller is one use of a buffer, from bread to
brelse. A process that reads a second block with the first locked, as install_trans, write_log
and bmap with balloc do, is two callers, the second with the first as its `outer`; `Nested` says
which blocks are read so. When bget finds no buffer the kernel panics, and the model stops.

**Fs.** `dinode` is what the buffers hold, `stable` what is committed; `ref`, `valid`, `lock`
are the inode cache. A process's `todo` lists the steps left of its system call, each of
which takes one more inode lock or changes one `ref`: `namei`/`nameiparent` (one turn of
`namex`), `create` and its continuations, `open`, `close`, `filestat`, `chdir`, `link`,
`dirlink`, `link_bad`, `unlink` and its continuations, `iput_check` and `iput_drop`, `end_op`, `crash`.
ialloc's write of the disk and its iget are two steps. A directory keeps its `..` when it is
removed; `strayed` records that a process went up from such a one.

**Inode.** The bitmap, the blocks, `addrs` with the indirect block; `chunk` (a turn of
filewrite's loop), `writei` and `itrunc` one turn of their loops a step; `content` is history.

**Pipe, File, Shell.** `pipe` with `nread` and `nwrite` modulo `UintMod`; `file` and `ofile`;
`half` and `closing` are the files a `pipe()` or `close()` in progress stands for. A process of
the shell is the list of calls its program has still to make. `Parse` is the parser of `sh.c`
over tokens.

**Memory.** The free pages, the pages of the kernel, and per process `kstack`, `vm` (directory,
tables, mapped pages, PTE_U), and `new`, the page table that fork or exec is building. Loops
that allocate take one page a step and may find none. `main()`'s start-up is part of it. Any
call may be given up where it stands (`psig_*`): an interrupt in the middle ends in psig(), which
jumps to a handler, and what was on the kernel stack is gone. Three history variables say what
that costs: `lost` has the pages only the call knew of; `torn` the processes whose `sz` no longer
tells what is mapped, because growproc was given up, exec was between its two assignments, or
sbrk gave back everything (`proc.c:187` takes the size 0 for an error); `twice` the page that
deallocuvm had freed and not yet unmapped (`vm.c:274`). After the last the model stops: the page
has two users then, and what they do to the free list is not modelled.

**Console.** `buf`, `r`, `w`, `e` with counters modulo `UintMod`; `consoleintr` (one key),
`consoleread` up to its return or sleep, `rouse` (kill, SIGCONT).

### Abstractions and bounds

Programs are sets of system calls made in any order. Running out of memory in `fork()` is
nondeterministic in `Kernel`, and real in `Memory`. Data are members of small sets. `p->tf` of a
slot that is not filled in is junk, so the privilege test of `Kill()` may then go either way.

`MaxPid` bounds how often fork is called (guard of `trap_syscall`), `MaxFrames` the frames that
fit on a user stack: one more and the program faults (`trap_overrun`). `TickMod`, `UintMod` and
`WORD` are the ranges of unsigned counters and addresses (2^32 in the code). `IntrPCs` says at which
points interrupts arrive in an instance; the proofs hold for every `IntrPCs`. `OPBLOCKS` is how
many blocks an operation writes, with room left in its reservation as the file system leaves
(`TransactionFits` of `Inode` checks the largest one). `MaxPinned` bounds the buffers the log
keeps, `MaxCalls`, `MaxGiven`, `MaxWrites`, `MaxCrashes` and `MaxSignals` the length of runs.

## 2. What is model-checked

| Run | Instance | Properties |
|---|---|---|
| `family` | 4 slots, 1 CPU, fork, exit, wait, kill (of 0 and 1 too), faults, interrupts inside fork() and exit() | `NoMissedChild`, `FamilyTree`, `UniquePids`, `ImplementsLife` |
| `signals` | 2 slots, 2 CPUs, signals 9, 18, 19, Kill of one and of all, masks, sleep, wait; `ticks` wraps at 3 | `KernelStackExclusive`, `NoOverdueSleeper`, `StopHolds` |
| `handlers` | 2 slots, 2 CPUs, signals 3 (core) and 10 (term), handlers, sigsetmask, exec | `TypeOK`, `PendingKept` |
| `liveness` | 3 slots, 1 CPU: init sends SIGKILL and SIGTSTP (20) to a process that forks, waits, sleeps and sets a handler for the latter; interrupts inside fork(); fair | `FamilyTree`, `KilledExits`, `WaitReturns` |
| `log` | 3 processes, 4 blocks, log of 4; crashes anywhere | `AllOrNothing`, `DurableWhenIdle`, `NoMissedLogWakeup`, `NoLogPanic` |
| `bcache` | 2 processes with up to 2 buffers each, 2 buffers, 3 blocks, both drivers, fair | `BreadContents`, `PanicOnlyFull`, `NoLostIoWakeup`, `RequestServed` |
| `fs` | 2 processes, 5 inodes, 2 names, 2 calls each, 1 crash; from an empty disk, and from one with /a/b that is removed while a process stands in it | `LinksCovered`, `OpenKept`, `DirectoryTree`, `PanicOnlyStrayed` |
| `inode` | 3 writers, 2 files of up to 4 blocks of 2 bytes | `BlocksOwned`, `ReadsBack`, `AppendsKept`, `TransactionFits` |
| `shell` | 6 slots, 1 pipe of 2 bytes, 2 lines, 1 signal, fair | `RefsMatch`, `PipeEndsMatch`, `NoLostPipeWakeup`, `EndToEnd`, `Finishes` |
| `memory` | 3 processes, 18 frames, 4 user pages in 2 tables, 4 calls, 1 of them given up | `PagesPartitioned`, `SizeMapped`, `PanicOnlyTorn`, `ArgsMapped` |
| `console` | 2 readers, ring of 3, counters modulo 6 | `NoLostInputWakeup`, `ImplementsLines` |
| `wrong_handler` | expects a violation, see below | `HandlerOfPending` |

What each property says stands above its definition. In short:

* Process table: no kernel stack on two CPUs (`KernelStackExclusive`); nobody sleeps in wait()
  past a zombie or a kill (`NoMissedChild`); every zombie has a living parent (`FamilyTree`);
  pids do not repeat (`UniquePids`); seen through pids, the table is `ProcLife`: birth to a
  living parent, death with the orphans given to init in the same step, one collection by
  the parent (`ImplementsLife`).
* Signals and clock: only a kill or a posted SIGCONT resumes a stopped process (`StopHolds`); a
  pending signal goes only when its process acts on it or its slot is recycled
  (`PendingKept`); who sleeps on `&ticks` has time left (`NoOverdueSleeper`); killed processes
  exit, from user code, a handler, sleep(), wait() or a stop, unless psig() finds a stop signal
  after the kill and stops them (again), as it does (`signal.c:176`); and wait() returns
  (`KilledExits`, `WaitReturns`). The kernel may also panic first: see `SleepLocks.cfg`.
* Log: the log is a disk on which a group of operations happens whole or not at all
  (`AllOrNothing` is the specification of `AtomicDisk`), a finished group survives
  (`DurableWhenIdle`), reservations suffice, nobody sleeps for nothing.
* Buffers: a locked buffer has the last contents of its block and is the only one
  (`BreadContents`), no wakeup is lost, every request comes back, and the only check that can
  fail is bget's for a free buffer, when each is in a caller's hands or dirty (`PanicOnlyFull`). It
  does fail in the instance. In the kernel `NBUF` is 30, as `LOGSIZE` is, and 64 processes may be
  inside the cache: nothing in bio.c or log.c rules it out.
* Files: a name never leads to a freed inode, open inodes stay, directories form a tree. The
  assertions of fs.c hold until somebody follows the `..` of a removed directory
  (`PanicOnlyStrayed`); then ilock may find a free inode ("ilock: no type", `fs.c:309`), which TLC
  reaches. A block has one owner, files read back, appends through one `f->off` do not overlap, a chunk fits
  a transaction.
* Pipes and shell: counts and ends match their holders on every error path, bytes arrive in
  order, and every pipeline ends with everything given back.
* Memory: each page is free or has one owner and one use, or was lost by a call that was given
  up; `sz` says what is mapped, pointers the kernel accepts are mapped and no assertion of vm.c
  fails, except for the process that is torn: no other process, its children included, is
  affected by a call given up.
* Console: the ring with its wrapping counters is a queue of lines and a line being edited
  (`ImplementsLines` is the specification of `Lines`).

`MCShell` assumes (and TLC evaluates) `ParserAssumption`: on every line of up to `MaxTokens` = 5
tokens the recursive descent of `Parse` gives what a declarative reading of the line, `Meaning`,
says, refusals included.

**Why the bounds suffice.** Three slots are the fewest with a parent, a child and a bystander
(or an orphan and init); a fourth lets an orphan have an orphan and a slot be reused meanwhile.
Two CPUs are the fewest with a race. Signals are chosen one per class that `psig()` and
`Kill()` treat alike. Rings of 2 and 3 with counters modulo twice as much fill, empty and wrap
within a run. A log of 4 with reservations of 2 admits two operations, makes the third wait and
is filled by four blocks; an operation writes one block, so that what several blocks of one
operation do to the reservations rests on the proofs (section 3), which hold for every `OPBLOCKS` that `LogAssumption` allows.
Two buffers for three blocks, two processes and a pinned block force recycling and exhaustion.
The second disk of `fs` is the smallest with a directory whose parent can be removed too. Files of
4 blocks cross from direct to indirect ones with chunks that start inside a block. 18 frames are
fewer than three processes want, so that every allocation fails in some run.

**Mutants.** Every property of a passing run comes with a plausible mistake in the code (a
definition named after the one it replaces: `wakeup1_none`, `commit_quiet`, `mappage_leak` ...) that
TLC finds to break it.

**Fairness.** `Kernel`: a CPU keeps executing kernel code (weak fairness of `KernelStep`). A timer
interrupt that comes with interrupts off stays latched, so user code is interrupted again and
again (strong fairness of the timer at `"user"`). Between two interrupts a process gets on with the
kernel code it is in: `SF_vars(~intr[q] /\ \E c : cpu[c] = q /\ KernelStep(c))`, since the handler
of an interrupt is short against the period of the timer. A handler entered on a full stack
faults. `scheduler()` goes round the whole table, so a process that is RUNNABLE again and again is
run (strong fairness per slot). User programs and `Kill()` calls get no fairness. `Shell`: every
process that can take its next step does so, and init keeps collecting; `Kernel` justifies both, and
signals get none. `Bcache`: the steps a process takes on its own inside bio.c and ide.c, the drive
and its interrupt; what clients do with a buffer gets none.

CHECK_DEADLOCK is off where a system really may stop: `fs`, `inode`, `memory` and `shell` have done
all their calls.

### Where code and comments disagree

`wrong_handler` shows that psig() runs the handler of the lowest signal that has one, pending or
not (`signal.c:216`; the comment at 218 says "i is the signal number that is pending"). Five more
configurations show what the code allows; they are for running by hand
(`tlc -config X.cfg M`) and each ends in a counterexample:

| Configuration | Module | Property | What happens |
|---|---|---|---|
| `WrongTarget.cfg` | `MCKernel` | `KillHitsTarget` | Kill() looks the pid up without the lock and posts to another process (`signal.c:394`) |
| `SleepLocks.cfg` | `MCKernel` | `OnlyPtableLock` | sys_sleep() calls psig() with tickslock held; a stop panics in sched() (`sysproc.c:77`) |
| `ExitReturns.cfg` | `MCKernel` | `ExitIsFinal` | an interrupt in exit() delivers a signal to a handler, which undoes the exit (`trap.c:122`) |
| `InodeDeadlock.cfg` | `MCFs` | `NoInodeDeadlock` | create() puts the directory with the new inode locked, unlink() takes the two the other way round (`sysfile.c:280`) |
| `LastPut.cfg` | `MCFs` | `LastPutFrees` | a crash while a nameless inode is open leaves it allocated for ever (`fs.c:334`) |

Seen while modelling, without a configuration: after term(), psig() still stops the process or
enters a handler (`signal.c:155`, against the comment at 149); a SIGCONT with default
disposition is never pending, so it cannot cancel a pending stop (`signal.c:441`, 187); exec()
leaves userdefed (`exec.c:113`, 105); fork() does not copy addr_sigreturn (`proc.c:222`, 221);
kill(0) marks a free slot killed and allocproc() does not clear it (`proc.c:521`).

## 3. What is proved

TLAPS checks the theorems below for every value of the constants that satisfies the named
assumptions. Each inductive invariant was checked by TLC on the instances of the runs first.

| Theorem | Module | Statement |
|---|---|---|
| `Invariance` | `KernelProofs` | `Spec => []IInv` |
| `TypeCorrect` | `KernelProofs` | `Spec => []TypeOK` |
| `StackExclusion` | `KernelProofs` | `Spec => []KernelStackExclusive` |
| `Family` | `KernelProofs` | `Spec => []FamilyTree` |
| `NoLostChild` | `KernelProofs` | `Spec => []NoMissedChild` |
| `PidsUnique` | `KernelProofs` | `Spec => []UniquePids` |
| `StopsHold` | `KernelProofs` | `Spec => StopHolds` |
| `SignalsKept` | `KernelProofs` | `Spec => PendingKept` |
| `NoLateSleeper` | `KernelProofs` | `Spec => []NoOverdueSleeper` |
| `LifeRefinement` | `KernelProofs` | `Spec => ImplementsLife` |
| `LogInvariance` | `LogProofs` | `Spec => []LInv` |
| `LogImplementsAtomicDisk` | `LogProofs` | `Spec => AllOrNothing` |
| `LogDurable` | `LogProofs` | `Spec => []DurableWhenIdle` |
| `LogNoMissedWakeup` | `LogProofs` | `Spec => []NoMissedLogWakeup` |
| `LogNeverPanics` | `LogProofs` | `Spec => []NoLogPanic` |
| `BcacheInvariance` | `BcacheProofs` | `Spec => []BInv` |
| `BcachePanicsOnlyFull` | `BcacheProofs` | `Spec => []PanicOnlyFull` |
| `BcacheNoLostWakeup` | `BcacheProofs` | `Spec => []NoLostIoWakeup` |
| `BreadReturnsLatest` | `BcacheProofs` | `~DiskErrors => (Spec => []BreadContents)` |

### Kernel

Assumptions: `ProcAssumption` and `UserAssumption` (positive sizes, signals in 1..22, masks of 32
bits). `IInv` (in `KernelInv`) is `TypeOK` and six parts, each needed by the others:
`ThreadInv` (stacks are well formed; free slots, embryos and zombies have a dead or fresh
thread), `CpuInv` (who holds `ptable.lock`, who is on a CPU, where threads off the CPU
resume), `ForkInv` (the slot a fork in progress owns is an EMBRYO nobody else has, even when
an interrupt sits on top of the fork), `KillInv` (a search in progress is at a slot, with a
signal), `ChanInv` (the channel is determined by the point), `FamilyInv` (parents, and what a
sleeper in `wait()` has seen). For instance `NoMissedChild` across `exit()` needs `ChanInv` (the
sleeping parent sleeps on itself, so `wakeup1(parent)` reaches it) and `parent[p] # p`; reaping
needs `CpuInv` (a zombie still on a CPU means that CPU holds the lock the reaper needs).

The argument: `KernelTypes` (calls, returns and interrupts keep stacks in order; a step that
moves one thread and otherwise only wakes processes, `LocalStep`, keeps the rest; each group of
actions keeps `TypeOK`), `KernelSteps` (psig, Kill, sleep and trap are local steps; scheduler,
sched, fork, exit and wait, which are not, one by one), `KernelProofs` (the theorems).

On top of `IInv`:

* `PidsUnique`: only `allocproc()` and `wait()` write pids. `StopsHold`: no wakeup uses a null channel.
* `SignalsKept` needs `StopInv`: the signal a process is stopped by is SIGSTOP or was not blocked
  when psig() chose it, and nobody changes the mask of a process that is stopped. Without it the
  removal of the stop signal after the process is resumed could hit a blocked one.
* `NoLateSleeper` needs `TickInv`: from its test of `ticks` on to sleep(), sys_sleep() stays on one
  CPU, keeps `tickslock` (psig() on the way included) and has time left. Every step but those of
  sys_sleep(), the clock and sched() is `Aside`: it moves no process into or out of that stretch,
  leaves `tickslock` and `ticks` alone, and puts nobody to sleep on `&ticks`. The tick itself
  wakes all sleepers in the step in which it counts, so no arithmetic on the wrapped counter
  is needed beyond the test each sleeper has made.
* `LifeRefinement` needs `LifeInv`: pids in use are not 0 and unique, init's is 1, and the processes
  about to call allocproc() find pids within the bound of the abstract specification. Every
  step is classified by what it does to the columns state, pid and parent (`QuietTable`,
  `AllocTable`, `ForkTable`, `ExitTable`, `WaitTable`); four lemmas show what the parents by pid become
  under each, and that they are a stutter or `Fork`, `Exit` and `Wait` of `ProcLife`. That exit()
  hands all children over in its step is what makes `ExitLife` go through; that wait() nulls pid
  and parent together is what makes `WaitLife` one.

### Log

Assumption: `LogAssumption` (an operation's reservation exceeds what it writes by more than the
blocks the log on disk lacks for a full header, one in the disk that `mkfs.c` makes). `LInv` (in
`LogInv`) relates, phase by phase, header, log blocks, home blocks and cache (`DiskInv`, `CacheInv`), who is in an
operation (`OpInv`), and how much of the log the operations may still fill (`SpaceInv`: what is
in the header beyond the operations' own entries leaves `MAXOPBLOCKS` to each). A crash is a step
like any other, recovery included, so the invariant also says what a crash during recovery
finds. The refinement maps the stable blocks to what recovery would read: blocks named by the
header on disk come from the log, others from home; `write_head` is then the commit and
every other disk write a stutter.

### Buffer cache

Assumption: `BcacheAssumption`, which only says what kind of thing the constants are: numbers of
processes, buffers and pinned blocks are unrelated, and any process may read any block with any
other locked. `BInv` (in `BcacheInv`) says that `refcnt` counts the callers between bget and
brelse, the sleep lock's pid is the caller past acquiresleep, every queued request belongs to
one waiting caller and is in the queue once, and the last contents of a block are in its dirty
buffer or on the medium. That `refcnt` is such a count is what gives `PanicOnlyFull`: a buffer
that bget() passes over is dirty or has a caller.
`BreadReturnsLatest` assumes that the drive reports no errors: after a failed read ide.c marks the
buffer valid all the same (`ide.c:117`), and then the data are not the block's.

### What stays with TLC

* Liveness (`KilledExits`, `WaitReturns`, `RequestServed`, `Finishes`): fairness and ENABLED are out of the
  prover's reach.
* The parser: what a recursive definition computes for every input needs induction over data.
* `Shell`, which extends the parser and with it recursive operators: `RefsMatch`, `PipeEndsMatch`,
  `NoLostPipeWakeup`, `EndToEnd`.
* `Memory`, `Fs`, `Inode` and `Console`: their invariants, and the refinement of `Lines`, are checked on
  the instances above and have no proof yet.

## 4. What is not modelled

Hardware set-up (`main.c` beyond the order in which it makes memory available, `mp.c`, `lapic.c`,
`ioapic.c`, `picirq.c`, boot code), the port protocol of the disk controller, console output and
scan codes; the counting of pushcli and popcli; the 19 words of a signal frame; the contents of
a process's memory; user programs other than the shell, cat and init; the host's build tools.
The file system's calls run to their end in `Log`, `Bcache`, `Fs` and `Inode`: that a signal
delivered by an interrupt may abandon a system call in the middle (`trap.c:122`) is modelled in
`Kernel` and `Memory` only. What those four show of locks, references and reservations that are
given back (`NoMissedLogWakeup`, `NoLostIoWakeup`, `LinksCovered` ...) rests on it.
