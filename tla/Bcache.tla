------------------------------- MODULE Bcache -------------------------------
(***************************************************************************)
(* The buffer cache (bio.c) over sleep locks (sleeplock.c) and the disk    *)
(* driver (ide.c, or memide.c in the kernelmemfs build), with the drive as *)
(* the hardware the driver talks to.  A step is what one process or the    *)
(* interrupt handler does under one spin lock, so everything between two   *)
(* critical sections can interleave.  The clients are the log and the file *)
(* system: a process reads a block, may change it, and either writes it    *)
(* through (bwrite) or leaves it dirty for the log (log_write, log.c).     *)
(*                                                                         *)
(* A process may read a second block with the first one locked, as         *)
(* install_trans and write_log do (a log block, then its home) and bmap    *)
(* (the indirect block, then in balloc and bzero the bitmap and the new    *)
(* block).  A caller is one such use of a buffer, from bread to brelse: a  *)
(* process is one caller, and another whose `outer' is the first.          *)
(***************************************************************************)
EXTENDS Naturals, FiniteSets, Sequences

CONSTANTS Callers,    \* the uses of a buffer by the processes inside the kernel
          outer,      \* the caller of the same process whose buffer stays locked, if any
          Nested,     \* <<k, l>>: a process reads block l with block k locked
          Bufs,       \* bcache.buf[NBUF]
          Blocks,     \* the blocks of the disk
          Changed,    \* the blocks the clients change (a bound)
          Data,       \* what a block can hold
          NoProc,     \* pid 0: a sleep lock nobody holds
          NoBuf,      \* the buffer of a process outside the cache
          NoBlock,    \* the (dev 0, block 0) of a buffer never used
          Garbage,    \* the data of such a buffer
          DiskErrors, \* whether a read of the drive may fail
          MaxPinned   \* how many buffers the log keeps dirty (begin_op's bound)

ASSUME BcacheAssumption ==
    /\ IsFiniteSet(Callers) /\ IsFiniteSet(Bufs)
    /\ NoProc \notin Callers /\ NoBuf \notin Bufs /\ NoBlock \notin Blocks /\ Garbage \notin Data
    /\ Data # {} /\ Changed \subseteq Blocks /\ DiskErrors \in BOOLEAN
    /\ MaxPinned \in Nat
    /\ outer \in [Callers -> Callers \cup {NoProc}] /\ Nested \subseteq Blocks \X Blocks

VARIABLES buf,       \* block, valid (B_VALID), dirty (B_DIRTY), refcnt, data, pid
          lru,       \* the list through next: head.next first
          idequeue,  \* the list through qnext
          drive,     \* the drive's command: "idle", "busy" or "done" (interrupting)
          disk,      \* the contents of the medium
          driver,    \* which iderw the kernel was linked with
          pc,        \* where each caller is
          arg,       \* the buffer it works on
          latest     \* history: what a lock holder last stored for a block

vars == <<buf, lru, idequeue, drive, disk, driver, pc, arg, latest>>

binit ==
    /\ buf = [b \in Bufs |-> [block |-> NoBlock, valid |-> FALSE, dirty |-> FALSE,
                              refcnt |-> 0, data |-> Garbage, pid |-> NoProc]]
    /\ lru = CHOOSE s \in [1..Cardinality(Bufs) -> Bufs] : \A b \in Bufs : \E i \in DOMAIN s : s[i] = b
    /\ idequeue = <<>>

Init == /\ binit
        /\ drive = "idle"
        /\ disk = [k \in Blocks |-> CHOOSE d \in Data : TRUE]
        /\ driver \in {"ide", "memide"}
        /\ pc = [p \in Callers |-> "run"]
        /\ arg = [p \in Callers |-> NoBuf]
        /\ latest = disk

\* panic() freezes the other CPUs and does not return.
Running == \A p \in Callers : pc[p] \notin {"nobufs", "panic"}

\* A process does one thing at a time: none of its calls is under way but p's.
Alone(p) == \A q \in Callers : outer[q] = p \/ outer[p] = q => pc[q] \in {"run", "held"}

\* It calls bread with no buffer, or with one locked that may be so while k is read.
MayRead(p, k) ==
    /\ pc[p] = "run" /\ \A q \in Callers : outer[q] = p => pc[q] = "run"
    /\ outer[p] # NoProc => /\ pc[outer[p]] = "held"
                            /\ <<buf[arg[outer[p]]].block, k>> \in Nested

\* wakeup(chan): the processes asleep at `at` for buffer b run again.
Wake(pcs, at, b, to) == [p \in Callers |-> IF pcs[p] = at /\ arg[p] = b THEN to ELSE pcs[p]]

-----------------------------------------------------------------------------
(***************************************************************************)
(* bio.c.  bget looks the block up and, failing that, recycles the least   *)
(* recently used buffer that nobody refers to and the log has not pinned.  *)
(***************************************************************************)

Cached(k) == {b \in Bufs : buf[b].block = k}

recyclable_dirty(b) == buf[b].refcnt = 0

recyclable(b) == buf[b].refcnt = 0 /\ ~buf[b].dirty

\* The buffer the search from the tail of the list stops at.
Recycle(b) == \E i \in DOMAIN lru :
    /\ lru[i] = b /\ recyclable(b)
    /\ \A j \in DOMAIN lru : recyclable(lru[j]) => j <= i

bget_hit(p, k) == \E b \in Cached(k) :
    /\ buf' = [buf EXCEPT ![b].refcnt = @ + 1]
    /\ arg' = [arg EXCEPT ![p] = b] /\ pc' = [pc EXCEPT ![p] = "lock"]

bget_recycle(p, k) == \E b \in Bufs :
    /\ Recycle(b)
    /\ buf' = [buf EXCEPT ![b] = [@ EXCEPT !.block = k, !.valid = FALSE, !.dirty = FALSE,
                                           !.refcnt = 1]]
    /\ arg' = [arg EXCEPT ![p] = b] /\ pc' = [pc EXCEPT ![p] = "lock"]

bget(p, k) ==
    /\ Running /\ MayRead(p, k)
    /\ IF Cached(k) # {} THEN bget_hit(p, k)
       ELSE IF \E b \in Bufs : recyclable(b) THEN bget_recycle(p, k)
       ELSE pc' = [pc EXCEPT ![p] = "nobufs"] /\ UNCHANGED <<buf, arg>>
    /\ UNCHANGED <<lru, idequeue, drive, disk, driver, latest>>

\* One pass of acquiresleep's loop under lk->lk; p goes on at `to` once it has the lock.
acquiresleep(p, to) == LET b == arg[p] IN
    IF buf[b].pid # NoProc
    THEN pc' = [pc EXCEPT ![p] = "lock_sleep"] /\ UNCHANGED buf
    ELSE buf' = [buf EXCEPT ![b].pid = p] /\ pc' = [pc EXCEPT ![p] = to]

\* The rest of bread only looks at the buffer it now owns: one not valid goes to the disk.
bread(p) ==
    /\ Running /\ pc[p] = "lock"
    /\ acquiresleep(p, IF buf[arg[p]].valid THEN "held" ELSE "iderw")
    /\ UNCHANGED <<lru, idequeue, drive, disk, driver, arg, latest>>

holdingsleep(p) == buf[arg[p]].pid = p

\* The client stores d and calls bwrite.
bwrite(p, d) ==
    /\ Running /\ Alone(p) /\ pc[p] = "held" /\ buf[arg[p]].block \in Changed
    /\ IF ~holdingsleep(p) THEN pc' = [pc EXCEPT ![p] = "panic"] /\ UNCHANGED <<buf, latest>>
       ELSE /\ buf' = [buf EXCEPT ![arg[p]].data = d, ![arg[p]].dirty = TRUE]
            /\ latest' = [latest EXCEPT ![buf[arg[p]].block] = d]
            /\ pc' = [pc EXCEPT ![p] = "iderw"]
    /\ UNCHANGED <<lru, idequeue, drive, disk, driver, arg>>

\* The client stores d and calls log_write, whose last act pins the buffer.
log_write(p, d) ==
    /\ Running /\ Alone(p) /\ pc[p] = "held" /\ buf[arg[p]].block \in Changed
    /\ Cardinality({b \in Bufs : buf[b].dirty} \cup {arg[p]}) <= MaxPinned
    /\ buf' = [buf EXCEPT ![arg[p]].data = d, ![arg[p]].dirty = TRUE]
    /\ latest' = [latest EXCEPT ![buf[arg[p]].block] = d]
    /\ UNCHANGED <<lru, idequeue, drive, disk, driver, pc, arg>>

\* brelse, first half: releasesleep gives the lock up and wakes who waits for it.
releasesleep_quiet(p) ==
    /\ Running /\ Alone(p) /\ pc[p] = "held" /\ pc' = [pc EXCEPT ![p] = "brelse"]
    /\ buf' = [buf EXCEPT ![arg[p]].pid = NoProc]
    /\ UNCHANGED <<lru, idequeue, drive, disk, driver, arg, latest>>

releasesleep(p) ==
    /\ Running /\ Alone(p) /\ pc[p] = "held"
    /\ IF ~holdingsleep(p) THEN pc' = [pc EXCEPT ![p] = "panic"] /\ UNCHANGED buf
       ELSE /\ buf' = [buf EXCEPT ![arg[p]].pid = NoProc]
            /\ pc' = [Wake(pc, "lock_sleep", arg[p], "lock") EXCEPT ![p] = "brelse"]
    /\ UNCHANGED <<lru, idequeue, drive, disk, driver, arg, latest>>

\* brelse, second half, under bcache.lock: to the head of the list at refcnt 0.
brelse_keep(p) ==
    /\ Running /\ pc[p] = "brelse"
    /\ pc' = [pc EXCEPT ![p] = "run"] /\ arg' = [arg EXCEPT ![p] = NoBuf]
    /\ UNCHANGED <<buf, lru, idequeue, drive, disk, driver, latest>>

brelse(p) ==
    /\ Running /\ pc[p] = "brelse"
    /\ buf' = [buf EXCEPT ![arg[p]].refcnt = @ - 1]
    /\ lru' = IF buf'[arg[p]].refcnt # 0 THEN lru
              ELSE <<arg[p]>> \o SelectSeq(lru, LAMBDA b : b # arg[p])
    /\ pc' = [pc EXCEPT ![p] = "run"] /\ arg' = [arg EXCEPT ![p] = NoBuf]
    /\ UNCHANGED <<idequeue, drive, disk, driver, latest>>

-----------------------------------------------------------------------------
(***************************************************************************)
(* The drivers.  iderw of ide.c queues the buffer, starts the drive if it  *)
(* was idle and sleeps until ideintr has moved the data; that of memide.c  *)
(* copies at once.                                                         *)
(***************************************************************************)

NothingToDo(b) == buf[b].valid /\ ~buf[b].dirty

\* idestart: the command register takes the request at the head of the queue;
\* a write also takes the data (outsl), so it is on the medium when the drive is done.
idestart(b) == /\ drive' = "busy"
               /\ disk' = IF buf[b].dirty THEN [disk EXCEPT ![buf[b].block] = buf[b].data]
                          ELSE disk

ide_iderw(p) == LET b == arg[p] IN
    /\ Running /\ driver = "ide" /\ pc[p] = "iderw"
    /\ IF ~holdingsleep(p) \/ NothingToDo(b)
       THEN pc' = [pc EXCEPT ![p] = "panic"] /\ UNCHANGED <<idequeue, drive, disk>>
       ELSE /\ idequeue' = Append(idequeue, b)
            /\ IF idequeue = <<>> THEN idestart(b) ELSE UNCHANGED <<drive, disk>>
            /\ pc' = [pc EXCEPT ![p] = "io_sleep"]
    /\ UNCHANGED <<buf, lru, driver, arg, latest>>

\* Back from sleep(b, &idelock): the loop's test again.
iderw_wait(p) ==
    /\ Running /\ pc[p] = "io"
    /\ pc' = [pc EXCEPT ![p] = IF NothingToDo(arg[p]) THEN "held" ELSE "io_sleep"]
    /\ UNCHANGED <<buf, lru, idequeue, drive, disk, driver, arg, latest>>

memide_iderw(p) == LET b == arg[p] IN
    /\ Running /\ driver = "memide" /\ pc[p] = "iderw"
    /\ IF ~holdingsleep(p) \/ NothingToDo(b)
       THEN pc' = [pc EXCEPT ![p] = "panic"] /\ UNCHANGED <<buf, disk>>
       ELSE /\ disk' = IF buf[b].dirty THEN [disk EXCEPT ![buf[b].block] = buf[b].data] ELSE disk
            /\ buf' = [buf EXCEPT ![b].valid = TRUE, ![b].dirty = FALSE,
                                  ![b].data = IF buf[b].dirty THEN @ ELSE disk[buf[b].block]]
            /\ pc' = [pc EXCEPT ![p] = "held"]
    /\ UNCHANGED <<lru, idequeue, drive, driver, arg, latest>>

\* External: the drive finishes its command and raises the interrupt line.
drive_done == /\ Running /\ drive = "busy" /\ drive' = "done"
              /\ UNCHANGED <<buf, lru, idequeue, disk, driver, pc, arg, latest>>

\* What the handler leaves in the buffer.  A read the drive reports as failed
\* (idewait(1) < 0) leaves the old data, and the buffer is marked valid all the same.
Moved(b) == {[buf[b] EXCEPT !.valid = TRUE, !.dirty = FALSE,
                            !.data = IF buf[b].dirty \/ err THEN @ ELSE disk[buf[b].block]] :
                err \in IF DiskErrors THEN BOOLEAN ELSE {FALSE}}

restart_never(q) == drive' = "idle" /\ UNCHANGED disk

restart(q) == IF q # <<>> THEN idestart(Head(q)) ELSE drive' = "idle" /\ UNCHANGED disk

\* The drive's interrupt.  With an empty queue there is nothing to do; otherwise the
\* head's data are moved, who waits for it is woken and the next request is started.
ideintr ==
    /\ Running /\ drive = "done"
    /\ IF idequeue = <<>> THEN drive' = "idle" /\ UNCHANGED <<buf, idequeue, disk, pc>>
       ELSE LET b == Head(idequeue) IN
            /\ idequeue' = Tail(idequeue)
            /\ \E m \in Moved(b) : buf' = [buf EXCEPT ![b] = m]
            /\ pc' = Wake(pc, "io_sleep", b, "io")
            /\ restart(Tail(idequeue))
    /\ UNCHANGED <<lru, driver, arg, latest>>

\* A SIGCONT makes a sleeping process runnable whatever it sleeps for (Kill, proc.c).
sigcont(p) ==
    /\ Running /\ pc[p] \in {"lock_sleep", "io_sleep"}
    /\ pc' = [pc EXCEPT ![p] = IF @ = "lock_sleep" THEN "lock" ELSE "io"]
    /\ UNCHANGED <<buf, lru, idequeue, drive, disk, driver, arg, latest>>

\* A panicked kernel spins for ever.
panic == ~Running /\ UNCHANGED vars

Next == \/ \E p \in Callers, k \in Blocks : bget(p, k)
        \/ \E p \in Callers, d \in Data : bwrite(p, d) \/ log_write(p, d)
        \/ \E p \in Callers : bread(p) \/ releasesleep(p) \/ brelse(p)
        \/ \E p \in Callers : ide_iderw(p) \/ iderw_wait(p) \/ memide_iderw(p) \/ sigcont(p)
        \/ drive_done \/ ideintr \/ panic

Spec == Init /\ [][Next]_vars

\* The scheduler runs a runnable process again and again (no step a process takes on
\* its own is put off for ever), and the drive answers every command once.
FairSpec == /\ Spec
            /\ \A p \in Callers : WF_vars(bread(p) \/ brelse(p) \/ ide_iderw(p)
                                          \/ iderw_wait(p) \/ memide_iderw(p))
            /\ WF_vars(drive_done) /\ WF_vars(ideintr)
-----------------------------------------------------------------------------
(***************************************************************************)
(* Properties                                                              *)
(***************************************************************************)

Holds(p) == pc[p] \in {"iderw", "io_sleep", "io", "held"}

\* bread returns "a locked buf with the contents of the indicated block" (bio.c): whoever
\* is past bread has the buffer to itself, no other buffer stands for the same block, and
\* the data are what the last holder stored, through any number of evictions and re-reads,
\* while it reads a second block too.
BreadContents ==
    \A p \in Callers : pc[p] = "held" =>
        LET b == arg[p] IN
        /\ buf[b].pid = p /\ buf[b].data = latest[buf[b].block]
        /\ Cached(buf[b].block) = {b}
        /\ \A q \in Callers \ {p} : Holds(q) => arg[q] # b

\* The cache runs out of buffers ("bget: no buffers") only when every one of them is in
\* somebody's hands or dirty: no buffer is withheld by a count that was not taken back.
\* The other assertions, the holdingsleep tests of bwrite, brelse and iderw and the
\* latter's "nothing to do", never fail.
PanicOnlyFull ==
    /\ \A p \in Callers : pc[p] # "panic"
    /\ ~Running => \A b \in Bufs : buf[b].dirty \/ \E p \in Callers : arg[p] = b

\* No wakeup is lost between a test and the sleep after it: who sleeps for a sleep lock
\* sleeps while it is held by a process that will release it, and who sleeps in iderw has
\* its buffer in idequeue, once, with the drive at work on the head of the queue.
NoLostIoWakeup ==
    /\ \A p \in Callers : pc[p] = "lock_sleep" =>
          \E q \in Callers \ {p} : arg[q] = arg[p] /\ Holds(q)
    /\ \A p \in Callers : pc[p] = "io_sleep" =>
          Cardinality({i \in DOMAIN idequeue : idequeue[i] = arg[p]}) = 1
    /\ idequeue # <<>> => drive # "idle"

\* Every read or write a process waits for in iderw comes back to it, however many
\* requests are queued before it and however often a signal wakes it early, unless the
\* kernel panics for want of buffers.
RequestServed ==
    \A p \in Callers : pc[p] \in {"iderw", "io_sleep", "io"} ~> pc[p] = "held" \/ ~Running
=============================================================================
