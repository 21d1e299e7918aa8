----------------------------- MODULE BcacheInv -----------------------------
(***************************************************************************)
(* The inductive invariant of Bcache: who refers to a buffer and who owns  *)
(* it, which requests the driver has, and where the last contents of a     *)
(* block are.                                                              *)
(***************************************************************************)
EXTENDS Bcache

InIo == {"iderw", "io_sleep", "io"}
Points == {"run", "lock", "lock_sleep", "held", "brelse", "nobufs", "panic"} \cup InIo

BufType == [block : Blocks \cup {NoBlock}, valid : BOOLEAN, dirty : BOOLEAN, refcnt : Nat,
            data : Data \cup {Garbage}, pid : Callers \cup {NoProc}]

BcacheTypeOK ==
    /\ buf \in [Bufs -> BufType]
    /\ idequeue \in Seq(Bufs) /\ drive \in {"idle", "busy", "done"}
    /\ disk \in [Blocks -> Data] /\ latest \in [Blocks -> Data]
    /\ driver \in {"ide", "memide"}
    /\ pc \in [Callers -> Points] /\ arg \in [Callers -> Bufs \cup {NoBuf}]

\* refcnt counts the processes between bget and the end of brelse.
Users(b) == {q \in Callers : arg[q] = b}

RefInv ==
    /\ \A p \in Callers : arg[p] = NoBuf <=> pc[p] \in {"run", "nobufs"}
    /\ \A b \in Bufs : buf[b].refcnt = Cardinality(Users(b))
    /\ \A p \in Callers : arg[p] # NoBuf => buf[arg[p]].block \in Blocks

\* The sleep lock of a buffer is held by the process that is past acquiresleep.
LockInv ==
    /\ \A p \in Callers : Holds(p) => buf[arg[p]].pid = p
    /\ \A b \in Bufs, q \in Callers : buf[b].pid = q => Holds(q) /\ arg[q] = b
    /\ \A p \in Callers : pc[p] = "lock_sleep" => buf[arg[p]].pid # NoProc

\* The queue of the driver: each request once, from a process that waits for it.
InQueue(b) == \E i \in 1..Len(idequeue) : idequeue[i] = b

IoInv ==
    /\ \A p \in Callers : pc[p] = "held" => buf[arg[p]].valid
    /\ \A p \in Callers : pc[p] = "iderw" => ~NothingToDo(arg[p])
    /\ \A p \in Callers : pc[p] = "io_sleep" => InQueue(arg[p])
    /\ \A p \in Callers : pc[p] = "io" => InQueue(arg[p]) \/ NothingToDo(arg[p])
    /\ \A i \in 1..Len(idequeue) : ~NothingToDo(idequeue[i])
    /\ \A i \in 1..Len(idequeue) :
          \E p \in Callers : arg[p] = idequeue[i] /\ pc[p] \in {"io_sleep", "io"}
    /\ \A i, j \in 1..Len(idequeue) : idequeue[i] = idequeue[j] => i = j
    /\ idequeue # <<>> => drive # "idle"
    /\ driver = "memide" => idequeue = <<>>

\* A block has one buffer; its last contents are there if the buffer is dirty,
\* and on the medium otherwise.  A write has reached the medium when the drive is
\* done with it.
DataInv ==
    /\ \A b, c \in Bufs : buf[b].block = buf[c].block => b = c \/ buf[b].block = NoBlock
    /\ \A b \in Bufs : buf[b].dirty => buf[b].valid /\ buf[b].data = latest[buf[b].block]
    /\ \A b \in Bufs : buf[b].valid => buf[b].block \in Blocks
    /\ \A k \in Blocks : disk[k] = latest[k] \/ \E b \in Cached(k) : buf[b].dirty
    /\ idequeue # <<>> /\ buf[Head(idequeue)].dirty =>
          disk[buf[Head(idequeue)].block] = buf[Head(idequeue)].data
    /\ DiskErrors \/ \A b \in Bufs : buf[b].valid => buf[b].data = latest[buf[b].block]

BInv == BcacheTypeOK /\ RefInv /\ LockInv /\ IoInv /\ DataInv /\ PanicOnlyFull
=============================================================================
