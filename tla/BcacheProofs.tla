---------------------------- MODULE BcacheProofs ----------------------------
(***************************************************************************)
(* The buffer cache is correct for any number of processes, buffers and    *)
(* blocks that satisfy BcacheAssumption: the steps of bio.c (bget, bread,  *)
(* bwrite, log_write and the two halves of brelse) keep the invariant, the *)
(* steps of the disk drivers keep it too, and the theorems follow.         *)
(***************************************************************************)
EXTENDS BcacheInv, FiniteSetTheorems, TLAPS

(* The buffer cache *)

LEMMA InitBInv == Init => BInv
<1>. SUFFICES ASSUME Init PROVE BInv
  BY Zenon
<1>1. \A b \in Bufs : /\ buf[b].block = NoBlock /\ ~buf[b].valid /\ ~buf[b].dirty
                      /\ buf[b].refcnt = 0 /\ buf[b].pid = NoProc
  BY Zenon DEF Init, binit
<1>2. BcacheTypeOK
  <2>1. buf \in [Bufs -> BufType]
    BY Zenon DEF Init, binit, BufType
  <2>2. (CHOOSE d \in Data : TRUE) \in Data
    BY BcacheAssumption, Zenon
  <2>3. disk \in [Blocks -> Data] /\ latest \in [Blocks -> Data]
    BY <2>2, Zenon DEF Init
  <2>4. pc \in [Callers -> Points] /\ arg \in [Callers -> Bufs \cup {NoBuf}]
    BY Zenon DEF Init, Points
  <2>5. idequeue \in Seq(Bufs) /\ drive \in {"idle", "busy", "done"} /\ driver \in {"ide", "memide"}
    BY DEF Init, binit
  <2>. QED  BY <2>1, <2>3, <2>4, <2>5, Zenon DEF BcacheTypeOK
<1>3. RefInv
  <2>1. \A b \in Bufs : Users(b) = {}
    BY BcacheAssumption, Zenon DEF Init, Users
  <2>. QED  BY <1>1, <2>1, FS_EmptySet, Zenon DEF Init, RefInv
<1>4. LockInv /\ IoInv /\ PanicOnlyFull
  BY <1>1, BcacheAssumption DEF Init, binit, LockInv, IoInv, PanicOnlyFull, Running, Holds
<1>5. DataInv
  BY <1>1, Zenon DEF Init, binit, DataInv
<1>. QED  BY <1>2, <1>3, <1>4, <1>5, Zenon DEF BInv

-----------------------------------------------------------------------------
(* What the steps have in common. *)

(* A process inside the cache works on a buffer, and one that holds the    *)
(* buffer's lock is the only one to do so.                                 *)
LEMMA UserHasBuf ==
  ASSUME BcacheTypeOK, RefInv, LockInv, NEW p \in Callers, pc[p] \notin {"run", "nobufs"}
  PROVE  /\ arg[p] \in Bufs /\ buf[arg[p]] \in BufType
         /\ buf[arg[p]].block \in Blocks
         /\ Holds(p) => \A q \in Callers : Holds(q) /\ arg[q] = arg[p] => q = p
<1>1. arg[p] # NoBuf /\ arg[p] \in Bufs
  BY Zenon DEF BcacheTypeOK, RefInv
<1>. QED  BY <1>1, Zenon DEF BcacheTypeOK, RefInv, LockInv

(* The invariant while the kernel has not panicked. *)
Calm == BcacheTypeOK /\ RefInv /\ LockInv /\ IoInv /\ DataInv /\ Running

LEMMA ArgIsBuf ==
  ASSUME Calm, NEW p \in Callers, pc[p] # "run"
  PROVE  /\ arg[p] \in Bufs /\ buf[arg[p]] \in BufType
         /\ buf[arg[p]].block \in Blocks
         /\ Holds(p) => \A q \in Callers : Holds(q) /\ arg[q] = arg[p] => q = p
BY UserHasBuf, Zenon DEF Calm, Running

SameFlags == \A c \in Bufs : buf'[c].valid = buf[c].valid /\ buf'[c].dirty = buf[c].dirty
SameContents == /\ SameFlags
                /\ \A c \in Bufs : buf'[c].block = buf[c].block /\ buf'[c].data = buf[c].data

LEMMA SameData ==
  ASSUME BcacheTypeOK, DataInv, SameContents, UNCHANGED <<disk, latest, idequeue>>
  PROVE  DataInv'
<1>1. \A k \in Blocks : Cached(k)' = Cached(k)
  BY Zenon DEF SameContents, Cached
<1>2. idequeue # <<>> => Head(idequeue) \in Bufs
  BY DEF BcacheTypeOK
<1>. QED  BY <1>1, <1>2 DEF DataInv, SameContents, SameFlags, Cached

LEMMA SameRefs ==
  ASSUME BcacheTypeOK, RefInv, Running, Running', UNCHANGED arg,
         \A q \in Callers : pc'[q] = "run" <=> pc[q] = "run",
         \A c \in Bufs : buf'[c].refcnt = buf[c].refcnt /\ buf'[c].block = buf[c].block
  PROVE  RefInv'
<1>1. \A c \in Bufs : Users(c)' = Users(c)
  BY Zenon DEF Users
<1>. QED  BY <1>1, Zenon DEF RefInv, BcacheTypeOK, Running

(* No process gets its buffer or waits for it anew, none stops waiting. *)
LEMMA SameQueue ==
  ASSUME Calm, UNCHANGED <<idequeue, drive, driver>>,
         \A q \in Callers : pc[q] # "run" => /\ buf'[arg[q]].valid = buf[arg[q]].valid
                                             /\ buf'[arg[q]].dirty = buf[arg[q]].dirty,
         \A q \in Callers : pc[q] \in {"io_sleep", "io"} => pc'[q] = pc[q] /\ arg'[q] = arg[q],
         \A q \in Callers : pc'[q] \in InIo \cup {"held"} => pc'[q] = pc[q] /\ arg'[q] = arg[q]
  PROVE  IoInv'
<1>. USE DEF Calm
<1>1. \A i \in 1..Len(idequeue) : idequeue[i] \in Bufs
  BY DEF BcacheTypeOK
<1>2. \A q \in Callers : pc'[q] \in InIo \cup {"held"} =>
         arg[q] \in Bufs /\ arg'[q] = arg[q] /\ pc'[q] = pc[q]
  BY ArgIsBuf, Zenon DEF InIo
<1>3. \A q \in Callers : pc'[q] = "held" => buf'[arg'[q]].valid
  BY <1>2, Zenon DEF IoInv
<1>4. \A q \in Callers : /\ pc'[q] = "iderw" => ~(buf'[arg'[q]].valid /\ ~buf'[arg'[q]].dirty)
                         /\ pc'[q] = "io_sleep" => \E i \in 1..Len(idequeue) : idequeue[i] = arg'[q]
                         /\ pc'[q] = "io" => \/ \E i \in 1..Len(idequeue) : idequeue[i] = arg'[q]
                                             \/ buf'[arg'[q]].valid /\ ~buf'[arg'[q]].dirty
  BY <1>2 DEF IoInv, InIo, InQueue, NothingToDo
<1>5. \A i \in 1..Len(idequeue) : ~(buf'[idequeue[i]].valid /\ ~buf'[idequeue[i]].dirty)
  <2>. SUFFICES ASSUME NEW i \in 1..Len(idequeue)
                PROVE  ~(buf'[idequeue[i]].valid /\ ~buf'[idequeue[i]].dirty)
    BY Zenon
  <2>1. PICK q \in Callers : arg[q] = idequeue[i] /\ pc[q] \in {"io_sleep", "io"}
    BY Zenon DEF IoInv
  <2>2. /\ buf'[idequeue[i]].valid = buf[idequeue[i]].valid
        /\ buf'[idequeue[i]].dirty = buf[idequeue[i]].dirty
    BY <2>1
  <2>. QED  BY <2>2, Zenon DEF IoInv, NothingToDo
<1>6. \A i \in 1..Len(idequeue) :
         \E q \in Callers : arg'[q] = idequeue[i] /\ pc'[q] \in {"io_sleep", "io"}
  <2>. SUFFICES ASSUME NEW i \in 1..Len(idequeue)
                PROVE  \E q \in Callers : arg'[q] = idequeue[i] /\ pc'[q] \in {"io_sleep", "io"}
    BY Zenon
  <2>1. PICK q \in Callers : arg[q] = idequeue[i] /\ pc[q] \in {"io_sleep", "io"}
    BY Zenon DEF IoInv
  <2>. QED  BY <2>1, Zenon
<1>. QED  BY <1>3, <1>4, <1>5, <1>6 DEF IoInv, InQueue, NothingToDo

-----------------------------------------------------------------------------
(* bget *)

LEMMA BgetHit ==
  ASSUME Calm, NEW p \in Callers, NEW k \in Blocks, pc[p] = "run", bget_hit(p, k),
         UNCHANGED <<idequeue, drive, disk, driver, latest>>
  PROVE  Calm'
<1>. USE DEF Calm
<1>1. PICK b \in Cached(k) : /\ buf' = [buf EXCEPT ![b].refcnt = @ + 1]
                             /\ arg' = [arg EXCEPT ![p] = b] /\ pc' = [pc EXCEPT ![p] = "lock"]
  BY Zenon DEF bget_hit
<1>2. b \in Bufs /\ buf[b].block = k /\ b # NoBuf
  BY BcacheAssumption, Zenon DEF Cached
<1>3. /\ \A c \in Bufs : buf'[c].pid = buf[c].pid
      /\ \A c \in Bufs : c # b => buf'[c].refcnt = buf[c].refcnt
      /\ buf'[b].refcnt = buf[b].refcnt + 1
  BY <1>1, <1>2, Zenon DEF BcacheTypeOK, BufType
<1>4. SameContents
  BY <1>1, <1>2 DEF BcacheTypeOK, BufType, SameContents, SameFlags
<1>5. /\ \A q \in Callers : q # p => pc'[q] = pc[q] /\ arg'[q] = arg[q]
      /\ pc'[p] = "lock" /\ arg'[p] = b /\ arg[p] = NoBuf
      /\ pc' \in [Callers -> Points] /\ arg' \in [Callers -> Bufs \cup {NoBuf}]
  BY <1>1, <1>2, Zenon DEF BcacheTypeOK, Points, RefInv
<1>6. BcacheTypeOK'
  <2>1. buf[b] \in BufType
    BY <1>2, Zenon DEF BcacheTypeOK
  <2>2. [buf[b] EXCEPT !.refcnt = buf[b].refcnt + 1] \in BufType
    BY <2>1 DEF BufType
  <2>3. buf' \in [Bufs -> BufType]
    BY <1>1, <1>2, <2>2, Zenon DEF BcacheTypeOK
  <2>. QED  BY <1>5, <2>3, Zenon DEF BcacheTypeOK, BufType, Points, InIo
<1>7. Running'
  BY <1>5, Zenon DEF Running
<1>8. RefInv'
  <2>1. \A c \in Bufs : c # b => Users(c)' = Users(c)
    BY <1>2, <1>5, BcacheAssumption, Zenon DEF Users
  <2>2. Users(b)' = Users(b) \cup {p} /\ p \notin Users(b)
    BY <1>2, <1>5, Zenon DEF Users
  <2>3. IsFiniteSet(Users(b))
    BY FS_Subset, BcacheAssumption, Zenon DEF Users
  <2>4. Cardinality(Users(b)') = Cardinality(Users(b)) + 1
    BY <2>2, <2>3, FS_AddElement, Zenon
  <2>5. \A c \in Bufs : buf'[c].refcnt = Cardinality(Users(c)')
    BY <1>2, <1>3, <2>1, <2>4, Zenon DEF RefInv
  <2>6. \A q \in Callers : arg'[q] # NoBuf => buf'[arg'[q]].block \in Blocks
    BY <1>2, <1>4, <1>5, SMTT(30) DEF RefInv, SameContents, BcacheTypeOK
  <2>. QED  BY <1>2, <1>5, <2>5, <2>6, Zenon DEF RefInv
<1>9. LockInv'
  BY <1>3, <1>5, BcacheAssumption, SMTT(30) DEF LockInv, Holds, BcacheTypeOK, RefInv
<1>10. IoInv'
  <2>1. \A q \in Callers : pc[q] \in {"io_sleep", "io"} => pc'[q] = pc[q] /\ arg'[q] = arg[q]
    BY <1>5, Zenon
  <2>2. \A q \in Callers : pc'[q] \in InIo \cup {"held"} => pc'[q] = pc[q] /\ arg'[q] = arg[q]
    BY <1>5, Zenon DEF InIo
  <2>3. \A q \in Callers : pc[q] # "run" => /\ buf'[arg[q]].valid = buf[arg[q]].valid
                                           /\ buf'[arg[q]].dirty = buf[arg[q]].dirty
    BY <1>4, ArgIsBuf, Zenon DEF SameContents, SameFlags
  <2>. QED  BY <2>1, <2>2, <2>3, SameQueue, Zenon
<1>11. DataInv'
  BY <1>4, SameData, Zenon
<1>. QED  BY <1>6, <1>7, <1>8, <1>9, <1>10, <1>11, Zenon

(* A buffer that nobody refers to is neither locked nor queued. *)
LEMMA UnusedBuf ==
  ASSUME Calm, NEW b \in Bufs, buf[b].refcnt = 0
  PROVE  /\ \A q \in Callers : arg[q] # b
         /\ buf[b].pid = NoProc
         /\ \A i \in 1..Len(idequeue) : idequeue[i] # b
<1>. USE DEF Calm
<1>1. IsFiniteSet(Users(b)) /\ Cardinality(Users(b)) = 0
  BY FS_Subset, BcacheAssumption, Zenon DEF Users, RefInv
<1>2. Users(b) = {}
  BY <1>1, FS_EmptySet, Zenon
<1>3. \A q \in Callers : arg[q] # b
  BY <1>2, Zenon DEF Users
<1>. QED  BY <1>3 DEF LockInv, IoInv, BcacheTypeOK, BufType

LEMMA BgetRecycle ==
  ASSUME Calm, NEW p \in Callers, NEW k \in Blocks, pc[p] = "run", Cached(k) = {},
         bget_recycle(p, k), UNCHANGED <<idequeue, drive, disk, driver, latest>>
  PROVE  Calm'
<1>. USE DEF Calm
<1>1. PICK b \in Bufs :
        /\ recyclable(b)
        /\ buf' = [buf EXCEPT ![b] = [@ EXCEPT !.block = k, !.valid = FALSE, !.dirty = FALSE,
                                               !.refcnt = 1]]
        /\ arg' = [arg EXCEPT ![p] = b] /\ pc' = [pc EXCEPT ![p] = "lock"]
  BY Zenon DEF bget_recycle, Recycle
<1>2. /\ \A q \in Callers : arg[q] # b
      /\ buf[b].pid = NoProc
      /\ \A i \in 1..Len(idequeue) : idequeue[i] # b
      /\ ~buf[b].dirty /\ b # NoBuf
  BY <1>1, UnusedBuf, BcacheAssumption, Zenon DEF recyclable
<1>3. /\ \A c \in Bufs : c # b => buf'[c] = buf[c]
      /\ buf'[b].block = k /\ buf'[b].valid = FALSE /\ buf'[b].dirty = FALSE
      /\ buf'[b].refcnt = 1 /\ buf'[b].pid = NoProc
  BY <1>1, <1>2 DEF BcacheTypeOK, BufType
<1>4. /\ \A q \in Callers : q # p => pc'[q] = pc[q] /\ arg'[q] = arg[q]
      /\ pc'[p] = "lock" /\ arg'[p] = b /\ arg[p] = NoBuf
      /\ pc' \in [Callers -> Points] /\ arg' \in [Callers -> Bufs \cup {NoBuf}]
  BY <1>1, <1>2, Zenon DEF BcacheTypeOK, Points, RefInv
<1>5. BcacheTypeOK'
  <2>1. buf[b] \in BufType
    BY Zenon DEF BcacheTypeOK
  <2>2. [buf[b] EXCEPT !.block = k, !.valid = FALSE, !.dirty = FALSE, !.refcnt = 1] \in BufType
    BY <2>1, Zenon DEF BufType
  <2>3. buf' \in [Bufs -> BufType]
    BY <1>1, <2>2, Zenon DEF BcacheTypeOK
  <2>. QED  BY <1>4, <2>3, Zenon DEF BcacheTypeOK, BufType, Points, InIo
<1>6. Running'
  BY <1>4, Zenon DEF Running
<1>7. RefInv'
  <2>1. \A c \in Bufs : c # b => Users(c)' = Users(c)
    BY <1>2, <1>4, BcacheAssumption, Zenon DEF Users
  <2>2. Users(b)' = {p}
    BY <1>2, <1>4 DEF Users
  <2>3. Cardinality(Users(b)') = 1
    BY <2>2, FS_Singleton, Zenon
  <2>4. \A c \in Bufs : buf'[c].refcnt = Cardinality(Users(c)')
    BY <1>3, <2>1, <2>3, Zenon DEF RefInv
  <2>5. \A q \in Callers : arg'[q] # NoBuf => buf'[arg'[q]].block \in Blocks
    BY <1>2, <1>3, <1>4 DEF RefInv, BcacheTypeOK
  <2>. QED  BY <1>2, <1>4, <2>4, <2>5 DEF RefInv
<1>8. LockInv'
  <2>1. \A q \in Callers : Holds(q)' => Holds(q) /\ arg'[q] = arg[q] /\ arg[q] \in Bufs /\ arg[q] # b
    BY <1>2, <1>4, ArgIsBuf, Zenon DEF Holds
  <2>2. \A q \in Callers : Holds(q) => Holds(q)' /\ arg'[q] = arg[q]
    BY <1>4, Zenon DEF Holds
  <2>3. \A c \in Bufs : buf'[c].pid = buf[c].pid
    BY <1>2, <1>3, Zenon
  <2>4. \A q \in Callers : Holds(q)' => buf'[arg'[q]].pid = q
    BY <2>1, <2>3 DEF LockInv
  <2>5. \A c \in Bufs, q \in Callers : buf'[c].pid = q => Holds(q)' /\ arg'[q] = c
    BY <2>2, <2>3 DEF LockInv
  <2>6. ASSUME NEW q \in Callers, pc'[q] = "lock_sleep" PROVE buf'[arg'[q]].pid # NoProc
    <3>1. pc[q] = "lock_sleep" /\ arg'[q] = arg[q]
      BY <1>4, <2>6, Zenon
    <3>2. arg[q] \in Bufs
      BY <3>1, ArgIsBuf, Zenon
    <3>. QED  BY <2>3, <3>1, <3>2 DEF LockInv
  <2>. QED  BY <2>4, <2>5, <2>6, Zenon DEF LockInv
<1>9. IoInv'
  <2>1. \A q \in Callers : pc[q] \in {"io_sleep", "io"} => pc'[q] = pc[q] /\ arg'[q] = arg[q]
    BY <1>4, Zenon
  <2>2. \A q \in Callers : pc'[q] \in InIo \cup {"held"} => pc'[q] = pc[q] /\ arg'[q] = arg[q]
    BY <1>4, Zenon DEF InIo
  <2>3. \A q \in Callers : pc[q] # "run" => /\ buf'[arg[q]].valid = buf[arg[q]].valid
                                            /\ buf'[arg[q]].dirty = buf[arg[q]].dirty
    BY <1>2, <1>3, ArgIsBuf, SMTT(30)
  <2>. QED  BY <2>1, <2>2, <2>3, SameQueue
<1>10. DataInv'
  <2>1. \A c \in Bufs : buf[c].block # k
    BY Zenon DEF Cached
  <2>2. \A c, d \in Bufs : buf'[c].block = buf'[d].block => c = d \/ buf'[c].block = NoBlock
    BY <1>3, <2>1, SMTT(30) DEF DataInv
  <2>3. \A c \in Bufs : buf'[c].dirty => buf'[c].valid /\ buf'[c].data = latest[buf'[c].block]
    BY <1>3, SMTT(30) DEF DataInv
  <2>4. \A j \in Blocks : disk[j] = latest[j] \/ \E c \in Bufs : buf'[c].block = j /\ buf'[c].dirty
    BY <1>2, <1>3 DEF DataInv, Cached
  <2>5. idequeue # <<>> => Head(idequeue) \in Bufs /\ Head(idequeue) # b
    BY <1>2 DEF BcacheTypeOK
  <2>. QED  BY <1>3, <2>2, <2>3, <2>4, <2>5 DEF DataInv, Cached
<1>. QED  BY <1>5, <1>6, <1>7, <1>8, <1>9, <1>10, Zenon

(* Without a buffer to recycle the kernel panics, and every buffer is in   *)
(* use or dirty.                                                           *)
LEMMA BgetNone ==
  ASSUME Calm, NEW p \in Callers, pc[p] = "run", \A b \in Bufs : ~recyclable(b),
         pc' = [pc EXCEPT ![p] = "nobufs"],
         UNCHANGED <<buf, arg, idequeue, drive, disk, driver, latest>>
  PROVE  BInv'
<1>. USE DEF Calm
<1>1. /\ \A q \in Callers : q # p => pc'[q] = pc[q]
      /\ pc'[p] = "nobufs" /\ pc' \in [Callers -> Points]
  BY Zenon DEF BcacheTypeOK, Points
<1>2. BcacheTypeOK'
  BY <1>1, Zenon DEF BcacheTypeOK
<1>3. RefInv'
  <2>1. \A b \in Bufs : Users(b)' = Users(b)
    BY Zenon DEF Users
  <2>. QED  BY <1>1, <2>1, Zenon DEF RefInv
<1>4. LockInv'
  <2>1. \A q \in Callers : Holds(q)' <=> Holds(q)
    BY <1>1, Zenon DEF Holds
  <2>2. \A q \in Callers : pc'[q] = "lock_sleep" => pc[q] = "lock_sleep"
    BY <1>1, Zenon
  <2>. QED  BY <2>1, <2>2, Zenon DEF LockInv
<1>5. IoInv'
  <2>1. \A q \in Callers : pc[q] \in {"io_sleep", "io"} => pc'[q] = pc[q] /\ arg'[q] = arg[q]
    BY <1>1, Zenon
  <2>2. \A q \in Callers : pc'[q] \in InIo \cup {"held"} => pc'[q] = pc[q] /\ arg'[q] = arg[q]
    BY <1>1, Zenon DEF InIo
  <2>. QED  BY <2>1, <2>2, SameQueue, Zenon
<1>6. DataInv'
  BY SameData, Zenon DEF SameContents, SameFlags
<1>7. PanicOnlyFull'
  <2>1. ASSUME NEW b \in Bufs, ~buf[b].dirty PROVE \E q \in Callers : arg[q] = b
    <3>1. buf[b].refcnt # 0
      BY <2>1, Zenon DEF recyclable
    <3>2. Users(b) # {}
      BY <3>1, FS_EmptySet, Zenon DEF RefInv
    <3>. QED  BY <3>2, Zenon DEF Users
  <2>2. \A q \in Callers : pc'[q] # "panic"
    BY <1>1, Zenon DEF Running
  <2>. QED  BY <2>1, <2>2, Zenon DEF PanicOnlyFull
<1>. QED  BY <1>2, <1>3, <1>4, <1>5, <1>6, <1>7, Zenon DEF BInv

LEMMA CalmIsInv == Calm <=> BInv /\ Running
BY Zenon DEF Calm, BInv, PanicOnlyFull, Running

LEMMA CalmNext == ASSUME Calm' PROVE BInv'
BY CalmIsInv, PTL

LEMMA Bget ==
  ASSUME Calm, NEW p \in Callers, NEW k \in Blocks, bget(p, k)
  PROVE  BInv'
<1>1. pc[p] = "run" /\ UNCHANGED <<idequeue, drive, disk, driver, latest>>
  BY Zenon DEF bget, MayRead
<1>2. CASE Cached(k) # {}
  BY <1>1, <1>2, BgetHit, CalmNext, Zenon DEF bget
<1>3. CASE Cached(k) = {} /\ \E b \in Bufs : recyclable(b)
  BY <1>1, <1>3, BgetRecycle, CalmNext, Zenon DEF bget
<1>4. CASE Cached(k) = {} /\ \A b \in Bufs : ~recyclable(b)
  BY <1>1, <1>4, BgetNone, Zenon DEF bget
<1>. QED  BY <1>2, <1>3, <1>4, Zenon

-----------------------------------------------------------------------------
(* The holder of a buffer *)

(* A step of p that changes the buffer p holds: the requests in the queue  *)
(* are of other buffers.                                                   *)
LEMMA HeldNotQueued ==
  ASSUME Calm, NEW p \in Callers, pc[p] \in {"held", "iderw"}
  PROVE  \A i \in 1..Len(idequeue) : idequeue[i] # arg[p]
<1>. SUFFICES ASSUME NEW i \in 1..Len(idequeue), idequeue[i] = arg[p] PROVE FALSE
  BY Zenon
<1>1. PICK q \in Callers : arg[q] = idequeue[i] /\ pc[q] \in {"io_sleep", "io"}
  BY DEF Calm, IoInv
<1>. QED  BY <1>1, ArgIsBuf, Zenon DEF Holds

(* The requests in the queue stay as they are. *)
LEMMA QueueKept ==
  ASSUME Calm, UNCHANGED idequeue,
         \A q \in Callers : pc[q] \in {"io_sleep", "io"} /\ InQueue(arg[q]) =>
            /\ pc'[q] \in {"io_sleep", "io"} /\ arg'[q] = arg[q]
            /\ buf'[arg[q]].valid = buf[arg[q]].valid /\ buf'[arg[q]].dirty = buf[arg[q]].dirty
  PROVE  /\ \A i \in 1..Len(idequeue) : ~(buf'[idequeue[i]].valid /\ ~buf'[idequeue[i]].dirty)
         /\ \A i \in 1..Len(idequeue) :
               \E q \in Callers : arg'[q] = idequeue[i] /\ pc'[q] \in {"io_sleep", "io"}
<1>. SUFFICES ASSUME NEW i \in 1..Len(idequeue)
              PROVE  /\ ~(buf'[idequeue[i]].valid /\ ~buf'[idequeue[i]].dirty)
                     /\ \E q \in Callers : arg'[q] = idequeue[i] /\ pc'[q] \in {"io_sleep", "io"}
  BY Zenon
<1>1. PICK q \in Callers : arg[q] = idequeue[i] /\ pc[q] \in {"io_sleep", "io"}
  BY Zenon DEF Calm, IoInv
<1>2. InQueue(arg[q])
  BY <1>1 DEF InQueue
<1>3. ~(buf[idequeue[i]].valid /\ ~buf[idequeue[i]].dirty)
  BY Zenon DEF Calm, IoInv, NothingToDo
<1>. QED  BY <1>1, <1>2, <1>3

LEMMA BreadSleep ==
  ASSUME Calm, NEW p \in Callers, bread(p), buf[arg[p]].pid # NoProc
  PROVE  Calm'
<1>. USE DEF Calm
<1>1. /\ pc[p] = "lock" /\ pc' = [pc EXCEPT ![p] = "lock_sleep"]
      /\ UNCHANGED <<buf, idequeue, drive, disk, driver, arg, latest>>
  BY Zenon DEF bread, acquiresleep
<1>2. /\ \A q \in Callers : q # p => pc'[q] = pc[q]
      /\ pc'[p] = "lock_sleep" /\ pc' \in [Callers -> Points]
  BY <1>1, Zenon DEF BcacheTypeOK, Points
<1>3. SameContents
  BY <1>1, Zenon DEF SameContents, SameFlags
<1>4. BcacheTypeOK'
  BY <1>1, <1>2, Zenon DEF BcacheTypeOK, BufType, Points, InIo
<1>5. Running'
  BY <1>2, Zenon DEF Running
<1>6. RefInv'
  BY <1>1, <1>2, <1>5, SameRefs, Zenon
<1>7. LockInv'
  BY <1>1, <1>2, SMTT(30) DEF LockInv, Holds
<1>8. IoInv'
  <2>1. \A q \in Callers : pc'[q] \in InIo \cup {"held"} => pc'[q] = pc[q]
    BY <1>2 DEF InIo
  <2>. QED  BY <1>1, <1>2, <2>1, SameQueue, Zenon
<1>9. DataInv'
  BY <1>1, <1>3, SameData
<1>. QED  BY <1>4, <1>5, <1>6, <1>7, <1>8, <1>9, Zenon

LEMMA BreadAcquire ==
  ASSUME Calm, NEW p \in Callers, bread(p), buf[arg[p]].pid = NoProc
  PROVE  Calm'
<1>. USE DEF Calm
<1>. DEFINE b == arg[p]
            to == IF buf[b].valid THEN "held" ELSE "iderw"
<1>1. /\ pc[p] = "lock" /\ buf' = [buf EXCEPT ![b].pid = p] /\ pc' = [pc EXCEPT ![p] = to]
      /\ UNCHANGED <<idequeue, drive, disk, driver, arg, latest>>
  BY Zenon DEF bread, acquiresleep
<1>2. b \in Bufs /\ buf[b] \in BufType
  BY <1>1, ArgIsBuf, Zenon
<1>3. /\ \A q \in Callers : q # p => pc'[q] = pc[q]
      /\ pc'[p] = to /\ pc' \in [Callers -> Points]
  BY <1>1, Zenon DEF BcacheTypeOK, Points, InIo
<1>4. /\ \A c \in Bufs : c # b => buf'[c].pid = buf[c].pid
      /\ buf'[b].pid = p
      /\ \A c \in Bufs : buf'[c].refcnt = buf[c].refcnt /\ buf'[c].block = buf[c].block
  BY <1>1, <1>2, Zenon DEF BcacheTypeOK, BufType
<1>5. SameContents
  BY <1>1, <1>2, Zenon DEF BcacheTypeOK, BufType, SameContents, SameFlags
<1>. HIDE DEF b
<1>6. BcacheTypeOK'
  <2>1. [buf[b] EXCEPT !.pid = p] \in BufType
    BY <1>2, Zenon DEF BufType
  <2>2. buf' \in [Bufs -> BufType]
    BY <1>1, <1>2, <2>1, Zenon DEF BcacheTypeOK
  <2>. QED  BY <1>1, <1>3, <2>2, Zenon DEF BcacheTypeOK, BufType, Points, InIo
<1>7. Running'
  BY <1>3, Zenon DEF Running
<1>8. RefInv'
  BY <1>1, <1>3, <1>4, <1>7, SameRefs, Zenon
<1>9. LockInv'
  <2>1. \A q \in Callers : Holds(q) => arg[q] # b
    BY BcacheAssumption DEF LockInv, b
  <2>2. \A q \in Callers : Holds(q)' <=> Holds(q) \/ q = p
    BY <1>1, <1>3, Zenon DEF Holds
  <2>3. \A q \in Callers : Holds(q)' => buf'[arg'[q]].pid = q
    BY <1>1, <1>4, <2>1, <2>2, ArgIsBuf DEF LockInv, Holds, b
  <2>4. \A c \in Bufs, q \in Callers : buf'[c].pid = q => Holds(q)' /\ arg'[q] = c
    BY <1>1, <1>4, <2>2 DEF LockInv, b
  <2>5. \A q \in Callers : pc'[q] = "lock_sleep" => buf'[arg'[q]].pid # NoProc
    BY <1>1, <1>3, <1>4, ArgIsBuf, BcacheAssumption, SMTT(30) DEF LockInv
  <2>. QED  BY <2>3, <2>4, <2>5, Zenon DEF LockInv
<1>10. IoInv'
  <2>1. \A q \in Callers : arg[q] \in Bufs =>
           buf'[arg[q]].valid = buf[arg[q]].valid /\ buf'[arg[q]].dirty = buf[arg[q]].dirty
    BY <1>5, Zenon DEF SameContents, SameFlags
  <2>2. \A q \in Callers : pc[q] \in InIo \cup {"held"} => arg[q] \in Bufs
    BY ArgIsBuf, Zenon DEF InIo
  <2>3. \A q \in Callers : pc'[q] = "held" => buf'[arg'[q]].valid
    BY <1>1, <1>2, <1>3, <2>1, <2>2, SMTT(30) DEF IoInv, b
  <2>4. \A q \in Callers : pc'[q] = "iderw" => ~(buf'[arg'[q]].valid /\ ~buf'[arg'[q]].dirty)
    BY <1>1, <1>2, <1>3, <2>1, <2>2, SMTT(30) DEF IoInv, NothingToDo, InIo, b
  <2>5. \A q \in Callers : /\ pc'[q] = "io_sleep" => InQueue(arg[q])
                           /\ pc'[q] = "io" => \/ InQueue(arg[q])
                                               \/ buf'[arg[q]].valid /\ ~buf'[arg[q]].dirty
    BY <1>1, <1>3, <2>1, <2>2 DEF IoInv, NothingToDo, InIo
  <2>6. \A q \in Callers : pc[q] \in {"io_sleep", "io"} /\ InQueue(arg[q]) =>
            /\ pc'[q] \in {"io_sleep", "io"} /\ arg'[q] = arg[q]
            /\ buf'[arg[q]].valid = buf[arg[q]].valid /\ buf'[arg[q]].dirty = buf[arg[q]].dirty
    BY <1>1, <1>3, <2>1, <2>2, Zenon DEF InIo
  <2>7. /\ \A i \in 1..Len(idequeue) : ~(buf'[idequeue[i]].valid /\ ~buf'[idequeue[i]].dirty)
        /\ \A i \in 1..Len(idequeue) :
               \E q \in Callers : arg'[q] = idequeue[i] /\ pc'[q] \in {"io_sleep", "io"}
    BY <1>1, <2>6, QueueKept, Zenon
  <2>. QED  BY <1>1, <2>3, <2>4, <2>5, <2>7, SMTT(30) DEF IoInv, InQueue, NothingToDo
<1>11. DataInv'
  BY <1>1, <1>5, SameData, Zenon
<1>. QED  BY <1>6, <1>7, <1>8, <1>9, <1>10, <1>11, Zenon

(* A holder stores d: the buffer has the last contents of its block. *)
LEMMA Store ==
  ASSUME Calm, NEW p \in Callers, NEW d \in Data, pc[p] = "held",
         buf' = [buf EXCEPT ![arg[p]].data = d, ![arg[p]].dirty = TRUE],
         latest' = [latest EXCEPT ![buf[arg[p]].block] = d],
         UNCHANGED <<idequeue, disk>>
  PROVE  /\ buf' \in [Bufs -> BufType] /\ latest' \in [Blocks -> Data]
         /\ arg[p] \in Bufs /\ arg[p] # NoBuf
         /\ buf'[arg[p]].valid /\ buf'[arg[p]].dirty
         /\ \A c \in Bufs : c # arg[p] => buf'[c] = buf[c]
         /\ \A c \in Bufs : /\ buf'[c].refcnt = buf[c].refcnt /\ buf'[c].block = buf[c].block
                            /\ buf'[c].pid = buf[c].pid /\ buf'[c].valid = buf[c].valid
         /\ DataInv'
<1>. USE DEF Calm
<1>. DEFINE b == arg[p]
            k == buf[b].block
<1>1. b \in Bufs /\ buf[b] \in BufType /\ k \in Blocks /\ b # NoBuf
  BY ArgIsBuf, BcacheAssumption, Zenon
<1>2. [buf[b] EXCEPT !.data = d, !.dirty = TRUE] \in BufType
  BY <1>1, Zenon DEF BufType
<1>3. buf' = [buf EXCEPT ![b] = [buf[b] EXCEPT !.data = d, !.dirty = TRUE]]
  BY <1>1, Zenon DEF BcacheTypeOK, BufType
<1>4. buf' \in [Bufs -> BufType] /\ latest' \in [Blocks -> Data]
  BY <1>1, <1>2, <1>3 DEF BcacheTypeOK
<1>5. /\ \A c \in Bufs : c # b => buf'[c] = buf[c]
      /\ buf'[b].block = k /\ buf'[b].refcnt = buf[b].refcnt /\ buf'[b].pid = buf[b].pid
      /\ buf'[b].valid = buf[b].valid /\ buf'[b].data = d /\ buf'[b].dirty = TRUE
  BY <1>1, <1>3 DEF BcacheTypeOK, BufType
<1>6. buf[b].valid
  BY Zenon DEF IoInv
<1>7. \A i \in 1..Len(idequeue) : idequeue[i] # b
  BY HeldNotQueued, Zenon
<1>8. latest'[k] = d /\ \A j \in Blocks : j # k => latest'[j] = latest[j]
  BY <1>1, Zenon DEF BcacheTypeOK
<1>. HIDE DEF b, k
<1>9. DataInv'
  <2>1. \A c \in Bufs : c # b => buf[c].block # k
    BY <1>1, BcacheAssumption, Zenon DEF DataInv, k
  <2>2. \A c \in Bufs : buf'[c].block = buf[c].block /\ buf'[c].valid = buf[c].valid
    BY <1>5, Zenon DEF k
  <2>3. \A c \in Bufs : buf[c].valid => buf[c].block \in Blocks
    BY Zenon DEF DataInv
  <2>4. \A c, e \in Bufs : buf'[c].block = buf'[e].block => c = e \/ buf'[c].block = NoBlock
    <3>1. \A c, e \in Bufs : buf[c].block = buf[e].block => c = e \/ buf[c].block = NoBlock
      BY Zenon DEF DataInv
    <3>. QED  BY ONLY <2>2, <3>1
  <2>5. \A c \in Bufs : buf[c].dirty => buf[c].valid /\ buf[c].data = latest[buf[c].block]
    BY Zenon DEF DataInv
  <2>6. \A c \in Bufs : c # b /\ buf[c].valid => latest'[buf'[c].block] = latest[buf[c].block]
    <3>. SUFFICES ASSUME NEW c \in Bufs, c # b, buf[c].valid
                  PROVE  latest'[buf'[c].block] = latest[buf[c].block]
      BY Zenon
    <3>1. buf[c].block \in Blocks /\ buf[c].block # k /\ buf'[c].block = buf[c].block
      BY <2>1, <2>2, <2>3, Zenon
    <3>. QED  BY <1>8, <3>1, Zenon
  <2>7. buf'[b].data = latest'[buf'[b].block] /\ buf'[b].valid
    BY <1>5, <1>6, <1>8, Zenon
  <2>8. \A c \in Bufs : buf'[c].dirty => buf'[c].valid /\ buf'[c].data = latest'[buf'[c].block]
    BY <1>5, <2>5, <2>6, <2>7, Zenon
  <2>9. \A j \in Blocks : disk[j] = latest'[j] \/ \E c \in Bufs : buf'[c].block = j /\ buf'[c].dirty
    <3>. SUFFICES ASSUME NEW j \in Blocks
                  PROVE  disk[j] = latest'[j] \/ \E c \in Bufs : buf'[c].block = j /\ buf'[c].dirty
      BY Zenon
    <3>1. CASE j = k
      BY <1>1, <1>5, <3>1, Zenon
    <3>2. CASE j # k /\ disk[j] = latest[j]
      BY <1>8, <3>2, Zenon
    <3>3. CASE j # k /\ disk[j] # latest[j]
      <4>1. PICK c \in Bufs : buf[c].block = j /\ buf[c].dirty
        BY <3>3, Zenon DEF DataInv, Cached
      <4>2. c # b
        BY <3>3, <4>1, Zenon DEF k
      <4>. QED  BY <1>5, <4>1, <4>2, Zenon
    <3>. QED  BY <3>1, <3>2, <3>3, Zenon
  <2>10. idequeue # <<>> => Head(idequeue) \in Bufs /\ Head(idequeue) # b
    BY <1>7 DEF BcacheTypeOK
  <2>11. idequeue # <<>> /\ buf'[Head(idequeue)].dirty =>
            disk[buf'[Head(idequeue)].block] = buf'[Head(idequeue)].data
    BY <1>5, <2>10, Zenon DEF DataInv
  <2>12. DiskErrors \/ \A c \in Bufs : buf[c].valid => buf[c].data = latest[buf[c].block]
    BY Zenon DEF DataInv
  <2>13. DiskErrors \/ \A c \in Bufs : buf'[c].valid => buf'[c].data = latest'[buf'[c].block]
    BY <1>5, <2>6, <2>7, <2>12, Zenon
  <2>14. \A c \in Bufs : buf'[c].valid => buf'[c].block \in Blocks
    BY <2>2, <2>3, Zenon
  <2>. QED  BY <2>4, <2>8, <2>9, <2>11, <2>13, <2>14, Zenon DEF DataInv, Cached
<1>. QED  BY <1>1, <1>4, <1>5, <1>6, <1>9, Zenon DEF b, k

(* The queue's invariant, from where the processes are after the step. *)
LEMMA QueueStep ==
  ASSUME Calm, UNCHANGED <<idequeue, drive, driver>>,
         \A q \in Callers : pc[q] \in {"io_sleep", "io"} /\ InQueue(arg[q]) =>
            /\ pc'[q] \in {"io_sleep", "io"} /\ arg'[q] = arg[q]
            /\ buf'[arg[q]].valid = buf[arg[q]].valid /\ buf'[arg[q]].dirty = buf[arg[q]].dirty,
         \A q \in Callers : pc'[q] = "held" => buf'[arg'[q]].valid,
         \A q \in Callers : pc'[q] = "iderw" => ~(buf'[arg'[q]].valid /\ ~buf'[arg'[q]].dirty),
         \A q \in Callers : pc'[q] = "io_sleep" => InQueue(arg'[q]),
         \A q \in Callers : pc'[q] = "io" => \/ InQueue(arg'[q])
                                             \/ buf'[arg'[q]].valid /\ ~buf'[arg'[q]].dirty
  PROVE  IoInv'
<1>1. /\ \A i \in 1..Len(idequeue) : ~(buf'[idequeue[i]].valid /\ ~buf'[idequeue[i]].dirty)
      /\ \A i \in 1..Len(idequeue) :
             \E q \in Callers : arg'[q] = idequeue[i] /\ pc'[q] \in {"io_sleep", "io"}
  BY QueueKept, Zenon
<1>. QED  BY <1>1, SMTT(30) DEF Calm, IoInv, InQueue, NothingToDo

LEMMA Bwrite ==
  ASSUME Calm, NEW p \in Callers, NEW d \in Data, bwrite(p, d)
  PROVE  Calm'
<1>. USE DEF Calm
<1>. DEFINE b == arg[p]
<1>1. /\ pc[p] = "held" /\ pc' = [pc EXCEPT ![p] = "iderw"]
      /\ buf' = [buf EXCEPT ![arg[p]].data = d, ![arg[p]].dirty = TRUE]
      /\ latest' = [latest EXCEPT ![buf[arg[p]].block] = d]
      /\ UNCHANGED <<idequeue, drive, disk, driver, arg>>
  BY Zenon DEF bwrite, holdingsleep, LockInv, Holds
<1>2. /\ \A q \in Callers : q # p => pc'[q] = pc[q]
      /\ pc'[p] = "iderw" /\ pc' \in [Callers -> Points]
  BY <1>1, Zenon DEF BcacheTypeOK, Points, InIo
<1>3. /\ buf' \in [Bufs -> BufType] /\ latest' \in [Blocks -> Data]
      /\ b \in Bufs /\ b # NoBuf
      /\ buf'[b].valid /\ buf'[b].dirty
      /\ \A c \in Bufs : c # b => buf'[c] = buf[c]
      /\ \A c \in Bufs : /\ buf'[c].refcnt = buf[c].refcnt /\ buf'[c].block = buf[c].block
                         /\ buf'[c].pid = buf[c].pid /\ buf'[c].valid = buf[c].valid
      /\ DataInv'
  BY <1>1, Store, Zenon
<1>4. BcacheTypeOK'
  BY <1>1, <1>2, <1>3, Zenon DEF BcacheTypeOK, BufType, Points, InIo
<1>5. Running'
  BY <1>2, Zenon DEF Running
<1>6. RefInv'
  BY <1>1, <1>2, <1>3, <1>5, SameRefs, Zenon
<1>7. LockInv'
  <2>1. \A q \in Callers : Holds(q)' <=> Holds(q)
    BY <1>1, <1>2, Zenon DEF Holds
  <2>2. \A q \in Callers : Holds(q) \/ pc[q] = "lock_sleep" => arg[q] \in Bufs
    BY ArgIsBuf, Zenon DEF Holds
  <2>. QED  BY <1>1, <1>2, <1>3, <2>1, <2>2, SMTT(30) DEF LockInv
<1>8. IoInv'
  <2>1. \A q \in Callers : q # p /\ pc[q] \in InIo \cup {"held"} => arg[q] # b /\ arg[q] \in Bufs
    BY <1>1, ArgIsBuf, Zenon DEF Holds, InIo
  <2>2. \A q \in Callers : pc[q] \in {"io_sleep", "io"} /\ InQueue(arg[q]) =>
            /\ pc'[q] \in {"io_sleep", "io"} /\ arg'[q] = arg[q]
            /\ buf'[arg[q]].valid = buf[arg[q]].valid /\ buf'[arg[q]].dirty = buf[arg[q]].dirty
    BY <1>1, <1>2, <1>3, <2>1, Zenon DEF InIo
  <2>3. \A q \in Callers : pc'[q] = "held" => buf'[arg'[q]].valid
    BY <1>1, <1>2, <1>3, <2>1 DEF IoInv
  <2>4. \A q \in Callers : pc'[q] = "iderw" => ~(buf'[arg'[q]].valid /\ ~buf'[arg'[q]].dirty)
    BY <1>1, <1>2, <1>3, <2>1, SMTT(30) DEF IoInv, NothingToDo, InIo
  <2>5. \A q \in Callers : pc'[q] = "io_sleep" => InQueue(arg'[q])
    BY <1>1, <1>2, Zenon DEF IoInv
  <2>6. \A q \in Callers : pc'[q] = "io" => \/ InQueue(arg'[q])
                                            \/ buf'[arg'[q]].valid /\ ~buf'[arg'[q]].dirty
    BY <1>1, <1>2, <1>3, <2>1, SMTT(30) DEF IoInv, NothingToDo, InIo
  <2>. QED  BY <1>1, <2>2, <2>3, <2>4, <2>5, <2>6, QueueStep, Zenon
<1>. QED  BY <1>3, <1>4, <1>5, <1>6, <1>7, <1>8, Zenon

LEMMA LogWrite ==
  ASSUME Calm, NEW p \in Callers, NEW d \in Data, log_write(p, d)
  PROVE  Calm'
<1>. USE DEF Calm
<1>. DEFINE b == arg[p]
<1>1. /\ pc[p] = "held"
      /\ buf' = [buf EXCEPT ![arg[p]].data = d, ![arg[p]].dirty = TRUE]
      /\ latest' = [latest EXCEPT ![buf[arg[p]].block] = d]
      /\ UNCHANGED <<idequeue, drive, disk, driver, pc, arg>>
  BY Zenon DEF log_write
<1>2. /\ buf' \in [Bufs -> BufType] /\ latest' \in [Blocks -> Data]
      /\ b \in Bufs /\ b # NoBuf
      /\ buf'[b].valid /\ buf'[b].dirty
      /\ \A c \in Bufs : c # b => buf'[c] = buf[c]
      /\ \A c \in Bufs : /\ buf'[c].refcnt = buf[c].refcnt /\ buf'[c].block = buf[c].block
                         /\ buf'[c].pid = buf[c].pid /\ buf'[c].valid = buf[c].valid
      /\ DataInv'
  BY <1>1, Store, Zenon
<1>3. BcacheTypeOK'
  BY <1>1, <1>2, Zenon DEF BcacheTypeOK, BufType, Points, InIo
<1>4. Running'
  BY <1>1, Zenon DEF Running
<1>5. RefInv'
  BY <1>1, <1>2, <1>4, SameRefs, Zenon
<1>6. LockInv'
  <2>1. \A q \in Callers : Holds(q)' <=> Holds(q)
    BY <1>1, Zenon DEF Holds
  <2>2. \A q \in Callers : Holds(q) \/ pc[q] = "lock_sleep" => arg[q] \in Bufs
    BY ArgIsBuf, Zenon DEF Holds
  <2>. QED  BY <1>1, <1>2, <2>1, <2>2 DEF LockInv
<1>7. IoInv'
  <2>1. \A q \in Callers : q # p /\ pc[q] \in InIo \cup {"held"} => arg[q] # b /\ arg[q] \in Bufs
    BY <1>1, ArgIsBuf, Zenon DEF Holds, InIo
  <2>2. \A q \in Callers : pc[q] \in {"io_sleep", "io"} /\ InQueue(arg[q]) =>
            /\ pc'[q] \in {"io_sleep", "io"} /\ arg'[q] = arg[q]
            /\ buf'[arg[q]].valid = buf[arg[q]].valid /\ buf'[arg[q]].dirty = buf[arg[q]].dirty
    BY <1>1, <1>2, <2>1, Zenon DEF InIo
  <2>3. \A q \in Callers : pc'[q] = "held" => buf'[arg'[q]].valid
    BY <1>1, <1>2, <2>1, Zenon DEF IoInv
  <2>4. \A q \in Callers : pc'[q] = "iderw" => ~(buf'[arg'[q]].valid /\ ~buf'[arg'[q]].dirty)
    BY <1>1, <1>2, <2>1, SMTT(30) DEF IoInv, NothingToDo, InIo
  <2>5. \A q \in Callers : pc'[q] = "io_sleep" => InQueue(arg'[q])
    BY <1>1, Zenon DEF IoInv
  <2>6. \A q \in Callers : pc'[q] = "io" => \/ InQueue(arg'[q])
                                            \/ buf'[arg'[q]].valid /\ ~buf'[arg'[q]].dirty
    BY <1>1, <1>2, <2>1, SMTT(30) DEF IoInv, NothingToDo, InIo
  <2>. QED  BY <1>1, <2>2, <2>3, <2>4, <2>5, <2>6, QueueStep, Zenon
<1>. QED  BY <1>2, <1>3, <1>4, <1>5, <1>6, <1>7, Zenon

-----------------------------------------------------------------------------
(* brelse *)

LEMMA Releasesleep ==
  ASSUME Calm, NEW p \in Callers, releasesleep(p)
  PROVE  Calm'
<1>. USE DEF Calm
<1>. DEFINE b == arg[p]
<1>1. /\ pc[p] = "held" /\ pc' = [Wake(pc, "lock_sleep", arg[p], "lock") EXCEPT ![p] = "brelse"]
      /\ buf' = [buf EXCEPT ![arg[p]].pid = NoProc]
      /\ UNCHANGED <<idequeue, drive, disk, driver, arg, latest>>
  BY Zenon DEF releasesleep, holdingsleep, LockInv, Holds
<1>2. /\ \A q \in Callers : q # p /\ pc[q] = "lock_sleep" /\ arg[q] = b => pc'[q] = "lock"
      /\ \A q \in Callers : q # p /\ ~(pc[q] = "lock_sleep" /\ arg[q] = b) => pc'[q] = pc[q]
      /\ pc'[p] = "brelse" /\ pc' \in [Callers -> Points]
  BY <1>1, Zenon DEF BcacheTypeOK, Points, Wake
<1>3. b \in Bufs /\ buf[b] \in BufType
  BY <1>1, ArgIsBuf, Zenon
<1>4. [buf[b] EXCEPT !.pid = NoProc] \in BufType
  BY <1>3, Zenon DEF BufType
<1>5. /\ buf' \in [Bufs -> BufType]
      /\ \A c \in Bufs : c # b => buf'[c] = buf[c]
      /\ buf'[b].pid = NoProc
  BY <1>1, <1>3, <1>4, Zenon DEF BcacheTypeOK, BufType
<1>6. SameContents /\ \A c \in Bufs : buf'[c].refcnt = buf[c].refcnt
  BY <1>1, <1>3, Zenon DEF BcacheTypeOK, BufType, SameContents, SameFlags
<1>7. BcacheTypeOK'
  BY <1>1, <1>2, <1>5, Zenon DEF BcacheTypeOK, BufType, Points, InIo
<1>8. Running'
  BY <1>2, Zenon DEF Running
<1>9. RefInv'
  <2>1. \A q \in Callers : pc'[q] = "run" <=> pc[q] = "run"
    BY <1>1, <1>2, Zenon
  <2>. QED  BY <1>1, <1>6, <1>8, <2>1, SameRefs, Zenon DEF SameContents
<1>10. LockInv'
  <2>1. \A q \in Callers : (q # p /\ Holds(q)) <=> Holds(q)'
    BY <1>2, Zenon DEF Holds
  <2>2. \A q \in Callers : q # p /\ Holds(q) => arg[q] # b /\ arg[q] \in Bufs
    BY <1>1, ArgIsBuf, Zenon DEF Holds
  <2>3. \A q \in Callers : Holds(q)' => buf'[arg'[q]].pid = q
    BY <1>1, <1>5, <2>1, <2>2, Zenon DEF LockInv
  <2>4. ASSUME NEW c \in Bufs, NEW q \in Callers, buf'[c].pid = q
        PROVE  Holds(q)' /\ arg'[q] = c
    <3>1. c # b
      BY <1>5, <2>4, BcacheAssumption, Zenon
    <3>2. Holds(q) /\ arg[q] = c
      BY <1>5, <2>4, <3>1, Zenon DEF LockInv
    <3>3. q # p
      BY <3>1, <3>2, Zenon
    <3>. QED  BY <1>1, <2>1, <3>2, <3>3, Zenon
  <2>5. ASSUME NEW q \in Callers, pc'[q] = "lock_sleep"
        PROVE  buf'[arg'[q]].pid # NoProc
    <3>1. pc[q] = "lock_sleep" /\ arg[q] # b /\ arg[q] \in Bufs
      BY <1>2, <2>5, ArgIsBuf, Zenon
    <3>. QED  BY <1>1, <1>5, <3>1, Zenon DEF LockInv
  <2>. QED  BY <2>3, <2>4, <2>5, Zenon DEF LockInv
<1>11. IoInv'
  <2>1. \A q \in Callers : pc[q] # "run" => /\ buf'[arg[q]].valid = buf[arg[q]].valid
                                            /\ buf'[arg[q]].dirty = buf[arg[q]].dirty
    BY <1>6, ArgIsBuf, Zenon DEF SameContents, SameFlags
  <2>2. \A q \in Callers : pc[q] \in {"io_sleep", "io"} => pc'[q] = pc[q] /\ arg'[q] = arg[q]
    BY <1>1, <1>2, Zenon
  <2>3. \A q \in Callers : pc'[q] \in InIo \cup {"held"} => pc'[q] = pc[q] /\ arg'[q] = arg[q]
    BY <1>1, <1>2, Zenon DEF InIo
  <2>. QED  BY <1>1, <2>1, <2>2, <2>3, SameQueue, Zenon
<1>12. DataInv'
  BY <1>1, <1>6, SameData, Zenon
<1>. QED  BY <1>7, <1>8, <1>9, <1>10, <1>11, <1>12, Zenon

LEMMA Brelse ==
  ASSUME Calm, NEW p \in Callers, brelse(p)
  PROVE  Calm'
<1>. USE DEF Calm
<1>. DEFINE b == arg[p]
<1>1. /\ pc[p] = "brelse" /\ pc' = [pc EXCEPT ![p] = "run"]
      /\ arg' = [arg EXCEPT ![p] = NoBuf]
      /\ buf' = [buf EXCEPT ![arg[p]].refcnt = @ - 1]
      /\ UNCHANGED <<idequeue, drive, disk, driver, latest>>
  BY Zenon DEF brelse
<1>2. /\ \A q \in Callers : q # p => pc'[q] = pc[q] /\ arg'[q] = arg[q]
      /\ pc'[p] = "run" /\ pc' \in [Callers -> Points]
      /\ arg'[p] = NoBuf /\ arg' \in [Callers -> Bufs \cup {NoBuf}]
  BY <1>1, Zenon DEF BcacheTypeOK, Points
<1>3. b \in Bufs /\ buf[b] \in BufType /\ b # NoBuf
  BY <1>1, ArgIsBuf, BcacheAssumption, Zenon
<1>4. /\ IsFiniteSet(Users(b)) /\ p \in Users(b)
      /\ Cardinality(Users(b)) \in Nat
      /\ Cardinality(Users(b) \ {p}) = Cardinality(Users(b)) - 1
      /\ Cardinality(Users(b) \ {p}) \in Nat
  <2>1. IsFiniteSet(Users(b)) /\ p \in Users(b)
    BY FS_Subset, BcacheAssumption, Zenon DEF Users
  <2>2. IsFiniteSet(Users(b) \ {p}) /\ Cardinality(Users(b) \ {p}) = Cardinality(Users(b)) - 1
    BY <2>1, FS_RemoveElement, Zenon
  <2>. QED  BY <2>1, <2>2, FS_CardinalityType, Zenon
<1>5. buf[b].refcnt = Cardinality(Users(b))
  BY <1>3, Zenon DEF RefInv
<1>6. buf[b].refcnt - 1 = Cardinality(Users(b) \ {p}) /\ buf[b].refcnt - 1 \in Nat
  BY <1>4, <1>5, Zenon
<1>7. buf' = [buf EXCEPT ![b] = [buf[b] EXCEPT !.refcnt = buf[b].refcnt - 1]]
  BY <1>1, <1>3, Zenon DEF BcacheTypeOK, BufType
<1>8. [buf[b] EXCEPT !.refcnt = buf[b].refcnt - 1] \in BufType
  BY <1>3, <1>6, Zenon DEF BufType
<1>9. /\ buf' \in [Bufs -> BufType]
      /\ \A c \in Bufs : c # b => buf'[c] = buf[c]
      /\ buf'[b].refcnt = buf[b].refcnt - 1
  BY <1>3, <1>7, <1>8, Zenon DEF BcacheTypeOK, BufType
<1>10. SameContents /\ \A c \in Bufs : buf'[c].pid = buf[c].pid
  BY <1>3, <1>7, Zenon DEF BcacheTypeOK, BufType, SameContents, SameFlags
<1>11. BcacheTypeOK'
  BY <1>1, <1>2, <1>9, Zenon DEF BcacheTypeOK, BufType, Points, InIo
<1>12. Running'
  BY <1>2, Zenon DEF Running
<1>13. RefInv'
  <2>1. ASSUME NEW c \in Bufs, c # b PROVE Users(c)' = Users(c)
    BY <1>2, <2>1, BcacheAssumption, Zenon DEF Users
  <2>2. ASSUME NEW c \in Bufs, c = b PROVE Users(c)' = Users(c) \ {p}
    BY <1>2, <1>3, <2>2, Zenon DEF Users
  <2>3. ASSUME NEW c \in Bufs PROVE buf'[c].refcnt = Cardinality(Users(c)')
    <3>1. CASE c # b
      BY <1>9, <2>1, <3>1, Zenon DEF RefInv
    <3>2. CASE c = b
      BY <1>6, <1>9, <2>2, <3>2, Zenon
    <3>. QED  BY <3>1, <3>2, Zenon
  <2>4. \A q \in Callers : arg'[q] = NoBuf <=> pc'[q] \in {"run", "nobufs"}
    BY <1>1, <1>2, <1>12, Zenon DEF RefInv, Running
  <2>5. \A q \in Callers : arg'[q] # NoBuf => buf'[arg'[q]].block \in Blocks
    <3>. SUFFICES ASSUME NEW q \in Callers, arg'[q] # NoBuf PROVE buf'[arg'[q]].block \in Blocks
      BY Zenon
    <3>1. arg'[q] = arg[q] /\ arg[q] \in Bufs /\ buf[arg[q]].block \in Blocks
      BY <1>2, Zenon DEF RefInv, BcacheTypeOK
    <3>. QED  BY <1>10, <3>1, Zenon DEF SameContents
  <2>. QED  BY <2>3, <2>4, <2>5, Zenon DEF RefInv, Users
<1>14. LockInv'
  <2>1. \A q \in Callers : Holds(q)' <=> Holds(q)
    BY <1>1, <1>2, Zenon DEF Holds
  <2>2. \A q \in Callers : Holds(q) \/ pc[q] = "lock_sleep" => arg[q] \in Bufs /\ q # p
    BY <1>1, ArgIsBuf, Zenon DEF Holds
  <2>3. \A q \in Callers : Holds(q)' => buf'[arg'[q]].pid = q
    BY <1>2, <1>10, <2>1, <2>2, SMTT(30) DEF LockInv
  <2>4. \A c \in Bufs, q \in Callers : buf'[c].pid = q => Holds(q)' /\ arg'[q] = c
    BY <1>2, <1>10, <2>1, <2>2, SMTT(30) DEF LockInv
  <2>5. \A q \in Callers : pc'[q] = "lock_sleep" => buf'[arg'[q]].pid # NoProc
    BY <1>2, <1>10, <2>2 DEF LockInv
  <2>. QED  BY <2>3, <2>4, <2>5, Zenon DEF LockInv
<1>15. IoInv'
  <2>1. \A q \in Callers : pc[q] # "run" => /\ buf'[arg[q]].valid = buf[arg[q]].valid
                                            /\ buf'[arg[q]].dirty = buf[arg[q]].dirty
    BY <1>10, ArgIsBuf, Zenon DEF SameContents, SameFlags
  <2>2. \A q \in Callers : pc[q] \in {"io_sleep", "io"} => pc'[q] = pc[q] /\ arg'[q] = arg[q]
    BY <1>1, <1>2, Zenon
  <2>3. \A q \in Callers : pc'[q] \in InIo \cup {"held"} => pc'[q] = pc[q] /\ arg'[q] = arg[q]
    BY <1>1, <1>2, Zenon DEF InIo
  <2>. QED  BY <1>1, <2>1, <2>2, <2>3, SameQueue, Zenon
<1>16. DataInv'
  BY <1>1, <1>10, SameData, Zenon
<1>. QED  BY <1>11, <1>12, <1>13, <1>14, <1>15, <1>16, Zenon

-----------------------------------------------------------------------------

(* The drivers *)

LEMMA SameOwners ==
  ASSUME Calm, Running', UNCHANGED arg,
         \A c \in Bufs : /\ buf'[c].refcnt = buf[c].refcnt /\ buf'[c].block = buf[c].block
                         /\ buf'[c].pid = buf[c].pid,
         \A q \in Callers : pc'[q] = "run" <=> pc[q] = "run",
         \A q \in Callers : Holds(q)' <=> Holds(q),
         \A q \in Callers : pc'[q] = "lock_sleep" => pc[q] = "lock_sleep"
  PROVE  RefInv' /\ LockInv'
<1>1. \A q \in Callers : Holds(q) \/ pc[q] = "lock_sleep" => arg[q] \in Bufs
  BY ArgIsBuf, Zenon DEF Holds
<1>2. RefInv'
  BY SameRefs, Zenon DEF Calm
<1>. QED  BY <1>1, <1>2 DEF LockInv, Calm

(* Starting a write does not disturb the medium: it stores what the last   *)
(* holder of the block wrote.                                              *)
LEMMA Started ==
  ASSUME Calm, NEW b \in Bufs, buf[b].block \in Blocks,
         disk' = IF buf[b].dirty THEN [disk EXCEPT ![buf[b].block] = buf[b].data] ELSE disk
  PROVE  /\ disk' \in [Blocks -> Data]
         /\ \A k \in Blocks : disk'[k] = disk[k] \/ disk'[k] = latest[k]
         /\ buf[b].dirty => disk'[buf[b].block] = buf[b].data /\ buf[b].data = latest[buf[b].block]
<1>1. buf[b].dirty => buf[b].data = latest[buf[b].block] /\ latest[buf[b].block] \in Data
  BY Zenon DEF Calm, DataInv, BcacheTypeOK
<1>. QED  BY <1>1, Zenon DEF Calm, BcacheTypeOK

LEMMA IdeIderw ==
  ASSUME Calm, NEW p \in Callers, ide_iderw(p)
  PROVE  Calm'
<1>. USE DEF Calm
<1>1. PICK b \in Bufs : b = arg[p] /\ buf[b].block \in Blocks
  BY ArgIsBuf, Zenon DEF ide_iderw
<1>2. /\ pc[p] = "iderw" /\ driver = "ide" /\ ~NothingToDo(b) /\ buf[b].pid = p
      /\ idequeue' = Append(idequeue, b)
      /\ IF idequeue = <<>> THEN idestart(b) ELSE UNCHANGED <<drive, disk>>
      /\ pc' = [pc EXCEPT ![p] = "io_sleep"]
      /\ UNCHANGED <<buf, driver, arg, latest>>
  BY <1>1, Zenon DEF ide_iderw, holdingsleep, LockInv, Holds, IoInv
<1>3. /\ \A q \in Callers : q # p => pc'[q] = pc[q]
      /\ pc'[p] = "io_sleep" /\ pc' \in [Callers -> Points]
  BY <1>2, Zenon DEF BcacheTypeOK, Points, InIo
<1>4. /\ idequeue \in Seq(Bufs) /\ Len(idequeue) \in Nat
      /\ idequeue' \in Seq(Bufs) /\ Len(idequeue') = Len(idequeue) + 1 /\ idequeue' # <<>>
      /\ \A i \in 1..Len(idequeue) : idequeue'[i] = idequeue[i] /\ idequeue[i] # b
      /\ idequeue'[Len(idequeue) + 1] = b
  <2>1. \A i \in 1..Len(idequeue) : idequeue[i] # b
    BY <1>1, <1>2, HeldNotQueued, Zenon
  <2>. QED  BY <1>2, <2>1, SMTT(30) DEF BcacheTypeOK
<1>5. /\ disk' \in [Blocks -> Data]
      /\ \A k \in Blocks : disk'[k] = disk[k] \/ disk'[k] = latest[k]
      /\ idequeue = <<>> /\ buf[b].dirty => disk'[buf[b].block] = buf[b].data
  <2>1. CASE idequeue = <<>>
    BY <1>1, <1>2, <2>1, Started, Zenon DEF idestart
  <2>2. CASE idequeue # <<>>
    BY <1>2, <2>2, Zenon DEF BcacheTypeOK
  <2>. QED  BY <2>1, <2>2, Zenon
<1>6. drive' \in {"busy", "done"}
  <2>1. CASE idequeue = <<>>
    BY <1>2, <2>1, Zenon DEF idestart
  <2>2. CASE idequeue # <<>>
    BY <1>2, <2>2, Zenon DEF BcacheTypeOK, IoInv
  <2>. QED  BY <2>1, <2>2, Zenon
<1>7. BcacheTypeOK'
  BY <1>2, <1>3, <1>4, <1>5, <1>6, Zenon DEF BcacheTypeOK, BufType, Points, InIo
<1>8. Running'
  BY <1>3, Zenon DEF Running
<1>9. RefInv' /\ LockInv'
  <2>1. \A q \in Callers : Holds(q)' <=> Holds(q)
    BY <1>2, <1>3, Zenon DEF Holds
  <2>. QED  BY <1>2, <1>3, <1>8, <2>1, SameOwners, Zenon
<1>10. IoInv'
  <2>1. \A i \in 1..Len(idequeue') : idequeue'[i] = b \/ i \in 1..Len(idequeue)
    BY <1>4, SMTT(30)
  <2>2. \A q \in Callers : InQueue(arg[q]) => InQueue(arg[q])'
    BY <1>2, <1>4, SMTT(30) DEF InQueue
  <2>3. \A q \in Callers : pc'[q] = "io_sleep" => InQueue(arg[q])'
    <3>1. InQueue(arg[p])'
      BY <1>1, <1>2, <1>4 DEF InQueue
    <3>. QED  BY <1>3, <2>2, <3>1, Zenon DEF IoInv
  <2>4. \A q \in Callers : pc'[q] = "io" => InQueue(arg[q])' \/ NothingToDo(arg[q])'
    BY <1>2, <1>3, <2>2, SMTT(30) DEF IoInv, NothingToDo
  <2>5. \A q \in Callers : /\ pc'[q] = "held" => buf'[arg'[q]].valid
                           /\ pc'[q] = "iderw" => ~NothingToDo(arg[q])'
    BY <1>2, <1>3, SMTT(30) DEF IoInv, NothingToDo
  <2>6. \A i \in 1..Len(idequeue') : ~(buf'[idequeue'[i]].valid /\ ~buf'[idequeue'[i]].dirty)
    BY <1>2, <1>4, <2>1, SMTT(30) DEF IoInv, NothingToDo
  <2>7. ASSUME NEW i \in 1..Len(idequeue')
        PROVE  \E q \in Callers : arg'[q] = idequeue'[i] /\ pc'[q] \in {"io_sleep", "io"}
    <3>1. CASE idequeue'[i] = b
      BY <1>1, <1>2, <1>3, <3>1, Zenon
    <3>2. CASE i \in 1..Len(idequeue)
      <4>1. PICK q \in Callers : arg[q] = idequeue[i] /\ pc[q] \in {"io_sleep", "io"}
        BY <3>2, Zenon DEF IoInv
      <4>. QED  BY <1>2, <1>3, <1>4, <3>2, <4>1, Zenon
    <3>. QED  BY <2>1, <3>1, <3>2, Zenon
  <2>8. \A i, j \in 1..Len(idequeue') : idequeue'[i] = idequeue'[j] => i = j
    BY <1>4, <2>1, SMTT(30) DEF IoInv
  <2>9. drive' # "idle" /\ driver' # "memide"
    BY <1>2, <1>6, Zenon
  <2>. QED  BY <2>3, <2>4, <2>5, <2>6, <2>7, <2>8, <2>9, Zenon DEF IoInv, NothingToDo
<1>11. DataInv'
  <2>1. \A k \in Blocks : disk'[k] = latest[k] \/ \E c \in Bufs : buf[c].block = k /\ buf[c].dirty
    BY <1>5, Zenon DEF DataInv, Cached
  <2>2. buf[Head(idequeue')].dirty => disk'[buf[Head(idequeue')].block] = buf[Head(idequeue')].data
    <3>1. CASE idequeue = <<>>
      <4>1. Head(idequeue') = b
        BY <1>4, <3>1, SMTT(30)
      <4>. QED  BY <1>5, <3>1, <4>1, Zenon
    <3>2. CASE idequeue # <<>>
      <4>1. Head(idequeue') = Head(idequeue)
        BY <1>4, <3>2
      <4>. QED  BY <1>2, <3>2, <4>1, Zenon DEF DataInv
    <3>. QED  BY <3>1, <3>2, Zenon
  <2>. QED  BY <1>2, <1>4, <2>1, <2>2, Zenon DEF DataInv, Cached
<1>. QED  BY <1>7, <1>8, <1>9, <1>10, <1>11, Zenon

LEMMA IderwWait ==
  ASSUME Calm, NEW p \in Callers, iderw_wait(p)
  PROVE  Calm'
<1>. USE DEF Calm
<1>1. /\ pc[p] = "io" /\ pc' = [pc EXCEPT ![p] = IF NothingToDo(arg[p]) THEN "held" ELSE "io_sleep"]
      /\ UNCHANGED <<buf, idequeue, drive, disk, driver, arg, latest>>
  BY Zenon DEF iderw_wait
<1>2. /\ \A q \in Callers : q # p => pc'[q] = pc[q]
      /\ pc'[p] = IF NothingToDo(arg[p]) THEN "held" ELSE "io_sleep"
      /\ pc' \in [Callers -> Points]
  BY <1>1, Zenon DEF BcacheTypeOK, Points, InIo
<1>3. BcacheTypeOK'
  BY <1>1, <1>2, Zenon DEF BcacheTypeOK, BufType, Points, InIo
<1>4. Running'
  BY <1>2, Zenon DEF Running
<1>5. RefInv' /\ LockInv'
  <2>1. \A q \in Callers : Holds(q)' <=> Holds(q)
    BY <1>1, <1>2, Zenon DEF Holds
  <2>. QED  BY <1>1, <1>2, <1>4, <2>1, SameOwners, Zenon
<1>6. NothingToDo(arg[p]) => ~InQueue(arg[p])
  BY Zenon DEF InQueue, IoInv
<1>7. IoInv'
  <2>1. \A q \in Callers : pc[q] \in {"io_sleep", "io"} /\ InQueue(arg[q]) =>
            /\ pc'[q] \in {"io_sleep", "io"} /\ arg'[q] = arg[q]
            /\ buf'[arg[q]].valid = buf[arg[q]].valid /\ buf'[arg[q]].dirty = buf[arg[q]].dirty
    BY <1>1, <1>2, <1>6, Zenon
  <2>2. \A q \in Callers : pc'[q] = "held" => buf'[arg'[q]].valid
    BY <1>1, <1>2, SMTT(30) DEF IoInv, NothingToDo
  <2>3. \A q \in Callers : pc'[q] = "iderw" => ~(buf'[arg'[q]].valid /\ ~buf'[arg'[q]].dirty)
    BY <1>1, <1>2, SMTT(30) DEF IoInv, NothingToDo
  <2>4. \A q \in Callers : pc'[q] = "io_sleep" => InQueue(arg'[q])
    BY <1>1, <1>2, SMTT(30) DEF IoInv
  <2>5. \A q \in Callers : pc'[q] = "io" => \/ InQueue(arg'[q])
                                            \/ buf'[arg'[q]].valid /\ ~buf'[arg'[q]].dirty
    BY <1>1, <1>2, Zenon DEF IoInv, NothingToDo
  <2>. QED  BY <1>1, <2>1, <2>2, <2>3, <2>4, <2>5, QueueStep, Zenon
<1>8. DataInv'
  BY <1>1, SameData, Zenon DEF SameContents, SameFlags
<1>. QED  BY <1>3, <1>4, <1>5, <1>7, <1>8, Zenon

(* The driver has moved the data of buffer b: it is valid and clean, and   *)
(* the last contents of its block are on the medium.                       *)
LEMMA Transfer ==
  ASSUME Calm, NEW b \in Bufs, buf[b].block \in Blocks, NEW d \in Data \cup {Garbage},
         buf' = [buf EXCEPT ![b] = [buf[b] EXCEPT !.valid = TRUE, !.dirty = FALSE, !.data = d]],
         buf[b].dirty => d = buf[b].data /\ disk'[buf[b].block] = d,
         ~DiskErrors /\ ~buf[b].dirty => d = disk[buf[b].block],
         \A k \in Blocks : disk'[k] = disk[k] \/ disk'[k] = latest[k],
         UNCHANGED latest,
         idequeue' # <<>> => /\ Head(idequeue') \in Bufs /\ Head(idequeue') # b
                             /\ buf[Head(idequeue')].dirty =>
                                   disk'[buf[Head(idequeue')].block] = buf[Head(idequeue')].data
  PROVE  /\ buf' \in [Bufs -> BufType]
         /\ buf'[b].valid /\ ~buf'[b].dirty
         /\ \A c \in Bufs : c # b => buf'[c] = buf[c]
         /\ \A c \in Bufs : /\ buf'[c].refcnt = buf[c].refcnt /\ buf'[c].block = buf[c].block
                            /\ buf'[c].pid = buf[c].pid
         /\ DataInv'
<1>. USE DEF Calm
<1>1. buf[b] \in BufType
  BY Zenon DEF BcacheTypeOK
<1>2. [buf[b] EXCEPT !.valid = TRUE, !.dirty = FALSE, !.data = d] \in BufType
  BY <1>1, Zenon DEF BufType
<1>3. /\ buf' \in [Bufs -> BufType]
      /\ \A c \in Bufs : c # b => buf'[c] = buf[c]
      /\ buf'[b].valid /\ ~buf'[b].dirty /\ buf'[b].data = d
      /\ buf'[b].block = buf[b].block /\ buf'[b].refcnt = buf[b].refcnt /\ buf'[b].pid = buf[b].pid
  BY <1>1, <1>2, Zenon DEF BcacheTypeOK, BufType
<1>4. \A c \in Bufs : buf'[c].block = buf[c].block
  BY <1>3, Zenon
<1>5. \A c, e \in Bufs : buf'[c].block = buf'[e].block => c = e \/ buf'[c].block = NoBlock
  <2>1. \A c, e \in Bufs : buf[c].block = buf[e].block => c = e \/ buf[c].block = NoBlock
    BY Zenon DEF DataInv
  <2>. QED  BY ONLY <1>4, <2>1, Zenon
<1>6. \A c \in Bufs : buf'[c].dirty => buf'[c].valid /\ buf'[c].data = latest'[buf'[c].block]
  BY <1>3, Zenon DEF DataInv
<1>7. \A c \in Bufs : buf'[c].valid => buf'[c].block \in Blocks
  BY <1>3, Zenon DEF DataInv
<1>8. ASSUME NEW k \in Blocks
      PROVE  disk'[k] = latest'[k] \/ \E c \in Bufs : buf'[c].block = k /\ buf'[c].dirty
  <2>1. CASE disk[k] = latest[k]
    BY <2>1, Zenon
  <2>2. CASE disk[k] # latest[k]
    <3>1. PICK c \in Bufs : buf[c].block = k /\ buf[c].dirty
      BY <2>2, Zenon DEF DataInv, Cached
    <3>2. CASE c = b
      BY <3>1, <3>2, Zenon DEF DataInv
    <3>3. CASE c # b
      BY <1>3, <3>1, <3>3, Zenon
    <3>. QED  BY <3>2, <3>3, Zenon
  <2>. QED  BY <2>1, <2>2, Zenon
<1>9. idequeue' # <<>> /\ buf'[Head(idequeue')].dirty =>
         disk'[buf'[Head(idequeue')].block] = buf'[Head(idequeue')].data
  BY <1>3, Zenon
<1>10. DiskErrors \/ \A c \in Bufs : buf'[c].valid => buf'[c].data = latest'[buf'[c].block]
  <2>. SUFFICES ASSUME ~DiskErrors
                PROVE  \A c \in Bufs : buf'[c].valid => buf'[c].data = latest'[buf'[c].block]
    BY Zenon
  <2>1. \A c \in Bufs : buf[c].valid => buf[c].data = latest[buf[c].block]
    BY Zenon DEF DataInv
  <2>2. d = latest[buf[b].block]
    <3>1. CASE buf[b].dirty
      BY <3>1, Zenon DEF DataInv
    <3>2. CASE ~buf[b].dirty
      <4>1. \A c \in Bufs : buf[c].block = buf[b].block => c = b
        BY BcacheAssumption, Zenon DEF DataInv
      <4>2. disk[buf[b].block] = latest[buf[b].block]
        BY <3>2, <4>1, Zenon DEF DataInv, Cached
      <4>. QED  BY <3>2, <4>2, Zenon
    <3>. QED  BY <3>1, <3>2, Zenon
  <2>. QED  BY <1>3, <2>1, <2>2, Zenon
<1>11. DataInv'
  BY <1>5, <1>6, <1>7, <1>8, <1>9, <1>10, SMTT(30) DEF DataInv, Cached
<1>. QED  BY <1>3, <1>11, Zenon

LEMMA MemideIderw ==
  ASSUME Calm, NEW p \in Callers, memide_iderw(p)
  PROVE  Calm'
<1>. USE DEF Calm
<1>1. PICK b \in Bufs : b = arg[p] /\ buf[b].block \in Blocks /\ buf[b] \in BufType
  BY ArgIsBuf, Zenon DEF memide_iderw
<1>. DEFINE d == IF buf[b].dirty THEN buf[b].data ELSE disk[buf[b].block]
<1>2. /\ pc[p] = "iderw" /\ idequeue = <<>>
      /\ disk' = IF buf[b].dirty THEN [disk EXCEPT ![buf[b].block] = buf[b].data] ELSE disk
      /\ buf' = [buf EXCEPT ![b].valid = TRUE, ![b].dirty = FALSE,
                            ![b].data = IF buf[b].dirty THEN @ ELSE disk[buf[b].block]]
      /\ pc' = [pc EXCEPT ![p] = "held"]
      /\ UNCHANGED <<idequeue, drive, driver, arg, latest>>
  BY <1>1, Zenon DEF memide_iderw, holdingsleep, LockInv, Holds, IoInv
<1>3. buf' = [buf EXCEPT ![b] = [buf[b] EXCEPT !.valid = TRUE, !.dirty = FALSE, !.data = d]]
  BY <1>1, <1>2, Zenon DEF BcacheTypeOK, BufType
<1>4. d \in Data \cup {Garbage}
  BY <1>1, Zenon DEF BcacheTypeOK, BufType
<1>5. /\ disk' \in [Blocks -> Data]
      /\ \A k \in Blocks : disk'[k] = disk[k] \/ disk'[k] = latest[k]
      /\ buf[b].dirty => disk'[buf[b].block] = buf[b].data /\ buf[b].data = latest[buf[b].block]
  BY <1>1, <1>2, Started, Zenon
<1>6. /\ buf[b].dirty => d = buf[b].data /\ disk'[buf[b].block] = d
      /\ ~DiskErrors /\ ~buf[b].dirty => d = disk[buf[b].block]
      /\ idequeue' = <<>> /\ UNCHANGED latest
  BY <1>2, <1>5, Zenon
<1>. HIDE DEF d
<1>7. /\ buf' \in [Bufs -> BufType]
      /\ buf'[b].valid /\ ~buf'[b].dirty
      /\ \A c \in Bufs : c # b => buf'[c] = buf[c]
      /\ \A c \in Bufs : /\ buf'[c].refcnt = buf[c].refcnt /\ buf'[c].block = buf[c].block
                         /\ buf'[c].pid = buf[c].pid
      /\ DataInv'
  BY <1>1, <1>3, <1>4, <1>5, <1>6, Transfer, Zenon
<1>8. /\ \A q \in Callers : q # p => pc'[q] = pc[q]
      /\ pc'[p] = "held" /\ pc' \in [Callers -> Points]
  BY <1>2, Zenon DEF BcacheTypeOK, Points, InIo
<1>9. BcacheTypeOK'
  BY <1>2, <1>5, <1>7, <1>8, Zenon DEF BcacheTypeOK, BufType, Points, InIo
<1>10. Running'
  BY <1>8, Zenon DEF Running
<1>11. RefInv' /\ LockInv'
  <2>1. \A q \in Callers : Holds(q)' <=> Holds(q)
    BY <1>2, <1>8, Zenon DEF Holds
  <2>. QED  BY <1>2, <1>7, <1>8, <1>10, <2>1, SameOwners, Zenon
<1>12. \A q \in Callers : q # p /\ pc[q] \in InIo \cup {"held"} => arg[q] # b /\ arg[q] \in Bufs
  BY <1>1, <1>2, ArgIsBuf, Zenon DEF Holds, InIo
<1>13. IoInv'
  <2>1. \A q \in Callers : pc[q] \in {"io_sleep", "io"} /\ InQueue(arg[q]) =>
            /\ pc'[q] \in {"io_sleep", "io"} /\ arg'[q] = arg[q]
            /\ buf'[arg[q]].valid = buf[arg[q]].valid /\ buf'[arg[q]].dirty = buf[arg[q]].dirty
    <3>. SUFFICES ASSUME NEW q \in Callers, pc[q] \in {"io_sleep", "io"}
                  PROVE  /\ pc'[q] \in {"io_sleep", "io"} /\ arg'[q] = arg[q]
                         /\ buf'[arg[q]].valid = buf[arg[q]].valid
                         /\ buf'[arg[q]].dirty = buf[arg[q]].dirty
      BY Zenon
    <3>1. q # p
      BY <1>2, Zenon
    <3>2. arg[q] # b /\ arg[q] \in Bufs /\ pc'[q] = pc[q] /\ arg'[q] = arg[q]
      BY <1>2, <1>8, <1>12, <3>1, Zenon DEF InIo
    <3>. QED  BY <1>7, <3>2, Zenon
  <2>2. \A q \in Callers : pc'[q] = "held" => buf'[arg'[q]].valid
    BY <1>1, <1>2, <1>7, <1>8, <1>12, SMTT(30) DEF IoInv
  <2>3. \A q \in Callers : pc'[q] = "iderw" => ~(buf'[arg'[q]].valid /\ ~buf'[arg'[q]].dirty)
    BY <1>2, <1>7, <1>8, <1>12, SMTT(30) DEF IoInv, NothingToDo, InIo
  <2>4. \A q \in Callers : pc'[q] = "io_sleep" => InQueue(arg'[q])
    BY <1>2, <1>8, Zenon DEF IoInv
  <2>5. \A q \in Callers : pc'[q] = "io" => \/ InQueue(arg'[q])
                                            \/ buf'[arg'[q]].valid /\ ~buf'[arg'[q]].dirty
    BY <1>2, <1>7, <1>8, <1>12, SMTT(30) DEF IoInv, NothingToDo, InIo
  <2>. QED  BY <1>2, <2>1, <2>2, <2>3, <2>4, <2>5, QueueStep, Zenon
<1>. QED  BY <1>7, <1>9, <1>10, <1>11, <1>13, Zenon

LEMMA Sigcont ==
  ASSUME Calm, NEW p \in Callers, sigcont(p)
  PROVE  Calm'
<1>. USE DEF Calm
<1>1. /\ UNCHANGED <<buf, idequeue, drive, disk, driver, arg, latest>>
      /\ pc[p] \in {"lock_sleep", "io_sleep"}
  BY Zenon DEF sigcont
<1>2. /\ \A q \in Callers : q # p => pc'[q] = pc[q]
      /\ pc'[p] = IF pc[p] = "lock_sleep" THEN "lock" ELSE "io"
      /\ pc' \in [Callers -> Points]
  BY Zenon DEF sigcont, BcacheTypeOK, Points, InIo
<1>3. BcacheTypeOK'
  BY <1>1, <1>2, Zenon DEF BcacheTypeOK, BufType, Points, InIo
<1>4. Running'
  BY <1>2, Zenon DEF Running
<1>5. RefInv' /\ LockInv'
  <2>1. \A q \in Callers : Holds(q)' <=> Holds(q)
    BY <1>1, <1>2, Zenon DEF Holds
  <2>. QED  BY <1>1, <1>2, <1>4, <2>1, SameOwners, Zenon
<1>6. IoInv'
  <2>1. \A q \in Callers : pc[q] \in {"io_sleep", "io"} /\ InQueue(arg[q]) =>
            /\ pc'[q] \in {"io_sleep", "io"} /\ arg'[q] = arg[q]
            /\ buf'[arg[q]].valid = buf[arg[q]].valid /\ buf'[arg[q]].dirty = buf[arg[q]].dirty
    BY <1>1, <1>2, Zenon
  <2>2. \A q \in Callers : pc'[q] = "held" => buf'[arg'[q]].valid
    BY <1>1, <1>2, Zenon DEF IoInv
  <2>3. \A q \in Callers : pc'[q] = "iderw" => ~(buf'[arg'[q]].valid /\ ~buf'[arg'[q]].dirty)
    BY <1>1, <1>2, Zenon DEF IoInv, NothingToDo
  <2>4. \A q \in Callers : pc'[q] = "io_sleep" => InQueue(arg'[q])
    BY <1>1, <1>2, Zenon DEF IoInv
  <2>5. \A q \in Callers : pc'[q] = "io" => \/ InQueue(arg'[q])
                                            \/ buf'[arg'[q]].valid /\ ~buf'[arg'[q]].dirty
    <3>. SUFFICES ASSUME NEW q \in Callers, pc'[q] = "io"
                  PROVE  InQueue(arg'[q]) \/ (buf'[arg'[q]].valid /\ ~buf'[arg'[q]].dirty)
      BY Zenon
    <3>1. pc[q] \in {"io_sleep", "io"} /\ arg'[q] = arg[q]
      BY <1>1, <1>2, Zenon
    <3>2. InQueue(arg[q]) \/ NothingToDo(arg[q])
      BY <3>1, Zenon DEF IoInv
    <3>. QED  BY <1>1, <3>1, <3>2, Zenon DEF NothingToDo
  <2>. QED  BY <1>1, <2>1, <2>2, <2>3, <2>4, <2>5, QueueStep, Zenon
<1>7. DataInv'
  BY <1>1, SameData, Zenon DEF SameContents, SameFlags
<1>. QED  BY <1>3, <1>4, <1>5, <1>6, <1>7, Zenon

(* Only the drive moves: it is done, or its interrupt finds no request. *)
LEMMA DriveMoves ==
  ASSUME Calm, UNCHANGED <<buf, idequeue, disk, driver, pc, arg, latest>>,
         drive' \in {"idle", "busy", "done"}, idequeue # <<>> => drive' # "idle"
  PROVE  Calm'
<1>. USE DEF Calm
<1>1. BcacheTypeOK'
  BY Zenon DEF BcacheTypeOK, BufType, Points, InIo
<1>2. Running'
  BY Zenon DEF Running
<1>3. RefInv' /\ LockInv'
  BY <1>2, SameOwners, Zenon DEF Holds
<1>4. IoInv'
  BY DEF IoInv, InQueue, NothingToDo
<1>5. DataInv'
  BY SameData, Zenon DEF SameContents, SameFlags
<1>. QED  BY <1>1, <1>2, <1>3, <1>4, <1>5, Zenon

LEMMA IdeintrMoves ==
  ASSUME Calm, ideintr, idequeue # <<>>
  PROVE  Calm'
<1>. USE DEF Calm
<1>1. PICK b \in Bufs : b = Head(idequeue) /\ b = idequeue[1]
  BY DEF BcacheTypeOK
<1>2. PICK m \in Moved(b) : buf' = [buf EXCEPT ![b] = m]
  BY <1>1, Zenon DEF ideintr
<1>3. /\ idequeue' = Tail(idequeue) /\ pc' = Wake(pc, "io_sleep", b, "io")
      /\ restart(Tail(idequeue)) /\ UNCHANGED <<driver, arg, latest>>
  BY <1>1, Zenon DEF ideintr
<1>4. /\ idequeue' \in Seq(Bufs) /\ Len(idequeue) \in Nat /\ Len(idequeue) >= 1
      /\ Len(idequeue') = Len(idequeue) - 1
      /\ \A i \in 1..Len(idequeue') : /\ i + 1 \in 1..Len(idequeue) /\ idequeue'[i] = idequeue[i + 1]
                                      /\ idequeue'[i] \in Bufs
      /\ \A i \in 1..Len(idequeue) : i # 1 => i - 1 \in 1..Len(idequeue') /\ idequeue'[i - 1] = idequeue[i]
  <2>1. idequeue \in Seq(Bufs) /\ idequeue # <<>>
    BY Zenon DEF BcacheTypeOK
  <2>2. /\ idequeue' \in Seq(Bufs) /\ Len(idequeue) \in Nat /\ Len(idequeue) >= 1
        /\ Len(idequeue') = Len(idequeue) - 1
        /\ \A i \in 1..Len(idequeue') : idequeue'[i] = idequeue[i + 1]
    BY ONLY <1>3, <2>1
  <2>3. \A i \in 1..Len(idequeue') : i + 1 \in 1..Len(idequeue) /\ idequeue'[i] \in Bufs
    BY ONLY <2>2
  <2>4. ASSUME NEW i \in 1..Len(idequeue), i # 1
        PROVE  i - 1 \in 1..Len(idequeue') /\ idequeue'[i - 1] = idequeue[i]
    <3>1. i - 1 \in 1..Len(idequeue') /\ (i - 1) + 1 = i
      BY <2>2, <2>4
    <3>2. idequeue'[i - 1] = idequeue[(i - 1) + 1]
      BY <2>2, <3>1, Zenon
    <3>. QED  BY <3>1, <3>2, Zenon
  <2>. QED  BY <2>2, <2>3, <2>4, Zenon
<1>5. \A i \in 1..Len(idequeue') : idequeue'[i] # b
  BY <1>1, <1>4, SMTT(30) DEF IoInv
<1>6. PICK w \in Callers : arg[w] = b /\ pc[w] \in {"io_sleep", "io"}
  BY <1>1, <1>4, SMTT(30) DEF IoInv
<1>7. buf[b].block \in Blocks /\ buf[b] \in BufType
  BY <1>6, ArgIsBuf, Zenon
<1>8. /\ \A q \in Callers : pc[q] = "io_sleep" /\ arg[q] = b => pc'[q] = "io"
      /\ \A q \in Callers : ~(pc[q] = "io_sleep" /\ arg[q] = b) => pc'[q] = pc[q]
      /\ pc' \in [Callers -> Points]
  BY <1>3, Zenon DEF BcacheTypeOK, Points, InIo, Wake
<1>9. /\ disk' \in [Blocks -> Data] /\ drive' \in {"idle", "busy"}
      /\ \A k \in Blocks : disk'[k] = disk[k] \/ disk'[k] = latest[k]
      /\ idequeue' # <<>> => /\ Head(idequeue') \in Bufs /\ Head(idequeue') # b /\ drive' = "busy"
                             /\ buf[Head(idequeue')].dirty =>
                                   disk'[buf[Head(idequeue')].block] = buf[Head(idequeue')].data
  <2>1. CASE idequeue' = <<>>
    BY <1>3, <2>1, Zenon DEF restart, BcacheTypeOK
  <2>2. CASE idequeue' # <<>>
    <3>1. PICK c \in Bufs : c = Head(idequeue') /\ c = idequeue'[1] /\ 1 \in 1..Len(idequeue')
      BY <1>4, <2>2, SMTT(30)
    <3>2. PICK q \in Callers : arg[q] = c /\ pc[q] \in {"io_sleep", "io"}
      BY <1>4, <3>1, SMTT(30) DEF IoInv
    <3>3. buf[c].block \in Blocks
      BY <3>2, ArgIsBuf, Zenon
    <3>4. drive' = "busy" /\ disk' = IF buf[c].dirty THEN [disk EXCEPT ![buf[c].block] = buf[c].data]
                                     ELSE disk
      BY <1>3, <2>2, <3>1, Zenon DEF restart, idestart
    <3>. QED  BY <1>5, <3>1, <3>3, <3>4, Started, Zenon
  <2>. QED  BY <2>1, <2>2, Zenon
<1>10. PICK err \in (IF DiskErrors THEN BOOLEAN ELSE {FALSE}) :
          m = [buf[b] EXCEPT !.valid = TRUE, !.dirty = FALSE,
                             !.data = IF buf[b].dirty \/ err THEN @ ELSE disk[buf[b].block]]
  BY Zenon DEF Moved
<1>. DEFINE d == IF buf[b].dirty \/ err THEN buf[b].data ELSE disk[buf[b].block]
<1>11. m = [buf[b] EXCEPT !.valid = TRUE, !.dirty = FALSE, !.data = d]
  BY <1>7, <1>10, Zenon DEF BufType
<1>12. d \in Data \cup {Garbage}
  BY <1>7, Zenon DEF BcacheTypeOK, BufType
<1>13. /\ buf[b].dirty => d = buf[b].data /\ disk'[buf[b].block] = d
       /\ ~DiskErrors /\ ~buf[b].dirty => d = disk[buf[b].block]
  <2>1. buf[b].dirty => disk[buf[b].block] = buf[b].data /\ buf[b].data = latest[buf[b].block]
    BY <1>1, Zenon DEF DataInv
  <2>2. buf[b].dirty => disk'[buf[b].block] = buf[b].data
    BY <1>7, <1>9, <2>1, Zenon
  <2>3. ~DiskErrors => ~err
    BY <1>10, Zenon
  <2>. QED  BY <2>2, <2>3, Zenon
<1>. HIDE DEF d
<1>14. /\ buf' \in [Bufs -> BufType]
       /\ buf'[b].valid /\ ~buf'[b].dirty
       /\ \A c \in Bufs : c # b => buf'[c] = buf[c]
       /\ \A c \in Bufs : /\ buf'[c].refcnt = buf[c].refcnt /\ buf'[c].block = buf[c].block
                          /\ buf'[c].pid = buf[c].pid
       /\ DataInv'
  <2>1. buf' = [buf EXCEPT ![b] = [buf[b] EXCEPT !.valid = TRUE, !.dirty = FALSE, !.data = d]]
    BY <1>2, <1>11, Zenon
  <2>. QED  BY <1>3, <1>7, <1>9, <1>12, <1>13, <2>1, Transfer, Zenon
<1>15. BcacheTypeOK'
  BY <1>3, <1>4, <1>8, <1>9, <1>14, Zenon DEF BcacheTypeOK, BufType, Points, InIo
<1>16. Running'
  BY <1>8, Zenon DEF Running
<1>17. RefInv' /\ LockInv'
  <2>1. \A q \in Callers : Holds(q)' <=> Holds(q)
    BY <1>3, <1>8, Zenon DEF Holds
  <2>. QED  BY <1>3, <1>8, <1>14, <1>16, <2>1, SameOwners, Zenon
<1>18. IoInv'
  <2>1. \A q \in Callers : pc[q] \in {"held", "iderw"} => arg[q] # b /\ arg[q] \in Bufs
    BY <1>1, <1>4, HeldNotQueued, ArgIsBuf
  <2>2. ASSUME NEW q \in Callers, InQueue(arg[q]), arg[q] # b PROVE InQueue(arg[q])'
    <3>1. PICK i \in 1..Len(idequeue) : idequeue[i] = arg[q]
      BY <2>2, Zenon DEF InQueue
    <3>2. i - 1 \in 1..Len(idequeue') /\ idequeue'[i - 1] = arg[q]
      BY <1>1, <1>4, <2>2, <3>1, Zenon
    <3>. QED  BY <1>3, <3>2, Zenon DEF InQueue
  <2>3. \A q \in Callers : /\ pc'[q] = "held" => buf'[arg'[q]].valid
                           /\ pc'[q] = "iderw" => ~(buf'[arg'[q]].valid /\ ~buf'[arg'[q]].dirty)
    <3>. SUFFICES ASSUME NEW q \in Callers, pc'[q] \in {"held", "iderw"}
                  PROVE  /\ pc'[q] = "held" => buf'[arg'[q]].valid
                         /\ pc'[q] = "iderw" => ~(buf'[arg'[q]].valid /\ ~buf'[arg'[q]].dirty)
      BY Zenon
    <3>1. pc'[q] = pc[q]
      BY <1>8, Zenon
    <3>2. arg[q] # b /\ arg[q] \in Bufs /\ arg'[q] = arg[q]
      BY <1>3, <2>1, <3>1, Zenon
    <3>3. buf'[arg[q]] = buf[arg[q]]
      BY <1>14, <3>2, Zenon
    <3>4. (pc[q] = "held" => buf[arg[q]].valid) /\ (pc[q] = "iderw" => ~NothingToDo(arg[q]))
      BY Zenon DEF IoInv
    <3>. QED  BY <3>1, <3>2, <3>3, <3>4, Zenon DEF NothingToDo
  <2>4. \A q \in Callers : pc'[q] = "io_sleep" => InQueue(arg[q])'
    BY <1>8, <2>2, Zenon DEF IoInv
  <2>5. ASSUME NEW q \in Callers, pc'[q] = "io"
        PROVE  InQueue(arg[q])' \/ (buf'[arg'[q]].valid /\ ~buf'[arg'[q]].dirty)
    <3>1. CASE arg[q] = b
      BY <1>3, <1>14, <3>1, Zenon
    <3>2. CASE arg[q] # b
      <4>1. pc[q] = "io" /\ arg[q] \in Bufs
        BY <1>8, <2>5, <3>2, ArgIsBuf, Zenon
      <4>2. InQueue(arg[q]) \/ NothingToDo(arg[q])
        BY <4>1, Zenon DEF IoInv
      <4>. QED  BY <1>3, <1>14, <2>2, <3>2, <4>1, <4>2, Zenon DEF NothingToDo
    <3>. QED  BY <3>1, <3>2, Zenon
  <2>6. ASSUME NEW i \in 1..Len(idequeue')
        PROVE  ~(buf'[idequeue'[i]].valid /\ ~buf'[idequeue'[i]].dirty)
    <3>1. i + 1 \in 1..Len(idequeue) /\ idequeue'[i] = idequeue[i + 1] /\ idequeue'[i] \in Bufs
      BY <1>4, Zenon
    <3>2. ~NothingToDo(idequeue[i + 1])
      BY <3>1, Zenon DEF IoInv
    <3>3. buf'[idequeue'[i]] = buf[idequeue'[i]]
      BY <1>5, <1>14, <3>1, Zenon
    <3>. QED  BY <3>1, <3>2, <3>3, Zenon DEF NothingToDo
  <2>7. ASSUME NEW i \in 1..Len(idequeue')
        PROVE  \E q \in Callers : arg'[q] = idequeue'[i] /\ pc'[q] \in {"io_sleep", "io"}
    <3>1. PICK q \in Callers : arg[q] = idequeue[i + 1] /\ pc[q] \in {"io_sleep", "io"}
      BY <1>4, Zenon DEF IoInv
    <3>. QED  BY <1>3, <1>4, <1>5, <1>8, <3>1, Zenon
  <2>8. \A i, j \in 1..Len(idequeue') : idequeue'[i] = idequeue'[j] => i = j
    <3>. SUFFICES ASSUME NEW i \in 1..Len(idequeue'), NEW j \in 1..Len(idequeue'),
                         idequeue'[i] = idequeue'[j]
                  PROVE  i = j
      BY Zenon
    <3>1. i + 1 = j + 1
      BY <1>4, SMTT(30) DEF IoInv
    <3>. QED  BY <1>4, <3>1
  <2>9. (idequeue' # <<>> => drive' # "idle") /\ (driver' = "memide" => idequeue' = <<>>)
    BY <1>3, <1>9, Zenon DEF IoInv
  <2>. QED  BY <2>3, <2>4, <2>5, <2>6, <2>7, <2>8, <2>9, Zenon DEF IoInv, NothingToDo
<1>. QED  BY <1>14, <1>15, <1>16, <1>17, <1>18, Zenon

-----------------------------------------------------------------------------
(* The invariant and what follows from it *)

LEMMA SameState ==
  ASSUME BInv, UNCHANGED vars
  PROVE  BInv'
<1>1. BcacheTypeOK' /\ PanicOnlyFull'
  BY DEF vars, BInv, BcacheTypeOK, PanicOnlyFull, Running
<1>2. RefInv'
  <2>1. \A b \in Bufs : Users(b)' = Users(b)
    BY Zenon DEF vars, Users
  <2>. QED  BY <2>1, Zenon DEF vars, BInv, RefInv
<1>3. LockInv'
  BY DEF vars, BInv, LockInv, Holds
<1>4. IoInv'
  BY DEF vars, BInv, IoInv, NothingToDo, InQueue
<1>5. DataInv'
  BY Zenon DEF vars, BInv, DataInv, Cached
<1>. QED  BY <1>1, <1>2, <1>3, <1>4, <1>5, Zenon DEF BInv

LEMMA NextBInv == BInv /\ [Next]_vars => BInv'
<1>. SUFFICES ASSUME BInv, [Next]_vars PROVE BInv'
  BY Zenon
<1>1. ASSUME NEW p \in Callers, NEW k \in Blocks, bget(p, k) PROVE BInv'
  BY <1>1, Bget, CalmIsInv, Zenon DEF bget
<1>2. ASSUME NEW p \in Callers, NEW d \in Data, bwrite(p, d) \/ log_write(p, d) PROVE BInv'
  <2>1. Calm
    BY <1>2, CalmIsInv, Zenon DEF bwrite, log_write
  <2>. QED  BY <1>2, <2>1, Bwrite, LogWrite, CalmNext, Zenon
<1>3. ASSUME NEW p \in Callers, bread(p) PROVE BInv'
  <2>1. Calm
    BY <1>3, CalmIsInv, Zenon DEF bread
  <2>. QED  BY <1>3, <2>1, BreadSleep, BreadAcquire, CalmNext, Zenon
<1>4. ASSUME NEW p \in Callers, releasesleep(p) \/ brelse(p) PROVE BInv'
  <2>1. Calm
    BY <1>4, CalmIsInv, Zenon DEF releasesleep, brelse
  <2>. QED  BY <1>4, <2>1, Releasesleep, Brelse, CalmNext, Zenon
<1>5. ASSUME NEW p \in Callers, ide_iderw(p) \/ iderw_wait(p) \/ memide_iderw(p) \/ sigcont(p)
      PROVE  BInv'
  <2>1. Calm
    BY <1>5, CalmIsInv, Zenon DEF ide_iderw, iderw_wait, memide_iderw, sigcont
  <2>. QED  BY <1>5, <2>1, IdeIderw, IderwWait, MemideIderw, Sigcont, CalmNext, Zenon
<1>6. CASE drive_done
  <2>1. Calm
    BY <1>6, CalmIsInv, Zenon DEF drive_done
  <2>. QED  BY <1>6, <2>1, DriveMoves, CalmNext, Zenon DEF drive_done
<1>7. CASE ideintr
  <2>1. Calm
    BY <1>7, CalmIsInv, Zenon DEF ideintr
  <2>2. CASE idequeue = <<>>
    BY <1>7, <2>1, <2>2, DriveMoves, CalmNext, Zenon DEF ideintr
  <2>. QED  BY <1>7, <2>1, <2>2, IdeintrMoves, CalmNext, Zenon
<1>8. CASE UNCHANGED vars
  BY <1>8, SameState, Zenon
<1>. QED  BY <1>1, <1>2, <1>3, <1>4, <1>5, <1>6, <1>7, <1>8, Zenon DEF Next, panic

(* BInv holds in every reachable state of the buffer cache and its driver, *)
(* for any number of processes, buffers and blocks: reference counts,      *)
(* sleep locks, the driver's queue and the contents of buffers and medium  *)
(* agree whatever bget, brelse, iderw and ideintr do.                      *)
THEOREM BcacheInvariance == Spec => []BInv
BY InitBInv, NextBInv, PTL DEF Spec

(* bget panics for want of buffers only with every buffer referred to by  *)
(* a process or dirty, however the processes nest their reads and however  *)
(* few buffers there are; the tests of bwrite, brelse and iderw never do.  *)
THEOREM BcachePanicsOnlyFull == Spec => []PanicOnlyFull
<1>1. BInv => PanicOnlyFull
  BY Zenon DEF BInv
<1>. QED  BY <1>1, BcacheInvariance, PTL

(* No wakeup of releasesleep or ideintr is lost: a sleeper on a sleep lock *)
(* has a holder to wait for, a sleeper in iderw has its buffer queued once *)
(* and the drive works while the queue is not empty.                       *)
THEOREM BcacheNoLostWakeup == Spec => []NoLostIoWakeup
<1>1. ASSUME BInv PROVE NoLostIoWakeup
  <2>. USE <1>1 DEF BInv
  <2>1. ASSUME NEW p \in Callers, pc[p] = "lock_sleep"
        PROVE  \E q \in Callers \ {p} : arg[q] = arg[p] /\ Holds(q)
    <3>1. arg[p] \in Bufs /\ buf[arg[p]].pid # NoProc /\ buf[arg[p]] \in BufType
      BY <2>1, UserHasBuf, Zenon DEF LockInv
    <3>2. PICK q \in Callers : buf[arg[p]].pid = q
      BY <3>1, Zenon DEF BufType
    <3>3. Holds(q) /\ arg[q] = arg[p]
      BY <3>1, <3>2, Zenon DEF LockInv
    <3>. QED  BY <2>1, <3>3, Zenon DEF Holds
  <2>2. ASSUME NEW p \in Callers, pc[p] = "io_sleep"
        PROVE  Cardinality({i \in DOMAIN idequeue : idequeue[i] = arg[p]}) = 1
    <3>1. PICK i \in 1..Len(idequeue) : idequeue[i] = arg[p]
      BY <2>2, Zenon DEF IoInv, InQueue
    <3>2. DOMAIN idequeue = 1..Len(idequeue)
      BY SMTT(30) DEF BcacheTypeOK
    <3>3. \A j \in 1..Len(idequeue) : idequeue[j] = idequeue[i] => j = i
      BY Zenon DEF IoInv
    <3>4. {j \in DOMAIN idequeue : idequeue[j] = arg[p]} = {i}
      BY <3>1, <3>2, <3>3, Zenon
    <3>. QED  BY <3>4, FS_Singleton, Zenon
  <2>. QED  BY <2>1, <2>2, Zenon DEF NoLostIoWakeup, IoInv
<1>. QED  BY <1>1, BcacheInvariance, PTL

(* A buffer that bread returned is locked, stands alone for its block and  *)
(* holds what was last stored there, through any number of evictions and   *)
(* re-reads, while no read of the drive fails: a failed one is ignored by  *)
(* ideintr.                                                                *)
THEOREM BreadReturnsLatest == ~DiskErrors => (Spec => []BreadContents)
<1>1. ASSUME BInv, ~DiskErrors PROVE BreadContents
  <2>. USE <1>1 DEF BInv
  <2>. SUFFICES ASSUME NEW p \in Callers, pc[p] = "held"
                PROVE  /\ buf[arg[p]].pid = p /\ buf[arg[p]].data = latest[buf[arg[p]].block]
                       /\ Cached(buf[arg[p]].block) = {arg[p]}
                       /\ \A q \in Callers \ {p} : Holds(q) => arg[q] # arg[p]
    BY Zenon DEF BreadContents
  <2>1. arg[p] \in Bufs /\ buf[arg[p]].block \in Blocks /\ Holds(p)
    BY UserHasBuf, Zenon DEF Holds
  <2>2. buf[arg[p]].pid = p /\ \A q \in Callers \ {p} : Holds(q) => arg[q] # arg[p]
    BY <2>1, Zenon DEF LockInv
  <2>3. buf[arg[p]].data = latest[buf[arg[p]].block]
    BY <2>1, Zenon DEF IoInv, DataInv
  <2>4. Cached(buf[arg[p]].block) = {arg[p]}
    BY <2>1, BcacheAssumption, Zenon DEF DataInv, Cached
  <2>. QED  BY <2>2, <2>3, <2>4, Zenon
<1>. SUFFICES ASSUME ~DiskErrors PROVE Spec => []BreadContents
  BY Zenon
<1>2. BInv => BreadContents
  BY <1>1, Zenon
<1>. QED  BY <1>2, BcacheInvariance, PTL

=============================================================================
