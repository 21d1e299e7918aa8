--------------------------------- MODULE Fs ---------------------------------
(***************************************************************************)
(* The name space of the file system: inodes, the inode cache, directories *)
(* and path names (fs.c) under the system calls that change them           *)
(* (sysfile.c).  A step is what a process does while it holds one more     *)
(* inode lock, or one update of ip->ref under icache.lock; a process keeps *)
(* the locks the code keeps from one step to the next.  A process's `todo` *)
(* is the rest of its system call, as a sequence of such steps.  Changes   *)
(* reach the disk by the transactions of log.c: after a crash the inodes   *)
(* are as they were when no call was under way (module Log).               *)
(***************************************************************************)
EXTENDS Naturals, FiniteSets, Sequences

CONSTANTS Procs,     \* the processes
          NINODES,   \* sb.ninodes - 1: inodes are 1 .. NINODES, 0 is a free directory entry
          NINODE,    \* how many entries icache has
          Names,     \* the file names, without "." and ".."
          Starts,    \* what the machine boots with: a disk, and the calls its programs make
          MaxCalls,  \* how many each process makes (a bound)
          MaxCrashes \* how many crashes there are (a bound)

ROOTINO == 1
Inodes == 1 .. NINODES

ASSUME FsAssumption ==
    /\ NINODES \in Nat \ {0} /\ NINODE \in Nat /\ IsFiniteSet(Procs)
    /\ {".", ".."} \cap Names = {} /\ MaxCalls \in Nat /\ MaxCrashes \in Nat

VARIABLES dinode,   \* the inodes, in the buffer cache
          stable,   \* the inodes as last committed
          ref,      \* ip->ref of the cache entry of an inode
          valid,    \* ip->valid
          lock,     \* who holds ip->lock, or 0
          cwd, fd,  \* p->cwd and the inode of an open file, 0 for none
          todo,     \* the steps left of p's system call
          r,        \* its local variables: the call, path, name, ip, dp
          start,    \* the member of Starts
          calls, crashes, panicked,
          strayed   \* history: a process went up from a directory that had been removed

past == <<start, crashes>>
vars == <<dinode, stable, ref, valid, lock, cwd, fd, todo, r, past, calls, panicked, strayed>>

unchanged == <<stable, cwd, fd, calls, past>>

Free == [type |-> "none", nlink |-> 0, up |-> 0, ent |-> [n \in Names |-> 0]]
Root == [Free EXCEPT !.type = "dir", !.nlink = 1, !.up = ROOTINO]
Idle == [call |-> <<>>, path |-> <<>>, name |-> ".", ip |-> 0, dp |-> 0, old |-> 0]

\* The disk as mkfs leaves it.
Fresh == [i \in Inodes |-> IF i = ROOTINO THEN Root ELSE Free]

Init == /\ start \in Starts /\ dinode = start.disk
        /\ stable = dinode
        /\ ref = [i \in Inodes |-> IF i = ROOTINO THEN Cardinality(Procs) ELSE 0]
        /\ valid = [i \in Inodes |-> FALSE] /\ lock = [i \in Inodes |-> 0]
        /\ cwd = [p \in Procs |-> ROOTINO] /\ fd = [p \in Procs |-> 0]
        /\ todo = [p \in Procs |-> <<>>] /\ r = [p \in Procs |-> Idle]
        /\ calls = [p \in Procs |-> 0] /\ crashes = 0 /\ panicked = FALSE
        /\ strayed = FALSE

\* Steps of a call, as they stand in todo.
Do(s) == <<[o |-> s, i |-> 0]>>
iunlock(i) == <<[o |-> "iunlock", i |-> i]>>
iput(i) == <<[o |-> "iput", i |-> i], [o |-> "ref--", i |-> i]>>
iunlockput(i) == iunlock(i) \o iput(i)

On(p, s) == ~panicked /\ todo[p] # <<>> /\ todo[p][1].o = s
Rest(p) == Tail(todo[p])
Go(p, steps) == todo' = [todo EXCEPT ![p] = steps]

\* acquiresleep waits for the lock; the first holder reads the inode, which must be there.
CanLock(i) == lock[i] = 0
Typeless(i) == ~valid[i] /\ dinode[i].type = "none"
Panic == panicked' = TRUE

\* iget and idup: an entry that was free is taken over and not valid.
ref_up(i) == [ref EXCEPT ![i] = @ + 1]
NoEntry(i) == ref[i] = 0 /\ Cardinality({j \in Inodes : ref[j] > 0}) >= NINODE

dirlookup(d, n) == CASE n = "." -> d
                     [] n = ".." -> dinode[d].up
                     [] OTHER -> dinode[d].ent[n]

\* The directory entries that name an inode.
Named(i) == {e \in Inodes \X Names : dinode[e[1]].type = "dir" /\ dinode[e[1]].ent[e[2]] = i}

\* A removed directory keeps its "..", which counts no more as a link of where it leads.
Stray(d, n) == strayed' = (strayed \/ (n = ".." /\ d # ROOTINO /\ Named(d) = {}))

-----------------------------------------------------------------------------
(***************************************************************************)
(* iput and iunlock                                                        *)
(***************************************************************************)

iunlock_step(p) == LET i == todo[p][1].i IN
    /\ On(p, "iunlock")
    /\ lock' = [lock EXCEPT ![i] = 0] /\ Go(p, Rest(p))
    /\ UNCHANGED <<dinode, stable, ref, valid, cwd, fd, r, calls, past, panicked, strayed>>

last_reference_any(i) == TRUE

last_reference(i) == ref[i] = 1

\* iput up to releasesleep: the last reference to an inode without links frees it.
iput_check(p) == LET i == todo[p][1].i IN
    /\ On(p, "iput") /\ CanLock(i)
    /\ IF valid[i] /\ dinode[i].nlink = 0 /\ last_reference(i)
       THEN dinode' = [dinode EXCEPT ![i] = Free] /\ valid' = [valid EXCEPT ![i] = FALSE]
       ELSE UNCHANGED <<dinode, valid>>
    /\ Go(p, Rest(p))
    /\ UNCHANGED <<stable, ref, lock, cwd, fd, r, calls, past, panicked, strayed>>

\* The rest of iput: ip->ref-- under icache.lock, after the sleep lock was released.
iput_drop(p) == LET i == todo[p][1].i IN
    /\ On(p, "ref--")
    /\ ref' = [ref EXCEPT ![i] = @ - 1]
    /\ valid' = [valid EXCEPT ![i] = @ /\ ref[i] > 1]
    /\ Go(p, Rest(p))
    /\ UNCHANGED <<dinode, stable, lock, cwd, fd, r, calls, past, panicked, strayed>>

-----------------------------------------------------------------------------
(***************************************************************************)
(* namex.  r[p].ip is ip, r[p].path the elements skipelem has left; the    *)
(* step "namei" or "nameiparent" is one turn of the loop.                  *)
(***************************************************************************)

\* begin_op, and namex up to its loop: "/" starts at the root, else at the cwd.
begin(p, c) == LET i == IF c.abs THEN ROOTINO ELSE cwd[p] IN
    /\ todo[p] = <<>> /\ ~panicked /\ calls[p] < MaxCalls
    /\ calls' = [calls EXCEPT ![p] = @ + 1]
    /\ panicked' = NoEntry(i)
    /\ ref' = ref_up(i)
    /\ r' = [r EXCEPT ![p] = [Idle EXCEPT !.call = c, !.path = c.path, !.ip = i]]
    /\ Go(p, Do(IF c.op \in {"unlink", "mkdir", "mknod", "create"} THEN "nameiparent" ELSE "namei")
             \o Do(c.op) \o Do("end"))
    /\ UNCHANGED <<dinode, stable, valid, lock, cwd, fd, past, strayed>>

\* The call fails: what is left of it is dropped, except for sys_link's undoing.
Fail(p) == IF r[p].old # 0 THEN Do("link_bad") \o Do("end") ELSE Do("end")

namex(p, parent) == LET i == r[p].ip  n == Head(r[p].path) IN
    /\ r[p].path # <<>> /\ CanLock(i)
    /\ IF Typeless(i) THEN Panic /\ UNCHANGED <<ref, valid, r, todo, strayed>>
       ELSE /\ valid' = [valid EXCEPT ![i] = TRUE]
            /\ IF dinode[i].type # "dir"
               THEN Go(p, iput(i) \o Fail(p)) /\ UNCHANGED <<ref, r, panicked, strayed>>
               ELSE IF parent /\ Len(r[p].path) = 1
               THEN /\ r' = [r EXCEPT ![p].name = n, ![p].path = <<>>]
                    /\ Go(p, Rest(p)) /\ UNCHANGED <<ref, panicked, strayed>>
               ELSE LET next == dirlookup(i, n) IN
                    /\ Stray(i, n)
                    /\ IF next = 0 THEN Go(p, iput(i) \o Fail(p)) /\ UNCHANGED <<ref, r, panicked>>
                       ELSE /\ panicked' = NoEntry(next) /\ ref' = ref_up(next)
                            /\ r' = [r EXCEPT ![p].ip = next, ![p].path = Tail(@)]
                            /\ Go(p, iput(i) \o todo[p])
    /\ UNCHANGED <<dinode, stable, lock, cwd, fd, calls, past>>

nameiparent(p) == On(p, "nameiparent") /\ namex(p, TRUE)

namei(p) == On(p, "namei") /\ namex(p, FALSE)

\* No element is left: namei has its inode, nameiparent has nothing to return.
namex_done(p) ==
    /\ On(p, "namei") \/ On(p, "nameiparent")
    /\ r[p].path = <<>>
    /\ Go(p, IF todo[p][1].o = "namei" THEN Rest(p) ELSE iput(r[p].ip) \o Fail(p))
    /\ UNCHANGED <<dinode, stable, ref, valid, lock, cwd, fd, r, calls, past, panicked, strayed>>

-----------------------------------------------------------------------------
(***************************************************************************)
(* create, for open(O_CREATE), mkdir and mknod                             *)
(***************************************************************************)

KeepLocked_not(p, d) == UNCHANGED lock

\* dp stays locked from the lookup of a name until its entry is written.
KeepLocked(p, d) == lock' = [lock EXCEPT ![d] = p]

\* ilock(dp) and the lookup.  A name that is there is left to "create_found"; for a new
\* one ialloc marks a free inode of the disk allocated, and dp stays locked.
create(p) ==
    LET d == r[p].ip
        found == dirlookup(d, r[p].name)
        none == {i \in Inodes : dinode[i].type = "none"}
        i == IF found # 0 THEN found ELSE CHOOSE j \in none : \A k \in none : j <= k
        type == CASE r[p].call.op = "mkdir" -> "dir" [] r[p].call.op = "mknod" -> "dev"
                  [] OTHER -> "file"
    IN /\ On(p, "create") \/ On(p, "mkdir") \/ On(p, "mknod")
       /\ CanLock(d)
       /\ IF Typeless(d) \/ (IF found # 0 THEN NoEntry(found) ELSE none = {})
          THEN Panic /\ UNCHANGED <<dinode, ref, valid, lock, r, todo>>
          ELSE /\ valid' = [valid EXCEPT ![d] = TRUE]
               /\ r' = [r EXCEPT ![p].dp = d, ![p].ip = i]
               /\ IF found # 0
                  THEN /\ ref' = ref_up(i) /\ UNCHANGED <<dinode, lock>>
                       /\ Go(p, iput(d) \o Do("create_found") \o Rest(p))
                  ELSE /\ dinode' = [dinode EXCEPT ![i] = [Free EXCEPT !.type = type]]
                       /\ KeepLocked(p, d) /\ UNCHANGED ref
                       /\ Go(p, Do("ialloc") \o Do("create_new") \o Rest(p))
               /\ UNCHANGED panicked
       /\ Stray(d, r[p].name)
       /\ UNCHANGED unchanged

\* The end of ialloc, with the block of inodes released: iget.
ialloc(p) == LET i == r[p].ip IN
    /\ On(p, "ialloc")
    /\ panicked' = NoEntry(i) /\ ref' = ref_up(i) /\ Go(p, Rest(p))
    /\ UNCHANGED <<unchanged, dinode, valid, lock, r, strayed>>

\* An existing file may be opened by O_CREATE; anything else is an error.
create_found(p) == LET i == r[p].ip IN
    /\ On(p, "create_found") /\ CanLock(i)
    /\ IF Typeless(i) THEN Panic /\ UNCHANGED <<valid, lock, todo>>
       ELSE /\ valid' = [valid EXCEPT ![i] = TRUE]
            /\ IF r[p].call.op = "create" /\ dinode[i].type = "file"
               THEN lock' = [lock EXCEPT ![i] = p] /\ Go(p, Do("opened") \o Do("end"))
               ELSE Go(p, iput(i) \o Do("end")) /\ UNCHANGED lock
            /\ UNCHANGED panicked
    /\ UNCHANGED <<unchanged, dinode, ref, r, strayed>>

\* ilock(ip) and the rest: the link counts, ".", "..", the entry, then iunlockput(dp)
\* with ip still locked.
create_new(p) == LET i == r[p].ip  d == r[p].dp  dir == dinode[i].type = "dir" IN
    /\ On(p, "create_new") /\ CanLock(i)
    /\ IF Typeless(i) \/ dinode[d].ent[r[p].name] # 0
       THEN Panic /\ UNCHANGED <<dinode, valid, lock, todo>>
       ELSE /\ dinode' = [dinode EXCEPT
                   ![i] = [@ EXCEPT !.nlink = 1, !.up = IF dir THEN d ELSE 0],
                   ![d] = [@ EXCEPT !.nlink = IF dir THEN @ + 1 ELSE @, !.ent[r[p].name] = i]]
            /\ valid' = [valid EXCEPT ![i] = TRUE]
            /\ lock' = [lock EXCEPT ![i] = p]
            /\ Go(p, iunlockput(d) \o
                     (IF r[p].call.op = "create" THEN Do("opened") ELSE iunlockput(i)) \o Do("end"))
            /\ UNCHANGED panicked
    /\ UNCHANGED <<unchanged, ref, r, strayed>>

-----------------------------------------------------------------------------
(***************************************************************************)
(* open, close, fstat, chdir                                               *)
(***************************************************************************)

\* sys_open without O_CREATE: a directory can only be read.
open(p) == LET i == r[p].ip IN
    /\ On(p, "open") /\ CanLock(i)
    /\ IF Typeless(i) THEN Panic /\ UNCHANGED <<valid, lock, todo>>
       ELSE /\ valid' = [valid EXCEPT ![i] = TRUE]
            /\ IF dinode[i].type = "dir" /\ r[p].call.write
               THEN Go(p, iput(i) \o Do("end")) /\ UNCHANGED lock
               ELSE lock' = [lock EXCEPT ![i] = p] /\ Go(p, Do("opened") \o Do("end"))
            /\ UNCHANGED panicked
    /\ UNCHANGED <<unchanged, dinode, ref, r, strayed>>

\* The end of sys_open: with no descriptor left the inode is given back.
opened(p) == LET i == r[p].ip IN
    /\ On(p, "opened")
    /\ lock' = [lock EXCEPT ![i] = 0]
    /\ IF fd[p] = 0 THEN fd' = [fd EXCEPT ![p] = i] /\ Go(p, Rest(p))
       ELSE Go(p, iput(i) \o Rest(p)) /\ UNCHANGED fd
    /\ UNCHANGED <<dinode, stable, ref, valid, cwd, r, calls, past, panicked, strayed>>

\* fileclose of the last descriptor.
close(p) ==
    /\ todo[p] = <<>> /\ ~panicked /\ fd[p] # 0
    /\ fd' = [fd EXCEPT ![p] = 0]
    /\ Go(p, iput(fd[p]) \o Do("end"))
    /\ UNCHANGED <<dinode, stable, ref, valid, lock, cwd, r, calls, past, panicked, strayed>>

\* filestat locks the inode and reads it.
filestat(p) ==
    /\ todo[p] = <<>> /\ ~panicked /\ fd[p] # 0 /\ CanLock(fd[p])
    /\ IF Typeless(fd[p]) THEN Panic /\ UNCHANGED valid
       ELSE valid' = [valid EXCEPT ![fd[p]] = TRUE] /\ UNCHANGED panicked
    /\ UNCHANGED <<dinode, stable, ref, lock, cwd, fd, todo, r, calls, past, strayed>>

chdir(p) == LET i == r[p].ip IN
    /\ On(p, "chdir") /\ CanLock(i)
    /\ IF Typeless(i) THEN Panic /\ UNCHANGED <<valid, cwd, todo>>
       ELSE /\ valid' = [valid EXCEPT ![i] = TRUE]
            /\ IF dinode[i].type # "dir" THEN Go(p, iput(i) \o Rest(p)) /\ UNCHANGED cwd
               ELSE Go(p, iput(cwd[p]) \o Rest(p)) /\ cwd' = [cwd EXCEPT ![p] = i]
            /\ UNCHANGED panicked
    /\ UNCHANGED <<dinode, stable, ref, lock, fd, r, calls, past, strayed>>

-----------------------------------------------------------------------------
(***************************************************************************)
(* link and unlink                                                         *)
(***************************************************************************)

linkable_any(i) == TRUE

linkable(i) == dinode[i].type # "dir"

Linked_late(i) == dinode

Linked(i) == [dinode EXCEPT ![i].nlink = @ + 1]

\* nlink++ on the file, which is unlocked again before the new name is looked up.
link(p) == LET i == r[p].ip  from == IF r[p].call.abs THEN ROOTINO ELSE cwd[p] IN
    /\ On(p, "link") /\ CanLock(i)
    /\ IF Typeless(i) \/ (linkable(i) /\ NoEntry(from)) THEN Panic /\ UNCHANGED <<dinode, ref, valid, r, todo>>
       ELSE /\ valid' = [valid EXCEPT ![i] = TRUE]
            /\ IF ~linkable(i)
               THEN Go(p, iput(i) \o Rest(p)) /\ UNCHANGED <<dinode, ref, r>>
               ELSE /\ dinode' = Linked(i)
                    /\ ref' = ref_up(from)
                    /\ r' = [r EXCEPT ![p].old = i, ![p].ip = from, ![p].path = r[p].call.to]
                    /\ Go(p, Do("nameiparent") \o Do("dirlink") \o Rest(p))
            /\ UNCHANGED panicked
    /\ UNCHANGED <<unchanged, lock, strayed>>

\* ilock(dp) and dirlink.  For a name that is there, dirlink puts the inode it found
\* while dp is still locked.
dirlink(p) == LET d == r[p].ip  n == r[p].name  found == dirlookup(d, n) IN
    /\ On(p, "dirlink") /\ CanLock(d)
    /\ IF Typeless(d) \/ (found # 0 /\ NoEntry(found))
       THEN Panic /\ UNCHANGED <<dinode, ref, valid, lock, todo>>
       ELSE /\ valid' = [valid EXCEPT ![d] = TRUE]
            /\ IF found # 0
               THEN /\ ref' = ref_up(found) /\ lock' = [lock EXCEPT ![d] = p]
                    /\ Go(p, iput(found) \o iunlockput(d) \o Fail(p)) /\ UNCHANGED dinode
               ELSE /\ dinode' = [dinode EXCEPT ![d].ent[n] = r[p].old]
                    /\ Go(p, iput(d) \o iput(r[p].old) \o Rest(p)) /\ UNCHANGED <<ref, lock>>
            /\ UNCHANGED panicked
    /\ Stray(d, n)
    /\ UNCHANGED <<unchanged, r>>

\* bad: in sys_link.
link_bad(p) == LET i == r[p].old IN
    /\ On(p, "link_bad") /\ CanLock(i)
    /\ dinode' = [dinode EXCEPT ![i].nlink = @ - 1]
    /\ Go(p, iput(i) \o Rest(p))
    /\ UNCHANGED <<unchanged, ref, valid, lock, r, panicked, strayed>>

\* ilock(dp) and the lookup; dp stays locked while ip is waited for.
unlink(p) ==
    LET d == r[p].ip
        i == IF r[p].name \in {".", ".."} THEN 0 ELSE dirlookup(d, r[p].name) IN
    /\ On(p, "unlink") /\ CanLock(d)
    /\ IF Typeless(d) \/ (i # 0 /\ NoEntry(i)) THEN Panic /\ UNCHANGED <<ref, valid, lock, r, todo>>
       ELSE /\ valid' = [valid EXCEPT ![d] = TRUE]
            /\ IF i = 0
               THEN Go(p, iput(d) \o Rest(p)) /\ UNCHANGED <<ref, lock, r>>
               ELSE /\ ref' = ref_up(i) /\ lock' = [lock EXCEPT ![d] = p]
                    /\ r' = [r EXCEPT ![p].dp = d, ![p].ip = i]
                    /\ Go(p, Do("unlink_ip") \o Rest(p))
            /\ UNCHANGED panicked
    /\ UNCHANGED <<unchanged, dinode, strayed>>

isdirempty(i) == \A n \in Names : dinode[i].ent[n] = 0

\* ilock(ip), the entry is erased, and iunlockput(dp) with ip still locked.
unlink_ip(p) == LET i == r[p].ip  d == r[p].dp  dir == dinode[i].type = "dir" IN
    /\ On(p, "unlink_ip") /\ CanLock(i)
    /\ IF Typeless(i) \/ dinode[i].nlink < 1 THEN Panic /\ UNCHANGED <<dinode, valid, lock, todo>>
       ELSE /\ valid' = [valid EXCEPT ![i] = TRUE]
            /\ IF dir /\ ~isdirempty(i)
               THEN Go(p, iput(i) \o iunlockput(d) \o Rest(p)) /\ UNCHANGED <<dinode, lock>>
               ELSE /\ dinode' = [dinode EXCEPT
                           ![d] = [@ EXCEPT !.nlink = IF dir THEN @ - 1 ELSE @,
                                            !.ent[r[p].name] = 0]]
                    /\ lock' = [lock EXCEPT ![i] = p]
                    /\ Go(p, iunlockput(d) \o Do("unlink_nlink") \o Rest(p))
            /\ UNCHANGED panicked
    /\ UNCHANGED <<unchanged, ref, r, strayed>>

\* ip->nlink-- and iunlockput(ip).
unlink_nlink(p) == LET i == r[p].ip IN
    /\ On(p, "unlink_nlink")
    /\ dinode' = [dinode EXCEPT ![i].nlink = @ - 1] /\ lock' = [lock EXCEPT ![i] = 0]
    /\ Go(p, iput(i) \o Rest(p))
    /\ UNCHANGED <<unchanged, ref, valid, r, panicked, strayed>>

\* end_op: the last call under way commits.
end_op(p) ==
    /\ On(p, "end")
    /\ Go(p, <<>>) /\ r' = [r EXCEPT ![p] = Idle]
    /\ stable' = IF \A q \in Procs \ {p} : todo[q] = <<>> THEN dinode ELSE stable
    /\ UNCHANGED <<dinode, ref, valid, lock, cwd, fd, calls, past, panicked, strayed>>

\* The machine stops and boots again from what was committed.
crash ==
    /\ crashes < MaxCrashes /\ crashes' = crashes + 1
    /\ dinode' = stable
    /\ ref' = [i \in Inodes |-> IF i = ROOTINO THEN Cardinality(Procs) ELSE 0]
    /\ valid' = [i \in Inodes |-> FALSE] /\ lock' = [i \in Inodes |-> 0]
    /\ cwd' = [p \in Procs |-> ROOTINO] /\ fd' = [p \in Procs |-> 0]
    /\ todo' = [p \in Procs |-> <<>>] /\ r' = [p \in Procs |-> Idle]
    /\ panicked' = FALSE /\ strayed' = FALSE
    /\ UNCHANGED <<stable, calls, start>>

Next == \/ \E p \in Procs, c \in start.calls : begin(p, c)
        \/ \E p \in Procs : iunlock_step(p) \/ iput_check(p) \/ iput_drop(p) \/ end_op(p)
        \/ \E p \in Procs : namei(p) \/ nameiparent(p) \/ namex_done(p)
        \/ \E p \in Procs : create(p) \/ ialloc(p) \/ create_found(p) \/ create_new(p)
        \/ \E p \in Procs : open(p) \/ opened(p) \/ close(p) \/ filestat(p) \/ chdir(p)
        \/ \E p \in Procs : link(p) \/ dirlink(p) \/ link_bad(p)
        \/ \E p \in Procs : unlink(p) \/ unlink_ip(p) \/ unlink_nlink(p)
        \/ crash

Spec == Init /\ [][Next]_vars

-----------------------------------------------------------------------------
(***************************************************************************)
(* Properties                                                              *)
(***************************************************************************)

\* A name never leads to a freed or recycled inode: an inode with entries is allocated
\* and its link count is at least their number, in the middle of any call and after a
\* crash at any point of it.
LinksCovered == \A i \in Inodes :
    Named(i) # {} => dinode[i].type # "none" /\ Cardinality(Named(i)) <= dinode[i].nlink

\* The inode of an open file and a current directory stay allocated, whatever is
\* unlinked meanwhile: iput frees an inode only when nobody else refers to it.
OpenKept == \A p \in Procs : /\ fd[p] # 0 => dinode[fd[p]].type # "none" /\ ref[fd[p]] > 0
                             /\ dinode[cwd[p]].type = "dir"

Dirs == {i \in Inodes : dinode[i].type = "dir"}

\* The names form a tree even while two processes make and remove directories at the same
\* place, and one of them stands in a removed one: a directory has one name, its ".." leads
\* to the directory that holds it, and no directory lies below itself.
DirectoryTree ==
    /\ \A i \in Dirs : \A e, f \in Named(i) : e = f /\ dinode[i].up = e[1]
    /\ \A D \in SUBSET Dirs \ {{}} : \E i \in D : \A e \in Named(i) : e[1] \notin D

\* No assertion of fs.c and sysfile.c fails (ilock finds an allocated inode, create's name
\* is still free when it is linked, unlink's inode still has a link, ialloc and iget find
\* room while inodes and cache entries suffice), unless a process has followed the ".." of
\* a removed directory: its parent may have been removed and freed as well, and be nothing
\* or another file by then.
PanicOnlyStrayed == panicked => strayed

\* "If that was the last reference and the inode has no links to it, free the inode (and
\* its content) on disk" (iput, fs.c): an inode nobody refers to has a link.
LastPutFrees == \A i \in Inodes :
    ref[i] = 0 /\ dinode[i].type # "none" => dinode[i].nlink > 0

\* The lock p needs for its next step.
Wants(p) == IF todo[p] = <<>> THEN 0
            ELSE CASE todo[p][1].o = "iput" -> todo[p][1].i
                   [] todo[p][1].o \in {"iunlock", "ref--", "ialloc", "opened", "unlink_nlink", "end"} -> 0
                   [] todo[p][1].o = "link_bad" -> r[p].old
                   [] OTHER -> r[p].ip

\* What "another concurrent link/unlink/create test, to look for deadlocks" (usertests.c)
\* looks for: no two calls wait for each other's inode locks, and none for its own.
NoInodeDeadlock == \A p, q \in Procs :
    ~(Wants(p) # 0 /\ Wants(q) # 0 /\ lock[Wants(p)] = q /\ lock[Wants(q)] = p)
=============================================================================
