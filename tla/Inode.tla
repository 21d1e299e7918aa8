------------------------------- MODULE Inode --------------------------------
(***************************************************************************)
(* The contents of files: the block bitmap, bmap's direct and indirect     *)
(* blocks, itrunc, readi and writei (fs.c) under fileread and filewrite    *)
(* (file.c).  A turn of writei's or itrunc's loop is one step: between two *)
(* turns other inodes take blocks from the bitmap and give them back.      *)
(* Names are in Fs, transactions in Log, buffers in Bcache.                *)
(***************************************************************************)
EXTENDS Integers, FiniteSets, Sequences

CONSTANTS Procs,        \* the writers; p writes the byte p
          Inodes,       \* the regular files
          Files,        \* ftable entries
          IpOf, FileOf, \* the inode of a file and the file a process has open
          Blocks,       \* the data blocks, numbered from 1; 0 is "no block"
          BSIZE, NDIRECT, NINDIRECT, MAXOPBLOCKS,
          Sizes,        \* the n of write()
          MaxWrites     \* how many calls of write there are (a bound)

MAXFILE == NDIRECT + NINDIRECT

max_all == MAXOPBLOCKS * BSIZE

\* filewrite's chunk.
max == ((MAXOPBLOCKS - 1 - 1 - 2) \div 2) * BSIZE

ASSUME InodeAssumption ==
    /\ Procs \subseteq Nat \ {0} /\ Blocks \subseteq Nat \ {0} /\ IsFiniteSet(Blocks)
    /\ BSIZE \in Nat \ {0} /\ NDIRECT \in Nat /\ NINDIRECT \in Nat /\ max \in Nat \ {0}
    /\ IpOf \in [Files -> Inodes] /\ FileOf \in [Procs -> Files] /\ Sizes \subseteq Nat \ {0}
    /\ NINDIRECT <= BSIZE

VARIABLES used,    \* the bits of the bitmap
          data,    \* the contents of the blocks
          inode,   \* ip->size and ip->addrs; the last address is the indirect block's
          lock,    \* who holds ip->lock, or 0
          off,     \* f->off
          pc, call,   \* where p is, and its filewrite: left (n - i), n1, tot, at (writei's off)
          ops,     \* the calls of write so far
          touched, \* the blocks p's transaction has logged: 0 the bitmap, -1 the inode
          content, \* history: the bytes each file should hold
          wrote,   \* history: how many bytes p's successful chunks held
          panicked

vars == <<used, data, inode, lock, off, pc, call, ops, touched, content, wrote, panicked>>

Zero == [j \in 0 .. BSIZE - 1 |-> 0]
Empty == [size |-> 0, addrs |-> [j \in 0 .. NDIRECT |-> 0]]
Idle == [left |-> 0, n1 |-> 0, tot |-> 0, at |-> 0]

Init == /\ used = {} /\ data = [b \in Blocks |-> Zero]
        /\ inode = [i \in Inodes |-> Empty] /\ lock = [i \in Inodes |-> 0]
        /\ off = [f \in Files |-> 0]
        /\ pc = [p \in Procs |-> "user"] /\ call = [p \in Procs |-> Idle]
        /\ ops = 0 /\ touched = [p \in Procs |-> {}]
        /\ content = [i \in Inodes |-> <<>>] /\ wrote = [p \in Procs |-> 0]
        /\ panicked = FALSE

\* balloc: the first block whose bit is clear, zeroed.
balloc(u) == CHOOSE b \in Blocks \ u : \A c \in Blocks \ u : b <= c

\* bmap(ip, bn) for writing.  The address, the indirect block if it goes through one,
\* and the blocks it allocates, in order.
bmap(ip, bn) ==
    LET ind == ip.addrs[NDIRECT]
        ind1 == IF ind = 0 THEN balloc(used) ELSE ind
        ent == IF ind = 0 THEN 0 ELSE data[ind][bn - NDIRECT]
    IN IF bn < NDIRECT
       THEN LET b == ip.addrs[bn] IN
            [ind |-> 0, addr |-> IF b = 0 THEN balloc(used) ELSE b,
             new |-> IF b = 0 THEN {balloc(used)} ELSE {}]
       ELSE [ind |-> ind1, addr |-> IF ent = 0 THEN balloc(used \cup {ind1}) ELSE ent,
             new |-> (IF ind = 0 THEN {ind1} ELSE {})
                       \cup (IF ent = 0 THEN {balloc(used \cup {ind1})} ELSE {})]

\* How many blocks bmap(ip, bn) has to allocate: balloc panics when there are fewer.
needs(ip, bn) == IF bn < NDIRECT THEN (IF ip.addrs[bn] = 0 THEN 1 ELSE 0)
                 ELSE IF ip.addrs[NDIRECT] = 0 THEN 2
                 ELSE IF data[ip.addrs[NDIRECT]][bn - NDIRECT] = 0 THEN 1 ELSE 0

\* The block bmap finds for a byte of the file that has been written.
block(ip, x) == LET bn == x \div BSIZE IN
    IF bn < NDIRECT THEN ip.addrs[bn] ELSE data[ip.addrs[NDIRECT]][bn - NDIRECT]

\* readi: the bytes from x on, at most n, and none past the size.
readi(i, x, n) ==
    LET m == IF x + n > inode[i].size THEN inode[i].size - x ELSE n IN
    [j \in 1 .. m |-> data[block(inode[i], x + j - 1)][(x + j - 1) % BSIZE]]

Min2(x, y) == IF x < y THEN x ELSE y

-----------------------------------------------------------------------------
(***************************************************************************)
(* write(): filewrite in chunks, each under ip->lock in its transaction    *)
(***************************************************************************)

Ip(p) == IpOf[FileOf[p]]

offset_stale(p) == IF pc[p] = "user" THEN off[FileOf[p]] ELSE call[p].at

\* f->off, read under ip->lock for every chunk.
offset(p) == off[FileOf[p]]

\* The top of filewrite's loop with left bytes to go: begin_op, ilock and the tests of
\* writei; a chunk that cannot fit ends the call.
chunk(p, left) == LET i == Ip(p)  n1 == Min2(left, max)  x == offset(p) IN
    /\ lock[i] = 0 /\ ~panicked
    /\ IF x > inode[i].size \/ x + n1 > MAXFILE * BSIZE
       THEN /\ pc' = [pc EXCEPT ![p] = "user"] /\ call' = [call EXCEPT ![p] = Idle]
            /\ UNCHANGED <<lock, content, wrote>>
       ELSE /\ lock' = [lock EXCEPT ![i] = p]
            /\ call' = [call EXCEPT ![p] = [left |-> left, n1 |-> n1, tot |-> 0, at |-> x]]
            /\ content' = [content EXCEPT ![i] =
                   [j \in 1 .. IF x + n1 > Len(@) THEN x + n1 ELSE Len(@) |->
                      IF j \in x + 1 .. x + n1 THEN p ELSE content[i][j]]]
            /\ wrote' = [wrote EXCEPT ![p] = @ + n1]
            /\ pc' = [pc EXCEPT ![p] = "writei"]
    /\ UNCHANGED <<used, data, inode, off, touched, panicked>>

sys_write(p, n) == /\ pc[p] = "user" /\ ops < MaxWrites /\ ops' = ops + 1
                   /\ chunk(p, n)

filewrite(p) == pc[p] = "filewrite" /\ chunk(p, call[p].left) /\ UNCHANGED ops

in_block_start(x) == 0

\* Where byte x goes in its block.
in_block(x) == x % BSIZE

\* How many of n bytes go to the block that holds byte x.
part(x, n) == Min2(n, BSIZE - (x % BSIZE))

\* A turn of writei's loop: bmap, the bytes that fall in the block, log_write.
writei(p) ==
    LET i == Ip(p)  ip == inode[i]
        c == call[p]  x == c.at + c.tot  bn == x \div BSIZE
        b == bmap(ip, bn)
        m == part(x, c.n1 - c.tot)
        zeroed == [d \in Blocks |-> IF d \in b.new THEN Zero ELSE data[d]]
    IN /\ pc[p] = "writei" /\ c.tot < c.n1 /\ ~panicked
       /\ IF needs(ip, bn) > Cardinality(Blocks \ used)
          THEN panicked' = TRUE /\ UNCHANGED <<used, data, inode, call, touched>>
          ELSE /\ used' = used \cup b.new
               /\ data' = [d \in Blocks |->
                     IF d = b.addr THEN [j \in 0 .. BSIZE - 1 |->
                        IF j \in in_block(x) .. in_block(x) + m - 1 THEN p ELSE zeroed[d][j]]
                     ELSE IF d = b.ind THEN [zeroed[d] EXCEPT ![bn - NDIRECT] = b.addr]
                     ELSE zeroed[d]]
               /\ inode' = [inode EXCEPT ![i].addrs[IF bn < NDIRECT THEN bn ELSE NDIRECT] =
                                IF bn < NDIRECT THEN b.addr ELSE b.ind]
               /\ touched' = [touched EXCEPT ![p] = @ \cup {b.addr} \cup b.new \cup
                                (IF b.new = {} THEN {} ELSE {0, b.ind})]
               /\ call' = [call EXCEPT ![p].tot = @ + m]
               /\ UNCHANGED panicked
       /\ UNCHANGED <<lock, off, pc, ops, content, wrote>>

\* The end of writei (the size, with iupdate), f->off, iunlock and end_op.
writei_done(p) == LET i == Ip(p)  c == call[p]  end == c.at + c.n1 IN
    /\ pc[p] = "writei" /\ c.tot = c.n1 /\ ~panicked
    /\ inode' = [inode EXCEPT ![i].size = IF end > @ THEN end ELSE @]
    /\ off' = [off EXCEPT ![FileOf[p]] = @ + c.n1]
    /\ lock' = [lock EXCEPT ![i] = 0]
    /\ call' = [call EXCEPT ![p] = IF c.left = c.n1 THEN Idle
                                   ELSE [Idle EXCEPT !.left = c.left - c.n1, !.at = end]]
    /\ touched' = [touched EXCEPT ![p] = {}]
    /\ pc' = [pc EXCEPT ![p] = IF c.left = c.n1 THEN "user" ELSE "filewrite"]
    /\ UNCHANGED <<used, data, ops, content, wrote, panicked>>

-----------------------------------------------------------------------------
(***************************************************************************)
(* itrunc: p drops the last reference to its file, unlinked before, and    *)
(* the next file it writes gets the same inode.                            *)
(***************************************************************************)

iput(p) == LET i == Ip(p) IN
    /\ pc[p] = "user" /\ ~panicked /\ inode[i].size > 0
    /\ \A q \in Procs \ {p} : Ip(q) # i
    /\ lock' = [lock EXCEPT ![i] = p] /\ pc' = [pc EXCEPT ![p] = "itrunc"]
    /\ content' = [content EXCEPT ![i] = <<>>] /\ wrote' = [wrote EXCEPT ![p] = 0]
    /\ UNCHANGED <<used, data, inode, off, call, ops, touched, panicked>>

\* The address in the k-th place itrunc looks at: the direct blocks, the indirect block's
\* entries, and the indirect block itself.
place(ip, k) == IF k < NDIRECT THEN ip.addrs[k]
                ELSE IF ip.addrs[NDIRECT] = 0 THEN 0
                ELSE IF k < MAXFILE THEN data[ip.addrs[NDIRECT]][k - NDIRECT]
                ELSE ip.addrs[NDIRECT]

last_entry == MAXFILE - 1

\* The last place itrunc looks at: ip->addrs[NDIRECT], the indirect block.
last == MAXFILE

\* itrunc from place k on (call.tot) to the next block, and bfree with its test.
itrunc(p) == LET i == Ip(p) IN \E k \in call[p].tot .. last : LET b == place(inode[i], k) IN
    /\ pc[p] = "itrunc" /\ ~panicked
    /\ b # 0 /\ \A m \in call[p].tot .. k - 1 : place(inode[i], m) = 0
    /\ panicked' = (b \notin used)
    /\ used' = used \ {b}
    /\ inode' = IF k < NDIRECT THEN [inode EXCEPT ![i].addrs[k] = 0]
                ELSE IF k = MAXFILE THEN [inode EXCEPT ![i].addrs[NDIRECT] = 0]
                ELSE inode
    /\ call' = [call EXCEPT ![p].tot = k + 1]
    /\ UNCHANGED <<data, lock, off, pc, ops, touched, content, wrote>>

\* size = 0 and iupdate; the inode is free for the next file.
itrunc_done(p) == LET i == Ip(p) IN
    /\ pc[p] = "itrunc" /\ ~panicked
    /\ \A k \in call[p].tot .. last : place(inode[i], k) = 0
    /\ inode' = [inode EXCEPT ![i].size = 0] /\ lock' = [lock EXCEPT ![i] = 0]
    /\ off' = [off EXCEPT ![FileOf[p]] = 0] /\ pc' = [pc EXCEPT ![p] = "user"]
    /\ call' = [call EXCEPT ![p] = Idle]
    /\ UNCHANGED <<used, data, ops, touched, content, wrote, panicked>>

Next == \/ \E p \in Procs, n \in Sizes : sys_write(p, n)
        \/ \E p \in Procs : filewrite(p) \/ writei(p) \/ writei_done(p)
        \/ \E p \in Procs : iput(p) \/ itrunc(p) \/ itrunc_done(p)

Spec == Init /\ [][Next]_vars

-----------------------------------------------------------------------------
(***************************************************************************)
(* Properties                                                              *)
(***************************************************************************)

\* Where a block can be named from; an entry that itrunc has passed names nothing.
Places == Inodes \X (0 .. MAXFILE)
BlockAt(s) == LET i == s[1] IN
    IF lock[i] # 0 /\ pc[lock[i]] = "itrunc" /\ s[2] < call[lock[i]].tot THEN 0
    ELSE place(inode[i], s[2])

\* A block is marked in the bitmap exactly when a file has it, and then one file has it
\* in one place: balloc and bfree neither lose a block nor give one to two files, with
\* growing and shrinking files taking turns, and
\* neither of their panics ("out of blocks", "freeing free block") comes up on a disk
\* big enough for the files.
BlocksOwned ==
    LET naming == {s \in Places : BlockAt(s) # 0}
    IN /\ used = {BlockAt(s) : s \in naming} /\ Cardinality(naming) = Cardinality(used)
       /\ ~panicked

\* What readi returns is what the writes put there, at every offset and length, through
\* direct and indirect blocks, unaligned chunks and recycled blocks.
ReadsBack == \A i \in Inodes : lock[i] = 0 =>
    /\ inode[i].size = Len(content[i])
    /\ \A x \in 0 .. inode[i].size, n \in Sizes :
          readi(i, x, n) = SubSeq(content[i], x + 1, Min2(x + n, Len(content[i])))

\* Two processes that write through one file structure, as a parent and its child do,
\* append: f->off moves under ip->lock with the data, so no chunk overwrites another.
AppendsKept == \A p \in Procs :
    Cardinality({j \in DOMAIN content[Ip(p)] : content[Ip(p)][j] = p}) = wrote[p]

\* "write a few blocks at a time to avoid exceeding the maximum log transaction size"
\* (file.c): a chunk logs at most MAXOPBLOCKS blocks, bitmap, inode and indirect block
\* included, wherever it starts.
TransactionFits == \A p \in Procs : Cardinality(touched[p] \cup {-1}) <= MAXOPBLOCKS
=============================================================================
