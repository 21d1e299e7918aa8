------------------------------ MODULE MCInode -------------------------------
(* An instance of Inode: two processes share one file, a third has its own. *)
EXTENDS Inode

SharedFile == [p \in Procs |-> IF p < 3 THEN 1 ELSE 2]
TwoInodes == [f \in Files |-> f]
=============================================================================
