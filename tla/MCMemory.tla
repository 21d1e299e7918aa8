------------------------------ MODULE MCMemory ------------------------------
(* Programs and sbrk arguments for the model-checked instance of Memory. *)
EXTENDS Memory

SbrkArgs == {-3, -1, 3}

Seg(v, m, f, ok) == [vaddr |-> v, memsz |-> m, filesz |-> f, ok |-> ok]

\* A program whose second segment ends below its first, and malformed ones: an
\* unaligned segment, a short file, more file than memory, a segment that wraps,
\* one that leaves no room for the stack, and an empty one.
Programs == {<<Seg(0, 2, 2, TRUE), Seg(0, 1, 1, TRUE)>>, <<Seg(1, 1, 1, TRUE)>>,
             <<Seg(0, 2, 2, FALSE)>>, <<Seg(0, 1, 2, TRUE)>>, <<Seg(2, WORD - 1, 0, TRUE)>>,
             <<Seg(0, 3, 1, TRUE)>>, <<Seg(0, 0, 0, TRUE)>>}
=============================================================================
