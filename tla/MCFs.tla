-------------------------------- MODULE MCFs --------------------------------
(* The disks and the system calls of the model-checked instances of Fs. *)
EXTENDS Fs, TLC

FsSymmetry == Permutations(Procs)

Call(op, path) == [op |-> op, abs |-> TRUE, path |-> path, to |-> <<>>, write |-> FALSE]
Here(op, path) == [Call(op, path) EXCEPT !.abs = FALSE]
LinkTo(path, to) == [Call("link", path) EXCEPT !.to = to]

\* A file or directory a, a file or link b, names inside a, and a relative name.
AtRoot == {Call("create", <<"a">>), Call("mkdir", <<"a">>), Call("unlink", <<"a">>),
           Call("chdir", <<"a">>), Call("create", <<"a", "b">>), LinkTo(<<"a">>, <<"b">>),
           Call("unlink", <<"b">>), Here("mknod", <<"b">>),
           [Call("open", <<"a">>) EXCEPT !.write = TRUE]}

\* A disk with /a and /a/b, and what can be done in and around them: removing both,
\* making directories below them, and names that go up.
Dir(up, nlink) == [Root EXCEPT !.up = up, !.nlink = nlink]
Deep == [Fresh EXCEPT ![1] = [Dir(1, 2) EXCEPT !.ent["a"] = 2],
                      ![2] = [Dir(1, 2) EXCEPT !.ent["b"] = 3], ![3] = Dir(2, 1)]
Below == {Call("chdir", <<"a", "b">>), Call("unlink", <<"a", "b">>), Call("unlink", <<"a">>),
          Call("mkdir", <<"a", "b">>), Here("mkdir", <<"a">>), Here("open", <<"..">>),
          Here("create", <<"..", "a">>)}

AllStarts == {[disk |-> Fresh, calls |-> AtRoot], [disk |-> Deep, calls |-> Below]}
=============================================================================
