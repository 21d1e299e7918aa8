-------------------------------- MODULE File --------------------------------
(***************************************************************************)
(* Open files (file.c) and the system calls on descriptors (sysfile.c).    *)
(* One step is a stretch that holds ftable.lock, p->lock or an inode; what *)
(* a process does to its own descriptors goes with the step next to it.    *)
(***************************************************************************)
EXTENDS Pipe, SequencesExt

CONSTANTS NFILE, NOFILE,
          Inodes,
          max           \* bytes that filewrite() passes on in one operation

VARIABLES file,         \* ftable: file number -> struct file
          ofile,        \* process -> descriptor -> file number, 0 for none
          closing,      \* process -> files it is about to pass to fileclose()
          ff,           \* process -> the struct file that fileclose() copied
          half,         \* process -> files held by its pipealloc()
          store         \* inode -> bytes

fileVars == <<file, ofile, closing, ff, half, store>>
pipeVars == <<pipe, killed, cur, buf>>

Files == 1..NFILE
Fds == 0..NOFILE - 1
NoFile == [ref |-> 0, type |-> "FD_NONE", readable |-> FALSE, writable |-> FALSE,
           pipe |-> 0, ip |-> "none", off |-> 0]

FreeFiles == {f \in Files : file[f].ref = 0}
FreeFds(p) == {fd \in Fds : ofile[p][fd] = 0}

(* argfd() *)
argfd(p, fd) == IF fd \in Fds THEN ofile[p][fd] ELSE 0

Fail(p) == /\ ret' = [ret EXCEPT ![p] = -1]
           /\ pc' = [pc EXCEPT ![p] = "user"]

(* sys_dup(), with fdalloc() and filedup(). *)
sys_dup(p, fd) ==
  LET f == argfd(p, fd)
  IN  /\ \/ /\ f = 0 \/ FreeFds(p) = {}
            /\ ret' = [ret EXCEPT ![p] = -1]
            /\ UNCHANGED <<file, ofile>>
         \/ /\ f # 0 /\ FreeFds(p) # {}
            /\ file' = [file EXCEPT ![f].ref = @ + 1]
            /\ ofile' = [ofile EXCEPT ![p][Min(FreeFds(p))] = f]
            /\ ret' = [ret EXCEPT ![p] = Min(FreeFds(p))]
      /\ UNCHANGED <<pc, pipeVars, closing, ff, half, store>>

(* fileclose() of f, up to pipeclose(); rest is what is to be closed next. *)
Freed_typed(r) == [r EXCEPT !.ref = 0]

Freed(r) == [r EXCEPT !.ref = 0, !.type = "FD_NONE"]

After(rest) == IF rest = <<>> THEN "user" ELSE "fileclose"

fileclose(p, f, rest) ==
  /\ file' = [file EXCEPT ![f] = IF @.ref > 1 THEN [@ EXCEPT !.ref = @ - 1] ELSE Freed(@)]
  /\ closing' = [closing EXCEPT ![p] = rest]
  /\ \/ /\ file[f].ref = 1 /\ file[f].type = "FD_PIPE"
        /\ ff' = [ff EXCEPT ![p] = file[f]]
        /\ pc' = [pc EXCEPT ![p] = "pipeclose"]
     \/ /\ file[f].ref > 1 \/ file[f].type # "FD_PIPE"
        /\ pc' = [pc EXCEPT ![p] = After(rest)]
        /\ UNCHANGED ff
  /\ UNCHANGED <<pipeVars, half, store>>

(* sys_close() *)
sys_close(p, fd) ==
  LET f == argfd(p, fd)
  IN  \/ f = 0 /\ Fail(p) /\ UNCHANGED <<pipeVars, fileVars>>
      \/ /\ f # 0
         /\ ofile' = [ofile EXCEPT ![p][fd] = 0]
         /\ ret' = [ret EXCEPT ![p] = 0]
         /\ fileclose(p, f, <<>>)

(* The fileclose()s of a pipe() that fails. *)
pipe_undo(p) ==
  /\ pc[p] = "fileclose"
  /\ fileclose(p, Head(closing[p]), Tail(closing[p]))
  /\ UNCHANGED <<ret, ofile>>

(* The pipeclose() of fileclose(), on the copy. *)
fileclose_pipe(p) ==
  /\ pc[p] = "pipeclose"
  /\ pipeclose(p, ff[p].pipe, ff[p].writable, After(closing[p]))
  /\ ff' = [ff EXCEPT ![p] = NoFile]
  /\ UNCHANGED <<file, ofile, closing, half, store>>

(* readi() and writei() of a file. *)
readi(ip, off, n) == SubSeq(store[ip], off + 1, Min({off + n, Len(store[ip])}))
writei(ip, off, bytes) == [store EXCEPT ![ip] = SubSeq(@, 1, off) \o bytes
                                                \o SubSeq(@, off + Len(bytes) + 1, Len(@))]

(* sys_read() with fileread(), up to piperead(). *)
sys_read(p, fd, n) ==
  LET f == argfd(p, fd)
  IN  /\ \/ /\ f = 0 \/ (f # 0 /\ ~file[f].readable)
            /\ Fail(p)
            /\ UNCHANGED <<cur, buf, file>>
         \/ /\ f # 0 /\ file[f].readable /\ file[f].type = "FD_PIPE"
            /\ cur' = [cur EXCEPT ![p] = file[f].pipe]
            /\ pc' = [pc EXCEPT ![p] = "piperead"]
            /\ UNCHANGED <<buf, file, ret>>
         \/ /\ f # 0 /\ file[f].readable /\ file[f].type = "FD_INODE"
            /\ buf' = [buf EXCEPT ![p] = readi(file[f].ip, file[f].off, n)]
            /\ file' = [file EXCEPT ![f].off = @ + Len(buf'[p])]
            /\ ret' = [ret EXCEPT ![p] = Len(buf'[p])]
            /\ UNCHANGED <<cur, pc>>
      /\ UNCHANGED <<pipe, killed, ofile, closing, ff, half, store>>

(* sys_write() with filewrite(), of the bytes in buf. *)
sys_write(p, fd) ==
  LET f == argfd(p, fd)
  IN  /\ \/ /\ f = 0 \/ (f # 0 /\ ~file[f].writable)
            /\ Fail(p)
            /\ UNCHANGED cur
         \/ /\ f # 0 /\ file[f].writable /\ file[f].type = "FD_PIPE"
            /\ cur' = [cur EXCEPT ![p] = file[f].pipe]
            /\ pc' = [pc EXCEPT ![p] = "pipewrite"]
            /\ UNCHANGED ret
         \/ /\ f # 0 /\ file[f].writable /\ file[f].type = "FD_INODE"
            /\ pc' = [pc EXCEPT ![p] = "filewrite"]
            /\ UNCHANGED <<cur, ret>>
      /\ UNCHANGED <<pipe, killed, buf, fileVars>>

(* filewrite() to a file: one transaction of at most max bytes. *)
filewrite(p, fd) ==
  LET f == argfd(p, fd)
      n1 == Min({max, Len(buf[p])})
  IN  /\ pc[p] = "filewrite"
      /\ \/ /\ buf[p] # <<>>
            /\ store' = writei(file[f].ip, file[f].off, SubSeq(buf[p], 1, n1))
            /\ file' = [file EXCEPT ![f].off = @ + n1]
            /\ buf' = [buf EXCEPT ![p] = SubSeq(@, n1 + 1, Len(@))]
            /\ UNCHANGED <<pc, ret>>
         \/ /\ buf[p] = <<>>
            /\ Returns(p, pc, 0)
            /\ UNCHANGED <<store, file, buf>>
      /\ UNCHANGED <<pipe, killed, cur, ofile, closing, ff, half>>

(* The end of sys_open(): filealloc(), fdalloc(), and the fields of the file. *)
sys_open(p, ip, readable, writable) ==
  /\ \/ /\ FreeFiles = {} \/ FreeFds(p) = {}
        /\ ret' = [ret EXCEPT ![p] = -1]
        /\ UNCHANGED <<file, ofile>>
     \/ /\ FreeFiles # {} /\ FreeFds(p) # {}
        /\ file' = [file EXCEPT ![Min(FreeFiles)] =
                       [@ EXCEPT !.ref = 1, !.type = "FD_INODE", !.ip = ip, !.off = 0,
                                 !.readable = readable, !.writable = writable]]
        /\ ofile' = [ofile EXCEPT ![p][Min(FreeFds(p))] = Min(FreeFiles)]
        /\ ret' = [ret EXCEPT ![p] = Min(FreeFds(p))]
  /\ UNCHANGED <<pc, pipeVars, closing, ff, half, store>>

(* sys_pipe(), pipealloc(): a filealloc(), twice. *)
pipealloc_file(p) ==
  /\ pc[p] = "pipealloc" /\ Len(half[p]) < 2
  /\ \/ /\ FreeFiles # {}
        /\ file' = [file EXCEPT ![Min(FreeFiles)].ref = 1]
        /\ half' = [half EXCEPT ![p] = Append(@, Min(FreeFiles))]
        /\ UNCHANGED <<pc, closing, ret>>
     \/ /\ FreeFiles = {}
        /\ closing' = [closing EXCEPT ![p] = half[p]]
        /\ half' = [half EXCEPT ![p] = <<>>]
        /\ pc' = [pc EXCEPT ![p] = IF half[p] = <<>> THEN "user" ELSE "fileclose"]
        /\ ret' = [ret EXCEPT ![p] = -1]
        /\ UNCHANGED file
  /\ UNCHANGED <<pipeVars, ofile, ff, store>>

(* kalloc(), the rest of pipealloc(), and the fdalloc()s of sys_pipe(); the *)
(* result stands for the descriptors: fd[0] * NOFILE + fd[1].               *)
PipeEnd(r, q, writable) == [r EXCEPT !.type = "FD_PIPE", !.pipe = q, !.readable = ~writable,
                                     !.writable = writable]
pipealloc_page(p) ==
  LET f0 == half[p][1]
      f1 == half[p][2]
      fd0 == Min(FreeFds(p))
      fd1 == Min(FreeFds(p) \ {fd0})
      page == {q \in Pipes : ~Allocated(q)}
      q == Min(page)
      ends == [file EXCEPT ![f0] = PipeEnd(@, q, FALSE), ![f1] = PipeEnd(@, q, TRUE)]
  IN  /\ pc[p] = "pipealloc" /\ Len(half[p]) = 2
      /\ half' = [half EXCEPT ![p] = <<>>]
      /\ \/ /\ page = {}
            /\ closing' = [closing EXCEPT ![p] = half[p]]
            /\ pc' = [pc EXCEPT ![p] = "fileclose"]
            /\ ret' = [ret EXCEPT ![p] = -1]
            /\ UNCHANGED <<pipe, file, ofile>>
         \/ /\ page # {}
            /\ pipe' = [pipe EXCEPT ![q] = NewPipe]
            /\ file' = ends
            /\ IF Cardinality(FreeFds(p)) < 2
               THEN /\ closing' = [closing EXCEPT ![p] = half[p]]
                    /\ pc' = [pc EXCEPT ![p] = "fileclose"]
                    /\ ret' = [ret EXCEPT ![p] = -1]
                    /\ UNCHANGED ofile
               ELSE /\ ofile' = [ofile EXCEPT ![p][fd0] = f0, ![p][fd1] = f1]
                    /\ pc' = [pc EXCEPT ![p] = "user"]
                    /\ ret' = [ret EXCEPT ![p] = fd0 * NOFILE + fd1]
                    /\ UNCHANGED closing
      /\ UNCHANGED <<killed, cur, buf, ff, store>>

(* The descriptors of fork(), with the filedup() of each. *)
fork_files_once(p, child) ==
  /\ ofile' = [ofile EXCEPT ![child] = ofile[p]]
  /\ file' = [f \in Files |-> IF \E fd \in Fds : ofile[p][fd] = f
                              THEN [file[f] EXCEPT !.ref = @ + 1] ELSE file[f]]

fork_files(p, child) ==
  /\ ofile' = [ofile EXCEPT ![child] = ofile[p]]
  /\ file' = [f \in Files |-> [file[f] EXCEPT !.ref =
                                 @ + Cardinality({fd \in Fds : ofile[p][fd] = f})]]
=============================================================================
