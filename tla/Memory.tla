------------------------------- MODULE Memory -------------------------------
(***************************************************************************)
(* Physical pages and address spaces: kalloc.c, vm.c, and the parts of     *)
(* main.c, proc.c and exec.c that allocate, copy, replace and free them.   *)
(* Several processes compete for the pages, so every loop that allocates   *)
(* takes one iteration per step and may find the list empty at any of      *)
(* them.  A loop that only frees is one step: freeing early can only help  *)
(* another process, and that process failing sooner is another behaviour.  *)
(* Any of these calls may be given up where it stands: the interrupt that  *)
(* comes during it ends in psig(), which jumps to a handler in user mode   *)
(* (trap.c:122, signal.c:251), and what the call had in hand stays behind. *)
(* Sizes and addresses are in bytes, modulo 2^32 scaled down to WORD.      *)
(***************************************************************************)
EXTENDS Integers, FiniteSets, Sequences

CONSTANTS Procs,       \* the slots of ptable.proc
          initproc,    \* the one userinit fills
          Pages,       \* the frames between end and PHYSTOP
          Early,       \* those kinit1 frees: the ones entrypgdir maps
          OtherCpus,   \* how many processors startothers starts
          NoPage,      \* a null pointer, a PTE or PDE without PTE_P
          PGSIZE, NPTENTRIES, NUTAB,  \* bytes a page, PTEs a table, user PDEs
          Images,      \* the programs exec is given: sequences of segments
          Amounts,     \* the arguments of sbrk
          ArgBytes,    \* the sizes of the argument strings of exec
          MaxCalls,    \* how many calls of sbrk, fork and exec there are (a bound)
          MaxGiven     \* how many of them are given up for a handler (a bound)

NUPAGES == NUTAB * NPTENTRIES
KERNBASE == NUPAGES * PGSIZE
WORD == 2 * KERNBASE

\* What exec uses of a program header, and whether the file holds the segment's bytes.
Segments == [vaddr : 0 .. WORD - 1, memsz : 0 .. WORD - 1, filesz : 0 .. WORD - 1, ok : BOOLEAN]

ASSUME MemoryAssumption ==
    /\ initproc \in Procs /\ NoPage \notin Pages /\ Early \subseteq Pages
    /\ IsFiniteSet(Pages) /\ IsFiniteSet(Procs)
    /\ PGSIZE \in Nat \ {0} /\ NPTENTRIES \in Nat \ {0} /\ NUTAB \in Nat \ {0}
    /\ OtherCpus \in Nat /\ OtherCpus + 2 <= Cardinality(Early)
    /\ OtherCpus + 7 <= Cardinality(Pages)
    /\ KERNBASE >= 4 /\ Amounts \subseteq -KERNBASE .. KERNBASE - 1
    /\ \A im \in Images : im \in Seq(Segments)
    /\ ArgBytes \subseteq Nat /\ MaxCalls \in Nat /\ MaxGiven \in Nat

VARIABLES boot,      \* the next step of main() on the boot processor
          freelist,  \* kmem.freelist, as a set: which free page kalloc gives is not told apart
          kern,      \* the pages the kernel took at boot and keeps
          state,     \* "UNUSED", "EMBRYO", "user" (in user mode or a system call), "ZOMBIE"
          kstack, sz, vm,       \* p->kstack, p->sz, what p->pgdir points to
          pc,        \* the loop a system call of p is in
          new,       \* the page table that call is building (d, pgdir)
          a, goal,   \* the loop's cursor and its bound newsz
          esz, image,  \* exec: sz and the program headers left
          child,     \* fork: np
          calls, given,  \* the calls so far and those of them that were given up
          panicked,  \* the process, if any, that reached a panic() of these files
          lost,      \* history: the pages a call had in hand when it was given up
          torn,      \* history: the processes whose sz no longer tells what is mapped
          twice      \* history: pages freed and, the call given up there, still mapped

vars == <<boot, freelist, kern, state, kstack, sz, vm, pc, new, a, goal, esz, image, child,
          calls, given, panicked, lost, torn, twice>>
bootVars == <<boot, kern>>
history == <<given, lost, torn, twice>>
locals == <<new, a, goal, esz, image, child>>

PGROUNDUP(x) == ((x + PGSIZE - 1) \div PGSIZE) * PGSIZE
Add(x, n) == (x + n) % WORD
VPN == 0 .. NUPAGES - 1
Vpn(x) == x \div PGSIZE
Pdx(v) == v \div NPTENTRIES

\* What a page directory leads to: its own page, the kernel part's table (one stands
\* for all of them), the user tables, the user pages and those of them with PTE_U.
NoSpace == [dir |-> NoPage, ktab |-> NoPage, utab |-> [t \in 0 .. NUTAB - 1 |-> NoPage],
            pte |-> [v \in VPN |-> NoPage], user |-> {}]

Frames(s) == ({s.dir, s.ktab} \cup {s.utab[t] : t \in 0 .. NUTAB - 1} \cup {s.pte[v] : v \in VPN})
                 \ {NoPage}

present(s, v) == v \in VPN /\ s.pte[v] # NoPage

Pick(S) == CHOOSE pg \in S : TRUE

-----------------------------------------------------------------------------
(***************************************************************************)
(* vm.c on one address space s and the free pages F.  Each gives the new   *)
(* space, the new free pages and whether it succeeded.                     *)
(***************************************************************************)

Failed(s, F) == [ok |-> FALSE, s |-> s, F |-> F]

\* setupkvm: the directory and the kernel's table, or neither.
setupkvm(F) ==
    IF Cardinality(F) < 2 THEN Failed(NoSpace, F)
    ELSE LET d == Pick(F) IN
         [ok |-> TRUE, s |-> [NoSpace EXCEPT !.dir = d, !.ktab = Pick(F \ {d})],
          F |-> (F \ {d}) \ {Pick(F \ {d})}]

\* One page for v: kalloc, then mappages, whose walkpgdir may need a table page.  When
\* the table cannot be had the page is given back (both callers kfree(mem)).
mappage_leak(s, F, v, u) ==
    LET mem == Pick(F)  rest == F \ {mem}  t == Pdx(v) IN
    IF F = {} THEN Failed(s, F)
    ELSE IF s.utab[t] # NoPage
    THEN [ok |-> TRUE, s |-> [s EXCEPT !.pte[v] = mem, !.user = @ \cup u], F |-> rest]
    ELSE IF rest = {} THEN Failed(s, rest)
    ELSE [ok |-> TRUE, F |-> rest \ {Pick(rest)},
          s |-> [s EXCEPT !.pte[v] = mem, !.user = @ \cup u, !.utab[t] = Pick(rest)]]

mappage(s, F, v, u) ==
    LET mem == Pick(F)  rest == F \ {mem}  t == Pdx(v) IN
    IF F = {} THEN Failed(s, F)
    ELSE IF s.utab[t] # NoPage
    THEN [ok |-> TRUE, s |-> [s EXCEPT !.pte[v] = mem, !.user = @ \cup u], F |-> rest]
    ELSE IF rest = {} THEN Failed(s, F)
    ELSE [ok |-> TRUE, F |-> rest \ {Pick(rest)},
          s |-> [s EXCEPT !.pte[v] = mem, !.user = @ \cup u, !.utab[t] = Pick(rest)]]

deallocuvm_down(s, F, oldsz, newsz) ==
    LET gone == {v \in VPN : Vpn(newsz) <= v /\ v * PGSIZE < oldsz} IN
    [s |-> [s EXCEPT !.pte = [v \in VPN |-> IF v \in gone THEN NoPage ELSE s.pte[v]],
                     !.user = @ \ gone],
     F |-> F \cup ({s.pte[v] : v \in gone} \ {NoPage})]

\* deallocuvm: the pages from PGROUNDUP(newsz) up to oldsz that are present.
deallocuvm(s, F, oldsz, newsz) ==
    LET gone == {v \in VPN : PGROUNDUP(newsz) <= v * PGSIZE /\ v * PGSIZE < oldsz} IN
    [s |-> [s EXCEPT !.pte = [v \in VPN |-> IF v \in gone THEN NoPage ELSE s.pte[v]],
                     !.user = @ \ gone],
     F |-> F \cup ({s.pte[v] : v \in gone} \ {NoPage})]

allocuvm_keep(s, F, oldsz, newsz, x) ==
    LET m == mappage(s, F, Vpn(x), {Vpn(x)}) IN
    [out |-> IF x >= newsz THEN "done"
             ELSE IF present(s, Vpn(x)) /\ F # {} THEN "panic"
             ELSE IF m.ok THEN "more" ELSE "bad", s |-> m.s, F |-> m.F]

\* One turn of allocuvm's loop at address x, growing s from oldsz to newsz.
allocuvm(s, F, oldsz, newsz, x) ==
    LET v == Vpn(x)
        m == mappage(s, F, v, {v})
        bad == deallocuvm(s, m.F, newsz, oldsz)
    IN IF x >= newsz THEN [out |-> "done", s |-> s, F |-> F]
       ELSE IF present(s, v) /\ F # {} THEN [out |-> "panic", s |-> s, F |-> F]  \* "remap"
       ELSE IF m.ok THEN [out |-> "more", s |-> m.s, F |-> m.F]
       ELSE [out |-> "bad", s |-> bad.s, F |-> bad.F]

\* freevm: the user pages, every table the directory names and the directory.
freevm(s, F) == F \cup Frames(s)

-----------------------------------------------------------------------------
(***************************************************************************)
(* main(): kinit1, kvmalloc, startothers, kinit2, userinit                 *)
(***************************************************************************)

Init == /\ boot = "kinit1" /\ freelist = {} /\ kern = {}
        /\ state = [p \in Procs |-> "UNUSED"] /\ kstack = [p \in Procs |-> NoPage]
        /\ sz = [p \in Procs |-> 0] /\ vm = [p \in Procs |-> NoSpace]
        /\ pc = [p \in Procs |-> "user"] /\ new = [p \in Procs |-> NoSpace]
        /\ a = [p \in Procs |-> 0] /\ goal = [p \in Procs |-> 0]
        /\ esz = [p \in Procs |-> 0] /\ image = [p \in Procs |-> <<>>]
        /\ child = [p \in Procs |-> p]
        /\ calls = 0 /\ given = 0 /\ panicked = {} /\ lost = {} /\ torn = {} /\ twice = {}

booting == <<state, kstack, sz, vm, pc, locals, calls, panicked, history>>

kinit1 == /\ boot = "kinit1" /\ boot' = "kvmalloc"
          /\ freelist' = Early
          /\ UNCHANGED <<kern, booting>>

kvmalloc == /\ boot = "kvmalloc" /\ boot' = "startothers"
            /\ LET r == setupkvm(freelist) IN kern' = Frames(r.s) /\ freelist' = r.F
            /\ UNCHANGED booting

\* One kernel stack for each of the other processors, before kinit2.
startothers == /\ boot = "startothers" /\ boot' = "kinit2"
               /\ \E S \in {S \in SUBSET freelist : Cardinality(S) = OtherCpus} :
                     kern' = kern \cup S /\ freelist' = freelist \ S
               /\ UNCHANGED booting

kinit2 == /\ boot = "kinit2" /\ boot' = "userinit"
          /\ freelist' = freelist \cup (Pages \ Early)
          /\ UNCHANGED <<kern, booting>>

\* userinit: kernel stack, page table, and inituvm's page at 0.
userinit ==
    /\ boot = "userinit" /\ boot' = "up"
    /\ LET k == Pick(freelist)
           r == setupkvm(freelist \ {k})
           m == mappage(r.s, r.F, 0, {0})
       IN /\ kstack' = [kstack EXCEPT ![initproc] = k]
          /\ vm' = [vm EXCEPT ![initproc] = m.s]
          /\ freelist' = m.F
    /\ sz' = [sz EXCEPT ![initproc] = PGSIZE]
    /\ state' = [state EXCEPT ![initproc] = "user"]
    /\ UNCHANGED <<kern, pc, locals, calls, panicked, history>>

-----------------------------------------------------------------------------
(***************************************************************************)
(* sbrk                                                                    *)
(***************************************************************************)

\* The loop's variables are dead once it is left.
Forget(p) == a' = [a EXCEPT ![p] = 0] /\ goal' = [goal EXCEPT ![p] = 0]

\* The system is up.  A panic stops it; and what the free list hands out once a page on
\* it is also mapped, and written by its old owner, is not modelled.
Up == boot = "up" /\ panicked = {} /\ twice = {}

Ready(p) == Up /\ state[p] = "user" /\ pc[p] = "user"

\* A process in user mode makes one more call.
Call(p) == Ready(p) /\ calls < MaxCalls /\ calls' = calls + 1

\* growproc(n), n > 0, up to the loop of allocuvm.
grow(p, n) ==
    /\ Call(p) /\ n > 0 /\ Add(sz[p], n) < KERNBASE
    /\ pc' = [pc EXCEPT ![p] = "grow"]
    /\ a' = [a EXCEPT ![p] = PGROUNDUP(sz[p])] /\ goal' = [goal EXCEPT ![p] = Add(sz[p], n)]
    /\ UNCHANGED <<bootVars, freelist, state, kstack, sz, vm, new, esz, image, child,
                   panicked, history>>

\* A turn of allocuvm for growproc; past the bound, sz is set.
growproc(p) ==
    /\ pc[p] = "grow" /\ Up
    /\ LET r == allocuvm(vm[p], freelist, sz[p], goal[p], a[p]) IN
       /\ vm' = [vm EXCEPT ![p] = r.s] /\ freelist' = r.F
       /\ panicked' = IF r.out = "panic" THEN {p} ELSE {}
       /\ sz' = [sz EXCEPT ![p] = IF r.out = "done" THEN goal[p] ELSE @]
       /\ IF r.out = "more" THEN a' = [a EXCEPT ![p] = @ + PGSIZE] /\ UNCHANGED <<goal, pc>>
          ELSE pc' = [pc EXCEPT ![p] = IF r.out = "panic" THEN @ ELSE "user"] /\ Forget(p)
    /\ UNCHANGED <<bootVars, calls, state, kstack, new, esz, image, child, history>>

\* growproc(n), n < 0, down to newsz.  A size that would go below 0 wraps, is not below
\* the old one and leaves everything alone.
Shrinks(p, n) == Call(p) /\ n < 0 /\ Add(sz[p], n) < sz[p]

\* A size of 0 reads as an error of deallocuvm: sz keeps its old value.
shrink(p, n) ==
    /\ Shrinks(p, n)
    /\ LET newsz == Add(sz[p], n)
           r == deallocuvm(vm[p], freelist, sz[p], newsz)
       IN /\ vm' = [vm EXCEPT ![p] = r.s] /\ freelist' = r.F
          /\ sz' = [sz EXCEPT ![p] = IF newsz = 0 THEN @ ELSE newsz]
          /\ torn' = IF newsz = 0 THEN torn \cup {p} ELSE torn
    /\ UNCHANGED <<bootVars, state, kstack, pc, locals, panicked, given, lost, twice>>

-----------------------------------------------------------------------------
(***************************************************************************)
(* fork and wait                                                           *)
(***************************************************************************)

\* allocproc and setupkvm: the child's kernel stack and an empty page table, or nothing.
fork(p, c) ==
    /\ Call(p) /\ state[c] = "UNUSED" /\ Cardinality(freelist) >= 3
    /\ LET k == Pick(freelist)
           r == setupkvm(freelist \ {k})
       IN /\ kstack' = [kstack EXCEPT ![c] = k]
          /\ new' = [new EXCEPT ![p] = r.s] /\ freelist' = r.F
    /\ state' = [state EXCEPT ![c] = "EMBRYO"] /\ child' = [child EXCEPT ![p] = c]
    /\ pc' = [pc EXCEPT ![p] = "copy"] /\ a' = [a EXCEPT ![p] = 0]
    /\ UNCHANGED <<bootVars, sz, vm, goal, esz, image, panicked, history>>

\* One turn of copyuvm's loop.  Out of pages, what there is of the copy is to be freed.
copyuvm(p) ==
    /\ pc[p] = "copy" /\ Up /\ a[p] < sz[p]
    /\ LET v == Vpn(a[p])
           m == mappage(new[p], freelist, v, {v} \cap vm[p].user)
       IN IF ~present(vm[p], v)
          THEN panicked' = {p} /\ UNCHANGED <<freelist, pc, new, a>>
          ELSE /\ new' = [new EXCEPT ![p] = m.s] /\ freelist' = m.F
               /\ a' = [a EXCEPT ![p] = IF m.ok THEN @ + PGSIZE ELSE 0]
               /\ pc' = [pc EXCEPT ![p] = IF m.ok THEN @ ELSE "free"]
               /\ UNCHANGED panicked
    /\ UNCHANGED <<bootVars, calls, state, kstack, sz, vm, goal, esz, image, child, history>>

\* The rest of fork: the child has the copy and runs.
fork_done(p) == LET c == child[p] IN
    /\ pc[p] = "copy" /\ Up /\ a[p] >= sz[p]
    /\ vm' = [vm EXCEPT ![c] = new[p]] /\ sz' = [sz EXCEPT ![c] = sz[p]]
    /\ state' = [state EXCEPT ![c] = "user"]
    /\ new' = [new EXCEPT ![p] = NoSpace] /\ a' = [a EXCEPT ![p] = 0]
    /\ pc' = [pc EXCEPT ![p] = "user"] /\ child' = [child EXCEPT ![p] = p]
    /\ UNCHANGED <<bootVars, calls, freelist, kstack, goal, esz, image, panicked, history>>

\* The end of a fork or exec that failed, and of an exec that succeeded: a page table is
\* freed, and with it the slot and the kernel stack that a failing fork had taken.
freeing(p) == LET c == child[p] IN
    /\ pc[p] = "free" /\ Up
    /\ freelist' = freevm(new[p], freelist) \cup (IF c = p THEN {} ELSE {kstack[c]})
    /\ kstack' = IF c = p THEN kstack ELSE [kstack EXCEPT ![c] = NoPage]
    /\ state' = IF c = p THEN state ELSE [state EXCEPT ![c] = "UNUSED"]
    /\ new' = [new EXCEPT ![p] = NoSpace] /\ child' = [child EXCEPT ![p] = p]
    /\ pc' = [pc EXCEPT ![p] = "user"]
    /\ UNCHANGED <<bootVars, calls, sz, vm, a, goal, esz, image, panicked, history>>

\* exit leaves the memory to the parent's wait, which frees the stack and the space.  A
\* killed process comes to it only on its way back to user mode, its call at an end.
exit(p) == /\ Ready(p) /\ p # initproc
           /\ state' = [state EXCEPT ![p] = "ZOMBIE"]
           /\ UNCHANGED <<bootVars, calls, freelist, kstack, sz, vm, pc, locals, panicked, history>>

\* With ptable.lock held, so that no interrupt comes in between.
wait(p) == /\ state[p] = "ZOMBIE" /\ Up
           /\ freelist' = freevm(vm[p], freelist) \cup {kstack[p]}
           /\ kstack' = [kstack EXCEPT ![p] = NoPage] /\ vm' = [vm EXCEPT ![p] = NoSpace]
           /\ sz' = [sz EXCEPT ![p] = 0] /\ state' = [state EXCEPT ![p] = "UNUSED"]
           /\ torn' = torn \ {p}
           /\ UNCHANGED <<bootVars, calls, pc, locals, panicked, given, lost, twice>>

-----------------------------------------------------------------------------
(***************************************************************************)
(* exec.  `image` holds the program headers still to load: a segment has   *)
(* vaddr, memsz, filesz and whether the file really holds its bytes.       *)
(***************************************************************************)

exec(p, im) ==
    /\ Call(p)
    /\ LET r == setupkvm(freelist) IN
       r.ok /\ new' = [new EXCEPT ![p] = r.s] /\ freelist' = r.F
    /\ pc' = [pc EXCEPT ![p] = "load"] /\ image' = [image EXCEPT ![p] = im]
    /\ UNCHANGED <<bootVars, state, kstack, sz, vm, a, goal, esz, child, panicked, history>>

\* bad: the half-built page table s is to be freed and the old image goes on.
exec_bad(p, s, F) ==
    /\ freelist' = F /\ new' = [new EXCEPT ![p] = s]
    /\ pc' = [pc EXCEPT ![p] = "free"] /\ Forget(p)
    /\ esz' = [esz EXCEPT ![p] = 0] /\ image' = [image EXCEPT ![p] = <<>>]
    /\ UNCHANGED panicked

\* A program header is read and checked, and allocuvm entered; a segment that ends
\* below the size so far needs no page.  After the last one come the two stack pages.
exec_header(p) ==
    /\ pc[p] = "load" /\ Up
    /\ LET last == image[p] = <<>>
           ph == Head(image[p])
           from == IF last THEN PGROUNDUP(esz[p]) ELSE esz[p]
           newsz == IF last THEN from + 2 * PGSIZE ELSE Add(ph.vaddr, ph.memsz)
       IN IF \/ ~last /\ (ph.memsz < ph.filesz \/ newsz < ph.vaddr)
             \/ newsz >= KERNBASE
          THEN exec_bad(p, new[p], freelist)
          ELSE /\ esz' = [esz EXCEPT ![p] = from]
               /\ goal' = [goal EXCEPT ![p] = IF newsz < from THEN from ELSE newsz]
               /\ a' = [a EXCEPT ![p] = PGROUNDUP(from)]
               /\ pc' = [pc EXCEPT ![p] = IF last THEN "stack" ELSE "seg"]
               /\ UNCHANGED <<freelist, new, image, panicked>>
    /\ UNCHANGED <<bootVars, calls, state, kstack, sz, vm, child, history>>

\* loaduvm writes the file's bytes into pages that must be there.
loaduvm_ok(s, ph) == \A x \in ph.vaddr .. ph.vaddr + ph.filesz - 1 : present(s, Vpn(x))

\* A turn of allocuvm for a segment or the stack.
exec_alloc(p) ==
    /\ pc[p] \in {"seg", "stack"} /\ Up /\ a[p] < goal[p]
    /\ LET r == allocuvm(new[p], freelist, esz[p], goal[p], a[p]) IN
       IF r.out = "bad" THEN exec_bad(p, r.s, r.F)
       ELSE /\ new' = [new EXCEPT ![p] = r.s] /\ freelist' = r.F
            /\ a' = [a EXCEPT ![p] = @ + PGSIZE] /\ panicked' = IF r.out = "panic" THEN {p} ELSE {}
            /\ UNCHANGED <<pc, goal, esz, image>>
    /\ UNCHANGED <<bootVars, calls, state, kstack, sz, vm, child, history>>

\* The pages of a segment are there: it is loaded and the next header read.
exec_load(p) == LET ph == Head(image[p]) IN
    /\ pc[p] = "seg" /\ Up /\ a[p] >= goal[p]
    /\ IF goal[p] = 0 \/ ph.vaddr % PGSIZE # 0 THEN exec_bad(p, new[p], freelist)
       ELSE IF ~loaduvm_ok(new[p], ph)
       THEN panicked' = {p} /\ UNCHANGED <<freelist, pc, new, a, goal, esz, image>>
       ELSE IF ~ph.ok THEN exec_bad(p, new[p], freelist)
       ELSE /\ esz' = [esz EXCEPT ![p] = goal[p]]
            /\ image' = [image EXCEPT ![p] = Tail(@)]
            /\ pc' = [pc EXCEPT ![p] = "load"] /\ Forget(p)
            /\ UNCHANGED <<freelist, new, panicked>>
    /\ UNCHANGED <<bootVars, calls, state, kstack, sz, vm, child, history>>

\* copyout through uva2ka: every byte of the range is on a page with PTE_U.
copyout(s, va, len) == \A x \in va .. va + len - 1 : present(s, Vpn(x)) /\ Vpn(x) \in s.user

\* The stack and its arguments: clearpteu makes the lower stack page the guard, and n
\* bytes are pushed.
Stacked(p) == [new[p] EXCEPT !.user = @ \ {Vpn(goal[p]) - 2}]
Pushed(p, n) == pc[p] = "stack" /\ Up /\ a[p] >= goal[p] /\ copyout(Stacked(p), goal[p] - n, n)

\* The arguments do not fit.
exec_full(p, n) ==
    /\ pc[p] = "stack" /\ Up /\ a[p] >= goal[p] /\ ~copyout(Stacked(p), goal[p] - n, n)
    /\ exec_bad(p, new[p], freelist)
    /\ UNCHANGED <<bootVars, calls, state, kstack, sz, vm, child, history>>

\* The new image replaces the old one, whose memory is to be freed.
exec_commit(p, n) ==
    /\ Pushed(p, n)
    /\ vm' = [vm EXCEPT ![p] = Stacked(p)] /\ sz' = [sz EXCEPT ![p] = goal[p]]
    /\ new' = [new EXCEPT ![p] = vm[p]] /\ pc' = [pc EXCEPT ![p] = "free"]
    /\ Forget(p) /\ esz' = [esz EXCEPT ![p] = 0] /\ torn' = torn \ {p}
    /\ UNCHANGED <<bootVars, calls, freelist, state, kstack, image, child, panicked, given,
                   lost, twice>>

-----------------------------------------------------------------------------
(***************************************************************************)
(* psig(): a call in progress is given up for a signal handler             *)
(***************************************************************************)

\* Where a call may be cut short: the space and the free pages as they are then, the
\* pages that only the call's variables named, and those freed but still mapped.
Cut(s, F, gone, dup) == [s |-> s, F |-> F, gone |-> gone, dup |-> dup]

\* Inside mappage: before it, with the page taken, with the table page taken too, and
\* with the table in its place.
mappage_cut(s, F, v) ==
    LET mem == Pick(F)  tab == Pick(F \ {mem})  t == Pdx(v) IN
    {Cut(s, F, {}, {})} \cup
    IF F = {} THEN {} ELSE {Cut(s, F \ {mem}, {mem}, {})} \cup
    IF s.utab[t] # NoPage \/ F = {mem} THEN {}
    ELSE {Cut(s, F \ {mem, tab}, {mem, tab}, {}),
          Cut([s EXCEPT !.utab[t] = tab], F \ {mem, tab}, {mem}, {})}

\* Inside deallocuvm: before page w, or between kfree(v) and *pte = 0 for page w.
deallocuvm_cut(s, F, oldsz, newsz) ==
    LET turns == {v \in 0 .. NUPAGES : PGROUNDUP(newsz) <= v * PGSIZE}
        upto(w) == deallocuvm(s, F, w * PGSIZE, newsz)
    IN {Cut(upto(w).s, upto(w).F, {}, {}) : w \in {w \in turns : w * PGSIZE < oldsz + PGSIZE}} \cup
       {Cut(upto(w).s, upto(w).F \cup {s.pte[w]}, {}, {s.pte[w]}) :
           w \in {w \in turns : w * PGSIZE < oldsz /\ present(s, w)}}

\* Inside a turn of allocuvm, or of the deallocuvm it calls when there are too few pages.
allocuvm_cut(s, F, oldsz, newsz, x) ==
    LET v == Vpn(x)
        mem == IF F = {} THEN {} ELSE {Pick(F)}
        undo == {[c EXCEPT !.gone = mem] : c \in deallocuvm_cut(s, F \ mem, newsz, oldsz)}
    IN IF x >= newsz \/ present(s, v) THEN {Cut(s, F, {}, {})}
       ELSE mappage_cut(s, F, v) \cup IF mappage(s, F, v, {v}).ok THEN {} ELSE undo

\* Inside freevm: what it has freed by then, the user pages first, the directory last.
freevm_cut(s) ==
    LET order == [i \in 0 .. NUPAGES + NUTAB |->
                     IF i < NUPAGES THEN s.pte[i]
                     ELSE IF i < NUPAGES + NUTAB THEN s.utab[i - NUPAGES] ELSE s.ktab]
    IN {{order[i] : i \in 0 .. k - 1} \ {NoPage} : k \in 0 .. NUPAGES + NUTAB + 1} \cup {Frames(s)}

\* p leaves the kernel for the handler; the call's variables are gone with its stack.
GiveUp(p) ==
    /\ Up /\ given < MaxGiven /\ given' = given + 1
    /\ pc' = [pc EXCEPT ![p] = "user"] /\ new' = [new EXCEPT ![p] = NoSpace] /\ Forget(p)
    /\ esz' = [esz EXCEPT ![p] = 0] /\ image' = [image EXCEPT ![p] = <<>>]
    /\ child' = [child EXCEPT ![p] = p]
    /\ UNCHANGED <<bootVars, panicked>>

\* sbrk(n), n > 0: the pages mapped so far stay, and sz does not tell of them.
psig_grow(p) ==
    /\ pc[p] = "grow" /\ GiveUp(p)
    /\ \E c \in allocuvm_cut(vm[p], freelist, sz[p], goal[p], a[p]) :
          /\ vm' = [vm EXCEPT ![p] = c.s] /\ freelist' = c.F
          /\ lost' = lost \cup c.gone /\ twice' = c.dup
    /\ torn' = IF a[p] = PGROUNDUP(sz[p]) THEN torn ELSE torn \cup {p}
    /\ UNCHANGED <<calls, state, kstack, sz>>

\* sbrk(n), n < 0: the pages freed so far are below the old sz, which stays.
psig_shrink(p, n) ==
    /\ Shrinks(p, n) /\ GiveUp(p)
    /\ \E c \in deallocuvm_cut(vm[p], freelist, sz[p], Add(sz[p], n)) :
          /\ vm' = [vm EXCEPT ![p] = c.s] /\ freelist' = c.F /\ twice' = c.dup
          /\ torn' = IF c.s = vm[p] THEN torn ELSE torn \cup {p}
    /\ UNCHANGED <<state, kstack, sz, lost>>

\* fork in allocproc or setupkvm: the slot stays EMBRYO, with or without a stack.
psig_fork(p, c) ==
    /\ Call(p) /\ GiveUp(p) /\ state[c] = "UNUSED"
    /\ state' = [state EXCEPT ![c] = "EMBRYO"]
    /\ LET k == Pick(freelist)  d == Pick(freelist \ {k}) IN
       \/ UNCHANGED <<kstack, freelist, lost>>
       \/ /\ freelist # {} /\ kstack' = [kstack EXCEPT ![c] = k]
          /\ \/ freelist' = freelist \ {k} /\ UNCHANGED lost
             \/ /\ freelist # {k} /\ freelist' = freelist \ {k, d}
                /\ lost' = lost \cup {d}
    /\ UNCHANGED <<sz, vm, torn, twice>>

\* exec in setupkvm.
psig_exec(p) ==
    /\ Call(p) /\ GiveUp(p) /\ freelist # {}
    /\ freelist' = freelist \ {Pick(freelist)} /\ lost' = lost \cup {Pick(freelist)}
    /\ UNCHANGED <<state, kstack, sz, vm, torn, twice>>

\* fork and exec with a half-built page table: all of it is lost, and the child's slot
\* and kernel stack stay EMBRYO.
psig_build(p) ==
    /\ pc[p] \in {"copy", "load", "seg", "stack"} /\ GiveUp(p)
    /\ \E c \in CASE pc[p] = "copy" /\ a[p] < sz[p] -> mappage_cut(new[p], freelist, Vpn(a[p]))
                 [] pc[p] \in {"seg", "stack"} /\ a[p] < goal[p] ->
                       allocuvm_cut(new[p], freelist, esz[p], goal[p], a[p])
                 [] OTHER -> {Cut(new[p], freelist, {}, {})} :
          freelist' = c.F /\ lost' = lost \cup c.gone \cup (Frames(c.s) \ c.dup)
    /\ UNCHANGED <<calls, state, kstack, sz, vm, torn, twice>>

\* exec between the two assignments that commit: the new image with the old size.
psig_commit(p, n) ==
    /\ Pushed(p, n) /\ GiveUp(p)
    /\ vm' = [vm EXCEPT ![p] = Stacked(p)] /\ lost' = lost \cup Frames(vm[p])
    /\ torn' = torn \cup {p}
    /\ UNCHANGED <<calls, freelist, state, kstack, sz, twice>>

\* Freeing a page table: the rest of it is lost.  A failing fork may also have freed the
\* kernel stack, its slot still EMBRYO.
psig_free(p) == LET c == child[p] IN
    /\ pc[p] = "free" /\ GiveUp(p)
    /\ \/ \E S \in freevm_cut(new[p]) :
             /\ freelist' = freelist \cup S /\ lost' = lost \cup (Frames(new[p]) \ S)
             /\ UNCHANGED kstack
       \/ /\ c # p /\ freelist' = freevm(new[p], freelist) \cup {kstack[c]}
          /\ kstack' = [kstack EXCEPT ![c] = NoPage] /\ UNCHANGED lost
    /\ UNCHANGED <<calls, state, sz, vm, torn, twice>>

-----------------------------------------------------------------------------

Next == \/ kinit1 \/ kvmalloc \/ startothers \/ kinit2 \/ userinit
        \/ \E p \in Procs, n \in Amounts : grow(p, n) \/ shrink(p, n) \/ psig_shrink(p, n)
        \/ \E p, c \in Procs : fork(p, c) \/ psig_fork(p, c)
        \/ \E p \in Procs : growproc(p) \/ copyuvm(p) \/ fork_done(p) \/ freeing(p)
                             \/ exit(p) \/ wait(p)
        \/ \E p \in Procs, im \in Images : exec(p, im)
        \/ \E p \in Procs : exec_header(p) \/ exec_alloc(p) \/ exec_load(p)
        \/ \E p \in Procs, n \in ArgBytes : exec_full(p, n) \/ exec_commit(p, n)
                                           \/ psig_commit(p, n)
        \/ \E p \in Procs : psig_grow(p) \/ psig_exec(p) \/ psig_build(p) \/ psig_free(p)

Spec == Init /\ [][Next]_vars

-----------------------------------------------------------------------------
(***************************************************************************)
(* syscall.c: what the kernel accepts as a user pointer                    *)
(***************************************************************************)

fetchint(p, addr) == addr < sz[p] /\ Add(addr, 4) <= sz[p]

argptr_end(p, i, size) == i < sz[p] /\ Add(i, size) <= sz[p] + 1

argptr(p, i, size) == i < sz[p] /\ Add(i, size) <= sz[p]

-----------------------------------------------------------------------------
(***************************************************************************)
(* Properties                                                              *)
(***************************************************************************)

\* No page of a space is mapped or used as a table twice in it.
Distinct(s) ==
    /\ \A v, w \in VPN : v # w /\ s.pte[v] # NoPage => s.pte[v] # s.pte[w]
    /\ \A t, u \in 0 .. NUTAB - 1 : t # u /\ s.utab[t] # NoPage => s.utab[t] # s.utab[u]
    /\ \A v \in VPN, t \in 0 .. NUTAB - 1 : s.pte[v] # NoPage => s.pte[v] # s.utab[t]
    /\ \A v \in VPN : s.pte[v] # NoPage => s.pte[v] \notin {s.dir, s.ktab}
    /\ \A t \in 0 .. NUTAB - 1 : s.utab[t] # NoPage => s.utab[t] \notin {s.dir, s.ktab}
    /\ s.dir # NoPage => s.dir # s.ktab

\* What a process holds: its kernel stack, its memory, the page table it is building.
Held(p, i) == CASE i = 1 -> {kstack[p]} \ {NoPage}
                [] i = 2 -> Frames(vm[p])
                [] i = 3 -> Frames(new[p])

\* Every page is free, or has one owner and one use there, or is one that a call had in
\* hand when it was given up: no page is handed out twice, freed while it is mapped, or
\* lost on a path of sbrk, fork, exec and wait that ends, whichever of their allocations
\* fails, whoever else allocates meanwhile and wherever other calls are given up.  Not
\* so once psig() has come between kfree(v) and *pte = 0 in deallocuvm (vm.c:275).
PagesPartitioned == twice = {} =>
    /\ \A p \in Procs : Distinct(vm[p]) /\ Distinct(new[p])
    /\ \A p, q \in Procs, i, j \in 1 .. 3 :
          p # q \/ i # j => Held(p, i) \cap Held(q, j) = {}
    /\ \A p \in Procs, i \in 1 .. 3 : Held(p, i) \cap (freelist \cup kern \cup lost) = {}
    /\ freelist \cap kern = {} /\ lost \cap (freelist \cup kern) = {}
    /\ boot = "up" => freelist \cup kern \cup lost
                        \cup UNION {Held(p, i) : p \in Procs, i \in 1 .. 3} = Pages

\* A process has exactly the pages its size says, up to the cursor of a running sbrk: a
\* failed sbrk gives back all it took, and no page above sz stays mapped.  It is not so
\* for a process that is torn, until its next exec: psig() took it out of growproc, or
\* out of exec between its two assignments, or it gave back all of its memory at once,
\* which growproc takes for an error (proc.c:187).  Nobody else is, its children included.
SizeMapped ==
    \A p \in Procs \ torn : state[p] \in {"user", "ZOMBIE"} =>
        \A v \in VPN : present(vm[p], v) <=>
            (v * PGSIZE < sz[p] \/ (pc[p] = "grow" /\ v * PGSIZE < a[p]))

\* The assertions of vm.c ("remap", copyuvm's two, loaduvm's) fail only in the sbrk or
\* fork of a process that is torn, as above; no call of any other process comes to one,
\* and neither does exec.
PanicOnlyTorn == panicked \subseteq {p \in torn : pc[p] \in {"grow", "copy"}}

\* What the checks of fetchint and argptr let through is memory the process has, so the
\* kernel cannot fault on it; addresses are unsigned and wrap.  A torn process is
\* excepted: for it the kernel can.
ArgsMapped ==
    \A p \in Procs \ torn : state[p] = "user" =>
        \A i \in 0 .. WORD - 1, size \in 0 .. KERNBASE - 1 :
            /\ argptr(p, i, size) => \A x \in i .. i + size - 1 : present(vm[p], Vpn(x))
            /\ fetchint(p, i) => \A x \in i .. i + 3 : present(vm[p], Vpn(x))
=============================================================================
