------------------------------- MODULE Memory -------------------------------
(***************************************************************************)
(* The physical pages and who owns them: src/src/kalloc.rs, src/src/vm.rs, *)
(* src/src/loader.rs and the parts of src/src/proc.rs and                  *)
(* src/src/syscall.rs that allocate and free.  A system call runs without  *)
(* preemption (Proc), so each is one step that goes through every          *)
(* allocation it makes, any of which may find the free list empty.         *)
(*                                                                         *)
(* Virtual addresses are page numbers.  A page has one of the contents     *)
(* "junk", "zero", "image", "args" and "value".  PTE flags are left out.   *)
(***************************************************************************)
EXTENDS Integers, Sequences, FiniteSets, TLC
LOCAL INSTANCE SequencesExt
LOCAL INSTANCE FiniteSetsExt
LOCAL INSTANCE Functions

CONSTANTS NPROC,
          NPAGES,     \* physical pages managed by kalloc
          PGSIZE,     \* bytes in a page
          FANOUT,     \* entries of a page-table page (512)
          MAXVA,      \* user pages of the address space, fixed ones included
          Images,     \* the files exec may be given, see Image
          INIT_ELF,   \* the image of init
          MaxSbrk,    \* the largest increment passed to sbrk
          Stores      \* the addresses programs write to

ASSUME MemoryAssumption ==
    /\ NPROC \in Nat \ {0} /\ NPAGES \in Nat /\ PGSIZE \in Nat \ {0}
    /\ FANOUT \in Nat \ {0, 1} /\ MAXVA \in 4..FANOUT * FANOUT * FANOUT
    /\ MaxSbrk \in Nat /\ Stores \subseteq 0..MAXVA - 3

Slots == 1..NPROC
Pages == 1..NPAGES
KernelPage == 0                  \* the page of the kernel image with the trampoline
null == 0
INITPROC == 1                    \* userinit takes the first slot
TRAMPOLINE == MAXVA - 1
TRAPFRAME == MAXVA - 2
USER_STACK == MAXVA - 3

\* page_round_up, in pages.
npages(sz) == (sz + PGSIZE - 1) \div PGSIZE

VARIABLES
    free,     \* how often each page is on the free list
    data,     \* contents by page
    proc,     \* by slot: state, trapframe, kstack, pt and sz of Process
    panicked  \* a kernel assertion has failed

vars == <<free, data, proc, panicked>>

NoTable == [root |-> null, tabs |-> <<>>, map |-> <<>>]
NoProc == [state |-> "unused", trapframe |-> null, kstack |-> null, pt |-> NoTable, sz |-> 0]

\* A call under way: the free list and the contents as it has left them so far,
\* the page table it works on (its root, its other table pages by level and
\* index, its leaves by address), its result, and how many pages its loop mapped.
call(f, d, pt) ==
    [free |-> f, data |-> d, pt |-> pt, res |-> "ok", done |-> 0, end |-> 0, bad |-> FALSE]

start(pt) == call(free, data, pt)
-----------------------------------------------------------------------------
(* kalloc.rs.  Which free page kalloc returns does not matter.               *)
exhausted(s) == \A pg \in Pages : s.free[pg] = 0
head(s) == Min({pg \in Pages : s.free[pg] > 0})

kalloc(s, content) == [s EXCEPT !.free[head(s)] = @ - 1, !.data[head(s)] = content]
kalloc_zeroed(s) == kalloc(s, "zero")

\* Free f[x] for every x, junk fill included.
kfree_all(s, f) ==
    LET times(pg) == Cardinality({x \in DOMAIN f : f[x] = pg})
    IN  [s EXCEPT !.free = [pg \in Pages |-> @[pg] + times(pg)],
                  !.data = [pg \in Pages |-> IF times(pg) > 0 THEN "junk" ELSE @[pg]]]

kfree(s, pg) == kfree_all(s, <<pg>>)
-----------------------------------------------------------------------------
(* vm.rs.                                                                    *)
\* walk with alloc: one missing table of the path.
add_table(s, node) ==
    IF s.res # "ok" \/ node \in DOMAIN s.pt.tabs THEN s
    ELSE IF exhausted(s) THEN [s EXCEPT !.res = "map failed"]
    ELSE [kalloc_zeroed(s) EXCEPT !.pt.tabs = @ @@ (node :> head(s))]

walk(s, va) == FoldLeft(add_table, s, << <<1, va \div (FANOUT * FANOUT)>>, <<0, va \div FANOUT>> >>)

add_leaf(s, va, pg) ==
    IF s.res # "ok" THEN s
    ELSE IF va \in DOMAIN s.pt.map THEN [s EXCEPT !.res = "map failed"]
    ELSE [s EXCEPT !.pt.map = @ @@ (va :> pg)]

mappages(s, va, pg) == add_leaf(walk(s, va), va, pg)

uvmunmap(s, va, n, do_free) ==
    LET gone == va..va + n - 1
        u == IF do_free THEN kfree_all(s, Restrict(s.pt.map, gone)) ELSE s
    IN  IF gone \subseteq DOMAIN s.pt.map
        THEN [u EXCEPT !.pt.map = Restrict(@, DOMAIN @ \ gone)]
        ELSE [s EXCEPT !.bad = TRUE]

freewalk(s) ==
    IF DOMAIN s.pt.map # {} THEN [s EXCEPT !.bad = TRUE]
    ELSE [kfree_all(kfree(s, s.pt.root), s.pt.tabs) EXCEPT !.pt = NoTable]

\* proc_pagetable in its three steps: a root, the trampoline, the trapframe.
with_trapframe(s) ==
    IF s.res = "ok" THEN s ELSE freewalk(uvmunmap(s, TRAMPOLINE, 1, FALSE))

with_trampoline(s, trapframe) ==
    IF s.res = "ok" THEN with_trapframe(mappages(s, TRAPFRAME, trapframe)) ELSE freewalk(s)

proc_pagetable(s, trapframe) ==
    IF exhausted(s) THEN [s EXCEPT !.res = "no memory"]
    ELSE with_trampoline(mappages([kalloc_zeroed(s) EXCEPT !.pt.root = head(s)],
                                  TRAMPOLINE, KernelPage), trapframe)

free_stack(s) ==
    IF USER_STACK \in DOMAIN s.pt.map THEN uvmunmap(s, USER_STACK, 1, TRUE) ELSE s

\* Wrong: the trapframe page is freed with its mapping, and again by freeproc.
proc_freepagetable_trapframe(s, sz) ==
    freewalk(uvmunmap(free_stack(uvmunmap(uvmunmap(s, TRAMPOLINE, 1, FALSE),
                                          TRAPFRAME, 1, TRUE)), 0, npages(sz), TRUE))

proc_freepagetable(s, sz) ==
    freewalk(uvmunmap(free_stack(uvmunmap(uvmunmap(s, TRAMPOLINE, 1, FALSE),
                                          TRAPFRAME, 1, FALSE)), 0, npages(sz), TRUE))

\* One turn of the loops of uvmcopy, uvmalloc and load_segment_from_inode.
keep_page(s, pg) == IF s.res = "ok" THEN [s EXCEPT !.done = @ + 1] ELSE kfree(s, pg)

add_page(s, va, content) ==
    IF s.res # "ok" THEN s
    ELSE IF exhausted(s) THEN [s EXCEPT !.res = "no memory"]
    ELSE keep_page(mappages(kalloc(s, content), va, head(s)), head(s))

add_pages(s, va, n, content) ==
    FoldLeft(LAMBDA t, i : add_page(t, va + i - 1, content[i]),
             [s EXCEPT !.done = 0], [i \in 1..n |-> i])

zeros(n) == [i \in 1..n |-> "zero"]

undo(s, va) == IF s.res = "ok" THEN s ELSE uvmunmap(s, va, s.done, TRUE)

uvmcopy(s, old, sz) ==
    IF ~(0..npages(sz) - 1 \subseteq DOMAIN old.map) THEN [s EXCEPT !.bad = TRUE]
    ELSE undo(add_pages(s, 0, npages(sz), [i \in 1..npages(sz) |-> s.data[old.map[i - 1]]]), 0)

\* Wrong: the child is given the parent's own stack page.
uvmcopy_stack_shared(s, old) == mappages(s, USER_STACK, old.map[USER_STACK])

uvmcopy_stack(s, old) ==
    IF USER_STACK \notin DOMAIN old.map THEN [s EXCEPT !.res = "no stack"]
    ELSE add_page(s, USER_STACK, s.data[old.map[USER_STACK]])

\* Only a failure of mappages is undone.
undo_mapping(s, va) == IF s.res = "map failed" THEN undo(s, va) ELSE s

uvmalloc(s, oldsz, newsz) ==
    LET n == npages(newsz) - npages(oldsz)
    IN  undo_mapping(add_pages(s, npages(oldsz), n, zeros(n)), npages(oldsz))
-----------------------------------------------------------------------------
(* loader.rs.  An image has segments that follow each other from address 0:  *)
(* segment i ends before page ends[i].  The file may be too short: only the  *)
(* first headers program headers and the contents of the first contents      *)
(* segments can be read.  A file that is no executable has headers = -1.     *)
Image == [ends : Seq(Nat), headers : Int, contents : Nat]

seg_start(image, i) == IF i = 1 THEN 0 ELSE image.ends[i - 1]

\* Where the contents cannot be read, this shows at the last page.
load_segment(s, image, i) ==
    LET va == seg_start(image, i)
        readable == i <= image.contents
        n == IF readable THEN image.ends[i] - va ELSE image.ends[i] - va - 1
    IN  undo([add_pages(s, va, n, [k \in 1..n |-> "image"])
                 EXCEPT !.res = IF readable THEN @ ELSE "short"], va)

cleanup_user(s, end) == uvmunmap(s, 0, end, TRUE)

\* Wrong: when memory runs out for the stack, the segments stay mapped.
load_stack_no_cleanup(s) == add_page(s, USER_STACK, "zero")

or_cleanup(s) == IF s.res = "ok" THEN s ELSE cleanup_user(s, s.end)

load_stack(s) == or_cleanup(add_page(s, USER_STACK, "zero"))

extend(s, end) == IF s.res = "ok" THEN [s EXCEPT !.end = end] ELSE s

\* A header that cannot be read ends the loop at once, without cleanup_user.
load_one(s, image, i) ==
    IF s.res # "ok" THEN s
    ELSE IF i > image.headers THEN [s EXCEPT !.res = "short"]
    ELSE extend(or_cleanup(load_segment(s, image, i)), image.ends[i])

load_segments(s, image) ==
    FoldLeft(LAMBDA t, i : load_one(t, image, i), s, [i \in DOMAIN image.ends |-> i])

then_stack(s) == IF s.res = "ok" THEN load_stack(s) ELSE s

load_elf(s, image) ==
    IF image.headers = -1 THEN [s EXCEPT !.res = "short"]
    ELSE then_stack(load_segments(s, image))
-----------------------------------------------------------------------------
(* proc.rs.                                                                  *)
\* The end of a call that worked on slot q, with the call c.s and the record
\* c.r: nothing else happens after a panic.
finish(c, q) ==
    IF c.s.bad THEN panicked' = TRUE /\ UNCHANGED <<free, data, proc>>
    ELSE /\ free' = c.s.free /\ data' = c.s.data
         /\ proc' = [proc EXCEPT ![q] = c.r]
         /\ UNCHANGED panicked

\* freeproc on a process record r; s holds its page table.
free_page(s, pg) == IF pg = null THEN s ELSE kfree(s, pg)
free_table(s, sz) == IF s.pt.root = null THEN s ELSE proc_freepagetable(s, sz)

freeproc(s, r) == free_page(free_table(free_page(s, r.trapframe), r.sz), r.kstack)

failed(s, r) == [s |-> [freeproc(s, r) EXCEPT !.res = "no memory"], r |-> NoProc]

\* allocproc for a slot that is free: the call and the record it has filled in.
\* After a failure everything is freed again.
with_kstack(s, r) ==
    IF s.res # "ok" \/ exhausted(s) THEN failed(s, r)
    ELSE [s |-> kalloc(s, "junk"), r |-> [r EXCEPT !.kstack = head(s)]]

allocproc(s) ==
    IF exhausted(s) THEN failed(s, NoProc)
    ELSE with_kstack(proc_pagetable(kalloc_zeroed(s), head(s)),
                     [NoProc EXCEPT !.trapframe = head(s)])

\* fork after allocproc: the memory of the process r is copied to child.
with_stack(s, child) ==
    IF s.res # "ok" THEN failed(s, child)
    ELSE [s |-> s, r |-> [child EXCEPT !.state = "alive", !.pt = s.pt]]

\* Wrong: the child is not told its size.
copied_no_size(s, child, r) ==
    IF s.res # "ok" THEN failed(s, child)
    ELSE with_stack(uvmcopy_stack(s, r.pt), child)

copied(s, child, r) ==
    IF s.res # "ok" THEN failed(s, child)
    ELSE with_stack(uvmcopy_stack(s, r.pt), [child EXCEPT !.sz = r.sz])

fork_copy(a, r) ==
    IF a.s.res # "ok" THEN a ELSE copied(uvmcopy(a.s, r.pt, r.sz), a.r, r)

Fork(p) ==
    LET unused == {q \in Slots : proc[q].state = "unused"}
    IN  unused # {} /\ finish(fork_copy(allocproc(start(NoTable)), proc[p]), Min(unused))

\* exec_from_inode in the process r: the call and the record it leaves; fits
\* says whether the arguments fit on the stack page.
exec_fails(s, r, sz) == [s |-> proc_freepagetable(s, sz), r |-> r]

exec_done(s, r) ==
    LET old == [s EXCEPT !.pt = r.pt, !.data[s.pt.map[USER_STACK]] = "args"]
    IN  [s |-> proc_freepagetable(old, r.sz),
         r |-> [r EXCEPT !.pt = s.pt, !.sz = s.end * PGSIZE]]

exec_loaded(s, r, fits) ==
    IF s.bad THEN [s |-> s, r |-> r]
    ELSE IF s.res # "ok" THEN exec_fails(s, r, 0)
    ELSE IF ~fits THEN exec_fails(s, r, s.end * PGSIZE)
    ELSE exec_done(s, r)

exec_created(s, r, image, fits) ==
    IF s.res # "ok" THEN [s |-> s, r |-> r]
    ELSE exec_loaded(load_elf(s, image), r, fits)

exec_from_inode(s, r, image, fits) ==
    exec_created(proc_pagetable(s, r.trapframe), r, image, fits)

free_args(c, pg) == [c EXCEPT !.s = kfree(c.s, pg)]

\* sys_exec: one page holds the arguments meanwhile.
Exec(p, image, fits) ==
    LET s == start(NoTable)
    IN  /\ ~exhausted(s)
        /\ finish(free_args(exec_from_inode(kalloc_zeroed(s), proc[p], image, fits),
                            head(s)), p)

\* sys_sbrk: the size changes only if uvmalloc succeeds.
grown(s, r, newsz) ==
    [s |-> s, r |-> [r EXCEPT !.pt = s.pt, !.sz = IF s.res = "ok" THEN newsz ELSE @]]

Sbrk(p, n) ==
    LET r == proc[p]
    IN  /\ npages(r.sz + n) <= USER_STACK
        /\ finish(grown(uvmalloc(start(r.pt), r.sz, r.sz + n), r, r.sz + n), p)

Exit(p) ==
    /\ proc' = [proc EXCEPT ![p].state = "zombie"]
    /\ UNCHANGED <<free, data, panicked>>

\* wait, in another process, reaps a zombie; nobody waits for init.
reaped(s, r) == [s |-> freeproc(s, r), r |-> NoProc]

Reap(q) ==
    /\ q # INITPROC /\ proc[q].state = "zombie"
    /\ \E p \in Slots : proc[p].state = "alive"
    /\ finish(reaped(start(proc[q].pt), proc[q]), q)

\* The process writes to one of its pages.
Store(p, va) ==
    /\ va \in DOMAIN proc[p].pt.map \ {TRAMPOLINE, TRAPFRAME}
    /\ data' = [data EXCEPT ![proc[p].pt.map[va]] = "value"]
    /\ UNCHANGED <<free, proc, panicked>>

Step(p) ==
    /\ proc[p].state = "alive"
    /\ \/ Fork(p)
       \/ \E image \in Images, fits \in BOOLEAN : Exec(p, image, fits)
       \/ \E n \in 0..MaxSbrk : Sbrk(p, n)
       \/ Exit(p)
       \/ \E va \in Stores : Store(p, va)

Next == ~panicked /\ \E p \in Slots : Step(p) \/ Reap(p)

\* kalloc::init, then userinit.  The pages of the kernel's own table are left out.
userinit(s, r) ==
    /\ free = s.free /\ data = s.data
    /\ proc = [q \in Slots |-> IF q # INITPROC THEN NoProc ELSE
                [r EXCEPT !.state = "alive", !.pt = s.pt, !.sz = s.end * PGSIZE]]
    /\ panicked = (s.res # "ok")

Init ==
    \E a \in {allocproc(call([pg \in Pages |-> 1], [pg \in Pages |-> "junk"], NoTable))} :
        userinit(load_elf(a.s, INIT_ELF), a.r)

Spec == Init /\ [][Next]_vars
-----------------------------------------------------------------------------
(* Properties.                                                               *)
Used == {q \in Slots : proc[q].state # "unused"}

\* The pages a process record owns, with what they are for.
owned(r) ==
    {<<"trapframe", 0, 0, r.trapframe>>, <<"kstack", 0, 0, r.kstack>>, <<"table", 2, 0, r.pt.root>>}
    \cup {<<"table", node[1], node[2], r.pt.tabs[node]>> : node \in DOMAIN r.pt.tabs}
    \cup {<<"user", va, 0, r.pt.map[va]>> : va \in DOMAIN r.pt.map \ {TRAMPOLINE, TRAPFRAME}}

\* Every variable keeps its type, and an unused slot holds on to nothing.
TypeOK ==
    /\ free \in [Pages -> Nat]
    /\ data \in [Pages -> {"junk", "zero", "image", "args", "value"}]
    /\ \A q \in Slots : IF q \in Used THEN proc[q].sz <= USER_STACK * PGSIZE
                                           /\ proc[q].state \in {"alive", "zombie"}
                                      ELSE proc[q] = NoProc
    /\ panicked \in BOOLEAN

\* Every page is on the free list once or owned once, never both, never neither:
\* whatever allocation of whatever call fails, no page is leaked, freed twice or
\* shared by two owners (and TypeOK holds).
PagesConserved ==
    TypeOK /\ \A pg \in Pages :
        free[pg] + SumFunction([q \in Slots |->
            Cardinality({o \in owned(proc[q]) : o[4] = pg})]) = 1

\* The leaves of a process are exactly the pages below sz, the stack, its own
\* trapframe and the trampoline: what uvmcopy expects to find, what the teardown
\* unmaps, and what freewalk requires to be gone.
MappedIsOwned ==
    \A q \in Used :
        LET pt == proc[q].pt
        IN  /\ DOMAIN pt.map = 0..npages(proc[q].sz) - 1 \cup {USER_STACK, TRAPFRAME, TRAMPOLINE}
            /\ pt.map[TRAPFRAME] = proc[q].trapframe /\ pt.map[TRAMPOLINE] = KernelPage
            /\ \A va \in DOMAIN pt.map :
                <<1, va \div (FANOUT * FANOUT)>> \in DOMAIN pt.tabs /\ <<0, va \div FANOUT>> \in DOMAIN pt.tabs

\* No assertion of the memory code fails: neither "freewalk: leaf" nor
\* "uvmunmap: not mapped".
NoPanic == ~panicked

NoMemory == [cells |-> <<>>, stack |-> "none"]

contents(r) ==
    [cells |-> [i \in 1..npages(r.sz) |-> data[r.pt.map[i - 1]]],
     stack |-> data[r.pt.map[USER_STACK]]]

Private == INSTANCE PrivateMemory WITH
    None <- NoMemory,
    mem <- [q \in Slots |-> IF q \in Used THEN contents(proc[q]) ELSE NoMemory]

\* Through page tables, copies and reuse of physical pages, each process sees a
\* memory of its own that only it changes: fork gives the child the parent's
\* contents and no page in common, new heap pages are zero, exec that fails
\* leaves the old image as it was.
ImplementsMemory == Private!MSpec
=============================================================================
