------------------------------ MODULE UserHeap ------------------------------
(***************************************************************************)
(* src/user/src/allocator.rs: the heap of a user program, a list of free   *)
(* blocks kept in address order above what sbrk has given.  A block is the *)
(* memory behind one Header, header included; the list is the sequence of  *)
(* its blocks in the order of their next pointers.  A program has one      *)
(* thread, so each call is one step.                                       *)
(***************************************************************************)
EXTENDS Integers, Sequences

CONSTANTS Base,        \* p.sz after exec, where the heap begins
          USER_STACK,  \* no sbrk goes beyond
          Sizes        \* the sizes the program asks for

VARIABLES free,  \* the blocks from head on
          used,  \* the blocks behind the pointers the program holds
          brk    \* p.sz

vars == <<free, used, brk>>

ALIGN == 16
HEADER_SIZE == 16
MIN_BLOCK_SIZE == HEADER_SIZE + ALIGN
PGSIZE == 4096

align_up(x, align) == ((x + align - 1) \div align) * align
block_end(b) == b.at + b.size

\* The blocks of f from the first to the lo-th, those of mid, and those of f
\* from the hi-th on.
splice(f, lo, mid, hi) == SubSeq(f, 1, lo) \o mid \o SubSeq(f, hi, Len(f))

\* The i-th block of f is the first that has needed bytes.
first_fit(f, needed, i) ==
    /\ i \in 1..Len(f) /\ f[i].size >= needed
    /\ \A j \in 1..i - 1 : f[j].size < needed

no_fit(f, needed) == \A i \in 1..Len(f) : f[i].size < needed

(* alloc_from_freelist, once it has found block cur: what is left of cur     *)
(* stays in its place in the list if it can be a block of its own.           *)
splits(cur, needed) == cur.size - needed >= MIN_BLOCK_SIZE

taken(cur, needed) == IF splits(cur, needed) THEN [cur EXCEPT !.size = needed] ELSE cur

remaining(f, i, needed) ==
    LET rest == [at |-> f[i].at + needed, size |-> f[i].size - needed]
    IN  splice(f, i - 1, IF splits(f[i], needed) THEN <<rest>> ELSE <<>>, i + 1)

\* The place of block in the list: the search stops at the first block that is
\* not below it.
place(f, block, i) ==
    /\ i \in 1..Len(f) + 1
    /\ \A j \in 1..i - 1 : f[j].at < block.at
    /\ i <= Len(f) => f[i].at >= block.at

\* insert_free_block, with that place found: block joins its neighbours on both
\* sides where they touch.
insert_free_block(f, block, i) ==
    LET left == i > 1 /\ block_end(f[i - 1]) = block.at
        right == i <= Len(f) /\ block_end(block) = f[i].at
        at == IF left THEN f[i - 1].at ELSE block.at
        end == IF right THEN block_end(f[i]) ELSE block_end(block)
    IN  splice(f, IF left THEN i - 2 ELSE i - 1,
               <<[at |-> at, size |-> end - at]>>,
               IF right THEN i + 1 ELSE i)
-----------------------------------------------------------------------------
\* The size of the block that serves a request.
needed_for(size) == HEADER_SIZE + align_up(IF size = 0 THEN 1 ELSE size, ALIGN)

AllocFits(size) == \E i \in 1..Len(free) :
    /\ first_fit(free, needed_for(size), i)
    /\ used' = used \cup {taken(free[i], needed_for(size))}
    /\ free' = remaining(free, i, needed_for(size))
    /\ UNCHANGED brk

(* grow_heap: sbrk extends the heap by whole pages, which join the list.     *)
pages_for(size) == [at |-> brk, size |-> align_up(needed_for(size), PGSIZE)]

grow_heap(size, i) ==
    /\ no_fit(free, needed_for(size))
    /\ brk + pages_for(size).size <= USER_STACK
    /\ brk' = brk + pages_for(size).size
    /\ place(free, pages_for(size), i)

\* The second search in the list serves the request ...
AllocGrows(size) == \E i \in 1..Len(free) + 1 :
    LET grown == insert_free_block(free, pages_for(size), i)
    IN  /\ grow_heap(size, i)
        /\ \E j \in 1..Len(grown) :
            /\ first_fit(grown, needed_for(size), j)
            /\ used' = used \cup {taken(grown[j], needed_for(size))}
            /\ free' = remaining(grown, j, needed_for(size))

\* ... or does not, and alloc returns null with the heap grown.
AllocInVain(size) == \E i \in 1..Len(free) + 1 :
    LET grown == insert_free_block(free, pages_for(size), i)
    IN  /\ grow_heap(size, i)
        /\ no_fit(grown, needed_for(size))
        /\ free' = grown /\ UNCHANGED used

\* sbrk fails (Memory), and so does alloc.  An alignment above ALIGN and a size
\* that overflows are refused as well, before anything is done.
AllocFails(size) == no_fit(free, needed_for(size)) /\ UNCHANGED vars

Dealloc(b) ==
    /\ b \in used
    /\ used' = used \ {b}
    /\ \E i \in 1..Len(free) + 1 : place(free, b, i) /\ free' = insert_free_block(free, b, i)
    /\ UNCHANGED brk

Init == free = <<>> /\ used = {} /\ brk = Base

Next ==
    \/ \E size \in Sizes : AllocFits(size) \/ AllocGrows(size) \/ AllocInVain(size) \/ AllocFails(size)
    \/ \E b \in used : Dealloc(b)

Spec == Init /\ [][Next]_vars
-----------------------------------------------------------------------------
(* Properties.                                                               *)

\* Where the constants come from: load_elf_from_inode rounds p.sz up to a page.
HeapConstants == Base \in Nat /\ Base % PGSIZE = 0 /\ USER_STACK \in Nat /\ Sizes \subseteq Nat

\* Every block starts at a multiple of ALIGN and has room for a payload.
Block == {b \in [at : Nat, size : Nat] :
            b.at % ALIGN = 0 /\ b.size % ALIGN = 0 /\ b.size >= MIN_BLOCK_SIZE}

TypeOK == free \in Seq(Block) /\ used \subseteq Block /\ brk \in Nat /\ brk % ALIGN = 0

\* The list is in address order and no two of its blocks touch: insert_free_block
\* finds the neighbours to join, and alloc_from_freelist keeps the order.
Ordered(f) == \A i, j \in 1..Len(f) : i < j => block_end(f[i]) < f[j].at

FreeListCoalesced == Ordered(free)

\* Blocks of B neither overlap nor leave a gap between lo and hi.
Tiles(B, lo, hi) ==
    /\ \A b \in B : lo <= b.at /\ block_end(b) <= hi
    /\ \A b, c \in B : b = c \/ block_end(b) <= c.at \/ block_end(c) <= b.at
    /\ \A a \in lo..hi - 1 : \E b \in B : b.at <= a /\ a < block_end(b)

BlocksOf(f) == {f[i] : i \in 1..Len(f)}

\* Splitting, joining and growing lose no memory and hand none out twice: every
\* byte that sbrk gave is in one block, free or used.
HeapPartitioned ==
    BlocksOf(free) \cap used = {} /\ Tiles(BlocksOf(free) \cup used, Base, brk)

\* Once everything is freed, the heap is one free block again, however it had
\* been cut up.
FragmentsHeal ==
    used = {} => \/ free = <<>> /\ brk = Base
                 \/ free = <<[at |-> Base, size |-> brk - Base]>>

\* Memory asked of sbrk always serves the request it was asked for: the
\* `unwrap_or(null_mut())` of alloc is never taken.
GrowthServes == [][\A size \in Sizes : ~AllocInVain(size)]_vars
=============================================================================
