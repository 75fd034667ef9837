------------------------------ MODULE BufCache ------------------------------
(***************************************************************************)
(* src/src/fs.rs, lines 32-125: the buffer cache between the file system   *)
(* and the disk, which is an array in memory.  A system call keeps         *)
(* interrupts off (Proc) and no call of the file system sleeps, so the     *)
(* buffers that are held are those of one call.  Calls nest: the one that  *)
(* reads last releases first, and only writes what it read last.           *)
(***************************************************************************)
EXTENDS Integers, Sequences

CONSTANTS NBUF, FSSIZE,
          Contents,  \* what the BSIZE bytes of a block can be
          Zero       \* all bytes 0, as in the bss

VARIABLES buf,   \* BCACHE
          disk,  \* DISK
          held,  \* the BufferRefs of the running call, with the block each was read for
          panic  \* an expect or a panic! was met

vars == <<buf, disk, held, panic>>

Slots == 1..NBUF
Blocknos == 0..FSSIZE - 1

\* bmap_alloc and itrunc hold the indirect block while balloc and bfree hold
\* one block at a time; no other caller holds a buffer across a bread.
MaxHeld == 2

(* bget: the slot that has the block, or else the first nobody holds.        *)
caches(s, b) == buf[s].blockno = b /\ (buf[s].refcnt > 0 \/ buf[s].valid)

cached(s, b) == caches(s, b) /\ \A t \in 1..s - 1 : ~caches(t, b)

recycled(s, b) ==
    /\ \A t \in Slots : ~caches(t, b)
    /\ buf[s].refcnt = 0 /\ \A t \in 1..s - 1 : buf[t].refcnt # 0

\* bread: what bget returns is filled from the disk unless it is valid.
filled(s, b, refcnt, valid) ==
    [blockno |-> b, refcnt |-> refcnt, valid |-> TRUE,
     data |-> IF valid THEN buf[s].data ELSE disk[b]]

bread(b) ==
    /\ Len(held) < MaxHeld
    /\ \E s \in Slots :
        /\ \/ cached(s, b)
              /\ buf' = [buf EXCEPT ![s] = filled(s, b, buf[s].refcnt + 1, buf[s].valid)]
           \/ recycled(s, b) /\ buf' = [buf EXCEPT ![s] = filled(s, b, 1, FALSE)]
        /\ held' = Append(held, [slot |-> s, blockno |-> b])
    /\ UNCHANGED <<disk, panic>>

\* Every caller expects a buffer.
bread_fails(b) ==
    /\ Len(held) < MaxHeld
    /\ \A s \in Slots : ~caches(s, b) /\ buf[s].refcnt # 0
    /\ panic' = TRUE /\ UNCHANGED <<buf, disk, held>>

top == held[Len(held)]

\* A caller changes the data of its buffer and calls bwrite, all under the lock
\* of the buffer.
bwrite(d) ==
    /\ held # <<>>
    /\ buf' = [buf EXCEPT ![top.slot].data = d]
    /\ disk' = [disk EXCEPT ![buf[top.slot].blockno] = d]
    /\ UNCHANGED <<held, panic>>

brelse ==
    /\ held # <<>>
    /\ held' = SubSeq(held, 1, Len(held) - 1)
    /\ \/ /\ buf[top.slot].refcnt >= 1
          /\ buf' = [buf EXCEPT ![top.slot].refcnt = @ - 1]
          /\ UNCHANGED panic
       \/ buf[top.slot].refcnt < 1 /\ panic' = TRUE /\ UNCHANGED buf
    /\ UNCHANGED disk

Init ==
    /\ buf = [s \in Slots |-> [blockno |-> 0, refcnt |-> 0, valid |-> FALSE, data |-> Zero]]
    /\ disk = [b \in Blocknos |-> Zero]
    /\ held = <<>> /\ panic = FALSE

Next ==
    /\ ~panic
    /\ \/ \E b \in Blocknos : bread(b) \/ bread_fails(b)
       \/ \E d \in Contents : bwrite(d)
       \/ brelse

Spec == Init /\ [][Next]_vars
-----------------------------------------------------------------------------
(* Properties.                                                               *)

\* More buffers than one call holds: the code has 16.
BufConstants == NBUF \in Nat /\ NBUF > MaxHeld /\ FSSIZE \in Nat /\ Zero \in Contents

Buffer == [blockno : Nat, refcnt : Nat, valid : BOOLEAN, data : Contents]
BufferRef == [slot : Slots, blockno : Blocknos]

\* Every variable keeps its type.
TypeOK ==
    /\ buf \in [Slots -> Buffer]
    /\ disk \in [Blocknos -> Contents]
    /\ held \in Seq(BufferRef) /\ Len(held) <= MaxHeld
    /\ panic \in BOOLEAN

\* A block is in one buffer at most, so that two holders of it see each other's
\* changes: bget looks at every slot before it takes one.
OneBufferPerBlock ==
    \A s, t \in Slots : \A b \in Blocknos : caches(s, b) /\ caches(t, b) => s = t

\* The callers see the disk through the cache: a buffer stays with the block it
\* was read for as long as it is held, whatever is read meanwhile, and holds
\* what is on the disk.
HeldIsDisk == \A i \in 1..Len(held) :
    LET b == buf[held[i].slot]
    IN  b.valid /\ b.blockno = held[i].blockno /\ b.data = disk[held[i].blockno]

\* No expect on bread and no brelse panics: NBUF buffers are enough.
NoPanic == ~panic
=============================================================================
