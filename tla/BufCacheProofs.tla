--------------------------- MODULE BufCacheProofs ---------------------------
(***************************************************************************)
(* Proofs about BufCache, for any number of blocks, any contents and any   *)
(* number of buffers above the two that a call holds.                      *)
(***************************************************************************)
EXTENDS BufCache, SequenceTheorems, TLAPS

\* How often the running call holds slot s.
holds(i, s) == IF i <= Len(held) /\ held[i].slot = s THEN 1 ELSE 0

\* refcnt counts the holders, a held buffer is filled, and a valid buffer has
\* what the disk has.
Coherent == \A s \in Slots :
    /\ buf[s].refcnt = holds(1, s) + holds(2, s)
    /\ buf[s].refcnt > 0 => buf[s].valid
    /\ buf[s].valid => buf[s].blockno \in Blocknos /\ buf[s].data = disk[buf[s].blockno]

\* The inductive invariant.
IInv == TypeOK /\ NoPanic /\ OneBufferPerBlock /\ HeldIsDisk /\ Coherent

\* The cache starts empty.
LEMMA InitCoherent ==
    ASSUME BufConstants, Init
    PROVE  IInv
<1>1. TypeOK
  <2>1. [blockno |-> 0, refcnt |-> 0, valid |-> FALSE, data |-> Zero] \in Buffer
    BY DEF BufConstants, Buffer
  <2>2. buf \in [Slots -> Buffer]
    BY <2>1 DEF Init
  <2>3. held \in Seq(BufferRef) /\ Len(held) = 0 /\ disk \in [Blocknos -> Contents]
    BY DEF Init, BufConstants
  <2>4. Len(held) <= MaxHeld
    BY <2>3 DEF MaxHeld
  <2> QED BY <2>2, <2>3, <2>4, Zenon DEF Init, TypeOK
<1>2. NoPanic /\ HeldIsDisk
  BY DEF Init, NoPanic, HeldIsDisk
<1>3. OneBufferPerBlock
  BY DEF Init, OneBufferPerBlock, caches
<1>4. Coherent
  BY DEF Init, Coherent, holds
<1> QED BY <1>1, <1>2, <1>3, <1>4 DEF IInv

\* What the invariant says of the slots and of the buffers held.
LEMMA Facts ==
    ASSUME IInv
    PROVE  /\ Len(held) \in {0, 1, 2}
           /\ \A i \in 1..Len(held) : held[i].slot \in Slots /\ held[i].blockno \in Blocknos
           /\ \A s \in Slots : /\ buf[s].refcnt \in Nat /\ buf[s].blockno \in Nat
                               /\ buf[s].data \in Contents /\ buf[s].valid \in BOOLEAN
           /\ \A b \in Blocknos : disk[b] \in Contents
<1>1. Len(held) \in {0, 1, 2}
  <2>1. held \in Seq(BufferRef) /\ Len(held) <= 2
    BY DEF IInv, TypeOK, MaxHeld
  <2> DEFINE n == Len(held)
  <2>2. n \in Nat /\ n <= 2
    BY <2>1
  <2> HIDE DEF n
  <2>3. n \in {0, 1, 2}
    BY <2>2
  <2> QED BY <2>3 DEF n
<1>2. ASSUME NEW i \in 1..Len(held) PROVE held[i].slot \in Slots /\ held[i].blockno \in Blocknos
  <2>1. held[i] \in BufferRef
    BY DEF IInv, TypeOK
  <2> QED BY <2>1 DEF BufferRef
<1>3. ASSUME NEW s \in Slots
      PROVE  /\ buf[s].refcnt \in Nat /\ buf[s].blockno \in Nat
             /\ buf[s].data \in Contents /\ buf[s].valid \in BOOLEAN
  <2>1. buf[s] \in Buffer
    BY DEF IInv, TypeOK
  <2> QED BY <2>1 DEF Buffer
<1>4. \A b \in Blocknos : disk[b] \in Contents
  BY DEF IInv, TypeOK
<1> QED BY <1>1, <1>2, <1>3, <1>4

\* A buffer that is read, new or not, is the last that the call holds.
LEMMA HoldsMore ==
    ASSUME IInv, NEW s \in Slots, NEW b \in Blocknos, Len(held) < MaxHeld,
           held' = Append(held, [slot |-> s, blockno |-> b])
    PROVE  /\ held' \in Seq(BufferRef) /\ Len(held') = Len(held) + 1
           /\ Len(held') <= MaxHeld
           /\ \A i \in 1..Len(held) : held'[i] = held[i]
           /\ held'[Len(held) + 1].slot = s /\ held'[Len(held) + 1].blockno = b
           /\ \A t \in Slots : holds(1, t)' + holds(2, t)'
                = holds(1, t) + holds(2, t) + (IF t = s THEN 1 ELSE 0)
<1>1. held \in Seq(BufferRef) /\ Len(held) \in {0, 1}
  BY Facts DEF IInv, TypeOK, MaxHeld
<1> DEFINE h == [slot |-> s, blockno |-> b]
<1>2. h \in BufferRef /\ h.slot = s /\ h.blockno = b
  BY DEF BufferRef
<1> HIDE DEF h
<1>3. /\ held' \in Seq(BufferRef) /\ Len(held') = Len(held) + 1
      /\ \A i \in 1..Len(held) : held'[i] = held[i]
      /\ held'[Len(held) + 1] = h
  BY <1>1, <1>2, AppendProperties DEF h
<1>4. ASSUME NEW t \in Slots
      PROVE  holds(1, t)' + holds(2, t)'
                = holds(1, t) + holds(2, t) + (IF t = s THEN 1 ELSE 0)
  <2>1. CASE Len(held) = 0
    BY <1>2, <1>3, <2>1 DEF holds
  <2>2. CASE Len(held) = 1
    <3>1. held'[1] = held[1] /\ held'[2].slot = s /\ Len(held') = 2
      BY <1>2, <1>3, <2>2
    <3> QED BY <2>2, <3>1 DEF holds
  <2> QED BY <1>1, <2>1, <2>2
<1> QED BY <1>1, <1>2, <1>3, <1>4 DEF MaxHeld

\* brelse drops the last one.
LEMMA HoldsLess ==
    ASSUME IInv, held # <<>>, held' = SubSeq(held, 1, Len(held) - 1)
    PROVE  /\ held' \in Seq(BufferRef) /\ Len(held') = Len(held) - 1
           /\ Len(held) \in {1, 2} /\ top \in BufferRef
           /\ \A i \in 1..Len(held') : held'[i] = held[i] /\ i \in 1..Len(held)
           /\ \A t \in Slots : holds(1, t)' + holds(2, t)'
                = (holds(1, t) + holds(2, t)) - (IF t = top.slot THEN 1 ELSE 0)
<1>1. held \in Seq(BufferRef) /\ Len(held) \in {1, 2}
  BY Facts DEF IInv, TypeOK
<1>2. top \in BufferRef
  BY <1>1 DEF top
<1>3. /\ held' \in Seq(BufferRef) /\ Len(held') = Len(held) - 1
      /\ \A i \in 1..Len(held) - 1 : held'[i] = held[i]
  <2> DEFINE n == Len(held) - 1
  <2>1. n \in Nat /\ n <= Len(held) /\ \A i \in 1..n : held[i] \in BufferRef
    BY <1>1
  <2>2. held' = SubSeq(held, 1, n)
    OBVIOUS
  <2> HIDE DEF n
  <2>3. held' \in Seq(BufferRef) /\ Len(held') = n /\ \A i \in 1..n : held'[i] = held[i]
    BY <1>1, <2>1, <2>2
  <2> QED BY <2>3 DEF n
<1>4. ASSUME NEW t \in Slots
      PROVE  holds(1, t)' + holds(2, t)'
                = (holds(1, t) + holds(2, t)) - (IF t = top.slot THEN 1 ELSE 0)
  <2>1. CASE Len(held) = 1
    BY <1>3, <2>1 DEF holds, top
  <2>2. CASE Len(held) = 2
    <3>1. held'[1] = held[1] /\ Len(held') = 1
      BY <1>3, <2>2
    <3> QED BY <2>2, <3>1 DEF holds, top
  <2> QED BY <1>1, <2>1, <2>2
<1> QED BY <1>1, <1>2, <1>3, <1>4

\* Who holds a buffer counts in its refcnt.
LEMMA HeldCounts ==
    ASSUME IInv, NEW i \in 1..Len(held)
    PROVE  held[i].slot \in Slots /\ buf[held[i].slot].refcnt > 0
<1>1. Len(held) \in {0, 1, 2} /\ held[i].slot \in Slots
  BY Facts
<1>2. i = 1 \/ i = 2
  BY <1>1
<1>3. holds(i, held[i].slot) = 1
  BY <1>1 DEF holds
<1>4. \A j \in {1, 2} : holds(j, held[i].slot) \in {0, 1}
  BY DEF holds
<1>5. buf[held[i].slot].refcnt = holds(1, held[i].slot) + holds(2, held[i].slot)
  BY <1>1 DEF IInv, Coherent
<1> QED BY <1>1, <1>2, <1>3, <1>4, <1>5

\* Slot s has block b with what the disk has, for one more holder, and no buffer
\* held for another block is touched.
Given(s, b) ==
    /\ buf' \in [Slots -> Buffer]
    /\ buf'[s].blockno = b /\ buf'[s].valid /\ buf'[s].data = disk[b]
    /\ buf'[s].refcnt = buf[s].refcnt + 1
    /\ buf[s].refcnt > 0 => buf[s].blockno = b
    /\ \A t \in Slots \ {s} : buf'[t] = buf[t] /\ ~caches(t, b)

\* That is what bget and the rest of bread do, hit or miss.
LEMMA BgetGives ==
    ASSUME IInv, NEW s \in Slots, NEW b \in Blocknos, NEW n, NEW v,
           \/ cached(s, b) /\ n = buf[s].refcnt + 1 /\ v = buf[s].valid
           \/ recycled(s, b) /\ n = 1 /\ v = FALSE,
           buf' = [buf EXCEPT ![s] = filled(s, b, n, v)]
    PROVE  Given(s, b)
<1>1. buf \in [Slots -> Buffer] /\ buf[s].refcnt \in Nat /\ disk[b] \in Contents
  BY Facts DEF IInv, TypeOK
<1>2. /\ n = buf[s].refcnt + 1 /\ (buf[s].refcnt > 0 => buf[s].blockno = b)
      /\ \A t \in Slots \ {s} : ~caches(t, b)
      /\ v => buf[s].data = disk[b]
  <2>1. CASE cached(s, b) /\ n = buf[s].refcnt + 1 /\ v = buf[s].valid
    <3>1. caches(s, b) /\ buf[s].blockno = b
      BY <2>1 DEF cached, caches
    <3>2. buf[s].valid => buf[s].data = disk[b]
      BY <3>1 DEF IInv, Coherent
    <3>3. \A t \in Slots \ {s} : ~caches(t, b)
      BY <3>1 DEF IInv, OneBufferPerBlock
    <3> QED BY <2>1, <3>1, <3>2, <3>3
  <2>2. CASE recycled(s, b) /\ n = 1 /\ v = FALSE
    BY <2>2 DEF recycled
  <2> QED BY <2>1, <2>2, Zenon
<1> DEFINE r == [blockno |-> b, refcnt |-> n, valid |-> TRUE, data |-> disk[b]]
<1>3. filled(s, b, n, v) = r
  BY <1>2, Zenon DEF filled
<1>4. r \in Buffer
  BY <1>1, <1>2 DEF Buffer, Blocknos
<1>5. buf'[s] = r /\ buf' \in [Slots -> Buffer] /\ \A t \in Slots \ {s} : buf'[t] = buf[t]
  BY <1>1, <1>3, <1>4
<1> QED BY <1>2, <1>5 DEF Given

\* bread keeps the invariant.
LEMMA BreadKeeps ==
    ASSUME IInv, NEW b \in Blocknos, bread(b)
    PROVE  IInv'
<1>1. PICK s \in Slots :
        /\ \/ cached(s, b)
              /\ buf' = [buf EXCEPT ![s] = filled(s, b, buf[s].refcnt + 1, buf[s].valid)]
           \/ recycled(s, b) /\ buf' = [buf EXCEPT ![s] = filled(s, b, 1, FALSE)]
        /\ held' = Append(held, [slot |-> s, blockno |-> b])
  BY Zenon DEF bread
<1>2. Len(held) < MaxHeld /\ disk' = disk /\ panic' = panic
  BY DEF bread
<1>3. /\ held' \in Seq(BufferRef) /\ Len(held') = Len(held) + 1
      /\ Len(held') <= MaxHeld
      /\ \A i \in 1..Len(held) : held'[i] = held[i]
      /\ held'[Len(held) + 1].slot = s /\ held'[Len(held) + 1].blockno = b
      /\ \A t \in Slots : holds(1, t)' + holds(2, t)'
           = holds(1, t) + holds(2, t) + (IF t = s THEN 1 ELSE 0)
  BY <1>1, <1>2, HoldsMore
<1>4. /\ buf' \in [Slots -> Buffer]
      /\ buf'[s].blockno = b /\ buf'[s].valid /\ buf'[s].data = disk[b]
      /\ buf'[s].refcnt = buf[s].refcnt + 1
      /\ buf[s].refcnt > 0 => buf[s].blockno = b
      /\ \A t \in Slots \ {s} : buf'[t] = buf[t] /\ ~caches(t, b)
  <2>1. CASE /\ cached(s, b)
             /\ buf' = [buf EXCEPT ![s] = filled(s, b, buf[s].refcnt + 1, buf[s].valid)]
    <3>1. Given(s, b)
      BY <2>1, BgetGives, Zenon
    <3> QED BY <3>1 DEF Given
  <2>2. CASE recycled(s, b) /\ buf' = [buf EXCEPT ![s] = filled(s, b, 1, FALSE)]
    <3>1. Given(s, b)
      BY <2>2, BgetGives, Zenon
    <3> QED BY <3>1 DEF Given
  <2> QED BY <1>1, <2>1, <2>2, Zenon
<1>5. TypeOK' /\ NoPanic'
  BY <1>2, <1>3, <1>4 DEF IInv, TypeOK, NoPanic
<1>6. OneBufferPerBlock'
  <2> SUFFICES ASSUME NEW t \in Slots, NEW u \in Slots, NEW c \in Blocknos,
                      caches(t, c)', caches(u, c)', t # u
               PROVE  FALSE
    BY DEF OneBufferPerBlock
  <2>1. \A v \in Slots \ {s} : caches(v, c)' => caches(v, c)
    BY <1>4 DEF caches
  <2>2. t = s => c = b /\ caches(u, b)
    BY <1>4, <2>1 DEF caches
  <2>3. u = s => c = b /\ caches(t, b)
    BY <1>4, <2>1 DEF caches
  <2>4. t # s /\ u # s
    BY <1>4, <2>2, <2>3
  <2> QED BY <2>1, <2>4 DEF IInv, OneBufferPerBlock
<1>7. HeldIsDisk'
  <2> SUFFICES ASSUME NEW i \in 1..Len(held')
               PROVE  /\ buf'[held'[i].slot].valid
                      /\ buf'[held'[i].slot].blockno = held'[i].blockno
                      /\ buf'[held'[i].slot].data = disk[held'[i].blockno]
    BY <1>2 DEF HeldIsDisk
  <2>1. CASE i = Len(held) + 1
    BY <1>3, <1>4, <2>1
  <2>2. CASE i \in 1..Len(held)
    <3>1. /\ held[i].slot \in Slots /\ buf[held[i].slot].refcnt > 0 /\ held'[i] = held[i]
          /\ buf[held[i].slot].valid /\ buf[held[i].slot].blockno = held[i].blockno
          /\ buf[held[i].slot].data = disk[held[i].blockno]
      BY <1>3, <2>2, HeldCounts DEF IInv, HeldIsDisk
    <3> QED BY <1>4, <3>1
  <2>3. Len(held) \in {0, 1, 2} /\ Len(held') = Len(held) + 1
    BY <1>3, Facts
  <2> QED BY <2>1, <2>2, <2>3
<1>8. Coherent'
  <2> SUFFICES ASSUME NEW t \in Slots
               PROVE  /\ buf'[t].refcnt = holds(1, t)' + holds(2, t)'
                      /\ buf'[t].refcnt > 0 => buf'[t].valid
                      /\ buf'[t].valid => /\ buf'[t].blockno \in Blocknos
                                          /\ buf'[t].data = disk[buf'[t].blockno]
    BY <1>2 DEF Coherent
  <2>1. /\ buf[t].refcnt = holds(1, t) + holds(2, t)
        /\ buf[t].refcnt > 0 => buf[t].valid
        /\ buf[t].valid => /\ buf[t].blockno \in Blocknos
                           /\ buf[t].data = disk[buf[t].blockno]
    BY DEF IInv, Coherent
  <2>2. CASE t = s
    BY <1>3, <1>4, <2>1, <2>2
  <2>3. CASE t # s
    <3>1. holds(1, t)' + holds(2, t)' = holds(1, t) + holds(2, t)
      <4>1. holds(1, t) + holds(2, t) \in Nat
        BY DEF holds
      <4> QED BY <1>3, <2>3, <4>1
    <3> QED BY <1>4, <2>1, <2>3, <3>1
  <2> QED BY <2>2, <2>3
<1> QED BY <1>5, <1>6, <1>7, <1>8 DEF IInv

\* The expect on bread always has a buffer: the call holds at most one other.
LEMMA BreadSucceeds ==
    ASSUME BufConstants, IInv, NEW b \in Blocknos
    PROVE  ~bread_fails(b)
<1> SUFFICES ASSUME bread_fails(b) PROVE FALSE
  OBVIOUS
<1>1. Len(held) < 2 /\ \A s \in Slots : buf[s].refcnt # 0
  BY DEF bread_fails, MaxHeld
<1>2. Len(held) \in {0, 1} /\ 1 \in Slots /\ 2 \in Slots
  <2>1. Len(held) # 2
    BY <1>1
  <2>2. Len(held) \in {0, 1}
    BY <2>1, Facts
  <2> QED BY <2>2 DEF BufConstants, MaxHeld, Slots
<1>3. holds(1, 1) # 0 /\ holds(1, 2) # 0
  <2>1. holds(2, 1) = 0 /\ holds(2, 2) = 0
    BY <1>2 DEF holds
  <2>2. /\ buf[1].refcnt = holds(1, 1) + holds(2, 1)
        /\ buf[2].refcnt = holds(1, 2) + holds(2, 2)
    BY <1>2 DEF IInv, Coherent
  <2>3. holds(1, 1) \in Nat /\ holds(1, 2) \in Nat
    BY DEF holds
  <2> QED BY <1>1, <1>2, <2>1, <2>2, <2>3
<1>4. held[1].slot = 1 /\ held[1].slot = 2
  BY <1>3 DEF holds
<1> QED BY <1>4

\* The buffer at the top is held, and for the block it has.
LEMMA TopIsHeld ==
    ASSUME IInv, held # <<>>
    PROVE  /\ Len(held) \in 1..Len(held) /\ top.slot \in Slots /\ top.blockno \in Blocknos
           /\ buf[top.slot].refcnt > 0 /\ buf[top.slot].valid /\ buf[top.slot].blockno = top.blockno
<1>1. Len(held) \in 1..Len(held)
  BY Facts DEF IInv, TypeOK
<1> QED BY <1>1, Facts, HeldCounts DEF top, IInv, HeldIsDisk

\* A change of the data with its bwrite keeps the invariant: no other buffer has
\* the block.
LEMMA BwriteKeeps ==
    ASSUME IInv, NEW d \in Contents, bwrite(d)
    PROVE  IInv'
<1> DEFINE s == top.slot
           b == top.blockno
<1>1. /\ s \in Slots /\ b \in Blocknos /\ buf[s].valid /\ buf[s].blockno = b /\ buf[s].refcnt > 0
  BY TopIsHeld DEF bwrite
<1>2. /\ buf \in [Slots -> Buffer] /\ disk \in [Blocknos -> Contents]
      /\ buf' = [buf EXCEPT ![s].data = d] /\ disk' = [disk EXCEPT ![b] = d]
      /\ held' = held /\ panic' = panic
  BY <1>1 DEF bwrite, IInv, TypeOK
<1> HIDE DEF s, b
<1>3. /\ \A t \in Slots : /\ buf'[t].blockno = buf[t].blockno /\ buf'[t].valid = buf[t].valid
                          /\ buf'[t].refcnt = buf[t].refcnt
                          /\ buf'[t].data = IF t = s THEN d ELSE buf[t].data
      /\ \A c \in Blocknos : disk'[c] = IF c = b THEN d ELSE disk[c]
      /\ buf' \in [Slots -> Buffer] /\ disk' \in [Blocknos -> Contents]
  <2>1. buf[s] \in Buffer
    BY <1>1, <1>2
  <2> DEFINE r == [buf[s] EXCEPT !.data = d]
  <2>2. /\ r \in Buffer /\ r.blockno = buf[s].blockno /\ r.valid = buf[s].valid
        /\ r.refcnt = buf[s].refcnt /\ r.data = d
    BY <2>1 DEF Buffer
  <2>3. buf' = [buf EXCEPT ![s] = r]
    BY <1>1, <1>2
  <2> HIDE DEF r
  <2>4. buf' \in [Slots -> Buffer] /\ buf'[s] = r /\ \A t \in Slots \ {s} : buf'[t] = buf[t]
    BY <1>1, <1>2, <2>2, <2>3
  <2>5. \A c \in Blocknos : disk'[c] = IF c = b THEN d ELSE disk[c]
    BY <1>2
  <2>6. disk' \in [Blocknos -> Contents]
    BY <1>1, <1>2
  <2>7. ASSUME NEW t \in Slots
        PROVE  /\ buf'[t].blockno = buf[t].blockno /\ buf'[t].valid = buf[t].valid
               /\ buf'[t].refcnt = buf[t].refcnt
               /\ buf'[t].data = IF t = s THEN d ELSE buf[t].data
    <3>1. CASE t = s
      BY <2>2, <2>4, <3>1
    <3>2. CASE t # s
      BY <2>4, <3>2
    <3> QED BY <3>1, <3>2
  <2> QED BY <2>4, <2>5, <2>6, <2>7
<1>4. ASSUME NEW t \in Slots, t # s, buf[t].valid PROVE buf[t].blockno # b
  BY <1>1, <1>4 DEF IInv, OneBufferPerBlock, caches
<1>5. TypeOK' /\ NoPanic'
  BY <1>2, <1>3 DEF IInv, TypeOK, NoPanic
<1>6. OneBufferPerBlock'
  BY <1>3 DEF IInv, OneBufferPerBlock, caches
<1>7. Coherent'
  <2> SUFFICES ASSUME NEW t \in Slots
               PROVE  /\ buf'[t].refcnt = holds(1, t)' + holds(2, t)'
                      /\ buf'[t].refcnt > 0 => buf'[t].valid
                      /\ buf'[t].valid => /\ buf'[t].blockno \in Blocknos
                                          /\ buf'[t].data = disk'[buf'[t].blockno]
    BY DEF Coherent
  <2>1. /\ buf[t].refcnt = holds(1, t) + holds(2, t)
        /\ buf[t].refcnt > 0 => buf[t].valid
        /\ buf[t].valid => /\ buf[t].blockno \in Blocknos
                           /\ buf[t].data = disk[buf[t].blockno]
    BY DEF IInv, Coherent
  <2>2. holds(1, t)' = holds(1, t) /\ holds(2, t)' = holds(2, t)
    BY <1>2 DEF holds
  <2> QED BY <1>1, <1>3, <1>4, <2>1, <2>2
<1>8. HeldIsDisk'
  <2> SUFFICES ASSUME NEW i \in 1..Len(held)
               PROVE  /\ buf'[held[i].slot].valid
                      /\ buf'[held[i].slot].blockno = held[i].blockno
                      /\ buf'[held[i].slot].data = disk'[held[i].blockno]
    BY <1>2 DEF HeldIsDisk
  <2>1. /\ held[i].slot \in Slots /\ held[i].blockno \in Blocknos
        /\ buf[held[i].slot].valid /\ buf[held[i].slot].blockno = held[i].blockno
    BY Facts DEF IInv, HeldIsDisk
  <2>2. buf'[held[i].slot].valid /\ buf'[held[i].slot].blockno = held[i].blockno
    BY <1>3, <2>1
  <2>3. buf'[held[i].slot].data = disk'[buf'[held[i].slot].blockno]
    BY <1>7, <2>1, <2>2 DEF Coherent
  <2> QED BY <2>2, <2>3
<1> QED BY <1>5, <1>6, <1>7, <1>8 DEF IInv

\* brelse finds a reference to drop, and keeps the invariant.
LEMMA BrelseKeeps ==
    ASSUME IInv, brelse
    PROVE  IInv'
<1> DEFINE s == top.slot
<1>1. held # <<>> /\ held' = SubSeq(held, 1, Len(held) - 1) /\ disk' = disk
  BY DEF brelse
<1>2. s \in Slots /\ buf[s].refcnt > 0 /\ buf[s].refcnt \in Nat
  BY <1>1, TopIsHeld, Facts
<1>3. buf' = [buf EXCEPT ![s].refcnt = @ - 1] /\ panic' = panic
  <2>1. ~(buf[top.slot].refcnt < 1)
    BY <1>2
  <2> QED BY <2>1 DEF brelse
<1>4. /\ held' \in Seq(BufferRef) /\ Len(held') = Len(held) - 1 /\ Len(held) \in {1, 2}
      /\ \A i \in 1..Len(held') : held'[i] = held[i] /\ i \in 1..Len(held)
      /\ \A t \in Slots : holds(1, t)' + holds(2, t)'
           = (holds(1, t) + holds(2, t)) - (IF t = s THEN 1 ELSE 0)
  BY <1>1, HoldsLess
<1> HIDE DEF s
<1>5. /\ buf' \in [Slots -> Buffer]
      /\ \A t \in Slots : /\ buf'[t].blockno = buf[t].blockno /\ buf'[t].valid = buf[t].valid
                          /\ buf'[t].data = buf[t].data
                          /\ buf'[t].refcnt = buf[t].refcnt - (IF t = s THEN 1 ELSE 0)
  <2>1. buf \in [Slots -> Buffer] /\ buf[s] \in Buffer
    BY <1>2 DEF IInv, TypeOK
  <2> DEFINE r == [buf[s] EXCEPT !.refcnt = @ - 1]
  <2>2. /\ r \in Buffer /\ r.blockno = buf[s].blockno /\ r.valid = buf[s].valid
        /\ r.refcnt = buf[s].refcnt - 1 /\ r.data = buf[s].data
    BY <1>2, <2>1 DEF Buffer
  <2>3. buf' = [buf EXCEPT ![s] = r]
    BY <1>2, <1>3, <2>1
  <2> HIDE DEF r
  <2>4. buf' \in [Slots -> Buffer] /\ buf'[s] = r /\ \A t \in Slots \ {s} : buf'[t] = buf[t]
    BY <1>2, <2>1, <2>2, <2>3
  <2>5. ASSUME NEW t \in Slots
        PROVE  /\ buf'[t].blockno = buf[t].blockno /\ buf'[t].valid = buf[t].valid
               /\ buf'[t].data = buf[t].data
               /\ buf'[t].refcnt = buf[t].refcnt - (IF t = s THEN 1 ELSE 0)
    <3>1. CASE t = s
      BY <2>2, <2>4, <3>1
    <3>2. CASE t # s
      <4>1. buf[t].refcnt \in Nat
        BY Facts
      <4> QED BY <2>4, <3>2, <4>1
    <3> QED BY <3>1, <3>2
  <2> QED BY <2>4, <2>5
<1>6. TypeOK' /\ NoPanic'
  <2>1. Len(held') <= MaxHeld
    BY <1>4 DEF MaxHeld
  <2> QED BY <1>1, <1>3, <1>4, <1>5, <2>1 DEF IInv, TypeOK, NoPanic
<1>7. Coherent'
  <2> SUFFICES ASSUME NEW t \in Slots
               PROVE  /\ buf'[t].refcnt = holds(1, t)' + holds(2, t)'
                      /\ buf'[t].refcnt > 0 => buf'[t].valid
                      /\ buf'[t].valid => /\ buf'[t].blockno \in Blocknos
                                          /\ buf'[t].data = disk[buf'[t].blockno]
    BY <1>1 DEF Coherent
  <2>1. /\ buf[t].refcnt = holds(1, t) + holds(2, t) /\ buf[t].refcnt \in Nat
        /\ buf[t].refcnt > 0 => buf[t].valid
        /\ buf[t].valid => /\ buf[t].blockno \in Blocknos
                           /\ buf[t].data = disk[buf[t].blockno]
    BY Facts DEF IInv, Coherent
  <2>2. buf'[t].refcnt = holds(1, t)' + holds(2, t)'
    <3>1. holds(1, t)' + holds(2, t)' = (holds(1, t) + holds(2, t)) - (IF t = s THEN 1 ELSE 0)
      BY <1>4
    <3>2. buf'[t].refcnt = buf[t].refcnt - (IF t = s THEN 1 ELSE 0)
      BY <1>5
    <3> QED BY <2>1, <3>1, <3>2, Zenon
  <2>3. buf'[t].refcnt > 0 => buf[t].refcnt > 0
    BY <1>5, <2>1
  <2> QED BY <1>5, <2>1, <2>2, <2>3
<1>8. OneBufferPerBlock'
  <2>1. ASSUME NEW t \in Slots, NEW c \in Blocknos, caches(t, c)' PROVE caches(t, c)
    <3>1. buf'[t].refcnt > 0 => buf[t].refcnt > 0
      BY <1>5, Facts
    <3> QED BY <1>5, <2>1, <3>1 DEF caches
  <2> QED BY <2>1 DEF IInv, OneBufferPerBlock
<1>9. HeldIsDisk'
  <2> SUFFICES ASSUME NEW i \in 1..Len(held')
               PROVE  /\ buf'[held'[i].slot].valid
                      /\ buf'[held'[i].slot].blockno = held'[i].blockno
                      /\ buf'[held'[i].slot].data = disk[held'[i].blockno]
    BY <1>1 DEF HeldIsDisk
  <2>1. held'[i] = held[i] /\ i \in 1..Len(held)
    BY <1>4
  <2>2. /\ held[i].slot \in Slots /\ buf[held[i].slot].valid
        /\ buf[held[i].slot].blockno = held[i].blockno
        /\ buf[held[i].slot].data = disk[held[i].blockno]
    BY <2>1, Facts DEF IInv, HeldIsDisk
  <2> QED BY <1>5, <2>1, <2>2
<1> QED BY <1>6, <1>7, <1>8, <1>9 DEF IInv

\* Whatever bread, bwrite and brelse are called for, the cache stays coherent.
THEOREM CacheInvariant ==
    ASSUME BufConstants
    PROVE  Spec => []IInv
<1>1. Init => IInv
  BY InitCoherent
<1>2. IInv /\ [Next]_vars => IInv'
  <2> SUFFICES ASSUME IInv, [Next]_vars PROVE IInv'
    OBVIOUS
  <2>1. CASE UNCHANGED vars
    BY <2>1 DEF vars, IInv, TypeOK, NoPanic, OneBufferPerBlock, caches, HeldIsDisk, Coherent, holds
  <2>2. CASE Next
    BY <2>2, BreadKeeps, BreadSucceeds, BwriteKeeps, BrelseKeeps DEF Next
  <2> QED BY <2>1, <2>2
<1> QED BY <1>1, <1>2, PTL DEF Spec

\* What Inodes relies on when it reads and writes the disk without a cache: the
\* buffer that bread returns is the block on the disk until brelse, bread never
\* fails and brelse never panics.
THEOREM CacheIsTransparent ==
    ASSUME BufConstants
    PROVE  Spec => [](OneBufferPerBlock /\ HeldIsDisk /\ NoPanic)
<1>1. IInv => OneBufferPerBlock /\ HeldIsDisk /\ NoPanic
  BY DEF IInv
<1> QED BY <1>1, CacheInvariant, PTL
=============================================================================
