----------------------------- MODULE PipeProofs -----------------------------
(***************************************************************************)
(* Proofs about Pipe, for any size of the ring, any readers and writers    *)
(* and any number of bytes: the ring stays within its bounds, no wakeup is *)
(* lost, a blocked process keeps its pipe, and the ring with its wrapping  *)
(* indices implements the stream of bytes of ByteStream.                   *)
(***************************************************************************)
EXTENDS Pipe, SequenceTheorems, TLAPS

\* Only a process inside write has something left to write; one inside read or
\* write waits on the channel of its end, with something left to do.
Blocked ==
    \A p \in Procs :
        /\ p \in Readers \/ state[p] = "User" => src[p] = <<>>
        /\ state[p] # "User" =>
               IF p \in Readers THEN chan[p] = "read_chan" /\ want[p] # 0
                                ELSE chan[p] = "write_chan" /\ src[p] # <<>>

\* The end of every process that has a descriptor is open.
EndsOpen == \A p \in holds : used /\ (IF p \in Readers THEN readopen ELSE writeopen)

\* The inductive invariant.
IInv == RingIsBounded /\ NoLostWakeup /\ SlotKeptWhileBlocked /\ Blocked /\ EndsOpen

\* Pipe's Init establishes the invariant.
LEMMA InitHolds == Init => IInv
BY PipeAssumption, SMT DEF Init, IInv, RingIsBounded, TypeOK, NoLostWakeup, SlotKeptWhileBlocked,
   Blocked, EndsOpen, Procs, Bytes

\* Storing bytes in the ring leaves bytes in every cell.
LEMMA StoreTyped ==
    ASSUME IInv, NEW s \in Seq(Bytes)
    PROVE  store(s) \in [0..PIPESIZE - 1 -> Bytes \cup {0}]
<1> SUFFICES ASSUME NEW i \in 0..PIPESIZE - 1
             PROVE  (LET k == ((i - nwrite) % PIPESIZE) + 1
                     IN  IF k <= Len(s) THEN s[k] ELSE data[i]) \in Bytes \cup {0}
  BY DEF store
<1> DEFINE k == ((i - nwrite) % PIPESIZE) + 1
<1>1. k \in Nat \ {0} /\ data[i] \in Bytes \cup {0}
  BY PipeAssumption DEF IInv, RingIsBounded, TypeOK
<1> HIDE DEF k
<1>2. k <= Len(s) => s[k] \in Bytes
  BY <1>1
<1> QED BY <1>1, <1>2 DEF k

\* pipe::read, called or resumed, preserves the invariant.
LEMMA ReadKeeps ==
    ASSUME IInv, NEW p \in Readers \cap holds, NEW len \in 1..MaxChunk, read(p, len)
    PROVE  IInv'
<1> USE PipeAssumption
<1> USE DEF Procs, Bytes, ring, ends
<1>1. CASE read_sleep(p, len)
  <2>1. RingIsBounded'
    BY <1>1 DEF read_sleep, IInv, RingIsBounded, TypeOK
  <2>2. NoLostWakeup'
    BY <1>1 DEF read_sleep, IInv, RingIsBounded, TypeOK, NoLostWakeup
  <2>3. SlotKeptWhileBlocked'
    BY <1>1 DEF read_sleep, IInv, RingIsBounded, TypeOK, SlotKeptWhileBlocked, EndsOpen
  <2>4. Blocked'
    BY <1>1 DEF read_sleep, IInv, RingIsBounded, TypeOK, Blocked
  <2>5. EndsOpen'
    BY <1>1 DEF read_sleep, IInv, EndsOpen
  <2> QED BY <2>1, <2>2, <2>3, <2>4, <2>5 DEF IInv
<1>2. CASE read_bytes(p, len)
  <2> DEFINE n == Min2(len, used_bytes)
  <2>0. n \in Nat /\ n <= used_bytes
    BY DEF Min2, used_bytes, IInv, RingIsBounded, TypeOK
  <2>1. RingIsBounded'
    <3>1. \A k \in 1..n : unread(k) \in Bytes \cup {0}
      BY <2>0 DEF unread, IInv, RingIsBounded, TypeOK
    <3>2. [k \in 1..n |-> unread(k)] \in Seq(Bytes \cup {0})
      BY <2>0, <3>1
    <3>3. got' \in [by : Procs \cup {"none"}, bytes : Seq(Bytes \cup {0})]
      BY <1>2, <3>2 DEF read_bytes
    <3>4. nread' = nread + n /\ nwrite' = nwrite
      BY <1>2 DEF read_bytes
    <3> HIDE DEF n
    <3>5. nread' \in Nat /\ nread' <= nwrite' /\ nwrite' <= nread' + PIPESIZE
      BY <2>0, <3>4 DEF used_bytes, IInv, RingIsBounded, TypeOK
    <3>6. state' \in [Procs -> {"User", "Sleeping", "Runnable"}]
      BY <1>2 DEF read_bytes, wakeup, IInv, RingIsBounded, TypeOK
    <3>7. /\ want' \in [Procs -> 0..MaxChunk]
          /\ chan' \in [Procs -> {"none", "read_chan", "write_chan"}]
      BY <1>2 DEF read_bytes, IInv, RingIsBounded, TypeOK
    <3>8. UNCHANGED <<data, readopen, writeopen, used, holds, src, issued>>
      BY <1>2 DEF read_bytes
    <3>9. TypeOK'
      BY <3>3, <3>4, <3>5, <3>6, <3>7, <3>8, Zenon DEF IInv, RingIsBounded, TypeOK
    <3> QED
      BY <3>5, <3>9 DEF RingIsBounded
  <2>2. NoLostWakeup'
    BY <1>2 DEF read_bytes, wakeup, IInv, RingIsBounded, TypeOK, NoLostWakeup, Blocked
  <2>3. SlotKeptWhileBlocked'
    BY <1>2 DEF read_bytes, wakeup, IInv, RingIsBounded, TypeOK, SlotKeptWhileBlocked
  <2>4. Blocked'
    BY <1>2, Zenon DEF read_bytes, wakeup, IInv, RingIsBounded, TypeOK, Blocked
  <2>5. EndsOpen'
    BY <1>2 DEF read_bytes, IInv, EndsOpen
  <2> QED BY <2>1, <2>2, <2>3, <2>4, <2>5 DEF IInv
<1> QED BY <1>1, <1>2 DEF read

\* pipe::write of s, called or resumed, preserves the invariant.
LEMMA WriteKeeps ==
    ASSUME IInv, NEW p \in Writers \cap holds, NEW s \in Seq(Bytes), s # <<>>, write(p, s),
           UNCHANGED want, issued' \in 0..MaxBytes
    PROVE  IInv'
<1> USE PipeAssumption
<1> USE DEF Procs, ring, ends
<1>1. CASE write_closed(p)
  <2>1. RingIsBounded'
    BY <1>1 DEF write_closed, IInv, RingIsBounded, TypeOK
  <2>2. NoLostWakeup'
    BY <1>1 DEF write_closed, IInv, RingIsBounded, TypeOK, NoLostWakeup
  <2>3. SlotKeptWhileBlocked'
    BY <1>1 DEF write_closed, IInv, RingIsBounded, TypeOK, SlotKeptWhileBlocked
  <2>4. Blocked'
    BY <1>1 DEF write_closed, IInv, RingIsBounded, TypeOK, Blocked
  <2>5. EndsOpen'
    BY <1>1 DEF write_closed, IInv, EndsOpen
  <2> QED BY <2>1, <2>2, <2>3, <2>4, <2>5 DEF IInv
<1>2. CASE write_all(p, s)
  <2>0. Len(s) \in Nat /\ Len(s) # 0 /\ Len(s) <= PIPESIZE - (nwrite - nread)
    BY <1>2 DEF write_all, room, used_bytes
  <2>1. RingIsBounded'
    <3>1. data' \in [0..PIPESIZE - 1 -> Bytes \cup {0}]
      BY <1>2, StoreTyped DEF write_all
    <3>2. nwrite' = nwrite + Len(s) /\ nread' = nread
      BY <1>2 DEF write_all
    <3>3. state' \in [Procs -> {"User", "Sleeping", "Runnable"}]
      BY <1>2 DEF write_all, wakeup, IInv, RingIsBounded, TypeOK
    <3>4. /\ chan' \in [Procs -> {"none", "read_chan", "write_chan"}]
          /\ src' \in [Procs -> Seq(Bytes)]
      BY <1>2 DEF write_all, IInv, RingIsBounded, TypeOK
    <3>5. UNCHANGED <<readopen, writeopen, used, holds, got>>
      BY <1>2 DEF write_all
    <3>6. /\ nread \in Nat /\ nwrite \in Nat /\ nread <= nwrite /\ nwrite <= nread + PIPESIZE
          /\ PIPESIZE \in Nat
      BY DEF IInv, RingIsBounded, TypeOK
    <3>7. nread' \in Nat /\ nwrite' \in Nat /\ nread' <= nwrite' /\ nwrite' <= nread' + PIPESIZE
      BY <2>0, <3>2, <3>6
    <3>8. TypeOK'
      BY <3>1, <3>3, <3>4, <3>5, <3>7, Zenon DEF IInv, RingIsBounded, TypeOK
    <3> QED BY <3>7, <3>8, Zenon DEF RingIsBounded
  <2>2. NoLostWakeup'
    <3> SUFFICES ASSUME NEW q \in Procs, state'[q] = "Sleeping" PROVE FALSE
      BY DEF NoLostWakeup
    <3>1. state[q] = "Sleeping" /\ chan[q] # "read_chan"
      BY <1>2 DEF write_all, wakeup, IInv, RingIsBounded, TypeOK
    <3>2. nwrite = nread + PIPESIZE
      BY <3>1 DEF IInv, Blocked, NoLostWakeup
    <3>3. nread \in Nat /\ nwrite \in Nat /\ PIPESIZE \in Nat
      BY DEF IInv, RingIsBounded, TypeOK
    <3> QED BY <2>0, <3>2, <3>3
  <2>3. SlotKeptWhileBlocked'
    BY <1>2 DEF write_all, wakeup, IInv, RingIsBounded, TypeOK, SlotKeptWhileBlocked
  <2>4. Blocked'
    BY <1>2 DEF write_all, wakeup, IInv, RingIsBounded, TypeOK, Blocked
  <2>5. EndsOpen'
    BY <1>2 DEF write_all, IInv, EndsOpen
  <2> QED BY <2>1, <2>2, <2>3, <2>4, <2>5 DEF IInv
<1>3. CASE write_sleep(p, s)
  <2>1. /\ room \in Nat /\ Len(s) \in Nat /\ room < Len(s)
        /\ room = PIPESIZE - (nwrite - nread)
    BY <1>3 DEF write_sleep, room, used_bytes, IInv, RingIsBounded, TypeOK
  <2> DEFINE first == SubSeq(s, 1, room)
             more == SubSeq(s, room + 1, Len(s))
  <2>2. /\ first \in Seq(Bytes) /\ more \in Seq(Bytes) /\ more # <<>>
    <3>1. \A i \in 1..Len(s) : s[i] \in Bytes
      OBVIOUS
    <3>2. first \in Seq(Bytes)
      BY <2>1, <3>1, SubSeqProperties
    <3>3. more \in Seq(Bytes) /\ Len(more) = Len(s) - room
      BY <2>1, <3>1, SubSeqProperties
    <3> HIDE DEF first, more
    <3>4. Len(more) # 0
      BY <2>1, <3>3
    <3> QED BY <3>2, <3>3, <3>4
  <2>3. nwrite' = nwrite + room /\ nread' = nread
    BY <1>3 DEF write_sleep
  <2>4. /\ nread' \in Nat /\ nwrite' \in Nat /\ nwrite' = nread' + PIPESIZE
        /\ nread' <= nwrite' /\ nwrite' <= nread' + PIPESIZE
    BY <2>1, <2>3 DEF IInv, RingIsBounded, TypeOK
  <2>5. /\ UNCHANGED <<readopen, writeopen, used, holds, got>>
        /\ data' = store(first)
        /\ src' = [src EXCEPT ![p] = more]
        /\ state' = [wakeup("read_chan", state) EXCEPT ![p] = "Sleeping"]
        /\ chan' = [chan EXCEPT ![p] = "write_chan"]
        /\ readopen
    BY <1>3 DEF write_sleep
  <2> HIDE DEF first, more
  <2>6. RingIsBounded'
    <3>1. data' \in [0..PIPESIZE - 1 -> Bytes \cup {0}]
      BY <2>2, <2>5, StoreTyped
    <3>2. state' \in [Procs -> {"User", "Sleeping", "Runnable"}]
      BY <2>5 DEF wakeup, IInv, RingIsBounded, TypeOK
    <3>3. /\ chan' \in [Procs -> {"none", "read_chan", "write_chan"}]
          /\ src' \in [Procs -> Seq(Bytes)]
      BY <2>2, <2>5 DEF IInv, RingIsBounded, TypeOK
    <3>4. UNCHANGED <<readopen, writeopen, used, holds, got>>
      BY <2>5
    <3>5. /\ want \in [Procs -> 0..MaxChunk]
          /\ got \in [by : Procs \cup {"none"}, bytes : Seq(Bytes \cup {0})]
          /\ readopen \in BOOLEAN /\ writeopen \in BOOLEAN /\ used \in BOOLEAN
          /\ holds \subseteq Procs
      BY DEF IInv, RingIsBounded, TypeOK
    <3>6. TypeOK'
      BY <2>4, <3>1, <3>2, <3>3, <3>4, <3>5 DEF TypeOK
    <3> QED
      BY <2>4, <3>6, Zenon DEF RingIsBounded
  <2>7. NoLostWakeup'
    BY <2>4, <2>5, Zenon DEF wakeup, IInv, RingIsBounded, TypeOK, NoLostWakeup, Blocked
  <2>8. SlotKeptWhileBlocked'
    BY <2>5 DEF wakeup, IInv, RingIsBounded, TypeOK, SlotKeptWhileBlocked, EndsOpen
  <2>9. Blocked'
    BY <2>2, <2>5 DEF wakeup, IInv, RingIsBounded, TypeOK, Blocked
  <2>10. EndsOpen'
    BY <2>5 DEF IInv, EndsOpen
  <2> QED BY <2>6, <2>7, <2>8, <2>9, <2>10 DEF IInv
<1> QED BY <1>1, <1>2, <1>3 DEF write

\* Closing a descriptor, with pipe::close when it is the last one of its end,
\* preserves the invariant.
LEMMA CloseKeeps ==
    ASSUME IInv, NEW p \in Procs, Close(p)
    PROVE  IInv'
<1> USE PipeAssumption
<1> USE DEF Procs, ring
<1>1. CASE last(p)
  <2>1. RingIsBounded'
    BY <1>1 DEF Close, pipe_close, wakeup, IInv, RingIsBounded, TypeOK
  <2>2. NoLostWakeup'
    BY <1>1 DEF Close, pipe_close, wakeup, IInv, RingIsBounded, TypeOK, NoLostWakeup, Blocked
  <2>3. \A q \in holds' : q \in Readers <=> p \in Writers
    BY <1>1 DEF Close, last, IInv, RingIsBounded, TypeOK
  <2>4. \A q \in Procs : state'[q] # "User" => state[q] # "User"
    BY <1>1 DEF Close, pipe_close, wakeup, IInv, RingIsBounded, TypeOK
  <2>5. EndsOpen'
    BY <1>1, <2>3 DEF Close, pipe_close, IInv, RingIsBounded, TypeOK, EndsOpen
  <2>6. SlotKeptWhileBlocked'
    BY <1>1, <2>4, <2>5 DEF Close, IInv, EndsOpen, SlotKeptWhileBlocked
  <2>7. Blocked'
    BY <1>1, <2>4 DEF Close, pipe_close, wakeup, IInv, RingIsBounded, TypeOK, Blocked
  <2> QED BY <2>1, <2>2, <2>5, <2>6, <2>7 DEF IInv
<1>2. CASE ~last(p)
  BY <1>2 DEF Close, IInv, RingIsBounded, TypeOK, NoLostWakeup, SlotKeptWhileBlocked,
     Blocked, EndsOpen
<1> QED BY <1>1, <1>2

\* The bytes a Write hands over are bytes of the model.
LEMMA ChunkIsBytes ==
    ASSUME IInv, NEW len \in 1..MaxChunk, issued + len <= MaxBytes
    PROVE  LET s == [k \in 1..len |-> issued + k]
           IN  s \in Seq(Bytes) /\ s # <<>> /\ Len(s) = len
<1> DEFINE s == [k \in 1..len |-> issued + k]
<1>1. len \in Nat /\ issued \in Nat
  BY PipeAssumption DEF IInv, RingIsBounded, TypeOK
<1>2. s \in Seq(Bytes) /\ Len(s) = len
  BY <1>1, PipeAssumption DEF Bytes
<1>3. s # <<>>
  BY <1>2, EmptySeq
<1> QED BY <1>2, <1>3

\* Every step preserves the invariant.
LEMMA StepKeeps == IInv /\ [Next]_vars => IInv'
<1> SUFFICES ASSUME IInv, [Next]_vars PROVE IInv'
  OBVIOUS
<1> USE PipeAssumption
<1>1. ASSUME NEW p \in Procs, NEW len \in 1..MaxChunk, Read(p, len) PROVE IInv'
  BY <1>1, ReadKeeps DEF Read
<1>2. ASSUME NEW p \in Procs, NEW len \in 1..MaxChunk, Write(p, len) PROVE IInv'
  <2> DEFINE s == [k \in 1..len |-> issued + k]
  <2>1. s \in Seq(Bytes) /\ s # <<>>
    BY <1>2, ChunkIsBytes DEF Write
  <2>2. /\ p \in Writers \cap holds /\ write(p, s) /\ UNCHANGED want
        /\ issued' = issued + len /\ issued + len <= MaxBytes
    BY <1>2 DEF Write
  <2>3. issued' \in 0..MaxBytes
    BY <2>2 DEF IInv, RingIsBounded, TypeOK
  <2> HIDE DEF s
  <2> QED BY <2>1, <2>2, <2>3, WriteKeeps
<1>3. ASSUME NEW p \in Procs, ReadAgain(p) PROVE IInv'
  <2>1. p \in Readers \cap holds /\ want[p] \in 1..MaxChunk
    BY <1>3 DEF ReadAgain, IInv, RingIsBounded, TypeOK, SlotKeptWhileBlocked, Blocked, Procs
  <2> QED BY <1>3, <2>1, ReadKeeps DEF ReadAgain
<1>4. ASSUME NEW p \in Procs, WriteAgain(p) PROVE IInv'
  <2>1. p \in Writers \cap holds /\ src[p] \in Seq(Bytes) /\ src[p] # <<>>
    BY <1>4 DEF WriteAgain, IInv, RingIsBounded, TypeOK, SlotKeptWhileBlocked, Blocked, Procs
  <2>2. issued' \in 0..MaxBytes /\ UNCHANGED want /\ write(p, src[p])
    BY <1>4 DEF WriteAgain, IInv, RingIsBounded, TypeOK
  <2> QED BY <2>1, <2>2, WriteKeeps
<1>5. ASSUME NEW p \in Procs, Close(p) PROVE IInv'
  BY <1>5, CloseKeeps
<1>6. CASE UNCHANGED vars
  BY <1>6 DEF vars, ring, ends, IInv, RingIsBounded, TypeOK, NoLostWakeup,
     SlotKeptWhileBlocked, Blocked, EndsOpen
<1> QED BY <1>1, <1>2, <1>3, <1>4, <1>5, <1>6 DEF Next, Again

\* The invariant holds throughout.
THEOREM InvariantHolds == Spec => []IInv
<1>1. Init => IInv
  BY InitHolds
<1>2. IInv /\ [Next]_vars => IInv'
  BY StepKeeps
<1> QED BY <1>1, <1>2, PTL DEF Spec

\* The ring holds between 0 and PIPESIZE unread bytes, whatever the readers and
\* writers of the pipe do.
THEOREM RingBounded == Spec => []RingIsBounded
<1>1. IInv => RingIsBounded
  BY DEF IInv
<1> QED BY <1>1, InvariantHolds, PTL

\* Nobody sleeps on a pipe that has what they wait for.
THEOREM WakeupsNotLost == Spec => []NoLostWakeup
<1>1. IInv => NoLostWakeup
  BY DEF IInv
<1> QED BY <1>1, InvariantHolds, PTL

\* The slot of a pipe is never given back under a process inside read or write.
THEOREM SlotKept == Spec => []SlotKeptWhileBlocked
<1>1. IInv => SlotKeptWhileBlocked
  BY DEF IInv
<1> QED BY <1>1, InvariantHolds, PTL
-----------------------------------------------------------------------------
(* The ring implements the stream.                                           *)

\* The unread bytes, oldest first: the queue of ByteStream.
Queue == [k \in 1..used_bytes |-> unread(k)]

\* Division by the size of the ring.
LEMMA DivMod ==
    ASSUME NEW P \in Nat \ {0}, NEW a \in Int
    PROVE  a % P \in 0..P - 1 /\ a \div P \in Int /\ a = P * (a \div P) + (a % P)
OBVIOUS

\* A number below the modulus is its own remainder.
LEMMA ModSmall ==
    ASSUME NEW P \in Nat \ {0}, NEW q \in Int, NEW r \in 0..P - 1
    PROVE  (P * q + r) % P = r
OBVIOUS

\* The cell of the byte j places after index b (counted modulo P): the place is
\* found again from the cell, and is the same j places or j - P places after b.
LEMMA CellOf ==
    ASSUME NEW P \in Nat \ {0}, NEW b \in Int, NEW j \in 0..P - 1
    PROVE  /\ (((b + j) % P) - b) % P = j
           /\ (((b + j - P) % P) - b) % P = j
<1>1. ASSUME NEW x \in Int, NEW c \in Int, x = b + j + P * c
      PROVE  ((x % P) - b) % P = j
  <2> DEFINE q == x \div P
  <2>1. x % P = x - P * q /\ q \in Int
    BY DivMod
  <2> HIDE DEF q
  <2>2. (x % P) - b = P * (c - q) + j
    BY <1>1, <2>1
  <2>3. c - q \in Int
    BY <2>1
  <2>4. (P * (c - q) + j) % P = j
    BY <2>3, ModSmall
  <2> QED BY <2>2, <2>4
<1>2. (((b + j) % P) - b) % P = j
  BY <1>1, b + j = b + j + P * 0, b + j \in Int, 0 \in Int, Zenon
<1>3. (((b + j - P) % P) - b) % P = j
  BY <1>1, b + j - P = b + j + P * (-1), b + j - P \in Int, -1 \in Int
<1> QED BY <1>2, <1>3

\* Queue is a sequence of as many bytes as the ring holds.
LEMMA QueueIsSeq ==
    ASSUME IInv
    PROVE  Queue \in Seq(Bytes \cup {0}) /\ Len(Queue) = used_bytes /\ used_bytes \in Nat
<1>1. used_bytes \in Nat
  BY DEF IInv, RingIsBounded, TypeOK, used_bytes
<1>2. \A k \in 1..used_bytes : unread(k) \in Bytes \cup {0}
  BY <1>1, PipeAssumption DEF unread, IInv, RingIsBounded, TypeOK
<1> QED BY <1>1, <1>2 DEF Queue

\* Storing s behind the unread bytes, where it fits, appends s to the queue: no
\* unread byte is overwritten, across the end of the ring too.
LEMMA StoreAppends ==
    ASSUME IInv, NEW s \in Seq(Bytes), Len(s) <= room,
           data' = store(s), nwrite' = nwrite + Len(s), nread' = nread
    PROVE  Queue' = Queue \o s
<1> USE PipeAssumption
<1>1. /\ nread \in Nat /\ nwrite \in Nat /\ Len(s) \in Nat
      /\ used_bytes = nwrite - nread /\ used_bytes \in 0..PIPESIZE
      /\ Len(s) <= PIPESIZE - used_bytes
      /\ used_bytes' = used_bytes + Len(s)
  BY DEF IInv, RingIsBounded, TypeOK, used_bytes, room
<1>2. ASSUME NEW k \in 1..used_bytes PROVE unread(k)' = unread(k)
  <2> DEFINE j == PIPESIZE + k - 1 - used_bytes
             i == (nread + k - 1) % PIPESIZE
  <2>1. j \in 0..PIPESIZE - 1 /\ j + 1 > Len(s) /\ nread + k - 1 = nwrite + j - PIPESIZE
    BY <1>1
  <2>2. i \in 0..PIPESIZE - 1
    <3>1. nread + k - 1 \in Int
      BY <1>1
    <3> QED BY <3>1, DivMod, Zenon
  <2> HIDE DEF j
  <2>3. (i - nwrite) % PIPESIZE = j
    <3>1. nwrite \in Int
      BY <1>1
    <3>2. (((nwrite + j - PIPESIZE) % PIPESIZE) - nwrite) % PIPESIZE = j
      BY <2>1, <3>1, CellOf, Zenon
    <3> QED BY <2>1, <3>2
  <2> HIDE DEF i
  <2>4. data'[i] = data[i]
    BY <1>1, <2>1, <2>2, <2>3 DEF store
  <2> QED BY <2>4 DEF unread, i
<1>3. ASSUME NEW k \in used_bytes + 1 .. used_bytes + Len(s)
      PROVE  unread(k)' = s[k - used_bytes]
  <2> DEFINE j == k - used_bytes - 1
             i == (nread + k - 1) % PIPESIZE
  <2>1. j \in 0..PIPESIZE - 1 /\ j + 1 <= Len(s) /\ nread + k - 1 = nwrite + j
        /\ j + 1 = k - used_bytes
    BY <1>1
  <2>2. i \in 0..PIPESIZE - 1
    <3>1. nread + k - 1 \in Int
      BY <1>1
    <3> QED BY <3>1, DivMod, Zenon
  <2> HIDE DEF j
  <2>3. (i - nwrite) % PIPESIZE = j
    <3>1. nwrite \in Int
      BY <1>1
    <3>2. (((nwrite + j) % PIPESIZE) - nwrite) % PIPESIZE = j
      BY <2>1, <3>1, CellOf, Zenon
    <3> QED BY <2>1, <3>2
  <2> HIDE DEF i
  <2>4. data'[i] = s[j + 1]
    BY <1>1, <2>1, <2>2, <2>3 DEF store
  <2> QED BY <2>1, <2>4 DEF unread, i
<1> DEFINE n == used_bytes + Len(s)
           t == Queue \o s
<1>4. Queue \in Seq(Bytes \cup {0}) /\ Len(Queue) = used_bytes /\ s \in Seq(Bytes \cup {0})
  BY QueueIsSeq
<1>5. \A k \in 1..used_bytes : Queue[k] = unread(k)
  BY DEF Queue
<1>6. /\ t \in Seq(Bytes \cup {0}) /\ Len(t) = n
      /\ \A k \in 1..n : t[k] = IF k <= used_bytes THEN unread(k) ELSE s[k - used_bytes]
  <2>1. Len(s) \in Nat /\ used_bytes \in Nat
    BY <1>1
  <2>2. /\ t \in Seq(Bytes \cup {0}) /\ Len(t) = Len(Queue) + Len(s)
        /\ \A k \in 1..Len(Queue) + Len(s) :
              t[k] = IF k <= Len(Queue) THEN Queue[k] ELSE s[k - Len(Queue)]
    BY <1>4, ConcatProperties, Zenon
  <2> HIDE DEF t
  <2>3. ASSUME NEW k \in 1..n
        PROVE  t[k] = IF k <= used_bytes THEN unread(k) ELSE s[k - used_bytes]
    <3>1. t[k] = IF k <= used_bytes THEN Queue[k] ELSE s[k - used_bytes]
      BY <1>4, <2>2
    <3>2. k <= used_bytes => k \in 1..used_bytes
      BY <2>1
    <3> QED BY <1>5, <3>1, <3>2
  <2> QED BY <1>4, <2>2, <2>3
<1> HIDE DEF t
<1>7. ASSUME NEW k \in 1..n PROVE unread(k)' = t[k]
  <2>1. CASE k <= used_bytes
    <3>1. k \in 1..used_bytes
      BY <1>1, <2>1
    <3>2. unread(k)' = unread(k)
      BY <1>2, <3>1
    <3> QED BY <1>6, <2>1, <3>2
  <2>2. CASE ~(k <= used_bytes)
    <3>1. k \in used_bytes + 1 .. used_bytes + Len(s)
      BY <1>1, <2>2
    <3>2. unread(k)' = s[k - used_bytes]
      BY <1>3, <3>1
    <3> QED BY <1>6, <2>2, <3>2
  <2> QED BY <2>1, <2>2
<1>8. Queue' = [k \in 1..n |-> unread(k)']
  BY <1>1 DEF Queue
<1> HIDE DEF n
<1>9. Queue' = [k \in 1..n |-> t[k]]
  BY <1>7, <1>8
<1>10. t = [k \in 1..n |-> t[k]]
  BY <1>6
<1> QED BY <1>9, <1>10, Zenon DEF t

\* A stretch of pipe::write that stores the first n bytes of s, all of them or
\* as many as fit, is a put of the stream.
LEMMA PutMaps ==
    ASSUME IInv, NEW p \in Writers \cap holds, NEW s \in Seq(Bytes), NEW n \in 0..Len(s),
           readopen, n <= room, n < Len(s) => n = room,
           data' = store(SubSeq(s, 1, n)), nwrite' = nwrite + n, nread' = nread,
           src' = [src EXCEPT ![p] = SubSeq(s, n + 1, Len(s))],
           UNCHANGED <<readopen, writeopen, got>>
    PROVE  Stream!put(p, s, n)
<1> USE PipeAssumption
<1> DEFINE first == SubSeq(s, 1, n)
<1>1. first \in Seq(Bytes) /\ Len(first) = n
  <2>1. \A i \in 1..n : s[i] \in Bytes
    OBVIOUS
  <2> QED BY <2>1, SubSeqProperties
<1>2. writeopen
  BY DEF IInv, RingIsBounded, TypeOK, EndsOpen, Procs
<1>3. Queue \in Seq(Bytes \cup {0}) /\ Len(Queue) = used_bytes /\ used_bytes \in Nat
  BY QueueIsSeq
<1>4. room = PIPESIZE - used_bytes
  BY DEF room
<1> HIDE DEF first
<1>5. Queue' = Queue \o first
  BY <1>1, StoreAppends, Zenon DEF first
<1>6. Len(Queue \o first) = used_bytes + n
  <2>1. first \in Seq(Bytes \cup {0})
    BY <1>1
  <2>2. Len(Queue \o first) = Len(Queue) + Len(first)
    BY <1>3, <2>1, ConcatProperties, Zenon
  <2> QED BY <1>1, <1>3, <2>2
<1>7. Len(Queue') <= PIPESIZE /\ (n < Len(s) => Len(Queue') = PIPESIZE)
  BY <1>3, <1>4, <1>5, <1>6
<1> QED
  BY <1>2, <1>5, <1>7, Zenon DEF Stream!put, Queue, first

\* A stretch of pipe::write of s is a put or a refusal of the stream.
LEMMA WriteMaps ==
    ASSUME IInv, NEW p \in Writers \cap holds, NEW s \in Seq(Bytes), s # <<>>, write(p, s)
    PROVE  Stream!refuse(p) \/ \E n \in 0..Len(s) : Stream!put(p, s, n)
<1> USE PipeAssumption
<1>1. CASE write_closed(p)
  BY <1>1 DEF write_closed, Stream!refuse, ring, ends, used_bytes, unread
<1>2. CASE write_all(p, s)
  <2>1. SubSeq(s, 1, Len(s)) = s /\ SubSeq(s, Len(s) + 1, Len(s)) = <<>> /\ Len(s) \in Nat
    BY SubSeqEmpty
  <2>2. /\ readopen /\ Len(s) <= room
        /\ data' = store(SubSeq(s, 1, Len(s)))
        /\ nwrite' = nwrite + Len(s) /\ nread' = nread
        /\ src' = [src EXCEPT ![p] = SubSeq(s, Len(s) + 1, Len(s))]
        /\ UNCHANGED <<readopen, writeopen, got>>
    BY <1>2, <2>1, Zenon DEF write_all, ends
  <2>3. Len(s) \in 0..Len(s) /\ ~(Len(s) < Len(s))
    BY <2>1
  <2>4. Stream!put(p, s, Len(s))
    BY <2>2, <2>3, PutMaps, Zenon
  <2> QED BY <2>3, <2>4
<1>3. CASE write_sleep(p, s)
  <2>1. room \in 0..Len(s) /\ room \in Nat
    BY <1>3 DEF write_sleep, room, used_bytes, IInv, RingIsBounded, TypeOK
  <2>2. /\ readopen /\ room <= room
        /\ data' = store(SubSeq(s, 1, room))
        /\ nwrite' = nwrite + room /\ nread' = nread
        /\ src' = [src EXCEPT ![p] = SubSeq(s, room + 1, Len(s))]
        /\ UNCHANGED <<readopen, writeopen, got>>
    BY <1>3, <2>1 DEF write_sleep, ends
  <2>3. Stream!put(p, s, room)
    BY <2>1, <2>2, PutMaps, Zenon
  <2> QED BY <2>1, <2>3
<1> QED BY <1>1, <1>2, <1>3 DEF write

\* The variables of the stream, in terms of the pipe's.
SameStream == UNCHANGED <<Queue, src, issued, readopen, writeopen, got>>

\* A stretch of pipe::read takes the oldest bytes, reports the end of file, or
\* changes nothing of the stream.
LEMMA ReadMaps ==
    ASSUME IInv, NEW p \in Readers \cap holds, NEW len \in 1..MaxChunk, read(p, len)
    PROVE  SameStream \/ Stream!SGet(p) \/ Stream!SEof(p)
<1> USE PipeAssumption
<1>1. CASE read_sleep(p, len)
  BY <1>1 DEF read_sleep, SameStream, Queue, used_bytes, unread, ring, ends
<1>2. CASE read_bytes(p, len)
  <2> DEFINE n == Min2(len, used_bytes)
             first == [k \in 1..n |-> unread(k)]
  <2>1. /\ Queue \in Seq(Bytes \cup {0}) /\ Len(Queue) = used_bytes /\ used_bytes \in Nat
        /\ \A k \in 1..used_bytes : Queue[k] = unread(k)
    <3>1. \A k \in 1..used_bytes : Queue[k] = unread(k)
      BY DEF Queue
    <3> QED BY <3>1, QueueIsSeq
  <2>2. n \in 0..used_bytes /\ (n = 0 <=> used_bytes = 0)
    BY <2>1 DEF Min2
  <2>3. /\ got' = [by |-> p, bytes |-> first]
        /\ nread' = nread + n
        /\ UNCHANGED <<data, nwrite, src, issued, readopen, writeopen>>
        /\ nread # nwrite \/ ~writeopen
    BY <1>2 DEF read_bytes, ends
  <2>4. readopen
    BY DEF IInv, EndsOpen
  <2>5. nread \in Nat /\ nwrite \in Nat /\ used_bytes = nwrite - nread
    BY DEF IInv, RingIsBounded, TypeOK, used_bytes
  <2> HIDE DEF n
  <2>6. Queue' = [k \in 1..used_bytes - n |-> unread(n + k)]
    <3>1. used_bytes' = used_bytes - n
      BY <2>2, <2>3, <2>5 DEF used_bytes
    <3>2. ASSUME NEW k \in 1..used_bytes - n PROVE unread(k)' = unread(n + k)
      <4>1. nread' + k - 1 = nread + (n + k) - 1
        BY <2>2, <2>3, <2>5
      <4> QED BY <2>3, <4>1 DEF unread
    <3>3. Queue' = [k \in 1..used_bytes - n |-> unread(k)']
      BY <3>1 DEF Queue
    <3> QED BY <3>2, <3>3
  <2>7. CASE n = 0
    <3>1. Queue = <<>> /\ ~writeopen /\ first = <<>>
      BY <2>1, <2>2, <2>3, <2>5, <2>7
    <3>2. Queue' = Queue
      BY <2>2, <2>6, <2>7, <3>1
    <3> QED BY <2>3, <2>4, <3>1, <3>2, Zenon DEF Stream!SEof, Queue
  <2>8. CASE n # 0
    <3>1. \A k \in 1..used_bytes : Queue[k] \in Bytes \cup {0}
      BY <2>1
    <3>2. first = SubSeq(Queue, 1, n)
      <4> DEFINE t == SubSeq(Queue, 1, n)
      <4>1. t \in Seq(Bytes \cup {0}) /\ Len(t) = n /\ \A k \in 1..n : t[k] = Queue[k]
        BY <2>1, <2>2, <2>8, <3>1, SubSeqProperties
      <4>2. \A k \in 1..n : Queue[k] = unread(k)
        BY <2>1, <2>2
      <4> HIDE DEF t
      <4>3. t = [k \in 1..n |-> t[k]]
        BY <4>1
      <4> QED BY <4>1, <4>2, <4>3 DEF t
    <3>3. Queue' = SubSeq(Queue, n + 1, Len(Queue))
      <4> DEFINE t == SubSeq(Queue, n + 1, used_bytes)
                 m == used_bytes - n
      <4>1. m \in Nat /\ n + 1 \in Int /\ used_bytes - (n + 1) + 1 = m
        BY <2>1, <2>2
      <4>2. \A k \in n + 1 .. used_bytes : Queue[k] \in Bytes \cup {0}
        BY <2>1, <2>2
      <4>3. t \in Seq(Bytes \cup {0}) /\ Len(t) = m /\ \A k \in 1..m : t[k] = Queue[n + 1 + k - 1]
        BY <2>1, <2>2, <4>1, <4>2, SubSeqProperties
      <4>4. \A k \in 1..m : Queue[n + 1 + k - 1] = unread(n + k)
        BY <2>1, <2>2
      <4> HIDE DEF t, m
      <4>5. t = [k \in 1..m |-> t[k]]
        BY <4>3
      <4> QED BY <2>1, <2>6, <4>3, <4>4, <4>5 DEF t, m
    <3>4. n \in 1..Len(Queue)
      BY <2>1, <2>2, <2>8
    <3> QED BY <2>3, <2>4, <3>2, <3>3, <3>4, Zenon DEF Stream!SGet, Queue
  <2> QED BY <2>7, <2>8
<1> QED BY <1>1, <1>2 DEF read

\* Every step of the pipe is a step of the stream, or none.
LEMMA StepMaps == IInv /\ [Next]_vars => [Stream!SNext]_(Stream!svars)
<1> SUFFICES ASSUME IInv, [Next]_vars PROVE SameStream \/ Stream!SNext
  BY DEF Stream!svars, SameStream, Queue
<1> USE PipeAssumption
<1>1. ASSUME NEW p \in Procs, NEW len \in 1..MaxChunk, Read(p, len)
      PROVE  SameStream \/ Stream!SNext
  <2>1. SameStream \/ Stream!SGet(p) \/ Stream!SEof(p)
    BY <1>1, ReadMaps DEF Read
  <2> QED BY <2>1 DEF Stream!SNext
<1>2. ASSUME NEW p \in Procs, NEW len \in 1..MaxChunk, Write(p, len)
      PROVE  SameStream \/ Stream!SNext
  <2> DEFINE s == [k \in 1..len |-> issued + k]
  <2>1. s \in Seq(Bytes) /\ s # <<>> /\ Len(s) = len
    BY <1>2, ChunkIsBytes DEF Write
  <2>2. p \in Writers \cap holds /\ write(p, s) /\ issued' = issued + len
    BY <1>2 DEF Write
  <2>3. src[p] = <<>> /\ len \in 1..PIPESIZE
    BY <1>2 DEF Write, IInv, Blocked
  <2>4. Stream!refuse(p) \/ \E n \in 0..len : Stream!put(p, s, n)
    BY <2>1, <2>2, WriteMaps
  <2>5. Stream!SWrite(p)
    BY <2>2, <2>3, <2>4 DEF Stream!SWrite
  <2> QED BY <2>5 DEF Stream!SNext
<1>3. ASSUME NEW p \in Procs, ReadAgain(p) PROVE SameStream \/ Stream!SNext
  <2>1. p \in Readers \cap holds /\ want[p] \in 1..MaxChunk
    BY <1>3 DEF ReadAgain, IInv, RingIsBounded, TypeOK, SlotKeptWhileBlocked, Blocked, Procs
  <2>2. SameStream \/ Stream!SGet(p) \/ Stream!SEof(p)
    BY <1>3, <2>1, ReadMaps DEF ReadAgain
  <2> QED BY <2>2 DEF Stream!SNext
<1>4. ASSUME NEW p \in Procs, WriteAgain(p) PROVE SameStream \/ Stream!SNext
  <2>1. p \in Writers \cap holds /\ src[p] \in Seq(Bytes) /\ src[p] # <<>>
    BY <1>4 DEF WriteAgain, IInv, RingIsBounded, TypeOK, SlotKeptWhileBlocked, Blocked, Procs
  <2>2. write(p, src[p]) /\ issued' = issued
    BY <1>4 DEF WriteAgain
  <2>3. CASE Stream!refuse(p) \/ \E n \in 1..Len(src[p]) : Stream!put(p, src[p], n)
    <3>1. Stream!SWriteMore(p)
      BY <2>1, <2>2, <2>3 DEF Stream!SWriteMore
    <3> QED BY <3>1 DEF Stream!SNext
  <2>4. CASE Stream!put(p, src[p], 0)
    <3>1. SubSeq(src[p], 1, 0) = <<>> /\ SubSeq(src[p], 0 + 1, Len(src[p])) = src[p]
      BY <2>1, SubSeqEmpty
    <3>2. /\ Queue' = Queue \o SubSeq(src[p], 1, 0)
          /\ src' = [src EXCEPT ![p] = SubSeq(src[p], 0 + 1, Len(src[p]))]
          /\ UNCHANGED <<readopen, writeopen, got>>
      BY <2>4, Zenon DEF Stream!put, Queue
    <3>3. Queue \o <<>> = Queue
      BY QueueIsSeq, ConcatEmptySeq
    <3>4. src' = src
      BY <3>1, <3>2 DEF IInv, RingIsBounded, TypeOK
    <3> QED BY <2>2, <3>1, <3>2, <3>3, <3>4, Zenon DEF SameStream
  <2>5. Stream!refuse(p) \/ \E n \in 0..Len(src[p]) : Stream!put(p, src[p], n)
    BY <2>1, <2>2, WriteMaps
  <2>6. \A n \in 0..Len(src[p]) : n = 0 \/ n \in 1..Len(src[p])
    BY <2>1
  <2> QED BY <2>3, <2>4, <2>5, <2>6
<1>5. ASSUME NEW p \in Procs, Close(p) PROVE SameStream \/ Stream!SNext
  <2>1. UNCHANGED <<Queue, src, issued, got>>
    BY <1>5 DEF Close, Queue, used_bytes, unread, ring
  <2>2. CASE last(p)
    <3>1. Stream!SClose
      BY <1>5, <2>1, <2>2, Zenon DEF Close, pipe_close, Stream!SClose, Queue, Procs, IInv,
         RingIsBounded, TypeOK
    <3> QED BY <3>1 DEF Stream!SNext
  <2>3. CASE ~last(p)
    BY <1>5, <2>1, <2>3 DEF Close, SameStream
  <2> QED BY <2>2, <2>3
<1>6. CASE UNCHANGED vars
  BY <1>6 DEF vars, ring, ends, SameStream, Queue, used_bytes, unread
<1> QED BY <1>1, <1>2, <1>3, <1>4, <1>5, <1>6 DEF Next, Again

\* A fresh pipe is an empty stream.
LEMMA InitMaps == Init => Stream!SInit
<1> SUFFICES ASSUME Init PROVE Stream!SInit
  OBVIOUS
<1>1. [k \in 1..used_bytes |-> unread(k)] = <<>>
  BY DEF Init, used_bytes
<1> QED BY <1>1 DEF Init, Stream!SInit

\* Whatever the size of the ring and however many readers and writers share it,
\* block in it and close it, a pipe is the stream of bytes ByteStream specifies:
\* nothing is lost, duplicated or reordered, and an empty read means end of file.
THEOREM StreamImplemented == Spec => ImplementsStream
<1>1. Init => Stream!SInit
  BY InitMaps
<1>2. IInv /\ [Next]_vars => [Stream!SNext]_(Stream!svars)
  BY StepMaps
<1> QED BY <1>1, <1>2, InvariantHolds, PTL DEF Spec, ImplementsStream, Stream!SSpec
=============================================================================
