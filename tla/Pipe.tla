-------------------------------- MODULE Pipe --------------------------------
(***************************************************************************)
(* src/src/pipe.rs: one pipe, the processes that hold its ends, and their  *)
(* sleep and wakeup.  A system call runs without preemption up to its      *)
(* return or its sleep (Proc), so each stretch between sleeps is one step; *)
(* a process that was woken runs again at some later time (Proc).          *)
(***************************************************************************)
EXTENDS Integers, Sequences, FiniteSets

CONSTANTS PIPESIZE,
          Readers, Writers,  \* the processes that hold each end at first
          MaxChunk,          \* the 128 bytes sys_read and sys_write move at most
          MaxBytes           \* bound on the bytes ever passed to write

ASSUME PipeAssumption ==
    /\ PIPESIZE \in Nat \ {0} /\ MaxChunk \in 1..PIPESIZE /\ MaxBytes \in Nat
    /\ Readers \cap Writers = {}

Procs == Readers \cup Writers
Bytes == 1..MaxBytes

VARIABLES
    data, nread, nwrite, readopen, writeopen, used,  \* fields of Pipe
    holds,   \* the processes with a descriptor for their end
    state,   \* "User", "Sleeping" or "Runnable" (woken inside a call)
    chan,    \* "read_chan", "write_chan" or "none"
    want,    \* by process, the length of the read under way
    src,     \* by process, the bytes its write has not stored yet
    issued,  \* how many bytes have been passed to write
    got      \* the last answer of read

ends == <<readopen, writeopen, used, holds>>
ring == <<data, nread, nwrite>>
vars == <<ring, ends, state, chan, want, src, issued, got>>

Min2(m, n) == IF m < n THEN m ELSE n
used_bytes == nwrite - nread
room == PIPESIZE - used_bytes

wakeup(ch, st) ==
    [p \in Procs |-> IF st[p] = "Sleeping" /\ chan[p] = ch THEN "Runnable" ELSE st[p]]

\* The k-th unread byte.
unread(k) == data[(nread + k - 1) % PIPESIZE]
-----------------------------------------------------------------------------
(* pipe::read from its acquire, or from the return of its sleep.             *)
read_sleep(p, len) ==
    /\ nread = nwrite /\ writeopen
    /\ want' = [want EXCEPT ![p] = len]
    /\ state' = [state EXCEPT ![p] = "Sleeping"]
    /\ chan' = [chan EXCEPT ![p] = "read_chan"]
    /\ UNCHANGED <<ring, ends, src, issued, got>>

\* Wrong: the writers are not told of the room.
read_bytes_silent(p, len) ==
    LET n == Min2(len, used_bytes)
    IN  /\ nread # nwrite \/ ~writeopen
        /\ got' = [by |-> p, bytes |-> [k \in 1..n |-> unread(k)]]
        /\ nread' = nread + n
        /\ want' = [want EXCEPT ![p] = 0]
        /\ state' = [state EXCEPT ![p] = "User"]
        /\ chan' = [chan EXCEPT ![p] = "none"]
        /\ UNCHANGED <<data, nwrite, ends, src, issued>>

read_bytes(p, len) ==
    LET n == Min2(len, used_bytes)
    IN  /\ nread # nwrite \/ ~writeopen
        /\ got' = [by |-> p, bytes |-> [k \in 1..n |-> unread(k)]]
        /\ nread' = nread + n
        /\ want' = [want EXCEPT ![p] = 0]
        /\ state' = [wakeup("write_chan", state) EXCEPT ![p] = "User"]
        /\ chan' = [chan EXCEPT ![p] = "none"]
        /\ UNCHANGED <<data, nwrite, ends, src, issued>>

read(p, len) == read_sleep(p, len) \/ read_bytes(p, len)

Read(p, len) ==
    /\ p \in Readers \cap holds /\ state[p] = "User"
    /\ read(p, len)

ReadAgain(p) ==
    /\ p \in Readers /\ state[p] = "Runnable"
    /\ read(p, want[p])

(* pipe::write of the bytes s, from its acquire or the return of its sleep.  *)
store(s) ==
    [i \in 0..PIPESIZE - 1 |->
        LET k == ((i - nwrite) % PIPESIZE) + 1   \* s[k] lands in cell i
        IN  IF k <= Len(s) THEN s[k] ELSE data[i]]

write_closed(p) ==
    /\ ~readopen
    /\ state' = [state EXCEPT ![p] = "User"]
    /\ chan' = [chan EXCEPT ![p] = "none"]
    /\ src' = [src EXCEPT ![p] = <<>>]
    /\ UNCHANGED <<ring, ends, got>>

\* Wrong: the test for a full ring is off by one.
write_all_overfull(p, s) ==
    /\ readopen /\ Len(s) <= room + 1
    /\ data' = store(s)
    /\ nwrite' = nwrite + Len(s)
    /\ state' = [wakeup("read_chan", state) EXCEPT ![p] = "User"]
    /\ chan' = [chan EXCEPT ![p] = "none"]
    /\ src' = [src EXCEPT ![p] = <<>>]
    /\ UNCHANGED <<nread, ends, got>>

\* Wrong: the readers are not told of the bytes.
write_all_silent(p, s) ==
    /\ readopen /\ Len(s) <= room
    /\ data' = store(s)
    /\ nwrite' = nwrite + Len(s)
    /\ state' = [state EXCEPT ![p] = "User"]
    /\ chan' = [chan EXCEPT ![p] = "none"]
    /\ src' = [src EXCEPT ![p] = <<>>]
    /\ UNCHANGED <<nread, ends, got>>

\* All of s fits: store it, wake the readers, return.
write_all(p, s) ==
    /\ readopen /\ Len(s) <= room
    /\ data' = store(s)
    /\ nwrite' = nwrite + Len(s)
    /\ state' = [wakeup("read_chan", state) EXCEPT ![p] = "User"]
    /\ chan' = [chan EXCEPT ![p] = "none"]
    /\ src' = [src EXCEPT ![p] = <<>>]
    /\ UNCHANGED <<nread, ends, got>>

\* Wrong: the write starts over after its sleep.
write_sleep_restarts(p, s) ==
    /\ readopen /\ Len(s) > room
    /\ data' = store(SubSeq(s, 1, room))
    /\ nwrite' = nwrite + room
    /\ state' = [wakeup("read_chan", state) EXCEPT ![p] = "Sleeping"]
    /\ chan' = [chan EXCEPT ![p] = "write_chan"]
    /\ src' = [src EXCEPT ![p] = s]
    /\ UNCHANGED <<nread, ends, got>>

\* Fill the ring, wake the readers, and sleep for room.
write_sleep(p, s) ==
    /\ readopen /\ Len(s) > room
    /\ data' = store(SubSeq(s, 1, room))
    /\ nwrite' = nwrite + room
    /\ state' = [wakeup("read_chan", state) EXCEPT ![p] = "Sleeping"]
    /\ chan' = [chan EXCEPT ![p] = "write_chan"]
    /\ src' = [src EXCEPT ![p] = SubSeq(s, room + 1, Len(s))]
    /\ UNCHANGED <<nread, ends, got>>

write(p, s) == write_closed(p) \/ write_all(p, s) \/ write_sleep(p, s)

Write(p, len) ==
    /\ p \in Writers \cap holds /\ state[p] = "User"
    /\ issued + len <= MaxBytes
    /\ issued' = issued + len
    /\ write(p, [k \in 1..len |-> issued + k])
    /\ UNCHANGED want

WriteAgain(p) ==
    /\ p \in Writers /\ state[p] = "Runnable"
    /\ write(p, src[p])
    /\ UNCHANGED <<issued, want>>
-----------------------------------------------------------------------------
(* A process closes its descriptor, or exits.  file::close calls pipe::close *)
(* when it was the last for that end (FileTable!PipeEndsMatchFiles).         *)
last(p) == holds \cap (IF p \in Readers THEN Readers ELSE Writers) = {p}

\* Wrong: the slot is given back with the first end.
pipe_close_early(p) ==
    /\ readopen' = (readopen /\ p \notin Readers)
    /\ writeopen' = (writeopen /\ p \notin Writers)
    /\ used' = (used /\ readopen' /\ writeopen')
    /\ state' = wakeup(IF p \in Writers THEN "read_chan" ELSE "write_chan", state)

\* Wrong: the other side of the pipe is the one left asleep.
pipe_close_swapped(p) ==
    /\ readopen' = (readopen /\ p \notin Readers)
    /\ writeopen' = (writeopen /\ p \notin Writers)
    /\ used' = (used /\ (readopen' \/ writeopen'))
    /\ state' = wakeup(IF p \in Writers THEN "write_chan" ELSE "read_chan", state)

pipe_close(p) ==
    /\ readopen' = (readopen /\ p \notin Readers)
    /\ writeopen' = (writeopen /\ p \notin Writers)
    /\ used' = (used /\ (readopen' \/ writeopen'))
    /\ state' = wakeup(IF p \in Writers THEN "read_chan" ELSE "write_chan", state)

Close(p) ==
    /\ p \in holds /\ state[p] = "User"
    /\ holds' = holds \ {p}
    /\ IF last(p) THEN pipe_close(p) ELSE UNCHANGED <<readopen, writeopen, used, state>>
    /\ UNCHANGED <<ring, chan, want, src, issued, got>>

Again(p) == ReadAgain(p) \/ WriteAgain(p)

Next == \E p \in Procs :
    \/ \E len \in 1..MaxChunk : Read(p, len) \/ Write(p, len)
    \/ Again(p)
    \/ Close(p)

\* sys_pipe: a fresh pipe with both ends open.
Init ==
    /\ data = [i \in 0..PIPESIZE - 1 |-> 0] /\ nread = 0 /\ nwrite = 0
    /\ readopen = TRUE /\ writeopen = TRUE /\ used = TRUE
    /\ holds = Procs
    /\ state = [p \in Procs |-> "User"]
    /\ chan = [p \in Procs |-> "none"]
    /\ want = [p \in Procs |-> 0]
    /\ src = [p \in Procs |-> <<>>]
    /\ issued = 0
    /\ got = [by |-> "none", bytes |-> <<>>]

Spec == Init /\ [][Next]_vars

\* A process that was woken runs again (Proc!RunnableRuns).  Nothing is assumed
\* about when user programs read, write or close.
FairSpec == Spec /\ \A p \in Procs : WF_vars(Again(p))
-----------------------------------------------------------------------------
(* Properties.                                                               *)

\* Every variable keeps its type.
TypeOK ==
    /\ data \in [0..PIPESIZE - 1 -> Bytes \cup {0}]
    /\ nread \in Nat /\ nwrite \in Nat
    /\ readopen \in BOOLEAN /\ writeopen \in BOOLEAN /\ used \in BOOLEAN
    /\ holds \subseteq Procs
    /\ state \in [Procs -> {"User", "Sleeping", "Runnable"}]
    /\ chan \in [Procs -> {"none", "read_chan", "write_chan"}]
    /\ want \in [Procs -> 0..MaxChunk]
    /\ src \in [Procs -> Seq(Bytes)]
    /\ issued \in 0..MaxBytes
    /\ got \in [by : Procs \cup {"none"}, bytes : Seq(Bytes \cup {0})]

\* The ring never holds a negative number of bytes nor more than PIPESIZE: no
\* unread byte is overwritten and no byte is read before it is written (and
\* TypeOK holds).
RingIsBounded == TypeOK /\ nread <= nwrite /\ nwrite <= nread + PIPESIZE

\* No wakeup is lost, among any number of readers and writers: a reader sleeps
\* only while the pipe is empty and its write end open, a writer only while it
\* is full and its read end open.
NoLostWakeup ==
    \A p \in Procs : state[p] = "Sleeping" =>
        IF p \in Readers THEN nread = nwrite /\ writeopen
                         ELSE nwrite = nread + PIPESIZE /\ readopen

\* A process inside pipe::read or pipe::write, asleep or woken, uses a slot that
\* has not been given back to the table, and holds its own end of it open.
SlotKeptWhileBlocked ==
    \A p \in Procs : state[p] # "User" =>
        used /\ p \in holds /\ (IF p \in Readers THEN readopen ELSE writeopen)

\* Nobody stays blocked when the other end is closed: readers see end of file,
\* and a writer at a full pipe fails.
CloseReleases ==
    /\ ~writeopen ~> \A p \in Readers : state[p] = "User"
    /\ ~readopen ~> \A p \in Writers : state[p] = "User"

\* Bytes in the pipe are read as long as some reader is inside pipe::read.
DataReachesReader ==
    \A n \in 0..MaxBytes :
        nread = n /\ nwrite > n /\ (\E p \in Readers : state[p] # "User") ~> nread > n

Stream == INSTANCE ByteStream WITH
    Capacity <- PIPESIZE,
    queue <- [k \in 1..used_bytes |-> unread(k)],
    rest <- src, rd <- readopen, wr <- writeopen

\* The ring with its wrapping indices, shared by several readers and writers
\* that may stop in the middle of a write, is a FIFO stream of bytes: nothing is
\* lost, duplicated or reordered, and an empty read means end of file.
ImplementsStream == Stream!SSpec
=============================================================================
