----------------------------- MODULE ByteStream -----------------------------
(***************************************************************************)
(* What a pipe promises to the processes that share it: a first-in,        *)
(* first-out stream of bytes of bounded length between a write end and a   *)
(* read end, with end of file once the write end is closed and everything  *)
(* written has been read.                                                  *)
(***************************************************************************)
EXTENDS Integers, Sequences

CONSTANTS Procs, Capacity

VARIABLES queue,   \* bytes written and not yet read, oldest first
          rest,    \* by process, what its write has still to put in
          issued,  \* how many bytes have been passed to write: 1, 2, 3, ...
          rd, wr,  \* whether the ends are open
          got      \* the last answer of read: [by, bytes]

svars == <<queue, rest, issued, rd, wr, got>>

SInit ==
    /\ queue = <<>> /\ rest = [p \in Procs |-> <<>>] /\ issued = 0
    /\ rd = TRUE /\ wr = TRUE /\ got.bytes = <<>>

\* The bytes s go in up to the n-th; a write stops early only at a full queue.
put(p, s, n) ==
    /\ rd /\ wr
    /\ queue' = queue \o SubSeq(s, 1, n) /\ Len(queue') <= Capacity
    /\ n < Len(s) => Len(queue') = Capacity
    /\ rest' = [rest EXCEPT ![p] = SubSeq(s, n + 1, Len(s))]
    /\ UNCHANGED <<rd, wr, got>>

\* A write without readers fails, and what it has not put in is dropped.
refuse(p) ==
    /\ ~rd
    /\ rest' = [rest EXCEPT ![p] = <<>>]
    /\ UNCHANGED <<queue, rd, wr, got>>

SWrite(p) == \E len \in 1..Capacity :
    /\ rest[p] = <<>> /\ issued' = issued + len
    /\ \/ \E n \in 0..len : put(p, [k \in 1..len |-> issued + k], n)
       \/ refuse(p)

SWriteMore(p) ==
    /\ rest[p] # <<>> /\ issued' = issued
    /\ (\E n \in 1..Len(rest[p]) : put(p, rest[p], n)) \/ refuse(p)

SGet(p) == \E n \in 1..Len(queue) :
    /\ rd
    /\ got' = [by |-> p, bytes |-> SubSeq(queue, 1, n)]
    /\ queue' = SubSeq(queue, n + 1, Len(queue))
    /\ UNCHANGED <<rest, issued, rd, wr>>

SEof(p) ==
    /\ queue = <<>> /\ rd /\ ~wr
    /\ got' = [by |-> p, bytes |-> <<>>]
    /\ UNCHANGED <<queue, rest, issued, rd, wr>>

SClose ==
    /\ \/ rd' = FALSE /\ wr' = wr
       \/ wr' = FALSE /\ rd' = rd
    /\ UNCHANGED <<queue, rest, issued, got>>

SNext == SClose \/ \E p \in Procs : SWrite(p) \/ SWriteMore(p) \/ SGet(p) \/ SEof(p)

SSpec == SInit /\ [][SNext]_svars
=============================================================================
