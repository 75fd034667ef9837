------------------------------ MODULE Console ------------------------------
(***************************************************************************)
(* src/src/console.rs: the cooked input buffer between the UART interrupt  *)
(* and the processes that read from the console.  Reads and the interrupt  *)
(* handler run without preemption up to their return or their sleep (Proc),*)
(* so each stretch between sleeps is one step; several processes may be    *)
(* asleep inside console::read.  The echo is left out.                     *)
(***************************************************************************)
EXTENDS Integers, Sequences, FiniteSetsExt

CONSTANTS INPUT_BUF,
          Readers,    \* the processes that read
          Letters,    \* ordinary characters
          MaxLen,     \* the 128 bytes sys_read asks for at most
          MaxBurst,   \* how many characters the UART holds at most
          MaxKeys     \* bound on the characters ever stored

ASSUME ConsoleAssumption ==
    /\ INPUT_BUF \in Nat \ {0} /\ MaxLen \in 1..INPUT_BUF
    /\ MaxBurst \in Nat /\ MaxKeys \in Nat

Stored == Letters \cup {"NL", "EOF"}
Keys == Stored \cup {"CR", "BS"}      \* "BS" is BACKSPACE or DELETE
Bursts == UNION {[1..n -> Keys] : n \in 1..MaxBurst}

VARIABLES
    input,   \* Input: buf and the indices r, w and e
    state,   \* by reader, "User", "Sleeping" or "Runnable" (woken inside read)
    want,    \* by reader, the length of the read under way
    part,    \* by reader, the bytes its read has got so far
    got      \* the last answer of read

vars == <<input, state, want, part, got>>

input_available == input.r # input.w

(* ConsoleInner::input_putc on the buffer s.i; s.wake collects its results.  *)
erase(s) == IF s.i.e # s.i.w THEN [s EXCEPT !.i.e = @ - 1] ELSE s

append(i, b) == [i EXCEPT !.buf[i.e % INPUT_BUF] = b, !.e = @ + 1]

commit(i) == [i |-> [i EXCEPT !.w = i.e], wake |-> TRUE]

\* Wrong: only a newline or EOF enters what was typed.
store_marks_only(s, b) ==
    LET i == append(s.i, b)
    IN  IF b \in {"NL", "EOF"} THEN commit(i) ELSE [s EXCEPT !.i = i]

\* Wrong: a full buffer is entered, but its readers are not woken.
store_full_silent(s, b) ==
    LET i == append(s.i, b)
    IN  IF b \in {"NL", "EOF"} THEN commit(i)
        ELSE IF i.e - i.r = INPUT_BUF THEN [s EXCEPT !.i = commit(i).i]
        ELSE [s EXCEPT !.i = i]

store(s, b) ==
    LET i == append(s.i, b)
    IN  IF b \in {"NL", "EOF"} \/ i.e - i.r = INPUT_BUF THEN commit(i)
        ELSE [s EXCEPT !.i = i]

input_putc(s, key) ==
    LET b == IF key = "CR" THEN "NL" ELSE key
    IN  IF b = "BS" THEN erase(s)
        ELSE IF s.i.e - s.i.r >= INPUT_BUF THEN s
        ELSE store(s, b)

(* console::intr: drain the UART, then wake the readers once.                *)
wakeup_readers ==
    [p \in Readers |-> IF state[p] = "Sleeping" THEN "Runnable" ELSE state[p]]

\* What s becomes by the first n characters of the burst.
drain(s, burst) ==
    LET seen[n \in 0..Len(burst)] == IF n = 0 THEN s ELSE input_putc(seen[n - 1], burst[n])
    IN  seen

intr(burst) ==
    LET s == drain([i |-> input, wake |-> FALSE], burst)[Len(burst)]
    IN  /\ input.e + Len(burst) <= MaxKeys
        /\ input' = s.i
        /\ state' = IF s.wake THEN wakeup_readers ELSE state
        /\ UNCHANGED <<want, part, got>>
-----------------------------------------------------------------------------
(* console::read of up to len bytes, from its acquire or the return of its   *)
(* sleep, with part[p] read before.                                          *)
input_getc(k) == input.buf[(input.r + k - 1) % INPUT_BUF]
unread(n) == [k \in 1..n |-> input_getc(k)]
size == input.w - input.r

\* Where the loop meets a character that ends the read, among the next n.
marks(n) == {k \in 1..size : k <= n /\ input_getc(k) \in {"NL", "EOF"}}

answer(p, n, r) ==
    /\ input' = [input EXCEPT !.r = r]
    /\ got' = [by |-> p, bytes |-> part[p] \o unread(n)]
    /\ part' = [part EXCEPT ![p] = <<>>]
    /\ want' = [want EXCEPT ![p] = 0]
    /\ state' = [state EXCEPT ![p] = "User"]

read_line(p, room) ==
    /\ marks(room) # {} /\ input_getc(Min(marks(room))) = "NL"
    /\ answer(p, Min(marks(room)), input.r + Min(marks(room)))

\* Wrong: the EOF is used up by the read that returns the characters before it.
read_eof_swallowed(p, room) ==
    /\ marks(room) # {} /\ input_getc(Min(marks(room))) = "EOF"
    /\ answer(p, Min(marks(room)) - 1, input.r + Min(marks(room)))

\* EOF: it is put back unless this read returns nothing.
read_eof(p, room) ==
    LET k == Min(marks(room))
    IN  /\ marks(room) # {} /\ input_getc(k) = "EOF"
        /\ answer(p, k - 1, IF Len(part[p]) + k - 1 > 0 THEN input.r + k - 1
                                                        ELSE input.r + k)

read_full(p, room) ==
    /\ marks(room) = {} /\ room <= size
    /\ answer(p, room, input.r + room)

read_sleep(p, room) ==
    /\ marks(room) = {} /\ room > size
    /\ input' = [input EXCEPT !.r = input.w]
    /\ part' = [part EXCEPT ![p] = @ \o unread(size)]
    /\ want' = [want EXCEPT ![p] = Len(part[p]) + room]
    /\ state' = [state EXCEPT ![p] = "Sleeping"]
    /\ UNCHANGED got

read(p, len) ==
    LET room == len - Len(part[p])
    IN  read_line(p, room) \/ read_eof(p, room) \/ read_full(p, room) \/ read_sleep(p, room)

Read(p, len) == state[p] = "User" /\ read(p, len)

ReadAgain(p) == state[p] = "Runnable" /\ read(p, want[p])

Next == \/ \E burst \in Bursts : intr(burst)
        \/ \E p \in Readers : (\E len \in 1..MaxLen : Read(p, len)) \/ ReadAgain(p)

Init ==
    /\ input = [buf |-> [k \in 0..INPUT_BUF - 1 |-> "none"], r |-> 0, w |-> 0, e |-> 0]
    /\ state = [p \in Readers |-> "User"]
    /\ want = [p \in Readers |-> 0]
    /\ part = [p \in Readers |-> <<>>]
    /\ got = [by |-> "none", bytes |-> <<>>]

Spec == Init /\ [][Next]_vars

\* A process that was woken runs again (Proc!RunnableRuns).  Nothing is assumed
\* about keys or about when processes read.
FairSpec == Spec /\ \A p \in Readers : WF_vars(ReadAgain(p))
-----------------------------------------------------------------------------
(* Properties.                                                               *)

\* Every variable keeps its type: what a reader is given are stored characters,
\* never an EOF mark, and fewer than it asked for while it sleeps.
TypeOK ==
    /\ input.buf \in [0..INPUT_BUF - 1 -> Stored \cup {"none"}]
    /\ input.r \in 0..MaxKeys /\ input.w \in 0..MaxKeys /\ input.e \in 0..MaxKeys
    /\ state \in [Readers -> {"User", "Sleeping", "Runnable"}]
    /\ \A p \in Readers : want[p] \in 0..MaxLen
    /\ \A p \in Readers : part[p] \in Seq(Letters)
                          /\ (state[p] # "User" => Len(part[p]) < want[p])
    /\ got.bytes \in Seq(Letters \cup {"NL"}) /\ Len(got.bytes) <= MaxLen

\* The three indices stay in order within one turn of the ring, although read
\* moves r back over an EOF, and a full buffer is always readable: otherwise
\* every key would be dropped while every reader sleeps, for good (and TypeOK
\* holds).
BufferNeverStalls ==
    /\ TypeOK
    /\ input.r <= input.w /\ input.w <= input.e /\ input.e <= input.r + INPUT_BUF
    /\ input.e = input.r + INPUT_BUF => input.w = input.e

\* No wakeup is lost: a reader sleeps only while nothing can be read, also when
\* another reader has just put an EOF back.
NoLostWakeup == \A p \in Readers : state[p] = "Sleeping" => ~input_available

\* Characters that were entered while some process is inside console::read are
\* taken, or every such read has returned.
InputReachesReader ==
    \A n \in 0..MaxKeys :
        (input.r = n /\ input_available /\ \E p \in Readers : state[p] # "User")
            ~> (input.r # n \/ \A p \in Readers : state[p] = "User")

Line == INSTANCE LineInput WITH
    Capacity <- INPUT_BUF,
    typed <- [k \in 1..input.e - input.w |-> input.buf[(input.w + k - 1) % INPUT_BUF]],
    entered <- unread(size)

\* The ring with its three indices, edited by the interrupt handler while several
\* reads are under way, gives each reader whole stretches of what was typed, in
\* order and once, and every EOF to exactly one read that returns nothing.
ImplementsLine == Line!LSpec
=============================================================================
