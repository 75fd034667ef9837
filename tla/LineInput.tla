----------------------------- MODULE LineInput -----------------------------
(***************************************************************************)
(* What the console promises to the processes that read from it, said with *)
(* two sequences: typed characters can be taken back until their line is   *)
(* entered; entered characters are handed out once, in the order they were *)
(* typed, no read going past a newline or an end-of-file mark, and each    *)
(* mark ends exactly one read that returns nothing.                        *)
(***************************************************************************)
EXTENDS Integers, Sequences

CONSTANTS Readers,
          Bursts,   \* the sequences of keys that arrive together
          Capacity  \* how many characters are kept

VARIABLES typed,    \* characters of the line being edited
          entered,  \* characters that can be read
          part,     \* by reader, what the read under way has got so far
          got       \* the last answer of read

lvars == <<typed, entered, part, got>>

Marks == {"NL", "EOF"}

LInit ==
    /\ typed = <<>> /\ entered = <<>>
    /\ part = [p \in Readers |-> <<>>]
    /\ got.bytes = <<>>

\* What one key does to the line and to the entered characters.
LKey(s, c) ==
    LET b == IF c = "CR" THEN "NL" ELSE c
        line == s.typed \o <<b>>
        size == Len(s.entered) + Len(s.typed)
    IN  IF c = "BS" THEN [s EXCEPT !.typed = SubSeq(@, 1, Len(@) - 1)]
        ELSE IF size = Capacity THEN s
        ELSE IF b \in Marks \/ size + 1 = Capacity
             THEN [typed |-> <<>>, entered |-> s.entered \o line]
        ELSE [s EXCEPT !.typed = line]

\* What s becomes by the first n keys of the burst.
LKeys(s, burst) ==
    LET seen[n \in 0..Len(burst)] == IF n = 0 THEN s ELSE LKey(seen[n - 1], burst[n])
    IN  seen

LType(burst) ==
    LET s == LKeys([typed |-> typed, entered |-> entered], burst)[Len(burst)]
    IN  /\ typed' = s.typed /\ entered' = s.entered
        /\ UNCHANGED <<part, got>>

\* k entered characters, of one line, go to a read.
LTake(k) ==
    /\ k <= Len(entered)
    /\ \A i \in 1..k : entered[i] # "EOF" /\ (entered[i] = "NL" => i = k)
    /\ entered' = SubSeq(entered, k + 1, Len(entered))
    /\ UNCHANGED typed

\* A read that took all there was, no line ending among it, waits for more.
LWait(p) ==
    /\ LTake(Len(entered)) /\ (entered # <<>> => entered[Len(entered)] # "NL")
    /\ part' = [part EXCEPT ![p] = @ \o entered]
    /\ UNCHANGED got

\* A read returns some characters.
LAnswer(p) == \E k \in 0..Len(entered) :
    LET bytes == part[p] \o SubSeq(entered, 1, k)
    IN  /\ LTake(k) /\ bytes # <<>>
        /\ got' = [by |-> p, bytes |-> bytes]
        /\ part' = [part EXCEPT ![p] = <<>>]

\* A read that finds the end-of-file mark first returns nothing.
LEnd(p) ==
    /\ entered # <<>> /\ Head(entered) = "EOF" /\ part[p] = <<>>
    /\ entered' = Tail(entered)
    /\ got' = [by |-> p, bytes |-> <<>>]
    /\ UNCHANGED <<typed, part>>

LNext == \/ \E burst \in Bursts : LType(burst)
         \/ \E p \in Readers : LWait(p) \/ LAnswer(p) \/ LEnd(p)

LSpec == LInit /\ [][LNext]_lvars
=============================================================================
