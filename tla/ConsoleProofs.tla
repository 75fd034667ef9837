--------------------------- MODULE ConsoleProofs ---------------------------
(***************************************************************************)
(* Proofs about Console, for any size of the buffer, any readers, letters  *)
(* and bursts of keys: the buffer never stalls, no wakeup is lost, and the *)
(* ring with its three indices implements LineInput.                       *)
(***************************************************************************)
EXTENDS Console, FiniteSetTheorems, SequenceTheorems, TLAPS

\* A buffer whose indices are in order, readable when it is full, with a stored
\* character in every cell from r to e.
Ring == [buf : [0..INPUT_BUF - 1 -> Stored \cup {"none"}], r : Nat, w : Nat, e : Nat]
Cell(i, k) == i.buf[k % INPUT_BUF]
Ordered(i) ==
    /\ i \in Ring
    /\ i.r <= i.w /\ i.w <= i.e /\ i.e <= i.r + INPUT_BUF
    /\ \A k \in i.r..i.e - 1 : Cell(i, k) \in Stored
RingOK(i) == Ordered(i) /\ (i.e = i.r + INPUT_BUF => i.w = i.e)

\* A process outside read has nothing of a line, one inside it less than it wants.
ReadsOK ==
    /\ state \in [Readers -> {"User", "Sleeping", "Runnable"}]
    /\ want \in [Readers -> 0..MaxLen]
    /\ part \in [Readers -> Seq(Letters)]
    /\ \A p \in Readers : IF state[p] = "User" THEN part[p] = <<>> ELSE Len(part[p]) < want[p]
    /\ got.bytes \in Seq(Letters \cup {"NL"}) /\ Len(got.bytes) <= MaxLen

\* The inductive invariant.
IInv == RingOK(input) /\ input.e <= MaxKeys /\ ReadsOK /\ NoLostWakeup
-----------------------------------------------------------------------------
(* Numbers.                                                                  *)

\* A nonempty set of naturals has a least element: the intervals below its
\* elements are finite sets, of which one contains no other.
LEMMA LeastNumber ==
  ASSUME NEW T \in SUBSET Nat, T # {}
  PROVE  \E m \in T : \A k \in T : m <= k
<1> DEFINE I == {0..n : n \in T}
<1>1. I \subseteq FiniteSubsetsOf(Nat) /\ I # {}
  <2>1. \A n \in Nat : IsFiniteSet(0..n) /\ 0..n \in SUBSET Nat
    BY FS_Interval
  <2> QED BY <2>1, Zenon DEF FiniteSubsetsOf
<1>2. IsWellFoundedOn(StrictSubsetOrdering(Nat), FiniteSubsetsOf(Nat))
  BY FS_StrictSubsetOrderingWellFounded
<1>3. PICK x \in I : \A y \in I : <<y, x>> \notin StrictSubsetOrdering(Nat)
  <2> HIDE DEF I
  <2> QED BY <1>1, <1>2, WFMin, Zenon
<1>4. PICK m \in T : x = 0..m
  OBVIOUS
<1>5. ASSUME NEW k \in T PROVE m <= k
  <2>1. SUFFICES ASSUME k < m PROVE FALSE
    OBVIOUS
  <2>2. 0..k \subseteq 0..m /\ 0..k # 0..m
    <3>1. m \in 0..m /\ m \notin 0..k
      BY <2>1
    <3> QED BY <2>1, <3>1
  <2>3. <<0..k, 0..m>> \in StrictSubsetOrdering(Nat)
    BY <2>2 DEF StrictSubsetOrdering
  <2> QED BY <1>3, <1>4, <2>3, Zenon
<1> QED BY <1>5

\* Min is that element.
LEMMA MinIs ==
  ASSUME NEW S \in SUBSET Nat, S # {}
  PROVE  Min(S) \in S /\ \A k \in S : Min(S) <= k
<1>1. \E m \in S : \A k \in S : m <= k
  BY LeastNumber
<1> QED BY <1>1, Zenon DEF Min

\* Induction over an interval, with a set in place of a predicate.
LEMMA Climb ==
  ASSUME NEW n \in Nat, NEW T \in SUBSET (0..n), 0 \in T,
         \A k \in 1..n : k - 1 \in T => k \in T
  PROVE  n \in T
<1> SUFFICES ASSUME n \notin T PROVE FALSE
  OBVIOUS
<1> DEFINE U == {k \in 0..n : k \notin T}
<1>1. U \in SUBSET Nat /\ U # {}
  OBVIOUS
<1>2. PICK m \in U : \A k \in U : m <= k
  BY <1>1, LeastNumber, Zenon
<1>3. m \in 1..n /\ m - 1 \in 0..n /\ ~(m <= m - 1)
  OBVIOUS
<1>4. m - 1 \in T
  BY <1>2, <1>3
<1> QED BY <1>3, <1>4

\* Division with remainder.
LEMMA DivMod ==
  ASSUME NEW P \in Nat \ {0}, NEW a \in Int
  PROVE  a % P \in 0..P - 1 /\ a \div P \in Int /\ a = P * (a \div P) + (a % P)
OBVIOUS

\* Indices less than a turn of the ring apart have different cells.
LEMMA CellsDiffer ==
  ASSUME NEW P \in Nat \ {0}, NEW x \in Int, NEW y \in Int, x < y, y < x + P
  PROVE  x % P # y % P
<1> SUFFICES ASSUME x % P = y % P PROVE FALSE
  OBVIOUS
<1> DEFINE b == y \div P
           c == x \div P
           d == b - c
<1>0. b \in Int /\ c \in Int /\ y = P * b + (y % P) /\ x = P * c + (x % P) /\ x % P \in Int
  BY DivMod
<1> HIDE DEF b, c
<1>1. d \in Int /\ y - x = P * d
  BY <1>0
<1> HIDE DEF d
<1>2. CASE d <= 0
  <2>1. P * d <= 0
    BY <1>1, <1>2
  <2> QED BY <1>1, <2>1
<1>3. CASE d >= 1
  <2>1. P * d >= P
    BY <1>1, <1>3
  <2> QED BY <1>1, <2>1
<1> QED BY <1>1, <1>2, <1>3
-----------------------------------------------------------------------------
(* The loop over a burst of keys.                                            *)

\* The loop of intr is what its equation says: by induction on m, a function on
\* 0..m satisfies it.
LEMMA DrainDef ==
  ASSUME NEW s, NEW burst, Len(burst) \in Nat
  PROVE  drain(s, burst) = [n \in 0..Len(burst) |->
            IF n = 0 THEN s ELSE input_putc(drain(s, burst)[n - 1], burst[n])]
<1> DEFINE N == Len(burst)
<1>0. N \in Nat
  OBVIOUS
<1> HIDE DEF N
<1> DEFINE body(g, m) == [n \in 0..m |-> IF n = 0 THEN s ELSE input_putc(g[n - 1], burst[n])]
<1> DEFINE fix(g, m) == g = body(g, m)
<1> DEFINE T == {m \in 0..N : \E g : fix(g, m)}
<1>1. 0 \in T
  <2>1. fix([n \in 0..0 |-> s], 0)
    OBVIOUS
  <2> HIDE DEF fix
  <2> QED BY <1>0, <2>1
<1>2. ASSUME NEW m \in 1..N, m - 1 \in T PROVE m \in T
  <2>1. PICK g : fix(g, m - 1)
    BY <1>2
  <2> DEFINE h == [n \in 0..m |-> IF n < m THEN g[n] ELSE input_putc(g[m - 1], burst[m])]
  <2>2. ASSUME NEW n \in 0..m
        PROVE  h[n] = IF n = 0 THEN s ELSE input_putc(h[n - 1], burst[n])
    <3>1. CASE n = m
      BY <1>0, <3>1
    <3>2. CASE n < m
      <4>1. n \in 0..m - 1 /\ (n # 0 => n - 1 \in 0..m /\ n - 1 < m)
        BY <1>0, <3>2
      <4>2. g[n] = IF n = 0 THEN s ELSE input_putc(g[n - 1], burst[n])
        BY <2>1, <4>1
      <4> QED BY <3>2, <4>1, <4>2
    <3> QED BY <1>0, <3>1, <3>2
  <2>3. fix(h, m)
    BY <2>2
  <2> HIDE DEF fix, h
  <2> QED BY <1>0, <2>3
<1>3. \E g : fix(g, N)
  <2>1. N \in T
    <3> HIDE DEF T
    <3>1. T \in SUBSET (0..N)
      BY DEF T
    <3> QED BY <1>0, <1>1, <1>2, <3>1, Climb
  <2> QED BY <2>1
<1> QED BY <1>3, Zenon DEF drain, N

\* Its steps.
LEMMA DrainSteps ==
  ASSUME NEW s, NEW burst, Len(burst) \in Nat
  PROVE  /\ drain(s, burst)[0] = s
         /\ \A n \in 1..Len(burst) :
                drain(s, burst)[n] = input_putc(drain(s, burst)[n - 1], burst[n])
<1> DEFINE N == Len(burst)
           D == drain(s, burst)
<1>1. D = [n \in 0..N |-> IF n = 0 THEN s ELSE input_putc(D[n - 1], burst[n])]
  BY DrainDef
<1>0. N \in Nat
  OBVIOUS
<1> HIDE DEF D, N
<1>2. \A n \in 0..N : D[n] = IF n = 0 THEN s ELSE input_putc(D[n - 1], burst[n])
  BY <1>1, Zenon
<1>3. 0 \in 0..N /\ \A n \in 1..N : n \in 0..N /\ n # 0
  BY <1>0
<1>4. D[0] = s /\ \A n \in 1..N : D[n] = input_putc(D[n - 1], burst[n])
  BY <1>2, <1>3
<1> QED BY <1>4 DEF D, N

\* The same of the loop by which LineInput takes a burst.
LEMMA LKeysDef ==
  ASSUME NEW s, NEW burst, Len(burst) \in Nat
  PROVE  Line!LKeys(s, burst) = [n \in 0..Len(burst) |->
            IF n = 0 THEN s ELSE Line!LKey(Line!LKeys(s, burst)[n - 1], burst[n])]
<1> DEFINE N == Len(burst)
<1>0. N \in Nat
  OBVIOUS
<1> HIDE DEF N
<1> DEFINE body(g, m) == [n \in 0..m |-> IF n = 0 THEN s ELSE Line!LKey(g[n - 1], burst[n])]
<1> DEFINE fix(g, m) == g = body(g, m)
<1> DEFINE T == {m \in 0..N : \E g : fix(g, m)}
<1>1. 0 \in T
  <2>1. fix([n \in 0..0 |-> s], 0)
    OBVIOUS
  <2> HIDE DEF fix
  <2> QED BY <1>0, <2>1
<1>2. ASSUME NEW m \in 1..N, m - 1 \in T PROVE m \in T
  <2>1. PICK g : fix(g, m - 1)
    BY <1>2
  <2> DEFINE h == [n \in 0..m |-> IF n < m THEN g[n] ELSE Line!LKey(g[m - 1], burst[m])]
  <2>2. ASSUME NEW n \in 0..m
        PROVE  h[n] = IF n = 0 THEN s ELSE Line!LKey(h[n - 1], burst[n])
    <3>1. CASE n = m
      BY <1>0, <3>1
    <3>2. CASE n < m
      <4>1. n \in 0..m - 1 /\ (n # 0 => n - 1 \in 0..m /\ n - 1 < m)
        BY <1>0, <3>2
      <4>2. g[n] = IF n = 0 THEN s ELSE Line!LKey(g[n - 1], burst[n])
        BY <2>1, <4>1
      <4> QED BY <3>2, <4>1, <4>2
    <3> QED BY <1>0, <3>1, <3>2
  <2>3. fix(h, m)
    BY <2>2
  <2> HIDE DEF fix, h
  <2> QED BY <1>0, <2>3
<1>3. \E g : fix(g, N)
  <2>1. N \in T
    <3> HIDE DEF T
    <3>1. T \in SUBSET (0..N)
      BY DEF T
    <3> QED BY <1>0, <1>1, <1>2, <3>1, Climb
  <2> QED BY <2>1
<1> QED BY <1>3, Zenon DEF Line!LKeys, N

\* Its steps.
LEMMA LKeysSteps ==
  ASSUME NEW s, NEW burst, Len(burst) \in Nat
  PROVE  /\ Line!LKeys(s, burst)[0] = s
         /\ \A n \in 1..Len(burst) :
                Line!LKeys(s, burst)[n] = Line!LKey(Line!LKeys(s, burst)[n - 1], burst[n])
<1> DEFINE N == Len(burst)
           D == Line!LKeys(s, burst)
<1>1. D = [n \in 0..N |-> IF n = 0 THEN s ELSE Line!LKey(D[n - 1], burst[n])]
  BY LKeysDef
<1>0. N \in Nat
  OBVIOUS
<1> HIDE DEF D, N
<1>2. \A n \in 0..N : D[n] = IF n = 0 THEN s ELSE Line!LKey(D[n - 1], burst[n])
  BY <1>1, Zenon
<1>3. 0 \in 0..N /\ \A n \in 1..N : n \in 0..N /\ n # 0
  BY <1>0
<1>4. D[0] = s /\ \A n \in 1..N : D[n] = Line!LKey(D[n - 1], burst[n])
  BY <1>2, <1>3
<1> QED BY <1>4 DEF D, N
-----------------------------------------------------------------------------
(* Stretches of the ring as sequences.                                       *)

\* The n characters from index a on.
Slice(i, a, n) == [k \in 1..n |-> Cell(i, a + k - 1)]
Holds(i, a, n, X) == \A k \in a..(a + n) - 1 : Cell(i, k) \in X
Joined(i, a, n, m) == Slice(i, a, n) \o Slice(i, a + n, m) = Slice(i, a, n + m)
Within(i, a, n, m, l) == SubSeq(Slice(i, a, n), m, l) = Slice(i, a + (m - 1), (l - m) + 1)
Typed(i) == Slice(i, i.w, i.e - i.w)
Entered(i) == Slice(i, i.r, i.w - i.r)
LineOf(i) == [typed |-> Typed(i), entered |-> Entered(i)]

\* A stretch of cells that hold elements of X is a sequence of them.
LEMMA SliceSeq ==
  ASSUME NEW i, NEW a \in Nat, NEW n \in Nat, NEW X,
         Holds(i, a, n, X)
  PROVE  /\ Slice(i, a, n) \in Seq(X) /\ Len(Slice(i, a, n)) = n
         /\ \A k \in 1..n : Slice(i, a, n)[k] = Cell(i, a + k - 1)
<1>1. \A k \in 1..n : a + k - 1 \in a..(a + n) - 1
  OBVIOUS
<1>2. Slice(i, a, n) \in [1..n -> X]
  BY <1>1 DEF Slice, Holds
<1>3. Slice(i, a, n) \in Seq(X)
  BY <1>2, SeqDef
<1> QED BY <1>2, <1>3 DEF Slice

\* Two stretches one after the other are one stretch.
LEMMA SliceCat ==
  ASSUME NEW i, NEW a \in Nat, NEW n \in Nat, NEW m \in Nat, NEW X,
         Holds(i, a, n + m, X)
  PROVE  Joined(i, a, n, m)
<1> DEFINE s == Slice(i, a, n)
           t == Slice(i, a + n, m)
           u == Slice(i, a, n + m)
<1>1. Holds(i, a, n, X)
  BY DEF Holds
<1>2. Holds(i, a + n, m, X)
  BY DEF Holds
<1>3. /\ s \in Seq(X) /\ Len(s) = n /\ \A k \in 1..n : s[k] = Cell(i, a + k - 1)
  BY <1>1, SliceSeq
<1>4. /\ t \in Seq(X) /\ Len(t) = m /\ \A k \in 1..m : t[k] = Cell(i, (a + n) + (k - 1))
  BY <1>2, SliceSeq, a + n \in Nat
<1>5. /\ u \in Seq(X) /\ Len(u) = n + m /\ \A k \in 1..n + m : u[k] = Cell(i, a + k - 1)
  <2> DEFINE c == n + m
  <2>1. c \in Nat /\ Holds(i, a, c, X)
    OBVIOUS
  <2> HIDE DEF c
  <2>2. /\ Slice(i, a, c) \in Seq(X) /\ Len(Slice(i, a, c)) = c
        /\ \A k \in 1..c : Slice(i, a, c)[k] = Cell(i, a + k - 1)
    BY <2>1, SliceSeq
  <2> QED BY <2>2 DEF c
<1> HIDE DEF s, t, u
<1>6. s \o t \in Seq(X) /\ Len(s \o t) = n + m
  <2>1. s \in Seq(X) /\ t \in Seq(X) /\ Len(s) = n /\ Len(t) = m
    BY <1>3, <1>4, Zenon
  <2> QED BY <2>1
<1>7. ASSUME NEW k \in 1..n + m PROVE (s \o t)[k] = u[k]
  <2>1. CASE k <= n
    <3>1. (s \o t)[k] = s[k] /\ k \in 1..n
      BY <2>1, <1>3, <1>4
    <3> QED BY <3>1, <1>3, <1>5
  <2>2. CASE k > n
    <3>1. (s \o t)[k] = t[k - n] /\ k - n \in 1..m
      BY <2>2, <1>3, <1>4
    <3>2. (a + n) + ((k - n) - 1) = a + (k - 1)
      OBVIOUS
    <3>3. t[k - n] = Cell(i, a + (k - 1)) /\ u[k] = Cell(i, a + (k - 1))
      BY <3>1, <3>2, <1>4, <1>5
    <3> QED BY <3>1, <3>3
  <2>3. k <= n \/ k > n
    OBVIOUS
  <2> QED BY <2>1, <2>2, <2>3, Zenon
<1>8. s \o t = u
  BY <1>5, <1>6, <1>7, SeqEqual
<1> QED BY <1>8 DEF Joined, s, t, u

\* A part of a stretch is a stretch.
LEMMA SliceSub ==
  ASSUME NEW i, NEW a \in Nat, NEW n \in Nat, NEW m \in 1..n + 1, NEW l \in 0..n, m <= l + 1, NEW X,
         Holds(i, a, n, X)
  PROVE  Within(i, a, n, m, l)
<1> DEFINE s == Slice(i, a, n)
           b == a + (m - 1)
           d == (l - m) + 1
           u == Slice(i, b, d)
<1>1. s \in Seq(X) /\ Len(s) = n /\ \A k \in 1..n : s[k] = Cell(i, a + k - 1)
  BY SliceSeq
<1>2. b \in Nat /\ d \in Nat /\ \A k \in b..(b + d) - 1 : k \in a..(a + n) - 1
  OBVIOUS
<1> HIDE DEF b, d
<1>3. u \in Seq(X) /\ Len(u) = d /\ \A k \in 1..d : u[k] = Cell(i, b + k - 1)
  <2>1. Holds(i, b, d, X)
    BY <1>2 DEF Holds
  <2> QED BY <1>2, <2>1, SliceSeq
<1> HIDE DEF s, u
<1>4. /\ SubSeq(s, m, l) \in Seq(X) /\ Len(SubSeq(s, m, l)) = d
      /\ \A k \in 1..d : SubSeq(s, m, l)[k] = s[m + k - 1]
  BY <1>1 DEF d
<1>5. ASSUME NEW k \in 1..d PROVE SubSeq(s, m, l)[k] = u[k]
  <2>1. m + k - 1 \in 1..n /\ a + ((m + k - 1) - 1) = b + k - 1
    BY DEF b, d
  <2> QED BY <1>1, <1>3, <1>4, <2>1
<1>6. SubSeq(s, m, l) = u
  BY <1>2, <1>3, <1>4, <1>5, SeqEqual
<1> QED BY <1>6 DEF Within, s, u, b, d

\* Buffers that agree on the cells of a stretch agree on the stretch.
LEMMA SliceSame ==
  ASSUME NEW i, NEW j, NEW a \in Nat, NEW n \in Nat,
         \A k \in a..(a + n) - 1 : Cell(i, k) = Cell(j, k)
  PROVE  Slice(i, a, n) = Slice(j, a, n)
<1>1. \A k \in 1..n : a + k - 1 \in a..(a + n) - 1
  OBVIOUS
<1> QED BY <1>1 DEF Slice

\* A stretch of one character, and of none.
LEMMA SliceOne ==
  ASSUME NEW i, NEW a \in Nat
  PROVE  Slice(i, a, 0) = <<>> /\ Slice(i, a, 1) = <<Cell(i, a)>>
<1>1. \A k \in 1..1 : a + k - 1 = a
  OBVIOUS
<1>2. Slice(i, a, 1) = [k \in 1..1 |-> Cell(i, a)]
  BY <1>1 DEF Slice
<1> QED BY <1>2 DEF Slice

\* The two stretches of an ordered buffer.
LEMMA LineFacts ==
  ASSUME NEW i, Ordered(i)
  PROVE  /\ INPUT_BUF \in Nat \ {0}
         /\ i.r \in Nat /\ i.w \in Nat /\ i.e \in Nat
         /\ i.w - i.r \in Nat /\ i.e - i.w \in Nat
         /\ Typed(i) \in Seq(Stored) /\ Len(Typed(i)) = i.e - i.w
         /\ Entered(i) \in Seq(Stored) /\ Len(Entered(i)) = i.w - i.r
<1>1. INPUT_BUF \in Nat \ {0} /\ i.r \in Nat /\ i.w \in Nat /\ i.e \in Nat
      /\ i.w - i.r \in Nat /\ i.e - i.w \in Nat
  BY ConsoleAssumption DEF Ordered, Ring
<1>2. Holds(i, i.w, i.e - i.w, Stored)
  BY <1>1 DEF Ordered, Holds
<1>3. Holds(i, i.r, i.w - i.r, Stored)
  BY <1>1 DEF Ordered, Holds
<1>4. Typed(i) \in Seq(Stored) /\ Len(Typed(i)) = i.e - i.w
  BY <1>1, <1>2, SliceSeq DEF Typed
<1>5. Entered(i) \in Seq(Stored) /\ Len(Entered(i)) = i.w - i.r
  BY <1>1, <1>3, SliceSeq DEF Entered
<1> QED BY <1>1, <1>4, <1>5

\* Erasing takes the last typed character back.
LEMMA EraseRing ==
  ASSUME NEW i, RingOK(i), i.e # i.w
  PROVE  LET j == [i EXCEPT !.e = @ - 1]
         IN  /\ RingOK(j) /\ j.r = i.r /\ j.w = i.w /\ j.e = i.e - 1
             /\ Typed(j) = SubSeq(Typed(i), 1, Len(Typed(i)) - 1)
             /\ Entered(j) = Entered(i)
<1> DEFINE j == [i EXCEPT !.e = @ - 1]
           n == i.e - i.w
<1>1. Ordered(i)
  BY DEF RingOK
<1>2. /\ INPUT_BUF \in Nat \ {0} /\ i.r \in Nat /\ i.w \in Nat /\ i.e \in Nat
      /\ n \in Nat /\ Len(Typed(i)) = n /\ n # 0
  BY <1>1, LineFacts
<1>3. j \in Ring /\ j.r = i.r /\ j.w = i.w /\ j.e = i.e - 1 /\ j.buf = i.buf
  BY <1>1, <1>2 DEF Ordered, Ring
<1> HIDE DEF j
<1>4. \A k : Cell(j, k) = Cell(i, k)
  BY <1>3 DEF Cell
<1>5. RingOK(j)
  BY <1>1, <1>2, <1>3, <1>4 DEF RingOK, Ordered
<1>6. Entered(j) = Entered(i) /\ Typed(j) = Slice(i, i.w, n - 1)
  <2>1. (i.e - 1) - i.w = n - 1
    BY <1>2
  <2> QED BY <1>3, <1>4, <2>1 DEF Entered, Typed, Slice
<1>7. SubSeq(Slice(i, i.w, n), 1, n - 1) = Slice(i, i.w, n - 1)
  <2>1. Holds(i, i.w, n, Stored)
    BY <1>1, <1>2 DEF Ordered, Holds
  <2> HIDE DEF n
  <2>2. 1 \in 1..n + 1 /\ n - 1 \in 0..n /\ 1 <= (n - 1) + 1
    BY <1>2
  <2>3. Within(i, i.w, n, 1, n - 1)
    BY <1>2, <2>1, <2>2, SliceSub, Zenon
  <2>4. i.w + (1 - 1) = i.w /\ ((n - 1) - 1) + 1 = n - 1
    BY <1>2
  <2> QED BY <2>3, <2>4 DEF Within
<1>8. Typed(j) = SubSeq(Typed(i), 1, Len(Typed(i)) - 1)
  BY <1>2, <1>6, <1>7 DEF Typed
<1> QED BY <1>3, <1>5, <1>6, <1>8 DEF j

\* A character stored in a buffer that is not full comes last in the line, and
\* overwrites nothing that was not read.
LEMMA AppendRing ==
  ASSUME NEW i, Ordered(i), i.e - i.r < INPUT_BUF, NEW b \in Stored
  PROVE  /\ Ordered(append(i, b))
         /\ append(i, b).r = i.r /\ append(i, b).w = i.w /\ append(i, b).e = i.e + 1
         /\ Typed(append(i, b)) = Typed(i) \o <<b>>
         /\ Entered(append(i, b)) = Entered(i)
<1> DEFINE j == append(i, b)
           n == i.e - i.w
           m == i.w - i.r
<1>2. /\ INPUT_BUF \in Nat \ {0} /\ i.r \in Nat /\ i.w \in Nat /\ i.e \in Nat
      /\ n \in Nat /\ m \in Nat
  BY LineFacts
<1>3. i.e % INPUT_BUF \in 0..INPUT_BUF - 1
  BY <1>2, DivMod, i.e \in Int, Zenon
<1>4. /\ j \in Ring /\ j.r = i.r /\ j.w = i.w /\ j.e = i.e + 1
      /\ j.buf = [i.buf EXCEPT ![i.e % INPUT_BUF] = b]
  <2>1. i.buf \in [0..INPUT_BUF - 1 -> Stored \cup {"none"}] /\ i \in Ring
    BY DEF Ordered, Ring
  <2>2. j = [i EXCEPT !.buf = [i.buf EXCEPT ![i.e % INPUT_BUF] = b], !.e = i.e + 1]
    BY <2>1 DEF append, Ring
  <2>3. [i.buf EXCEPT ![i.e % INPUT_BUF] = b] \in [0..INPUT_BUF - 1 -> Stored \cup {"none"}]
    BY <2>1
  <2>4. i.e + 1 \in Nat
    BY <1>2
  <2> QED BY <2>1, <2>2, <2>3, <2>4 DEF Ring
<1> HIDE DEF j
<1>5. Cell(j, i.e) = b
  BY <1>3, <1>4 DEF Cell, Ordered, Ring
<1>6. ASSUME NEW k \in i.r..i.e - 1 PROVE Cell(j, k) = Cell(i, k)
  <2>1. k % INPUT_BUF # i.e % INPUT_BUF /\ k % INPUT_BUF \in 0..INPUT_BUF - 1
    <3>1. k \in Int /\ i.e \in Int /\ k < i.e /\ i.e < k + INPUT_BUF
      BY <1>2
    <3> QED BY <1>2, <3>1, CellsDiffer, DivMod
  <2> QED BY <1>4, <2>1 DEF Cell, Ordered, Ring
<1>7. Ordered(j)
  <2>1. ASSUME NEW k \in j.r..j.e - 1 PROVE Cell(j, k) \in Stored
    <3>1. k = i.e \/ k \in i.r..i.e - 1
      BY <1>2, <1>4
    <3> QED BY <1>5, <1>6, <3>1 DEF Ordered
  <2>2. j.r <= j.w /\ j.w <= j.e /\ j.e <= j.r + INPUT_BUF
    BY <1>2, <1>4 DEF Ordered
  <2> QED BY <1>4, <2>1, <2>2 DEF Ordered
<1>8. Entered(j) = Entered(i)
  <2>1. \A k \in i.r..(i.r + m) - 1 : Cell(j, k) = Cell(i, k)
    BY <1>2, <1>6 DEF Ordered
  <2> HIDE DEF m
  <2>2. Slice(j, i.r, m) = Slice(i, i.r, m)
    BY <1>2, <2>1, SliceSame
  <2> QED BY <1>4, <2>2 DEF Entered, m
<1>9. Typed(j) = Typed(i) \o <<b>>
  <2>1. \A k \in i.w..(i.w + n) - 1 : Cell(j, k) = Cell(i, k)
    BY <1>2, <1>6 DEF Ordered
  <2>2. Holds(j, i.w, n + 1, Stored)
    BY <1>2, <1>4, <1>7 DEF Ordered, Holds
  <2>3. i.w + n = i.e /\ (i.e + 1) - i.w = n + 1
    BY <1>2
  <2>4. Typed(j) = Slice(j, i.w, n + 1) /\ Typed(i) = Slice(i, i.w, n)
    BY <1>4, <2>3 DEF Typed
  <2> HIDE DEF n
  <2>5. Slice(j, i.w, n) = Slice(i, i.w, n)
    BY <1>2, <2>1, SliceSame
  <2>6. Joined(j, i.w, n, 1)
    BY <1>2, <2>2, SliceCat, 1 \in Nat, Zenon
  <2>7. Slice(j, i.e, 1) = <<b>>
    BY <1>2, <1>5, SliceOne
  <2> QED BY <2>3, <2>4, <2>5, <2>6, <2>7 DEF Joined
<1> QED BY <1>4, <1>7, <1>8, <1>9 DEF j

\* Committing enters all that was typed.
LEMMA CommitRing ==
  ASSUME NEW i, Ordered(i)
  PROVE  LET j == [i EXCEPT !.w = i.e]
         IN  /\ RingOK(j) /\ j.r = i.r /\ j.e = i.e
             /\ Typed(j) = <<>> /\ Entered(j) = Entered(i) \o Typed(i)
<1> DEFINE j == [i EXCEPT !.w = i.e]
           n == i.e - i.w
           m == i.w - i.r
<1>2. /\ INPUT_BUF \in Nat \ {0} /\ i.r \in Nat /\ i.w \in Nat /\ i.e \in Nat
      /\ n \in Nat /\ m \in Nat
  BY LineFacts
<1>3. j \in Ring /\ j.r = i.r /\ j.w = i.e /\ j.e = i.e /\ j.buf = i.buf
  BY <1>2 DEF Ordered, Ring
<1> HIDE DEF j
<1>4. \A k : Cell(j, k) = Cell(i, k)
  BY <1>3 DEF Cell
<1>5. RingOK(j)
  BY <1>2, <1>3, <1>4 DEF RingOK, Ordered
<1>6. Typed(j) = <<>>
  <2>1. i.e - i.e = 0
    BY <1>2
  <2> QED BY <1>2, <1>3, <2>1, SliceOne DEF Typed
<1>7. Entered(j) = Entered(i) \o Typed(i)
  <2>1. i.r + m = i.w /\ i.e - i.r = m + n
    BY <1>2
  <2>2. Holds(i, i.r, m + n, Stored)
    BY <1>2 DEF Ordered, Holds
  <2>3. Entered(i) = Slice(i, i.r, m) /\ Typed(i) = Slice(i, i.w, n)
    BY DEF Entered, Typed
  <2>4. Entered(j) = Slice(i, i.r, m + n)
    BY <1>3, <1>4, <2>1 DEF Entered, Slice
  <2> HIDE DEF m, n
  <2>5. Joined(i, i.r, m, n)
    BY <1>2, <2>2, SliceCat, Zenon
  <2> QED BY <2>1, <2>3, <2>4, <2>5 DEF Joined
<1> QED BY <1>3, <1>5, <1>6, <1>7 DEF j
-----------------------------------------------------------------------------
(* One key, then a burst.                                                    *)

\* What a key does to an edited line, by cases.
KeyRule(y, n, key, b, c, new) ==
    /\ key = "BS" => new = [typed |-> SubSeq(y, 1, Len(y) - 1), entered |-> n]
    /\ key # "BS" /\ c = INPUT_BUF => new = [typed |-> y, entered |-> n]
    /\ key # "BS" /\ c # INPUT_BUF /\ (b \in {"NL", "EOF"} \/ c + 1 = INPUT_BUF)
           => new = [typed |-> <<>>, entered |-> n \o (y \o <<b>>)]
    /\ key # "BS" /\ c # INPUT_BUF /\ ~(b \in {"NL", "EOF"} \/ c + 1 = INPUT_BUF)
           => new = [typed |-> y \o <<b>>, entered |-> n]

LEMMA KeyCases ==
  ASSUME NEW y, NEW n, NEW key
  PROVE  KeyRule(y, n, key, IF key = "CR" THEN "NL" ELSE key, Len(n) + Len(y),
                 Line!LKey([typed |-> y, entered |-> n], key))
BY DEF KeyRule, Line!LKey, Line!Marks

\* One key keeps the buffer ordered and readable when full, does to its line what
\* LineInput says, and enters characters only with a wakeup.
Drained == [i : Ring, wake : BOOLEAN]
Putc(s, t, key) ==
    /\ t \in Drained /\ RingOK(t.i) /\ t.i.r = s.i.r /\ t.i.e <= s.i.e + 1
    /\ ~t.wake => ~s.wake /\ t.i.w = s.i.w
    /\ LineOf(t.i) = Line!LKey(LineOf(s.i), key)

LEMMA PutcKeeps ==
  ASSUME NEW s \in Drained, RingOK(s.i), NEW key \in Keys
  PROVE  Putc(s, input_putc(s, key), key)
<1> DEFINE i == s.i
           y == Typed(i)
           n == Entered(i)
           b == IF key = "CR" THEN "NL" ELSE key
           c == Len(n) + Len(y)
           t == input_putc(s, key)
           new == Line!LKey(LineOf(i), key)
<1>1. Ordered(i) /\ s.wake \in BOOLEAN /\ i \in Ring
  BY DEF RingOK, Ordered, Drained
<1>2. /\ INPUT_BUF \in Nat \ {0} /\ i.r \in Nat /\ i.w \in Nat /\ i.e \in Nat
      /\ y \in Seq(Stored) /\ Len(y) = i.e - i.w
      /\ n \in Seq(Stored) /\ Len(n) = i.w - i.r
  BY <1>1, LineFacts, Zenon
<1>4. LineOf(i) = [typed |-> y, entered |-> n]
  BY DEF LineOf
<1>8. KeyRule(y, n, key, b, c, new)
  <2> HIDE DEF y, n
  <2> QED BY <1>4, KeyCases, Zenon
<1>3. c = i.e - i.r /\ c <= INPUT_BUF /\ c \in Nat
  <2>1. i.e <= i.r + INPUT_BUF /\ i.r <= i.w /\ i.w <= i.e
    BY <1>1 DEF Ordered
  <2> HIDE DEF y, n, i
  <2>2. Len(n) + Len(y) = (i.w - i.r) + (i.e - i.w)
    BY <1>2, Zenon
  <2> QED BY <1>2, <2>1, <2>2
<1> HIDE DEF y, n, c, b, new
<1>5. CASE key = "BS"
  <2>1. t = erase(s)
    BY <1>5 DEF input_putc
  <2>2. Line!LKey(LineOf(i), key) = [typed |-> SubSeq(y, 1, Len(y) - 1), entered |-> n]
    BY <1>5, <1>8, Zenon DEF KeyRule, new
  <2>3. CASE i.e # i.w
    <3> DEFINE j == [i EXCEPT !.e = @ - 1]
    <3>1. /\ RingOK(j) /\ j.r = i.r /\ j.w = i.w /\ j.e = i.e - 1
          /\ Typed(j) = SubSeq(y, 1, Len(y) - 1) /\ Entered(j) = n
      BY <2>3, EraseRing DEF y, n
    <3>2. t = [s EXCEPT !.i = j]
      BY <2>1, <2>3, <1>1 DEF erase, Ring, Drained
    <3>3. j \in Ring
      BY <3>1 DEF RingOK, Ordered
    <3> HIDE DEF j
    <3>4. t \in Drained /\ t.i = j /\ t.wake = s.wake
      BY <3>2, <3>3 DEF Drained
    <3>5. j.e <= i.e + 1
      BY <3>1, <1>2
    <3>6. LineOf(j) = Line!LKey(LineOf(i), key)
      BY <2>2, <3>1 DEF LineOf
    <3> HIDE DEF t
    <3> QED BY <3>1, <3>4, <3>5, <3>6, Zenon DEF Putc, t
  <2>4. CASE i.e = i.w
    <3>1. t = s
      BY <2>1, <2>4 DEF erase
    <3>2. SubSeq(y, 1, Len(y) - 1) = y
      BY <1>2, <2>4
    <3>3. LineOf(i) = Line!LKey(LineOf(i), key)
      BY <2>2, <3>2, <1>4
    <3>4. i.e <= i.e + 1
      BY <1>2
    <3> QED BY <3>1, <3>3, <3>4, Zenon DEF Putc
  <2> QED BY <2>3, <2>4
<1>6. CASE key # "BS" /\ c = INPUT_BUF
  <2>1. t = s
    BY <1>2, <1>3, <1>6 DEF input_putc
  <2>2. LineOf(i) = Line!LKey(LineOf(i), key)
    BY <1>4, <1>6, <1>8, Zenon DEF KeyRule, new
  <2>3. i.e <= i.e + 1
    BY <1>2
  <2> QED BY <2>1, <2>2, <2>3, Zenon DEF Putc
<1>7. CASE key # "BS" /\ c # INPUT_BUF
  <2> DEFINE j == append(i, b)
  <2>1. t = store(s, b) /\ b \in Stored /\ i.e - i.r < INPUT_BUF
    <3>1. ~(i.e - i.r >= INPUT_BUF) /\ i.e - i.r < INPUT_BUF
      BY <1>2, <1>3, <1>7
    <3>2. b \in Stored /\ b # "BS"
      BY <1>7 DEF Keys, Stored, b
    <3> QED BY <3>1, <3>2, Zenon DEF input_putc, b
  <2>2. /\ Ordered(j) /\ j.r = i.r /\ j.w = i.w /\ j.e = i.e + 1
        /\ Typed(j) = y \o <<b>> /\ Entered(j) = n
    BY <1>1, <2>1, AppendRing, Zenon DEF y, n
  <2>3. j.e <= i.e + 1 /\ (j.e - j.r = INPUT_BUF <=> c + 1 = INPUT_BUF) /\ j \in Ring
    <3>1. j \in Ring
      BY <2>2 DEF Ordered
    <3> HIDE DEF j, i
    <3>2. i.e \in Nat /\ i.r \in Nat /\ c = i.e - i.r /\ j.e = i.e + 1 /\ j.r = i.r
      BY <1>2, <1>3, <2>2, Zenon
    <3>3. j.e <= i.e + 1 /\ j.e - j.r = c + 1
      BY <3>2
    <3> QED BY <3>1, <3>3, Zenon
  <2> HIDE DEF j
  <2>4. t = IF b \in {"NL", "EOF"} \/ j.e - j.r = INPUT_BUF THEN commit(j) ELSE [s EXCEPT !.i = j]
    <3>1. j.e - j.r = j.e - i.r
      BY <2>2
    <3> QED BY <2>1, <2>2, <3>1 DEF store, j
  <2>5. CASE b \in {"NL", "EOF"} \/ c + 1 = INPUT_BUF
    <3> DEFINE k == [j EXCEPT !.w = j.e]
    <3>1. t = [i |-> k, wake |-> TRUE]
      BY <2>3, <2>4, <2>5 DEF commit
    <3>2. RingOK(k) /\ k.r = j.r /\ k.e = j.e /\ Typed(k) = <<>> /\ Entered(k) = n \o (y \o <<b>>)
      BY <2>2, CommitRing
    <3>3. k \in Ring
      BY <3>2 DEF RingOK, Ordered
    <3> HIDE DEF k
    <3>4. t \in Drained /\ t.i = k /\ t.wake
      <4> HIDE DEF t
      <4> QED BY <3>1, <3>3 DEF Drained
    <3>5. LineOf(k) = Line!LKey(LineOf(i), key)
      BY <1>7, <1>8, <2>5, <3>2, Zenon DEF LineOf, KeyRule, new
    <3> HIDE DEF t
    <3> QED BY <2>2, <2>3, <3>2, <3>4, <3>5, Zenon DEF Putc, t
  <2>6. CASE ~(b \in {"NL", "EOF"} \/ c + 1 = INPUT_BUF)
    <3>1. t = [s EXCEPT !.i = j]
      BY <2>3, <2>4, <2>6
    <3>2. RingOK(j)
      BY <1>2, <2>2, <2>3, <2>6 DEF RingOK
    <3>3. t \in Drained /\ t.i = j /\ t.wake = s.wake
      BY <2>3, <3>1 DEF Drained
    <3>4. LineOf(j) = Line!LKey(LineOf(i), key)
      BY <1>7, <1>8, <2>6, <2>2, Zenon DEF LineOf, KeyRule, new
    <3> HIDE DEF t
    <3> QED BY <2>2, <2>3, <3>2, <3>3, <3>4, Zenon DEF Putc, t
  <2> QED BY <2>5, <2>6, Zenon
<1> QED BY <1>5, <1>6, <1>7, Zenon

\* A burst is a sequence of keys.
LEMMA BurstFacts ==
  ASSUME NEW burst \in Bursts
  PROVE  Len(burst) \in Nat /\ \A n \in 1..Len(burst) : burst[n] \in Keys
<1>1. PICK n \in 1..MaxBurst : burst \in [1..n -> Keys]
  BY Zenon DEF Bursts
<1>2. n \in Nat
  BY ConsoleAssumption
<1> QED BY <1>1, <1>2

\* A whole burst does to the buffer what LineInput says of the line, keeps the
\* buffer ordered and readable when full, and enters characters only with a wakeup.
Burst(i, s, burst) ==
    /\ s \in Drained /\ RingOK(s.i) /\ s.i.r = i.r /\ s.i.e <= i.e + Len(burst)
    /\ ~s.wake => s.i.w = i.w
    /\ LineOf(s.i) = Line!LKeys(LineOf(i), burst)[Len(burst)]

LEMMA BurstKeeps ==
  ASSUME NEW i, RingOK(i), NEW burst \in Bursts
  PROVE  Burst(i, drain([i |-> i, wake |-> FALSE], burst)[Len(burst)], burst)
<1> DEFINE N == Len(burst)
           s == [i |-> i, wake |-> FALSE]
           D == drain(s, burst)
           K == Line!LKeys(LineOf(i), burst)
           Ok(n) == /\ D[n] \in Drained /\ RingOK(D[n].i) /\ D[n].i.r = i.r /\ D[n].i.e <= i.e + n
                    /\ ~D[n].wake => D[n].i.w = i.w
                    /\ LineOf(D[n].i) = K[n]
           T == {n \in 0..N : Ok(n)}
<1>1. N \in Nat /\ \A n \in 1..N : burst[n] \in Keys
  BY BurstFacts
<1>2. /\ D[0] = s /\ \A n \in 1..N : D[n] = input_putc(D[n - 1], burst[n])
  <2> HIDE DEF s
  <2> QED BY <1>1, DrainSteps
<1>3. K[0] = LineOf(i) /\ \A n \in 1..N : K[n] = Line!LKey(K[n - 1], burst[n])
  BY <1>1, LKeysSteps
<1>4. s \in Drained /\ s.i = i /\ ~s.wake /\ i.e \in Nat
  BY DEF Drained, RingOK, Ordered, Ring
<1> HIDE DEF N, D, K, s
<1>5. 0 \in T
  <2>1. i.e <= i.e + 0 /\ 0 \in 0..N
    BY <1>1, <1>4
  <2>2. Ok(0)
    BY <1>2, <1>3, <1>4, <2>1, Zenon
  <2> QED BY <2>1, <2>2, Zenon
<1>6. ASSUME NEW n \in 1..N, n - 1 \in T PROVE n \in T
  <2>1. Ok(n - 1)
    BY <1>6, Zenon
  <2>2. Putc(D[n - 1], input_putc(D[n - 1], burst[n]), burst[n])
    BY <1>1, <2>1, PutcKeeps, Zenon
  <2>3. Putc(D[n - 1], D[n], burst[n])
    BY <1>2, <2>2, Zenon
  <2>4. D[n].i.e <= i.e + n
    <3> DEFINE a == D[n].i.e
               b == D[n - 1].i.e
    <3>1. a \in Nat /\ b \in Nat /\ a <= b + 1 /\ b <= i.e + (n - 1)
      <4>1. a <= b + 1 /\ b <= i.e + (n - 1) /\ D[n].i \in Ring /\ D[n - 1].i \in Ring
        BY <2>1, <2>3, Zenon DEF Putc, RingOK, Ordered
      <4> QED BY <4>1 DEF Ring
    <3> HIDE DEF a, b
    <3>2. a <= i.e + n
      BY <1>1, <1>4, <3>1
    <3> QED BY <3>2 DEF a
  <2>5. LineOf(D[n].i) = K[n]
    BY <1>3, <2>1, <2>3, Zenon DEF Putc
  <2>6. Ok(n)
    BY <2>1, <2>3, <2>4, <2>5, Zenon DEF Putc
  <2>7. n \in 0..N
    BY <1>1
  <2> QED BY <2>6, <2>7, Zenon
<1>7. N \in T
  <2>1. T \in SUBSET (0..N)
    BY Zenon
  <2> HIDE DEF T
  <2> QED BY <1>1, <1>5, <1>6, <2>1, Climb, Zenon
<1>8. Ok(N)
  BY <1>7, Zenon
<1> QED BY <1>8, Zenon DEF Burst, D, K, N, s
-----------------------------------------------------------------------------
(* The interrupt handler.                                                    *)

\* The refinement mapping is LineOf of the buffer.
LEMMA MappingIs ==
  /\ [k \in 1..input.e - input.w |-> input.buf[(input.w + k - 1) % INPUT_BUF]] = Typed(input)
  /\ unread(size) = Entered(input)
BY DEF Typed, Entered, Slice, Cell, unread, input_getc, size

LEMMA MappingIsNext ==
  /\ [k \in 1..(input.e)' - (input.w)' |->
         (input.buf)'[((input.w)' + k - 1) % INPUT_BUF]] = Typed(input')
  /\ unread(size)' = Entered(input')
BY DEF Typed, Entered, Slice, Cell, unread, input_getc, size

\* console::intr keeps the invariant and edits the line as LineInput says.
LEMMA IntrKeeps ==
  ASSUME IInv, NEW burst \in Bursts, intr(burst)
  PROVE  IInv' /\ Line!LType(burst)
<1> DEFINE s == drain([i |-> input, wake |-> FALSE], burst)[Len(burst)]
<1>1. /\ input.e + Len(burst) <= MaxKeys /\ input' = s.i
      /\ state' = IF s.wake THEN wakeup_readers ELSE state
      /\ want' = want /\ part' = part /\ got' = got
  BY Zenon DEF intr
<1>2. Burst(input, s, burst)
  BY BurstKeeps, Zenon DEF IInv
<1> HIDE DEF s
<1>3. RingOK(input') /\ input'.e <= MaxKeys
  <2>1. input.e \in Nat /\ s.i.e \in Nat /\ Len(burst) \in Nat /\ MaxKeys \in Nat
    BY <1>2, BurstFacts, ConsoleAssumption DEF Burst, IInv, RingOK, Ordered, Ring
  <2>2. s.i.e <= input.e + Len(burst) /\ RingOK(s.i)
    BY <1>2 DEF Burst
  <2>3. s.i.e <= MaxKeys
    BY <1>1, <2>1, <2>2
  <2> QED BY <1>1, <2>2, <2>3, Zenon
<1>4. ReadsOK' /\ NoLostWakeup'
  <2>1. CASE s.wake
    <3>1. state' = wakeup_readers
      BY <1>1, <2>1, Zenon
    <3>2. /\ state' \in [Readers -> {"User", "Sleeping", "Runnable"}]
          /\ \A p \in Readers : state'[p] # "Sleeping" /\ (state'[p] = "User" <=> state[p] = "User")
      BY <3>1 DEF wakeup_readers, IInv, ReadsOK
    <3> QED BY <1>1, <3>2 DEF IInv, ReadsOK, NoLostWakeup
  <2>2. CASE ~s.wake
    <3>1. state' = state /\ input'.r = input.r /\ input'.w = input.w
      BY <1>1, <1>2, <2>2, Zenon DEF Burst
    <3> QED BY <1>1, <3>1 DEF IInv, ReadsOK, NoLostWakeup, input_available
  <2> QED BY <2>1, <2>2, Zenon
<1>5. Line!LType(burst)
  <2>1. LineOf(input') = Line!LKeys(LineOf(input), burst)[Len(burst)]
    BY <1>1, <1>2, Zenon DEF Burst
  <2>2. /\ Typed(input') = Line!LKeys(LineOf(input), burst)[Len(burst)].typed
        /\ Entered(input') = Line!LKeys(LineOf(input), burst)[Len(burst)].entered
    BY <2>1 DEF LineOf
  <2> QED BY <1>1, <2>2, MappingIs, MappingIsNext, Zenon DEF Line!LType, LineOf
<1> QED BY <1>3, <1>4, <1>5, Zenon DEF IInv
-----------------------------------------------------------------------------
(* The readers.                                                              *)

\* The next n characters end no line.
Plain(n) == \A k \in 1..n : input_getc(k) \in Letters

\* What an invariant state says of the unread characters.
LEMMA UnreadFacts ==
  ASSUME IInv
  PROVE  /\ size \in Nat /\ size = Len(Entered(input)) /\ Entered(input) \in Seq(Stored)
         /\ \A k \in 1..size : input_getc(k) \in Stored /\ Entered(input)[k] = input_getc(k)
         /\ input.r \in Nat /\ input.w \in Nat /\ input.e \in Nat /\ INPUT_BUF \in Nat \ {0}
         /\ input.r <= input.w /\ input.w <= input.e /\ input.e <= input.r + INPUT_BUF
<1>1. Ordered(input)
  BY DEF IInv, RingOK
<1>2. /\ INPUT_BUF \in Nat \ {0} /\ input.r \in Nat /\ input.w \in Nat /\ input.e \in Nat
      /\ size \in Nat /\ Entered(input) \in Seq(Stored) /\ Len(Entered(input)) = size
  BY <1>1, LineFacts, Zenon DEF size
<1>3. input.r <= input.w /\ input.w <= input.e /\ input.e <= input.r + INPUT_BUF
  BY <1>1 DEF Ordered
<1>4. ASSUME NEW k \in 1..size PROVE input_getc(k) \in Stored /\ Entered(input)[k] = input_getc(k)
  <2>1. input.r + k - 1 \in input.r..input.e - 1
    BY <1>2, <1>3 DEF size
  <2>2. input_getc(k) = Cell(input, input.r + k - 1)
    BY DEF input_getc, Cell
  <2>3. Entered(input)[k] = Cell(input, input.r + k - 1)
    BY DEF Entered, Slice, size
  <2> QED BY <1>1, <2>1, <2>2, <2>3 DEF Ordered
<1> QED BY <1>2, <1>3, <1>4, Zenon

\* The next n characters as a sequence: the first n that were entered.
LEMMA UnreadSeq ==
  ASSUME IInv, NEW n \in 0..size, NEW X, \A k \in 1..n : input_getc(k) \in X
  PROVE  unread(n) \in Seq(X) /\ Len(unread(n)) = n /\ unread(n) = SubSeq(Entered(input), 1, n)
<1> DEFINE u == unread(n)
           E == Entered(input)
<1>1. /\ size \in Nat /\ size = Len(E) /\ E \in Seq(Stored)
      /\ \A k \in 1..size : input_getc(k) \in Stored /\ E[k] = input_getc(k)
  BY UnreadFacts, Zenon
<1>2. n \in Nat /\ \A k \in 1..n : k \in 1..size
  BY <1>1
<1>3. u \in [1..n -> X] /\ u \in [1..n -> Stored] /\ \A k \in 1..n : u[k] = input_getc(k)
  BY <1>1, <1>2 DEF unread
<1> HIDE DEF u, E
<1>4. u \in Seq(X) /\ u \in Seq(Stored) /\ Len(u) = n
  BY <1>2, <1>3, SeqDef
<1>5. /\ SubSeq(E, 1, n) \in Seq(Stored) /\ Len(SubSeq(E, 1, n)) = n
      /\ \A k \in 1..n : SubSeq(E, 1, n)[k] = E[k]
  BY <1>1, <1>2
<1>6. u = SubSeq(E, 1, n)
  <2>1. \A k \in 1..n : u[k] = SubSeq(E, 1, n)[k]
    BY <1>1, <1>2, <1>3, <1>5, Zenon
  <2> QED BY <1>4, <1>5, <2>1, SeqEqual
<1> QED BY <1>4, <1>6 DEF u, E

\* Moving r forward over m entered characters keeps the buffer in order, takes
\* them off what was entered, and leaves every sleeping reader without input.
LEMMA AdvanceKeeps ==
  ASSUME IInv, NEW m \in 0..size, input' = [input EXCEPT !.r = input.r + m]
  PROVE  /\ RingOK(input') /\ input'.e <= MaxKeys
         /\ input'.r = input.r + m /\ input'.w = input.w /\ Typed(input') = Typed(input)
         /\ Entered(input') = SubSeq(Entered(input), m + 1, Len(Entered(input)))
         /\ input.r = input.w => input'.r = input'.w
<1>1. /\ input.r \in Nat /\ input.w \in Nat /\ input.e \in Nat /\ INPUT_BUF \in Nat \ {0}
      /\ input.r <= input.w /\ input.w <= input.e /\ input.e <= input.r + INPUT_BUF
      /\ size \in Nat /\ Len(Entered(input)) = size
  BY UnreadFacts, Zenon
<1>2. RingOK(input) /\ Ordered(input) /\ input.e <= MaxKeys
  BY DEF IInv, RingOK
<1> DEFINE j == input'
<1>3. /\ j \in Ring /\ j.r = input.r + m /\ j.w = input.w /\ j.e = input.e /\ j.buf = input.buf
  <2>1. input \in Ring /\ input.r + m \in Nat
    BY <1>1, <1>2 DEF Ordered
  <2> QED BY <2>1 DEF Ring
<1> HIDE DEF j
<1>4. \A k : Cell(j, k) = Cell(input, k)
  BY <1>3 DEF Cell
<1>5. RingOK(j)
  <2>1. j.r <= j.w /\ j.r \in Nat /\ j.r >= input.r
    BY <1>1, <1>3 DEF size
  <2>2. j.e <= j.r + INPUT_BUF /\ (j.e = j.r + INPUT_BUF => j.w = j.e)
    BY <1>1, <1>2, <1>3, <2>1 DEF RingOK
  <2>3. \A k \in j.r..j.e - 1 : Cell(j, k) \in Stored
    BY <1>1, <1>2, <1>3, <1>4, <2>1 DEF Ordered
  <2> QED BY <1>1, <1>3, <2>1, <2>2, <2>3 DEF RingOK, Ordered
<1>6. Typed(j) = Typed(input)
  BY <1>3, <1>4 DEF Typed, Slice
<1>7. Entered(j) = SubSeq(Entered(input), m + 1, size)
  <2>1. Holds(input, input.r, size, Stored)
    <3>1. \A k \in input.r..(input.r + size) - 1 : k \in input.r..input.e - 1
      <4>1. input.r + size = input.w
        BY <1>1 DEF size
      <4>2. input.r \in Nat /\ input.w \in Nat /\ input.e \in Nat /\ input.w <= input.e
        BY <1>1, Zenon
      <4>3. \A k \in input.r..input.w - 1 : k \in input.r..input.e - 1
        BY <4>2
      <4> QED BY <4>1, <4>3, Zenon
    <3>2. \A k \in input.r..input.e - 1 : Cell(input, k) \in Stored
      BY <1>2, Zenon DEF Ordered
    <3> QED BY <3>1, <3>2, Zenon DEF Holds
  <2>2. m + 1 \in 1..size + 1 /\ size \in 0..size /\ m + 1 <= size + 1
    BY <1>1
  <2>3. Within(input, input.r, size, m + 1, size)
    BY <1>1, <2>1, <2>2, SliceSub, Zenon
  <2>4. input.r + ((m + 1) - 1) = j.r /\ (size - (m + 1)) + 1 = j.w - j.r
    BY <1>1, <1>3 DEF size
  <2>5. SubSeq(Slice(input, input.r, size), m + 1, size) = Slice(input, j.r, j.w - j.r)
    BY <2>3, <2>4, Zenon DEF Within
  <2>6. Slice(j, j.r, j.w - j.r) = Slice(input, j.r, j.w - j.r)
    BY <1>4 DEF Slice
  <2> QED BY <2>5, <2>6, Zenon DEF Entered, size
<1>8. input.r = input.w => j.r = j.w
  BY <1>1, <1>3 DEF size
<1> QED BY <1>1, <1>2, <1>3, <1>5, <1>6, <1>7, <1>8 DEF j

\* An answer keeps the invariant, whether or not an EOF is put back.
LEMMA AnswerKeeps ==
  ASSUME IInv, NEW p \in Readers, NEW n \in 0..size, NEW m \in 0..size,
         \A k \in 1..n : input_getc(k) \in Letters \cup {"NL"},
         Len(part[p]) + n <= MaxLen, answer(p, n, input.r + m)
  PROVE  IInv'
<1> DEFINE X == Letters \cup {"NL"}
<1>1. /\ state \in [Readers -> {"User", "Sleeping", "Runnable"}] /\ want \in [Readers -> 0..MaxLen]
      /\ part \in [Readers -> Seq(Letters)] /\ part[p] \in Seq(Letters) /\ MaxLen \in Nat
      /\ \A q \in Readers : IF state[q] = "User" THEN part[q] = <<>> ELSE Len(part[q]) < want[q]
  BY ConsoleAssumption DEF IInv, ReadsOK
<1>2. /\ input' = [input EXCEPT !.r = input.r + m] /\ got'.bytes = part[p] \o unread(n)
      /\ part' = [part EXCEPT ![p] = <<>>] /\ want' = [want EXCEPT ![p] = 0]
      /\ state' = [state EXCEPT ![p] = "User"]
  BY DEF answer
<1>3. /\ RingOK(input') /\ input'.e <= MaxKeys /\ (input.r = input.w => input'.r = input'.w)
  BY <1>2, AdvanceKeeps
<1>4. got'.bytes \in Seq(X) /\ Len(got'.bytes) <= MaxLen
  <2>1. unread(n) \in Seq(X) /\ Len(unread(n)) = n
    BY UnreadSeq
  <2>2. part[p] \in Seq(X)
    BY <1>1, SeqMonotonic, Letters \subseteq X, Zenon
  <2> HIDE DEF X
  <2>3. part[p] \o unread(n) \in Seq(X) /\ Len(part[p] \o unread(n)) = Len(part[p]) + n
    BY <2>1, <2>2
  <2> QED BY <1>2, <2>3
<1>5. /\ state' \in [Readers -> {"User", "Sleeping", "Runnable"}] /\ want' \in [Readers -> 0..MaxLen]
      /\ part' \in [Readers -> Seq(Letters)]
      /\ state'[p] = "User" /\ part'[p] = <<>>
      /\ \A q \in Readers \ {p} : state'[q] = state[q] /\ part'[q] = part[q] /\ want'[q] = want[q]
  BY <1>1, <1>2
<1>6. ReadsOK'
  <2>1. ASSUME NEW q \in Readers
        PROVE  IF state'[q] = "User" THEN part'[q] = <<>> ELSE Len(part'[q]) < want'[q]
    BY <1>1, <1>5
  <2> QED BY <1>4, <1>5, <2>1 DEF ReadsOK
<1>7. NoLostWakeup'
  <2>1. ASSUME NEW q \in Readers, state'[q] = "Sleeping" PROVE input'.r = input'.w
    <3>1. q # p /\ state[q] = "Sleeping"
      BY <1>5, <2>1
    <3> QED BY <1>3, <3>1 DEF IInv, NoLostWakeup, input_available
  <2> QED BY <2>1 DEF NoLostWakeup, input_available
<1> QED BY <1>3, <1>6, <1>7 DEF IInv

\* Taking n entered characters, of one line and without an EOF, is LineInput's.
LEMMA TakeMaps ==
  ASSUME IInv, NEW n \in 0..size, input' = [input EXCEPT !.r = input.r + n],
         \A k \in 1..n : input_getc(k) # "EOF" /\ (input_getc(k) = "NL" => k = n)
  PROVE  Line!LTake(n)
<1> DEFINE E == Entered(input)
<1>1. size \in Nat /\ size = Len(E) /\ \A k \in 1..size : E[k] = input_getc(k)
  BY UnreadFacts, Zenon
<1>2. Typed(input') = Typed(input) /\ Entered(input') = SubSeq(E, n + 1, Len(E))
  BY AdvanceKeeps
<1> HIDE DEF E
<1>3. n <= Len(E) /\ \A k \in 1..n : E[k] # "EOF" /\ (E[k] = "NL" => k = n)
  BY <1>1
<1> QED BY <1>2, <1>3, MappingIs, MappingIsNext, Zenon DEF Line!LTake, E

\* Sequences with a character in one of them are not empty together.
LEMMA CatNotEmpty ==
  ASSUME NEW X, NEW s \in Seq(X), NEW t \in Seq(X), Len(s) + Len(t) > 0
  PROVE  s \o t # <<>>
<1>1. s \o t \in Seq(X) /\ Len(s \o t) = Len(s) + Len(t)
  OBVIOUS
<1> QED BY <1>1

\* So is an answer of at least one character.
LEMMA AnswerMaps ==
  ASSUME IInv, NEW p \in Readers, NEW n \in 0..size, answer(p, n, input.r + n),
         \A k \in 1..n : input_getc(k) # "EOF" /\ (input_getc(k) = "NL" => k = n),
         Len(part[p]) + n > 0
  PROVE  Line!LAnswer(p)
<1> DEFINE E == Entered(input)
           bytes == part[p] \o SubSeq(E, 1, n)
<1>1. size \in Nat /\ size = Len(E) /\ \A k \in 1..size : input_getc(k) \in Stored
  BY UnreadFacts, Zenon
<1>2. Line!LTake(n)
  BY TakeMaps, Zenon DEF answer
<1>3. unread(n) = SubSeq(E, 1, n) /\ unread(n) \in Seq(Stored) /\ Len(unread(n)) = n
  <2>1. \A k \in 1..n : input_getc(k) \in Stored
    BY <1>1
  <2> QED BY <2>1, UnreadSeq, Zenon
<1> HIDE DEF E
<1>4. bytes # <<>>
  <2>1. part[p] \in Seq(Letters)
    BY DEF IInv, ReadsOK
  <2>2. part[p] \in Seq(Letters \cup Stored) /\ unread(n) \in Seq(Letters \cup Stored)
    BY <1>3, <2>1, SeqMonotonic, Letters \subseteq Letters \cup Stored, Stored \subseteq Letters \cup Stored, Zenon
  <2>3. part[p] \o unread(n) # <<>>
    BY <1>3, <2>2, CatNotEmpty, Zenon
  <2> QED BY <1>3, <2>3, Zenon
<1>5. got' = [by |-> p, bytes |-> bytes] /\ part' = [part EXCEPT ![p] = <<>>] /\ n \in 0..Len(E)
  BY <1>1, <1>3, Zenon DEF answer
<1>6. \E k \in 0..Len(E) :
        /\ Line!LTake(k) /\ part[p] \o SubSeq(E, 1, k) # <<>>
        /\ got' = [by |-> p, bytes |-> part[p] \o SubSeq(E, 1, k)]
        /\ part' = [part EXCEPT ![p] = <<>>]
  BY <1>2, <1>4, <1>5, Zenon
<1> QED BY <1>6, MappingIs, Zenon DEF Line!LAnswer, E

\* Where the loop of read meets its first mark, and what comes before.
LEMMA MarksFacts ==
  ASSUME IInv, NEW room \in Nat
  PROVE  /\ marks(room) # {} =>
               /\ Min(marks(room)) \in 1..size /\ Min(marks(room)) <= room
               /\ input_getc(Min(marks(room))) \in {"NL", "EOF"}
               /\ \A k \in 1..Min(marks(room)) - 1 :
                     input_getc(k) \in Letters /\ input_getc(k) \notin {"NL", "EOF"}
         /\ marks(room) = {} =>
               \A k \in 1..size : k <= room =>
                     input_getc(k) \in Letters /\ input_getc(k) \notin {"NL", "EOF"}
<1>1. size \in Nat /\ \A k \in 1..size : input_getc(k) \in Stored
  BY UnreadFacts, Zenon
<1>2. ASSUME NEW k \in 1..size, k <= room, k \notin marks(room)
      PROVE  input_getc(k) \in Letters /\ input_getc(k) \notin {"NL", "EOF"}
  <2>1. input_getc(k) \notin {"NL", "EOF"}
    BY <1>2, Zenon DEF marks
  <2> QED BY <1>1, <2>1 DEF Stored
<1>3. CASE marks(room) # {}
  <2> DEFINE m == Min(marks(room))
  <2>1. marks(room) \in SUBSET Nat
    BY <1>1 DEF marks
  <2>2. m \in marks(room) /\ \A k \in marks(room) : m <= k
    BY <1>3, <2>1, MinIs, Zenon
  <2>3. m \in 1..size /\ m <= room /\ input_getc(m) \in {"NL", "EOF"}
    BY <2>2, Zenon DEF marks
  <2> HIDE DEF m
  <2>4. ASSUME NEW k \in 1..m - 1
        PROVE  input_getc(k) \in Letters /\ input_getc(k) \notin {"NL", "EOF"}
    <3>1. k \in 1..size /\ k <= room /\ ~(m <= k)
      BY <1>1, <2>3
    <3> QED BY <1>2, <2>2, <3>1, Zenon
  <2> QED BY <1>3, <2>3, <2>4, Zenon DEF m
<1>4. CASE marks(room) = {}
  BY <1>2, <1>4, Zenon
<1> QED BY <1>3, <1>4, Zenon

\* A read under way has room, for no more than its caller asked for.
Reading(p, room) == /\ p \in Readers /\ room \in Nat /\ room >= 1
                    /\ Len(part[p]) \in Nat /\ Len(part[p]) + room <= MaxLen
                    /\ part[p] \in Seq(Letters)

\* The read that meets a newline.
LEMMA ReadLineKeeps ==
  ASSUME IInv, NEW p, NEW room, Reading(p, room), read_line(p, room)
  PROVE  IInv' /\ Line!LAnswer(p)
<1> DEFINE n == Min(marks(room))
<1>1. marks(room) # {} /\ input_getc(n) = "NL" /\ answer(p, n, input.r + n)
  BY Zenon DEF read_line
<1>2. p \in Readers /\ room \in Nat
  BY DEF Reading
<1>3. /\ n \in 1..size /\ n <= room
      /\ \A k \in 1..n - 1 : input_getc(k) \in Letters /\ input_getc(k) \notin {"NL", "EOF"}
  BY <1>1, <1>2, MarksFacts, Zenon
<1> HIDE DEF n
<1>4. size \in Nat
  BY UnreadFacts, Zenon
<1>5. /\ n \in 0..size /\ Len(part[p]) + n <= MaxLen /\ Len(part[p]) + n > 0
      /\ \A k \in 1..n : k = n \/ k \in 1..n - 1
  BY <1>3, <1>4, ConsoleAssumption DEF Reading
<1>6. /\ \A k \in 1..n : input_getc(k) \in Letters \cup {"NL"}
      /\ \A k \in 1..n : input_getc(k) # "EOF" /\ (input_getc(k) = "NL" => k = n)
  BY <1>1, <1>3, <1>5
<1>7. IInv'
  BY <1>1, <1>2, <1>5, <1>6, AnswerKeeps, Zenon
<1>8. Line!LAnswer(p)
  BY <1>1, <1>2, <1>5, <1>6, AnswerMaps, Zenon
<1> QED BY <1>7, <1>8

\* The read that meets an EOF: it returns what comes before and puts the EOF back,
\* or returns nothing and uses it up.
LEMMA ReadEofKeeps ==
  ASSUME IInv, NEW p, NEW room, Reading(p, room), read_eof(p, room)
  PROVE  IInv' /\ (Line!LAnswer(p) \/ Line!LEnd(p))
<1> DEFINE k == Min(marks(room))
           n == k - 1
           r == IF Len(part[p]) + n > 0 THEN input.r + n ELSE input.r + k
           E == Entered(input)
<1>1. marks(room) # {} /\ input_getc(k) = "EOF" /\ answer(p, n, r)
  BY Zenon DEF read_eof
<1>2. p \in Readers /\ room \in Nat
  BY DEF Reading
<1>3. /\ k \in 1..size /\ k <= room
      /\ \A j \in 1..n : input_getc(j) \in Letters /\ input_getc(j) \notin {"NL", "EOF"}
  BY <1>1, <1>2, MarksFacts, Zenon
<1>4. /\ size \in Nat /\ size = Len(E) /\ E \in Seq(Stored)
      /\ \A j \in 1..size : E[j] = input_getc(j)
  BY UnreadFacts, Zenon
<1> HIDE DEF k, E
<1>5. n \in 0..size /\ k \in 0..size /\ Len(part[p]) + n <= MaxLen
  BY <1>3, <1>4, ConsoleAssumption DEF Reading
<1>6. /\ \A j \in 1..n : input_getc(j) \in Letters \cup {"NL"}
      /\ \A j \in 1..n : input_getc(j) # "EOF" /\ (input_getc(j) = "NL" => j = n)
  BY <1>3
<1>7. CASE Len(part[p]) + n > 0
  <2>1. answer(p, n, input.r + n)
    BY <1>1, <1>7, Zenon
  <2> HIDE DEF n
  <2>2. IInv'
    BY <1>2, <1>5, <1>6, <2>1, AnswerKeeps, Zenon
  <2>3. Line!LAnswer(p)
    BY <1>2, <1>5, <1>6, <1>7, <2>1, AnswerMaps, Zenon
  <2> QED BY <2>2, <2>3
<1>8. CASE ~(Len(part[p]) + n > 0)
  <2>1. answer(p, n, input.r + k)
    BY <1>1, <1>8, Zenon
  <2>2. n = 0 /\ k = 1 /\ Len(part[p]) = 0
    BY <1>3, <1>4, <1>8 DEF Reading
  <2>3. IInv'
    <3> HIDE DEF n
    <3> QED BY <1>2, <1>5, <1>6, <2>1, AnswerKeeps, Zenon
  <2>4. part[p] = <<>> /\ part \in [Readers -> Seq(Letters)]
    BY <2>2 DEF Reading, IInv, ReadsOK
  <2>5. /\ input' = [input EXCEPT !.r = input.r + 1] /\ part' = [part EXCEPT ![p] = <<>>]
        /\ got' = [by |-> p, bytes |-> <<>> \o unread(0)]
    BY <2>1, <2>2, <2>4, Zenon DEF answer
  <2>6. part' = part
    BY <2>4, <2>5
  <2>7. got' = [by |-> p, bytes |-> <<>>]
    <3>1. unread(0) = <<>>
      BY DEF unread
    <3> QED BY <2>5, <3>1
  <2>8. Typed(input') = Typed(input) /\ Entered(input') = SubSeq(E, 2, Len(E))
    <3>1. 1 \in 0..size /\ 1 + 1 = 2
      BY <1>3, <1>4
    <3>2. Entered(input') = SubSeq(E, 1 + 1, Len(E)) /\ Typed(input') = Typed(input)
      BY <2>5, <3>1, AdvanceKeeps, Zenon DEF E
    <3> QED BY <3>1, <3>2, Zenon
  <2>9. E # <<>> /\ Head(E) = "EOF" /\ SubSeq(E, 2, Len(E)) = Tail(E)
    <3>1. Len(E) >= 1 /\ E[1] = "EOF"
      BY <1>1, <1>3, <1>4, <2>2
    <3> QED BY <1>4, <3>1
  <2>10. Line!LEnd(p)
    BY <2>4, <2>6, <2>7, <2>8, <2>9, MappingIs, MappingIsNext, Zenon DEF Line!LEnd, E
  <2> QED BY <2>3, <2>10
<1> QED BY <1>7, <1>8, Zenon

\* The read that fills its caller's buffer.
LEMMA ReadFullKeeps ==
  ASSUME IInv, NEW p, NEW room, Reading(p, room), read_full(p, room)
  PROVE  IInv' /\ Line!LAnswer(p)
<1>1. marks(room) = {} /\ room <= size /\ answer(p, room, input.r + room)
  BY Zenon DEF read_full
<1>2. p \in Readers /\ room \in Nat /\ size \in Nat
  BY UnreadFacts DEF Reading
<1>3. \A k \in 1..size : k <= room => input_getc(k) \in Letters /\ input_getc(k) \notin {"NL", "EOF"}
  BY <1>1, <1>2, MarksFacts, Zenon
<1>4. /\ room \in 0..size /\ Len(part[p]) + room <= MaxLen /\ Len(part[p]) + room > 0
      /\ \A k \in 1..room : k \in 1..size /\ k <= room
  BY <1>1, <1>2 DEF Reading
<1>5. /\ \A k \in 1..room : input_getc(k) \in Letters \cup {"NL"}
      /\ \A k \in 1..room : input_getc(k) # "EOF" /\ (input_getc(k) = "NL" => k = room)
  BY <1>3, <1>4
<1>6. IInv'
  BY <1>1, <1>2, <1>4, <1>5, AnswerKeeps, Zenon
<1>7. Line!LAnswer(p)
  BY <1>1, <1>2, <1>4, <1>5, AnswerMaps, Zenon
<1> QED BY <1>6, <1>7

\* The read that takes all there is and sleeps.
LEMMA ReadSleepKeeps ==
  ASSUME IInv, NEW p, NEW room, Reading(p, room), read_sleep(p, room)
  PROVE  IInv' /\ Line!LWait(p)
<1> DEFINE E == Entered(input)
<1>1. /\ marks(room) = {} /\ room > size /\ input' = [input EXCEPT !.r = input.w]
      /\ part' = [part EXCEPT ![p] = part[p] \o unread(size)]
      /\ want' = [want EXCEPT ![p] = Len(part[p]) + room]
      /\ state' = [state EXCEPT ![p] = "Sleeping"] /\ got' = got
  BY DEF read_sleep
<1>2. /\ p \in Readers /\ room \in Nat /\ Len(part[p]) \in Nat /\ part[p] \in Seq(Letters)
      /\ Len(part[p]) + room <= MaxLen /\ MaxLen \in Nat
  BY ConsoleAssumption DEF Reading
<1>3. size \in Nat /\ size = Len(E) /\ input.r + size = input.w
      /\ \A k \in 1..size : E[k] = input_getc(k)
  <2>1. /\ size \in Nat /\ size = Len(E) /\ input.r \in Nat /\ input.w \in Nat
        /\ \A k \in 1..size : E[k] = input_getc(k)
    BY UnreadFacts, Zenon
  <2>2. input.r + size = input.w
    BY <2>1 DEF size
  <2> QED BY <2>1, <2>2, Zenon
<1>4. \A k \in 1..size : input_getc(k) \in Letters /\ input_getc(k) \notin {"NL", "EOF"}
  <2>1. \A k \in 1..size : k <= room
    BY <1>1, <1>2, <1>3
  <2> QED BY <1>1, <1>2, <2>1, MarksFacts, Zenon
<1>5. input' = [input EXCEPT !.r = input.r + size] /\ size \in 0..size
  BY <1>1, <1>3
<1>6. RingOK(input') /\ input'.e <= MaxKeys /\ input'.r = input'.w
  BY <1>3, <1>5, AdvanceKeeps
<1>7. unread(size) \in Seq(Letters) /\ Len(unread(size)) = size
  BY <1>4, <1>5, UnreadSeq, Zenon
<1>8. part[p] \o unread(size) \in Seq(Letters) /\ Len(part[p] \o unread(size)) = Len(part[p]) + size
  BY <1>2, <1>7
<1>9. ReadsOK'
  <2>1. /\ state \in [Readers -> {"User", "Sleeping", "Runnable"}] /\ want \in [Readers -> 0..MaxLen]
        /\ part \in [Readers -> Seq(Letters)]
        /\ \A q \in Readers : IF state[q] = "User" THEN part[q] = <<>> ELSE Len(part[q]) < want[q]
        /\ got.bytes \in Seq(Letters \cup {"NL"}) /\ Len(got.bytes) <= MaxLen
    BY DEF IInv, ReadsOK
  <2>2. Len(part[p]) + room \in 0..MaxLen /\ Len(part[p]) + size < Len(part[p]) + room
    BY <1>1, <1>2, <1>3
  <2>3. /\ state' \in [Readers -> {"User", "Sleeping", "Runnable"}] /\ want' \in [Readers -> 0..MaxLen]
        /\ part' \in [Readers -> Seq(Letters)] /\ got'.bytes = got.bytes
    BY <1>1, <1>2, <1>8, <2>1, <2>2
  <2>4. ASSUME NEW q \in Readers
        PROVE  IF state'[q] = "User" THEN part'[q] = <<>> ELSE Len(part'[q]) < want'[q]
    <3>1. CASE q = p
      <4>1. /\ state'[q] = "Sleeping" /\ part'[q] = part[p] \o unread(size)
            /\ want'[q] = Len(part[p]) + room
        BY <1>1, <1>2, <2>1, <3>1
      <4> QED BY <1>8, <2>2, <4>1
    <3>2. CASE q # p
      <4>1. state'[q] = state[q] /\ part'[q] = part[q] /\ want'[q] = want[q]
        BY <1>1, <2>1, <3>2
      <4> QED BY <2>1, <4>1
    <3> QED BY <3>1, <3>2
  <2> QED BY <2>1, <2>3, <2>4 DEF ReadsOK
<1>10. IInv'
  BY <1>6, <1>9 DEF IInv, NoLostWakeup, input_available
<1>11. Line!LTake(Len(E))
  <2>1. \A k \in 1..size : input_getc(k) # "EOF" /\ (input_getc(k) = "NL" => k = size)
    BY <1>4
  <2> QED BY <1>3, <1>5, <2>1, TakeMaps, Zenon
<1>12. E # <<>> => E[Len(E)] # "NL"
  <2>1. E \in Seq(Stored)
    BY UnreadFacts, Zenon
  <2> HIDE DEF E
  <2>2. E # <<>> => Len(E) \in 1..size
    BY <1>3, <2>1
  <2> QED BY <1>3, <1>4, <2>2
<1>13. Line!LWait(p)
  BY <1>1, <1>11, <1>12, MappingIs, Zenon DEF Line!LWait, E
<1> QED BY <1>10, <1>13
-----------------------------------------------------------------------------
(* Every step, and the theorems.                                             *)

\* console::read, from its start or after its sleep.
LEMMA ReadKeeps ==
  ASSUME IInv, NEW p \in Readers, NEW len, Reading(p, len - Len(part[p])), read(p, len)
  PROVE  IInv' /\ (Line!LWait(p) \/ Line!LAnswer(p) \/ Line!LEnd(p))
<1> DEFINE room == len - Len(part[p])
<1>1. \/ read_line(p, room) \/ read_eof(p, room) \/ read_full(p, room) \/ read_sleep(p, room)
  BY Zenon DEF read
<1> HIDE DEF room
<1>2. Reading(p, room)
  BY DEF room
<1> QED BY <1>1, <1>2, ReadLineKeeps, ReadEofKeeps, ReadFullKeeps, ReadSleepKeeps, Zenon

\* Every step keeps the invariant and is a step of LineInput.
LEMMA NextKeeps ==
  ASSUME IInv, [Next]_vars
  PROVE  IInv' /\ [Line!LNext]_<<Typed(input), Entered(input), part, got>>
<1> DEFINE lv == <<Typed(input), Entered(input), part, got>>
<1>1. CASE UNCHANGED vars
  BY <1>1 DEF vars, IInv, RingOK, Ordered, ReadsOK, NoLostWakeup, input_available, Cell,
              Typed, Entered, Slice
<1>2. ASSUME NEW burst \in Bursts, intr(burst) PROVE IInv' /\ Line!LNext
  BY <1>2, IntrKeeps, Zenon DEF Line!LNext
<1>3. ASSUME NEW p \in Readers PROVE part[p] \in Seq(Letters) /\ Len(part[p]) \in Nat
  BY DEF IInv, ReadsOK
<1>4. ASSUME NEW p \in Readers, NEW len \in 1..MaxLen, Read(p, len) PROVE IInv' /\ Line!LNext
  <2>1. part[p] = <<>>
    BY <1>4 DEF IInv, ReadsOK, Read
  <2>2. Reading(p, len - Len(part[p]))
    BY <1>3, <2>1, ConsoleAssumption DEF Reading
  <2> QED BY <1>4, <2>2, ReadKeeps, Zenon DEF Read, Line!LNext
<1>5. ASSUME NEW p \in Readers, ReadAgain(p) PROVE IInv' /\ Line!LNext
  <2>1. Len(part[p]) < want[p] /\ want[p] \in 0..MaxLen
    BY <1>5 DEF IInv, ReadsOK, ReadAgain
  <2>2. Reading(p, want[p] - Len(part[p]))
    BY <1>3, <2>1, ConsoleAssumption DEF Reading
  <2> QED BY <1>5, <2>2, ReadKeeps, Zenon DEF ReadAgain, Line!LNext
<1> QED BY <1>1, <1>2, <1>4, <1>5, Zenon DEF Next

\* The console starts in the invariant, with nothing typed.
LEMMA InitKeeps ==
  ASSUME Init
  PROVE  IInv /\ Line!LInit
<1>1. /\ input = [buf |-> [k \in 0..INPUT_BUF - 1 |-> "none"], r |-> 0, w |-> 0, e |-> 0]
      /\ state = [p \in Readers |-> "User"] /\ want = [p \in Readers |-> 0]
      /\ part = [p \in Readers |-> <<>>] /\ got = [by |-> "none", bytes |-> <<>>]
  BY DEF Init
<1>2. RingOK(input) /\ input.e <= MaxKeys
  BY <1>1, ConsoleAssumption DEF RingOK, Ordered, Ring
<1>3. ReadsOK /\ NoLostWakeup
  BY <1>1, ConsoleAssumption DEF ReadsOK, NoLostWakeup
<1>4. Typed(input) = <<>> /\ Entered(input) = <<>>
  <2>1. input.r = 0 /\ input.w = 0 /\ input.e = 0
    BY <1>1
  <2>2. Slice(input, 0, 0) = <<>>
    BY SliceOne
  <2>3. 0 - 0 = 0
    OBVIOUS
  <2> QED BY <2>1, <2>2, <2>3, Zenon DEF Typed, Entered
<1>5. Line!LInit
  BY <1>1, <1>4, MappingIs DEF Line!LInit
<1> QED BY <1>2, <1>3, <1>5 DEF IInv

\* The invariant says what the runs check.
LEMMA InvGives ==
  ASSUME IInv
  PROVE  BufferNeverStalls /\ NoLostWakeup
<1>1. /\ input \in Ring /\ input.r <= input.w /\ input.w <= input.e
      /\ input.e <= input.r + INPUT_BUF /\ (input.e = input.r + INPUT_BUF => input.w = input.e)
      /\ input.e <= MaxKeys /\ ReadsOK /\ NoLostWakeup
  BY DEF IInv, RingOK, Ordered
<1>2. /\ input.buf \in [0..INPUT_BUF - 1 -> Stored \cup {"none"}]
      /\ input.r \in 0..MaxKeys /\ input.w \in 0..MaxKeys /\ input.e \in 0..MaxKeys
  BY <1>1, ConsoleAssumption DEF Ring
<1>3. TypeOK
  BY <1>1, <1>2 DEF TypeOK, ReadsOK
<1> QED BY <1>1, <1>3 DEF BufferNeverStalls

\* The invariant holds in every state of the console, whatever keys arrive and
\* whoever reads.
THEOREM InvariantHolds == Spec => []IInv
<1>1. Init => IInv
  BY InitKeeps
<1>2. IInv /\ [Next]_vars => IInv'
  BY NextKeeps
<1> QED BY <1>1, <1>2, PTL DEF Spec

\* The indices of the ring stay in order and a full buffer can be read.
THEOREM NeverStallsHolds == Spec => []BufferNeverStalls
<1>1. IInv => BufferNeverStalls
  BY InvGives
<1> QED BY <1>1, InvariantHolds, PTL

\* A reader sleeps only while nothing can be read.
THEOREM NoLostWakeupHolds == Spec => []NoLostWakeup
<1>1. IInv => NoLostWakeup
  BY InvGives
<1> QED BY <1>1, InvariantHolds, PTL

\* The ring, edited by the interrupt handler between the sleeps of several
\* readers, implements the two sequences of LineInput.
THEOREM LineImplemented == Spec => ImplementsLine
<1>1. Init => Line!LInit
  BY InitKeeps
<1>2. IInv /\ [Next]_vars => [Line!LNext]_Line!lvars
  <2> SUFFICES ASSUME IInv, [Next]_vars PROVE [Line!LNext]_Line!lvars
    OBVIOUS
  <2>1. [Line!LNext]_<<Typed(input), Entered(input), part, got>>
    BY NextKeeps
  <2>2. CASE Line!LNext
    BY <2>2
  <2>3. CASE UNCHANGED <<Typed(input), Entered(input), part, got>>
    BY <2>3, MappingIs, MappingIsNext DEF Line!lvars
  <2> QED BY <2>1, <2>2, <2>3
<1> QED BY <1>1, <1>2, InvariantHolds, PTL DEF Spec, ImplementsLine, Line!LSpec
=============================================================================
