--------------------------- MODULE UserHeapProofs ---------------------------
(***************************************************************************)
(* Proofs about UserHeap, for any base, limit and sizes of requests.       *)
(***************************************************************************)
EXTENDS UserHeap, SequenceTheorems, TLAPS

\* A free list f and used blocks S that make up the heap from lo to hi.
Heap(f, S, lo, hi) ==
    /\ f \in Seq(Block) /\ S \subseteq Block
    /\ Ordered(f)
    /\ BlocksOf(f) \cap S = {}
    /\ Tiles(BlocksOf(f) \cup S, lo, hi)

\* Blocks have an address and a positive size.
LEMMA BlockFacts ==
    ASSUME NEW b \in Block
    PROVE  /\ b.at \in Nat /\ b.size \in Nat /\ block_end(b) \in Nat /\ b.at < block_end(b)
           /\ b.at % 16 = 0 /\ b.size % 16 = 0 /\ b.size >= 32
BY DEF Block, MIN_BLOCK_SIZE, HEADER_SIZE, ALIGN, block_end

\* What is where in a spliced list t.
Spliced(t, f, lo, mid, hi) ==
    /\ t \in Seq(Block)
    /\ Len(t) = lo + Len(mid) + (Len(f) - hi + 1)
    /\ \A k \in 1..lo : t[k] = f[k]
    /\ \A k \in lo + 1 .. lo + Len(mid) : t[k] = mid[k - lo]
    /\ \A k \in lo + Len(mid) + 1 .. Len(t) : t[k] = f[k - lo - Len(mid) + hi - 1]

\* splice puts the blocks where it should.
LEMMA SpliceIndex ==
    ASSUME NEW f \in Seq(Block), NEW mid \in Seq(Block),
           NEW lo \in 0..Len(f), NEW hi \in lo + 1 .. Len(f) + 1
    PROVE  Spliced(splice(f, lo, mid, hi), f, lo, mid, hi)
<1> DEFINE a == SubSeq(f, 1, lo)
           c == SubSeq(f, hi, Len(f))
           am == a \o mid
           t == am \o c
<1>0. \A k \in 1..Len(f) : f[k] \in Block
  OBVIOUS
<1>1. a \in Seq(Block) /\ Len(a) = lo /\ \A k \in 1..lo : a[k] = f[k]
  BY <1>0, SubSeqProperties
<1>2. /\ c \in Seq(Block) /\ Len(c) = Len(f) - hi + 1
      /\ \A k \in 1..Len(f) - hi + 1 : c[k] = f[hi + k - 1]
  BY <1>0, SubSeqProperties
<1> HIDE DEF a, c
<1>3. /\ am \in Seq(Block) /\ Len(am) = lo + Len(mid)
      /\ \A k \in 1..lo + Len(mid) : am[k] = IF k <= lo THEN a[k] ELSE mid[k - lo]
  BY <1>1, ConcatProperties, Zenon
<1> HIDE DEF am
<1>4. /\ t \in Seq(Block) /\ Len(t) = Len(am) + Len(c)
      /\ \A k \in 1..Len(am) + Len(c) : t[k] = IF k <= Len(am) THEN am[k] ELSE c[k - Len(am)]
  BY <1>2, <1>3, ConcatProperties, Zenon
<1>5. splice(f, lo, mid, hi) = t
  BY DEF splice, a, c, am
<1> HIDE DEF t
<1>6. Len(mid) \in Nat /\ Len(f) \in Nat
  OBVIOUS
<1>7. Len(t) = lo + Len(mid) + (Len(f) - hi + 1) /\ Len(t) \in Nat /\ lo \in Nat
  BY <1>2, <1>3, <1>4, <1>6
<1>8. ASSUME NEW k \in 1..lo PROVE t[k] = f[k]
  <2>1. k \in 1..Len(am) + Len(c) /\ k <= Len(am) /\ k \in 1..lo + Len(mid) /\ k <= lo
    BY <1>2, <1>3, <1>6
  <2>2. t[k] = am[k]
    BY <1>4, <2>1
  <2>3. am[k] = a[k]
    BY <1>3, <2>1
  <2> QED BY <1>1, <2>2, <2>3
<1>9. ASSUME NEW k \in lo + 1 .. lo + Len(mid) PROVE t[k] = mid[k - lo]
  <2>1. k \in 1..Len(am) + Len(c) /\ k <= Len(am) /\ k \in 1..lo + Len(mid) /\ ~(k <= lo)
    BY <1>2, <1>3, <1>6
  <2>2. t[k] = am[k]
    BY <1>4, <2>1
  <2>3. am[k] = mid[k - lo]
    BY <1>3, <2>1
  <2> QED BY <2>2, <2>3
<1>10. ASSUME NEW k \in lo + Len(mid) + 1 .. Len(t)
       PROVE  t[k] = f[k - lo - Len(mid) + hi - 1]
  <2>1. k \in 1..Len(am) + Len(c) /\ ~(k <= Len(am)) /\ k - Len(am) \in 1..Len(f) - hi + 1
    BY <1>2, <1>3, <1>6, <1>7
  <2>2. t[k] = c[k - Len(am)]
    BY <1>4, <2>1
  <2>3. c[k - Len(am)] = f[hi + (k - Len(am)) - 1]
    BY <1>2, <2>1
  <2>4. hi + (k - Len(am)) - 1 = k - lo - Len(mid) + hi - 1
    <3>1. Len(am) = lo + Len(mid) /\ hi \in Int /\ k \in Int /\ lo \in Int
      BY <1>3, <1>6, <1>7
    <3> QED BY <1>6, <3>1
  <2> QED BY <2>2, <2>3, <2>4
<1> QED BY <1>4, <1>5, <1>7, <1>8, <1>9, <1>10 DEF Spliced

\* The blocks a splice leaves out are those from lo + 1 to hi - 1.
Kept(f, lo, hi) == {f[k] : k \in 1..lo} \cup {f[k] : k \in hi..Len(f)}

\* A block b in place of blocks of the list, between its new neighbours.
LEMMA SpliceOne ==
    ASSUME NEW f \in Seq(Block), Ordered(f), NEW b \in Block,
           NEW lo \in 0..Len(f), NEW hi \in lo + 1 .. Len(f) + 1,
           lo > 0 => block_end(f[lo]) < b.at,
           hi <= Len(f) => block_end(b) < f[hi].at
    PROVE  LET t == splice(f, lo, <<b>>, hi)
           IN  t \in Seq(Block) /\ Ordered(t) /\ BlocksOf(t) = Kept(f, lo, hi) \cup {b}
<1> DEFINE t == splice(f, lo, <<b>>, hi)
<1>1. <<b>> \in Seq(Block) /\ Len(<<b>>) = 1 /\ <<b>>[1] = b
  OBVIOUS
<1>2. Len(f) \in Nat
  OBVIOUS
<1>3. /\ t \in Seq(Block) /\ Len(t) = lo + 1 + (Len(f) - hi + 1)
      /\ \A k \in 1..lo : t[k] = f[k]
      /\ t[lo + 1] = b
      /\ \A k \in lo + 2 .. Len(t) : t[k] = f[k - lo + hi - 2]
  <2>1. /\ t \in Seq(Block)
        /\ Len(t) = lo + 1 + (Len(f) - hi + 1)
        /\ \A k \in 1..lo : t[k] = f[k]
        /\ \A k \in lo + 1 .. lo + 1 : t[k] = <<b>>[k - lo]
        /\ \A k \in lo + 1 + 1 .. Len(t) : t[k] = f[k - lo - 1 + hi - 1]
    <3> DEFINE one == <<b>>
    <3>1. one \in Seq(Block) /\ Len(one) = 1
      OBVIOUS
    <3>2. t = splice(f, lo, one, hi)
      OBVIOUS
    <3> HIDE DEF one, t
    <3>3. Spliced(t, f, lo, one, hi)
      BY <3>1, <3>2, SpliceIndex
    <3> QED BY <3>1, <3>3 DEF one, Spliced
  <2> HIDE DEF t
  <2>2. t[lo + 1] = b
    <3>1. lo + 1 \in lo + 1 .. lo + 1 /\ (lo + 1) - lo = 1
      OBVIOUS
    <3> QED BY <1>1, <2>1, <3>1
  <2>3. ASSUME NEW k \in lo + 2 .. Len(t) PROVE t[k] = f[k - lo + hi - 2]
    <3>1. Len(t) \in Nat
      BY <2>1
    <3>2. k \in lo + 1 + 1 .. Len(t) /\ k - lo - 1 + hi - 1 = k - lo + hi - 2
      BY <1>2, <3>1
    <3> QED BY <2>1, <3>2
  <2> QED BY <2>1, <2>2, <2>3
<1> HIDE DEF t
<1>4. \A k \in 1..Len(f) : f[k] \in Block /\ f[k].at \in Nat /\ f[k].size \in Nat /\ f[k].size > 0
  <2> SUFFICES ASSUME NEW k \in 1..Len(f)
               PROVE  f[k] \in Block /\ f[k].at \in Nat /\ f[k].size \in Nat /\ f[k].size > 0
    OBVIOUS
  <2>1. f[k] \in Block
    OBVIOUS
  <2>2. f[k].size \in Nat /\ f[k].size >= 32 /\ f[k].at \in Nat
    BY <2>1, BlockFacts
  <2> QED BY <2>1, <2>2
<1>5. b.at \in Nat /\ b.size \in Nat /\ b.size > 0
  BY BlockFacts
<1>6. /\ Len(f) \in Nat /\ lo \in Nat /\ hi \in Nat /\ Len(t) \in Nat
      /\ lo <= Len(f) /\ lo < hi /\ hi <= Len(f) + 1 /\ Len(t) = lo + 2 + Len(f) - hi
  BY <1>2, <1>3
<1>7. ASSUME NEW k \in 1..lo PROVE block_end(f[k]) < b.at
  <2>1. lo \in 1..Len(f) /\ k \in 1..Len(f) /\ (k = lo \/ k < lo) /\ lo > 0
    BY <1>6
  <2>2. k < lo => block_end(f[k]) < f[lo].at
    BY <2>1 DEF Ordered
  <2>3. block_end(f[lo]) < b.at
    BY <2>1
  <2>4. /\ f[lo].at < block_end(f[lo]) /\ block_end(f[lo]) \in Nat /\ f[lo].at \in Nat
        /\ block_end(f[k]) \in Nat
    BY <1>4, <2>1, BlockFacts
  <2> QED BY <1>5, <2>1, <2>2, <2>3, <2>4
<1>8. ASSUME NEW k \in hi..Len(f) PROVE block_end(b) < f[k].at
  <2>1. hi \in 1..Len(f) /\ k \in 1..Len(f) /\ (k = hi \/ hi < k) /\ hi <= Len(f)
    BY <1>6
  <2>2. hi < k => block_end(f[hi]) < f[k].at
    BY <2>1 DEF Ordered
  <2>3. block_end(b) < f[hi].at
    BY <2>1
  <2>4. /\ f[hi].at < block_end(f[hi]) /\ block_end(f[hi]) \in Nat /\ f[hi].at \in Nat
        /\ f[k].at \in Nat /\ block_end(b) \in Nat
    BY <1>4, <2>1, BlockFacts
  <2> QED BY <2>1, <2>2, <2>3, <2>4
<1>9. ASSUME NEW k \in 1..Len(t)
      PROVE  \/ k \in 1..lo /\ k \in 1..Len(f) /\ t[k] = f[k]
             \/ k = lo + 1 /\ t[k] = b
             \/ /\ k > lo + 1 /\ k - lo + hi - 2 \in hi..Len(f) /\ k - lo + hi - 2 \in 1..Len(f)
                /\ t[k] = f[k - lo + hi - 2]
  <2>1. CASE k <= lo
    <3>1. k \in 1..lo /\ k \in 1..Len(f)
      BY <1>6, <2>1
    <3> QED BY <1>3, <3>1
  <2>2. CASE k = lo + 1
    BY <1>3, <2>2
  <2>3. CASE k > lo + 1
    <3>1. /\ k \in lo + 2 .. Len(t) /\ k - lo + hi - 2 \in hi..Len(f)
          /\ k - lo + hi - 2 \in 1..Len(f)
      BY <1>6, <2>3
    <3> QED BY <1>3, <2>3, <3>1
  <2> QED BY <1>6, <2>1, <2>2, <2>3
<1>10. Ordered(t)
  <2> SUFFICES ASSUME NEW i \in 1..Len(t), NEW j \in 1..Len(t), i < j
               PROVE  block_end(t[i]) < t[j].at
    BY DEF Ordered
  <2>1. CASE j \in 1..lo
    <3>1. i \in 1..lo /\ i \in 1..Len(f) /\ j \in 1..Len(f)
      BY <1>6, <2>1
    <3> QED BY <1>3, <2>1, <3>1 DEF Ordered
  <2>2. CASE j = lo + 1
    <3>1. i \in 1..lo
      BY <1>6, <2>2
    <3> QED BY <1>3, <1>7, <2>2, <3>1, Zenon
  <2>3. CASE j > lo + 1
    <3> DEFINE y == j - lo + hi - 2
    <3>1. y \in hi..Len(f) /\ y \in 1..Len(f) /\ t[j] = f[y]
      BY <1>9, <1>6, <2>3
    <3>2. CASE i \in 1..lo
      <4>1. i \in 1..Len(f) /\ i < y
        BY <1>6, <3>1, <3>2
      <4>2. t[i] = f[i]
        BY <1>3, <3>2, Zenon
      <4> HIDE DEF y
      <4>3. block_end(f[i]) < f[y].at
        BY <3>1, <4>1 DEF Ordered
      <4> QED BY <3>1, <4>2, <4>3
    <3>3. CASE i = lo + 1
      BY <1>3, <1>8, <3>1, <3>3
    <3>4. CASE i > lo + 1
      <4> DEFINE x == i - lo + hi - 2
      <4>1. x \in 1..Len(f) /\ t[i] = f[x]
        BY <1>9, <1>6, <3>4
      <4>2. x < y
        <5>1. i < j /\ i \in Nat /\ j \in Nat
          BY <1>6
        <5> QED BY <1>6, <5>1
      <4> HIDE DEF x, y
      <4>3. block_end(f[x]) < f[y].at
        BY <3>1, <4>1, <4>2 DEF Ordered
      <4> QED BY <3>1, <4>1, <4>3
    <3>5. i \in 1..lo \/ i = lo + 1 \/ i > lo + 1
      BY <1>6
    <3> QED BY <3>2, <3>3, <3>4, <3>5
  <2>4. j \in 1..lo \/ j = lo + 1 \/ j > lo + 1
    BY <1>6
  <2> QED BY <2>1, <2>2, <2>3, <2>4
<1>11. BlocksOf(t) = Kept(f, lo, hi) \cup {b}
  <2>1. ASSUME NEW k \in 1..Len(t) PROVE t[k] \in Kept(f, lo, hi) \cup {b}
    BY <1>9, Zenon DEF Kept
  <2>2. ASSUME NEW k \in 1..lo PROVE f[k] \in BlocksOf(t)
    <3>1. k \in 1..Len(t)
      BY <1>6
    <3>2. t[k] = f[k]
      BY <1>3
    <3> QED BY <3>1, <3>2 DEF BlocksOf
  <2>3. ASSUME NEW k \in hi..Len(f) PROVE f[k] \in BlocksOf(t)
    <3> DEFINE x == k - hi + lo + 2
    <3>1. x \in lo + 2 .. Len(t) /\ x \in 1..Len(t) /\ x - lo + hi - 2 = k
      BY <1>6
    <3> HIDE DEF x
    <3>2. t[x] = f[k]
      BY <1>3, <3>1
    <3> QED BY <3>1, <3>2 DEF BlocksOf
  <2>4. b \in BlocksOf(t)
    <3>1. lo + 1 \in 1..Len(t)
      BY <1>6
    <3> QED BY <1>3, <3>1 DEF BlocksOf
  <2> QED BY <2>1, <2>2, <2>3, <2>4, Zenon DEF BlocksOf, Kept
<1> QED BY <1>3, <1>10, <1>11 DEF t

\* A block taken out of the list.
LEMMA SpliceNone ==
    ASSUME NEW f \in Seq(Block), Ordered(f), NEW i \in 1..Len(f)
    PROVE  LET t == splice(f, i - 1, <<>>, i + 1)
           IN  t \in Seq(Block) /\ Ordered(t) /\ BlocksOf(t) = Kept(f, i - 1, i + 1)
<1> DEFINE none == <<>>
           t == splice(f, i - 1, none, i + 1)
<1>1. none \in Seq(Block) /\ Len(none) = 0 /\ Len(f) \in Nat
  OBVIOUS
<1> HIDE DEF none
<1>2. /\ t \in Seq(Block)
      /\ Len(t) = (i - 1) + 0 + (Len(f) - (i + 1) + 1)
      /\ \A k \in 1..i - 1 : t[k] = f[k]
      /\ \A k \in (i - 1) + 0 + 1 .. Len(t) : t[k] = f[k - (i - 1) - 0 + (i + 1) - 1]
  <2>1. i - 1 \in 0..Len(f) /\ i + 1 \in (i - 1) + 1 .. Len(f) + 1
    BY <1>1
  <2> DEFINE lo == i - 1
             hi == i + 1
  <2> HIDE DEF lo, hi
  <2>2. /\ t \in Seq(Block)
        /\ Len(t) = lo + Len(none) + (Len(f) - hi + 1)
        /\ \A k \in 1..lo : t[k] = f[k]
        /\ \A k \in lo + Len(none) + 1 .. Len(t) : t[k] = f[k - lo - Len(none) + hi - 1]
    <3>1. t = splice(f, lo, none, hi) /\ lo \in 0..Len(f) /\ hi \in lo + 1 .. Len(f) + 1
      BY <2>1 DEF lo, hi
    <3> HIDE DEF t
    <3>2. Spliced(t, f, lo, none, hi)
      BY <1>1, <3>1, SpliceIndex, Zenon
    <3> QED BY <3>2 DEF Spliced
  <2> QED BY <1>1, <2>2 DEF lo, hi
<1> HIDE DEF t
<1>3. Len(t) = Len(f) - 1 /\ Len(t) \in Nat
  BY <1>1, <1>2
<1>4. ASSUME NEW k \in 1..Len(t)
      PROVE  IF k < i THEN k \in 1..i - 1 /\ k \in 1..Len(f) /\ t[k] = f[k]
                      ELSE k + 1 \in i + 1 .. Len(f) /\ k + 1 \in 1..Len(f) /\ t[k] = f[k + 1]
  <2>1. CASE k < i
    <3>1. k \in 1..i - 1 /\ k \in 1..Len(f)
      BY <1>1, <1>3, <2>1
    <3> QED BY <1>2, <2>1, <3>1
  <2>2. CASE ~(k < i)
    <3>1. /\ k \in (i - 1) + 0 + 1 .. Len(t) /\ k - (i - 1) - 0 + (i + 1) - 1 = k + 1
          /\ k + 1 \in i + 1 .. Len(f) /\ k + 1 \in 1..Len(f)
      BY <1>1, <1>3, <2>2
    <3> QED BY <1>2, <2>2, <3>1
  <2> QED BY <2>1, <2>2
<1>5. Ordered(t)
  <2> SUFFICES ASSUME NEW j \in 1..Len(t), NEW k \in 1..Len(t), j < k
               PROVE  block_end(t[j]) < t[k].at
    BY DEF Ordered
  <2> DEFINE x == IF j < i THEN j ELSE j + 1
             y == IF k < i THEN k ELSE k + 1
  <2>1. x \in 1..Len(f) /\ t[j] = f[x]
    BY <1>4
  <2>2. y \in 1..Len(f) /\ t[k] = f[y]
    BY <1>4
  <2>3. x < y
    BY <1>3
  <2> HIDE DEF x, y
  <2> QED BY <2>1, <2>2, <2>3 DEF Ordered
<1>6. BlocksOf(t) = Kept(f, i - 1, i + 1)
  <2>1. ASSUME NEW k \in 1..Len(t) PROVE t[k] \in Kept(f, i - 1, i + 1)
    BY <1>4 DEF Kept
  <2>2. ASSUME NEW k \in 1..i - 1 PROVE f[k] \in BlocksOf(t)
    <3>1. k \in 1..Len(t) /\ k < i
      BY <1>1, <1>3
    <3>2. t[k] = f[k]
      BY <1>4, <3>1
    <3> QED BY <3>1, <3>2 DEF BlocksOf
  <2>3. ASSUME NEW k \in i + 1 .. Len(f) PROVE f[k] \in BlocksOf(t)
    <3> DEFINE x == k - 1
    <3>1. x \in 1..Len(t) /\ ~(x < i) /\ x + 1 = k
      BY <1>1, <1>3
    <3> HIDE DEF x
    <3>2. t[x] = f[k]
      BY <1>4, <3>1
    <3> QED BY <3>1, <3>2 DEF BlocksOf
  <2> QED BY <2>1, <2>2, <2>3, Zenon DEF BlocksOf, Kept
<1> QED BY <1>2, <1>5, <1>6 DEF t, none

\* Which blocks a splice keeps.
LEMMA KeptBlocks ==
    ASSUME NEW f \in Seq(Block), Ordered(f), NEW lo \in 0..Len(f), NEW hi \in lo + 1 .. Len(f) + 1
    PROVE  /\ BlocksOf(f) = Kept(f, lo, hi) \cup {f[k] : k \in lo + 1 .. hi - 1}
           /\ Kept(f, lo, hi) \cap {f[k] : k \in lo + 1 .. hi - 1} = {}
           /\ Kept(f, lo, hi) \subseteq Block
<1>1. /\ Len(f) \in Nat /\ lo \in Nat /\ hi \in Nat
      /\ lo <= Len(f) /\ lo < hi /\ hi <= Len(f) + 1
  OBVIOUS
<1>2. \A k \in 1..Len(f) : f[k] \in Block /\ f[k].at \in Nat /\ f[k].size \in Nat /\ f[k].size > 0
  <2> SUFFICES ASSUME NEW k \in 1..Len(f)
               PROVE  f[k] \in Block /\ f[k].at \in Nat /\ f[k].size \in Nat /\ f[k].size > 0
    OBVIOUS
  <2>1. f[k] \in Block
    OBVIOUS
  <2>2. f[k].size \in Nat /\ f[k].size >= 32 /\ f[k].at \in Nat
    BY <2>1, BlockFacts
  <2> QED BY <2>1, <2>2
<1>3. \A k \in 1..lo : k \in 1..Len(f)
  BY <1>1
<1>4. \A k \in hi..Len(f) : k \in 1..Len(f)
  BY <1>1
<1>5. \A k \in lo + 1 .. hi - 1 : k \in 1..Len(f)
  BY <1>1
<1>6. \A k \in 1..Len(f) : k \in 1..lo \/ k \in hi..Len(f) \/ k \in lo + 1 .. hi - 1
  BY <1>1
<1>7. BlocksOf(f) = Kept(f, lo, hi) \cup {f[k] : k \in lo + 1 .. hi - 1}
  BY <1>3, <1>4, <1>5, <1>6 DEF BlocksOf, Kept
<1>8. ASSUME NEW j \in 1..Len(f), NEW k \in 1..Len(f), j # k PROVE f[j] # f[k]
  <2>1. CASE j < k
    BY <1>2, <2>1 DEF Ordered, block_end
  <2>2. CASE k < j
    BY <1>2, <2>2 DEF Ordered, block_end
  <2> QED BY <1>8, <2>1, <2>2
<1>9. ASSUME NEW j \in lo + 1 .. hi - 1, NEW k \in (1..lo) \cup (hi..Len(f)) PROVE f[j] # f[k]
  <2>1. j \in 1..Len(f) /\ k \in 1..Len(f) /\ j # k
    BY <1>1
  <2> QED BY <1>8, <2>1
<1>10. Kept(f, lo, hi) \cap {f[k] : k \in lo + 1 .. hi - 1} = {}
  BY <1>9 DEF Kept
<1>11. Kept(f, lo, hi) \subseteq Block
  BY <1>2, <1>3, <1>4 DEF Kept
<1> QED BY <1>7, <1>10, <1>11

Covers(b, a) == b.at <= a /\ a < block_end(b)

\* Blocks X of a tiling may give way to blocks Y that cover the same bytes.
LEMMA Retile ==
    ASSUME NEW B \in SUBSET Block, NEW X \in SUBSET Block, NEW Y \in SUBSET Block,
           NEW lo \in Nat, NEW hi \in Nat,
           B \cap X = {}, Tiles(B \cup X, lo, hi),
           \A b, c \in Y : b = c \/ block_end(b) <= c.at \/ block_end(c) <= b.at,
           \A a \in Nat : (\E x \in X : Covers(x, a)) <=> (\E y \in Y : Covers(y, a))
    PROVE  B \cap Y = {} /\ Tiles(B \cup Y, lo, hi)
<1>1. ASSUME NEW y \in Y, NEW a \in Nat, Covers(y, a)
      PROVE  /\ \A c \in B : ~Covers(c, a)
             /\ \E x \in X : x.at <= a /\ a < block_end(x) /\ lo <= x.at /\ block_end(x) <= hi
  <2>1. PICK x \in X : Covers(x, a)
    BY <1>1
  <2>2. lo <= x.at /\ block_end(x) <= hi
    BY DEF Tiles
  <2>3. ASSUME NEW c \in B, Covers(c, a) PROVE FALSE
    <3>1. c # x
      OBVIOUS
    <3>2. block_end(c) <= x.at \/ block_end(x) <= c.at
      BY <3>1 DEF Tiles
    <3> QED BY <2>1, <2>3, <3>2, BlockFacts DEF Covers
  <2> QED BY <2>1, <2>2, <2>3 DEF Covers
<1>2. ASSUME NEW y \in Y PROVE lo <= y.at /\ block_end(y) <= hi
  <2>1. y.at \in Nat /\ block_end(y) - 1 \in Nat /\ Covers(y, y.at) /\ Covers(y, block_end(y) - 1)
    BY BlockFacts DEF Covers
  <2>2. \E x \in X : x.at <= y.at /\ lo <= x.at
    BY <1>1, <2>1
  <2>3. \E x \in X : block_end(y) - 1 < block_end(x) /\ block_end(x) <= hi
    BY <1>1, <2>1
  <2> QED BY <2>2, <2>3, BlockFacts
<1>3. ASSUME NEW y \in Y, NEW c \in B PROVE block_end(y) <= c.at \/ block_end(c) <= y.at
  <2> DEFINE a == IF y.at < c.at THEN c.at ELSE y.at
  <2>1. a \in Nat
    BY BlockFacts
  <2>2. ~(block_end(y) <= c.at) /\ ~(block_end(c) <= y.at) => Covers(y, a) /\ Covers(c, a)
    BY BlockFacts DEF Covers
  <2> HIDE DEF a
  <2> QED BY <1>1, <2>1, <2>2
<1>4. B \cap Y = {}
  <2>1. ASSUME NEW c \in B, c \in Y PROVE FALSE
    BY <1>3, <2>1, BlockFacts
  <2> QED BY <2>1
<1>5. ASSUME NEW a \in lo..hi - 1 PROVE \E b \in B \cup Y : b.at <= a /\ a < block_end(b)
  <2>1. a \in Nat
    OBVIOUS
  <2>2. PICK b \in B \cup X : b.at <= a /\ a < block_end(b)
    BY DEF Tiles
  <2> QED BY <2>1, <2>2 DEF Covers
<1>6. ASSUME NEW b \in B \cup Y PROVE lo <= b.at /\ block_end(b) <= hi
  BY <1>2 DEF Tiles
<1>7. ASSUME NEW b \in B \cup Y, NEW c \in B \cup Y
      PROVE  b = c \/ block_end(b) <= c.at \/ block_end(c) <= b.at
  <2>1. CASE b \in B /\ c \in B
    BY <2>1 DEF Tiles
  <2>2. CASE b \in Y /\ c \in Y
    BY <2>2
  <2>3. CASE b \in B /\ c \in Y
    BY <1>3, <2>3
  <2>4. CASE b \in Y /\ c \in B
    BY <1>3, <2>4
  <2> QED BY <2>1, <2>2, <2>3, <2>4
<1> QED BY <1>4, <1>5, <1>6, <1>7 DEF Tiles

\* Multiples of ALIGN.
LEMMA Multiples ==
    ASSUME NEW x \in Int, NEW y \in Int, x % 16 = 0, y % 16 = 0
    PROVE  (x + y) % 16 = 0 /\ (x - y) % 16 = 0
OBVIOUS

\* The end of a block that was cut at n.
LEMMA Cancel ==
    ASSUME NEW x \in Int, NEW y \in Int, NEW n \in Int
    PROVE  (x + n) + (y - n) = x + y
OBVIOUS

\* alloc_from_freelist keeps the heap whole: what it takes out of the list it
\* hands out, and what it splits off stays.
LEMMA TakeKeeps ==
    ASSUME NEW f, NEW S, NEW lo \in Nat, NEW hi \in Nat, Heap(f, S, lo, hi),
           NEW i \in 1..Len(f), NEW n \in Nat, n % 16 = 0, n >= 32, f[i].size >= n
    PROVE  Heap(remaining(f, i, n), S \cup {taken(f[i], n)}, lo, hi)
<1>1. /\ f \in Seq(Block) /\ S \subseteq Block /\ Ordered(f)
      /\ BlocksOf(f) \cap S = {} /\ Tiles(BlocksOf(f) \cup S, lo, hi)
  BY DEF Heap
<1>2. Len(f) \in Nat /\ f[i] \in Block
  BY <1>1
<1> DEFINE K == Kept(f, i - 1, i + 1)
<1>3. /\ i - 1 \in 0..Len(f) /\ i + 1 \in (i - 1) + 1 .. Len(f) + 1
      /\ (i - 1) + 1 .. (i + 1) - 1 = {i}
  BY <1>2
<1>4. BlocksOf(f) = K \cup {f[i]} /\ f[i] \notin K /\ K \subseteq Block
  <2>1. {f[k] : k \in (i - 1) + 1 .. (i + 1) - 1} = {f[i]}
    BY <1>3
  <2>2. /\ BlocksOf(f) = K \cup {f[k] : k \in (i - 1) + 1 .. (i + 1) - 1}
        /\ K \cap {f[k] : k \in (i - 1) + 1 .. (i + 1) - 1} = {}
        /\ K \subseteq Block
    BY <1>1, <1>3, KeptBlocks
  <2> HIDE DEF K
  <2> QED BY <2>1, <2>2
<1> HIDE DEF K
<1>5. CASE ~splits(f[i], n)
  <2> DEFINE t == remaining(f, i, n)
  <2>1. t = splice(f, i - 1, <<>>, i + 1) /\ taken(f[i], n) = f[i]
    BY <1>5 DEF remaining, taken
  <2>2. t \in Seq(Block) /\ Ordered(t) /\ BlocksOf(t) = K
    BY <1>1, <2>1, SpliceNone DEF K
  <2> HIDE DEF t
  <2>3. BlocksOf(t) \cup (S \cup {f[i]}) = BlocksOf(f) \cup S
    BY <1>4, <2>2
  <2> QED BY <1>1, <1>2, <1>4, <2>1, <2>2, <2>3, Zenon DEF Heap, t
<1>6. CASE splits(f[i], n)
  <2> DEFINE rest == [at |-> f[i].at + n, size |-> f[i].size - n]
             first == [f[i] EXCEPT !.size = n]
             t == remaining(f, i, n)
  <2>1. t = splice(f, i - 1, <<rest>>, i + 1) /\ taken(f[i], n) = first
    BY <1>6 DEF remaining, taken
  <2>2. f[i].at \in Nat /\ f[i].size \in Nat /\ f[i].at % 16 = 0 /\ f[i].size % 16 = 0
        /\ f[i].size - n >= 32
    BY <1>2, <1>6, BlockFacts DEF splits, MIN_BLOCK_SIZE, HEADER_SIZE, ALIGN
  <2>3. first.at = f[i].at /\ first.size = n /\ rest.at = f[i].at + n /\ rest.size = f[i].size - n
    BY <1>2 DEF Block
  <2>4. first \in Block /\ rest \in Block
    <3>1. (f[i].at + n) % 16 = 0 /\ (f[i].size - n) % 16 = 0
      <4>1. f[i].at \in Int /\ f[i].size \in Int /\ n \in Int
        BY <2>2
      <4> QED BY <2>2, <4>1, Multiples, Zenon
    <3>2. first \in [at : Nat, size : Nat] /\ rest \in [at : Nat, size : Nat]
      BY <1>2, <2>2 DEF Block
    <3>3. first.at % 16 = 0 /\ first.size % 16 = 0 /\ first.size >= 32
      BY <2>2, <2>3
    <3>4. rest.at % 16 = 0 /\ rest.size % 16 = 0 /\ rest.size >= 32
      BY <2>2, <2>3, <3>1
    <3> HIDE DEF first, rest
    <3> QED BY <3>2, <3>3, <3>4 DEF Block, MIN_BLOCK_SIZE, HEADER_SIZE, ALIGN
  <2> HIDE DEF first, rest
  <2>5. block_end(first) = rest.at /\ block_end(rest) = block_end(f[i]) /\ f[i].at < rest.at
    <3>1. block_end(first) = rest.at
      BY <2>3 DEF block_end
    <3>2. block_end(rest) = block_end(f[i])
      <4>1. (f[i].at + n) + (f[i].size - n) = f[i].at + f[i].size
        <5>1. f[i].at \in Int /\ f[i].size \in Int /\ n \in Int
          BY <2>2
        <5> QED BY <5>1, Cancel, Zenon
      <4> QED BY <2>3, <4>1 DEF block_end
    <3>3. f[i].at < rest.at
      BY <2>2, <2>3
    <3> QED BY <3>1, <3>2, <3>3
  <2>6. i - 1 > 0 => block_end(f[i - 1]) < rest.at
    <3> SUFFICES ASSUME i - 1 > 0 PROVE block_end(f[i - 1]) < rest.at
      OBVIOUS
    <3>1. i - 1 \in 1..Len(f) /\ i - 1 < i
      BY <1>2
    <3>2. block_end(f[i - 1]) < f[i].at /\ f[i - 1] \in Block
      BY <1>1, <3>1 DEF Ordered
    <3> QED BY <1>2, <2>4, <2>5, <3>2, BlockFacts
  <2>7. i + 1 <= Len(f) => block_end(rest) < f[i + 1].at
    <3> SUFFICES ASSUME i + 1 <= Len(f) PROVE block_end(rest) < f[i + 1].at
      OBVIOUS
    <3>1. i + 1 \in 1..Len(f) /\ i < i + 1
      BY <1>2
    <3> QED BY <1>1, <2>5, <3>1 DEF Ordered
  <2>8. t \in Seq(Block) /\ Ordered(t) /\ BlocksOf(t) = K \cup {rest}
    BY <1>1, <1>3, <2>1, <2>4, <2>6, <2>7, SpliceOne DEF K
  <2> HIDE DEF t
  <2> DEFINE B == K \cup S
  <2>9. /\ B \in SUBSET Block /\ B \cap {f[i]} = {} /\ B \cup {f[i]} = BlocksOf(f) \cup S
        /\ {f[i]} \in SUBSET Block /\ {first, rest} \in SUBSET Block
    BY <1>1, <1>2, <1>4, <2>4
  <2>10. Tiles(B \cup {f[i]}, lo, hi)
    BY <1>1, <2>9, Zenon
  <2>11. \A b, c \in {first, rest} : b = c \/ block_end(b) <= c.at \/ block_end(c) <= b.at
    BY <2>4, <2>5, BlockFacts
  <2>12. \A a \in Nat : (\E x \in {f[i]} : Covers(x, a)) <=> (\E y \in {first, rest} : Covers(y, a))
    <3> TAKE a \in Nat
    <3>1. Covers(f[i], a) <=> Covers(first, a) \/ Covers(rest, a)
      <4>1. /\ f[i].at \in Nat /\ rest.at \in Nat /\ block_end(f[i]) \in Nat
            /\ first.at = f[i].at /\ rest.at < block_end(rest)
        BY <1>2, <2>3, <2>4, BlockFacts, Zenon
      <4> QED BY <2>5, <4>1 DEF Covers
    <3> QED BY <3>1
  <2> HIDE DEF B
  <2>13. B \cap {first, rest} = {} /\ Tiles(B \cup {first, rest}, lo, hi)
    <3> DEFINE X == {f[i]}
               Y == {first, rest}
    <3>1. B \in SUBSET Block /\ X \in SUBSET Block /\ Y \in SUBSET Block /\ B \cap X = {}
      BY <2>9
    <3>2. Tiles(B \cup X, lo, hi)
      BY <2>10
    <3>3. \A b, c \in Y : b = c \/ block_end(b) <= c.at \/ block_end(c) <= b.at
      BY <2>11
    <3>4. \A a \in Nat : (\E x \in X : Covers(x, a)) <=> (\E y \in Y : Covers(y, a))
      BY <2>12
    <3>5. B \cap Y = {} /\ Tiles(B \cup Y, lo, hi)
      <4> HIDE DEF X, Y
      <4> QED BY <3>1, <3>2, <3>3, <3>4, Retile, Zenon
    <3> QED BY <3>5
  <2>14. first # rest
    BY <2>4, <2>5, BlockFacts
  <2>15. /\ BlocksOf(t) \cap (S \cup {first}) = {}
         /\ BlocksOf(t) \cup (S \cup {first}) = B \cup {first, rest}
    BY <1>1, <1>4, <2>8, <2>13, <2>14 DEF B
  <2> QED BY <1>1, <2>1, <2>4, <2>8, <2>13, <2>15, Zenon DEF Heap, t
<1> QED BY <1>5, <1>6

\* insert_free_block keeps the heap whole, whichever neighbours the block joins,
\* and the block it leaves in the list is no smaller than the one it was given.
LEMMA InsertKeeps ==
    ASSUME NEW f, NEW S, NEW b, NEW lo \in Nat, NEW hi \in Nat, Heap(f, S \cup {b}, lo, hi),
           b \notin S, NEW i \in 1..Len(f) + 1, place(f, b, i)
    PROVE  /\ Heap(insert_free_block(f, b, i), S, lo, hi)
           /\ \E c \in BlocksOf(insert_free_block(f, b, i)) : c.size >= b.size
<1>1. /\ f \in Seq(Block) /\ S \subseteq Block /\ b \in Block /\ Ordered(f)
      /\ BlocksOf(f) \cap (S \cup {b}) = {} /\ Tiles(BlocksOf(f) \cup (S \cup {b}), lo, hi)
  BY DEF Heap
<1>2. Len(f) \in Nat /\ i \in Nat /\ i >= 1 /\ i <= Len(f) + 1
  BY <1>1
<1>3. ASSUME NEW k \in 1..Len(f)
      PROVE  f[k] \in Block /\ f[k] # b /\ (block_end(f[k]) <= b.at \/ block_end(b) <= f[k].at)
  <2>1. f[k] \in BlocksOf(f) /\ f[k] \in Block
    BY <1>1 DEF BlocksOf
  <2>2. f[k] # b
    BY <1>1, <2>1
  <2> QED BY <1>1, <2>1, <2>2 DEF Tiles
<1> DEFINE left == i > 1 /\ block_end(f[i - 1]) = b.at
           right == i <= Len(f) /\ block_end(b) = f[i].at
           at == IF left THEN f[i - 1].at ELSE b.at
           end == IF right THEN block_end(f[i]) ELSE block_end(b)
           m == [at |-> at, size |-> end - at]
           p == IF left THEN i - 2 ELSE i - 1
           q == IF right THEN i + 1 ELSE i
           t == insert_free_block(f, b, i)
           L == {f[k] : k \in p + 1 .. q - 1}
<1>4. i > 1 => i - 1 \in 1..Len(f) /\ block_end(f[i - 1]) <= b.at
  <2> SUFFICES ASSUME i > 1 PROVE i - 1 \in 1..Len(f) /\ block_end(f[i - 1]) <= b.at
    OBVIOUS
  <2>1. i - 1 \in 1..Len(f) /\ i - 1 \in 1..i - 1
    BY <1>2
  <2>2. f[i - 1].at < b.at
    BY <2>1 DEF place
  <2>3. /\ f[i - 1].at \in Nat /\ b.at \in Nat /\ block_end(b) \in Nat /\ b.at < block_end(b)
        /\ block_end(f[i - 1]) <= b.at \/ block_end(b) <= f[i - 1].at
    BY <1>1, <1>3, <2>1, BlockFacts
  <2> QED BY <2>1, <2>2, <2>3
<1>5. i <= Len(f) => i \in 1..Len(f) /\ block_end(b) <= f[i].at
  <2> SUFFICES ASSUME i <= Len(f) PROVE i \in 1..Len(f) /\ block_end(b) <= f[i].at
    OBVIOUS
  <2>1. i \in 1..Len(f) /\ f[i].at >= b.at
    BY <1>2 DEF place
  <2> QED BY <1>1, <1>3, <2>1, BlockFacts
<1>6. /\ at \in Nat /\ end \in Nat /\ at <= b.at /\ block_end(b) <= end
      /\ at % 16 = 0 /\ end % 16 = 0
  <2>1. \A x \in Block : block_end(x) % 16 = 0 /\ block_end(x) \in Nat /\ x.at < block_end(x)
    <3> TAKE x \in Block
    <3>1. x.at \in Int /\ x.size \in Int /\ x.at % 16 = 0 /\ x.size % 16 = 0
      BY BlockFacts
    <3>2. (x.at + x.size) % 16 = 0
      BY <3>1, Multiples, Zenon
    <3> QED BY <3>2, BlockFacts DEF block_end
  <2>2. at \in Nat /\ at <= b.at /\ at % 16 = 0
    <3>1. CASE left
      <4>1. f[i - 1] \in Block /\ at = f[i - 1].at
        BY <1>3, <1>4, <3>1
      <4> QED BY <1>1, <1>4, <2>1, <3>1, <4>1, BlockFacts
    <3>2. CASE ~left
      BY <1>1, <3>2, BlockFacts
    <3> QED BY <3>1, <3>2
  <2>3. end \in Nat /\ block_end(b) <= end /\ end % 16 = 0
    <3>1. CASE right
      <4>1. f[i] \in Block /\ end = block_end(f[i])
        BY <1>3, <1>5, <3>1
      <4> QED BY <1>1, <1>5, <2>1, <3>1, <4>1, BlockFacts
    <3>2. CASE ~right
      BY <1>1, <2>1, <3>2
    <3> QED BY <3>1, <3>2
  <2> QED BY <2>2, <2>3
<1>7. t = splice(f, p, <<m>>, q)
  BY DEF insert_free_block
<1>8. /\ p \in 0..Len(f) /\ q \in p + 1 .. Len(f) + 1
      /\ \A k \in Nat : k \in p + 1 .. q - 1 <=> (left /\ k = i - 1) \/ (right /\ k = i)
  <2>1. (left => i > 1) /\ (right => i <= Len(f))
    OBVIOUS
  <2> HIDE DEF left, right
  <2>2. CASE left
    BY <1>2, <2>1, <2>2
  <2>3. CASE ~left
    BY <1>2, <2>1, <2>3
  <2> QED BY <2>2, <2>3
<1> HIDE DEF left, right, at, end
<1>9. m \in Block /\ m.at = at /\ block_end(m) = end
  <2>1. (end - at) % 16 = 0
    <3>1. at \in Int /\ end \in Int
      BY <1>6
    <3> QED BY <1>6, <3>1, Multiples, Zenon
  <2>2. end - at \in Nat /\ end - at >= 32 /\ at + (end - at) = end
    <3>1. b.at \in Nat /\ b.size >= 32 /\ block_end(b) = b.at + b.size /\ b.size \in Nat
      BY <1>1, BlockFacts DEF block_end
    <3> QED BY <1>6, <3>1
  <2> QED BY <1>6, <2>1, <2>2 DEF Block, block_end, MIN_BLOCK_SIZE, HEADER_SIZE, ALIGN
<1>10. p > 0 => block_end(f[p]) < m.at
  <2> SUFFICES ASSUME p > 0 PROVE block_end(f[p]) < at
    BY <1>9
  <2>1. CASE left
    <3>1. p = i - 2 /\ p \in 1..Len(f) /\ i - 1 \in 1..Len(f) /\ p < i - 1
      BY <1>2, <2>1
    <3> QED BY <1>1, <2>1, <3>1 DEF Ordered, at
  <2>2. CASE ~left
    <3>1. p = i - 1 /\ p \in 1..Len(f) /\ i > 1 /\ at = b.at
      BY <1>2, <2>2 DEF at
    <3>2. block_end(f[p]) # b.at /\ block_end(f[p]) <= b.at
      BY <1>4, <2>2, <3>1 DEF left
    <3>3. block_end(f[p]) \in Nat /\ b.at \in Nat
      BY <1>1, <1>3, <3>1, BlockFacts
    <3> QED BY <3>1, <3>2, <3>3
  <2> QED BY <2>1, <2>2
<1>11. q <= Len(f) => block_end(m) < f[q].at
  <2> SUFFICES ASSUME q <= Len(f) PROVE end < f[q].at
    BY <1>9
  <2>1. CASE right
    <3>1. q = i + 1 /\ q \in 1..Len(f) /\ i \in 1..Len(f) /\ i < q
      BY <1>2, <2>1
    <3> QED BY <1>1, <2>1, <3>1 DEF Ordered, end
  <2>2. CASE ~right
    <3>1. q = i /\ q \in 1..Len(f) /\ i <= Len(f) /\ end = block_end(b)
      BY <1>2, <2>2 DEF end
    <3>2. block_end(b) # f[q].at /\ block_end(b) <= f[q].at
      BY <1>5, <2>2, <3>1 DEF right
    <3>3. block_end(b) \in Nat /\ f[q].at \in Nat
      BY <1>1, <1>3, <3>1, BlockFacts
    <3> QED BY <3>1, <3>2, <3>3
  <2> QED BY <2>1, <2>2
<1> DEFINE K == Kept(f, p, q)
<1>12. BlocksOf(f) = K \cup L /\ K \cap L = {} /\ K \subseteq Block
  <2> HIDE DEF p, q
  <2> QED BY <1>1, <1>8, KeptBlocks
<1>13. t \in Seq(Block) /\ Ordered(t) /\ BlocksOf(t) = K \cup {m}
  <2> HIDE DEF p, q, m, t
  <2>1. LET u == splice(f, p, <<m>>, q)
        IN  u \in Seq(Block) /\ Ordered(u) /\ BlocksOf(u) = Kept(f, p, q) \cup {m}
    BY <1>1, <1>8, <1>9, <1>10, <1>11, SpliceOne
  <2> QED BY <1>7, <2>1
<1>14. \A x : x \in L <=> (left /\ x = f[i - 1]) \/ (right /\ x = f[i])
  <2>1. \A k : k \in p + 1 .. q - 1 <=> (left /\ k = i - 1) \/ (right /\ k = i)
    BY <1>2, <1>8
  <2> HIDE DEF p, q
  <2> QED BY <2>1
<1>15. \A a \in Nat : (\E x \in L \cup {b} : Covers(x, a)) <=> Covers(m, a)
  <2> TAKE a \in Nat
  <2>1. (\E x \in L \cup {b} : Covers(x, a))
          <=> Covers(b, a) \/ (left /\ Covers(f[i - 1], a)) \/ (right /\ Covers(f[i], a))
    BY <1>14
  <2>2. b.at \in Nat /\ block_end(b) \in Nat /\ b.at < block_end(b)
    BY <1>1, BlockFacts
  <2>3. left => /\ f[i - 1].at \in Nat /\ block_end(f[i - 1]) = b.at
                /\ f[i - 1].at < block_end(f[i - 1])
    BY <1>3, <1>4, BlockFacts DEF left
  <2>4. right => /\ f[i].at = block_end(b) /\ block_end(f[i]) \in Nat
                 /\ f[i].at < block_end(f[i])
    BY <1>3, <1>5, BlockFacts DEF right
  <2>5. Covers(m, a) <=> at <= a /\ a < end
    BY <1>9 DEF Covers
  <2>6. at <= a <=> b.at <= a \/ (left /\ f[i - 1].at <= a)
    BY <2>2, <2>3 DEF at
  <2>7. a < end <=> a < block_end(b) \/ (right /\ a < block_end(f[i]))
    BY <2>2, <2>4 DEF end
  <2>8. Covers(b, a) <=> b.at <= a /\ a < block_end(b)
    BY DEF Covers
  <2>9. left => (Covers(f[i - 1], a) <=> f[i - 1].at <= a /\ a < b.at)
    BY <2>3 DEF Covers
  <2>10. right => (Covers(f[i], a) <=> block_end(b) <= a /\ a < block_end(f[i]))
    BY <2>4 DEF Covers
  <2>11. CASE a < b.at
    BY <2>1, <2>2, <2>4, <2>5, <2>6, <2>7, <2>8, <2>9, <2>10, <2>11
  <2>12. CASE b.at <= a
    BY <2>1, <2>2, <2>5, <2>6, <2>7, <2>8, <2>9, <2>10, <2>12
  <2> QED BY <2>2, <2>11, <2>12
<1> DEFINE B == K \cup S
           X == L \cup {b}
           Y == {m}
<1> HIDE DEF p, q, m, t, K, L
<1>16. /\ B \in SUBSET Block /\ X \in SUBSET Block /\ Y \in SUBSET Block
       /\ B \cap X = {} /\ B \cup X = BlocksOf(f) \cup (S \cup {b})
  <2>1. BlocksOf(f) \subseteq Block
    BY <1>1 DEF BlocksOf
  <2> QED BY <1>1, <1>9, <1>12, <2>1
<1>17. Tiles(B \cup X, lo, hi)
  BY <1>1, <1>16, Zenon
<1>18. /\ \A x, y \in Y : x = y \/ block_end(x) <= y.at \/ block_end(y) <= x.at
       /\ \A a \in Nat : (\E x \in X : Covers(x, a)) <=> (\E y \in Y : Covers(y, a))
  BY <1>15
<1>19. B \cap Y = {} /\ Tiles(B \cup Y, lo, hi)
  <2> HIDE DEF B, X, Y
  <2> QED BY <1>16, <1>17, <1>18, Retile, Zenon
<1>20. BlocksOf(t) \cap S = {} /\ BlocksOf(t) \cup S = B \cup Y
  BY <1>1, <1>12, <1>13, <1>19
<1>21. m.size >= b.size
  <2>1. /\ b.at \in Nat /\ b.size \in Nat /\ block_end(b) = b.at + b.size
        /\ m.size \in Nat /\ block_end(m) = m.at + m.size
    BY <1>1, <1>9, BlockFacts DEF block_end
  <2>2. m.at <= b.at /\ block_end(b) <= block_end(m) /\ m.at \in Nat
    BY <1>6, <1>9
  <2> QED BY <2>1, <2>2
<1> QED BY <1>1, <1>13, <1>19, <1>20, <1>21, Zenon DEF Heap, t

\* The pages that grow_heap adds lie above every block.
LEMMA GrowKeeps ==
    ASSUME NEW f, NEW S, NEW lo \in Nat, NEW hi \in Nat, lo <= hi, Heap(f, S, lo, hi),
           NEW b \in Block, b.at = hi
    PROVE  b \notin S /\ Heap(f, S \cup {b}, lo, block_end(b))
<1> DEFINE B == BlocksOf(f) \cup S
<1>1. /\ f \in Seq(Block) /\ S \subseteq Block /\ Ordered(f)
      /\ BlocksOf(f) \cap S = {} /\ Tiles(B, lo, hi)
  BY DEF Heap
<1>2. \A c \in B : c \in Block /\ lo <= c.at /\ block_end(c) <= b.at /\ c.at \in Nat
                  /\ block_end(c) \in Nat /\ c.at < block_end(c)
  BY <1>1, BlockFacts DEF BlocksOf, Tiles
<1>3. b.at \in Nat /\ block_end(b) \in Nat /\ b.at < block_end(b)
  BY BlockFacts
<1>4. b \notin B
  BY <1>2, <1>3
<1> HIDE DEF B
<1>5. Tiles(B \cup {b}, lo, block_end(b))
  <2>1. \A c \in B \cup {b} : lo <= c.at /\ block_end(c) <= block_end(b)
    BY <1>2, <1>3
  <2>2. \A c, d \in B \cup {b} : c = d \/ block_end(c) <= d.at \/ block_end(d) <= c.at
    BY <1>1, <1>2 DEF Tiles
  <2>3. ASSUME NEW a \in lo..block_end(b) - 1
        PROVE  \E c \in B \cup {b} : c.at <= a /\ a < block_end(c)
    <3>1. CASE a < hi
      <4>1. a \in lo..hi - 1
        BY <1>3, <3>1
      <4> QED BY <1>1, <4>1 DEF Tiles
    <3>2. CASE ~(a < hi)
      <4>1. b.at <= a /\ a < block_end(b)
        BY <1>3, <3>2
      <4> QED BY <4>1
    <3> QED BY <3>1, <3>2
  <2> QED BY <2>1, <2>2, <2>3 DEF Tiles
<1>6. BlocksOf(f) \cup (S \cup {b}) = B \cup {b} /\ BlocksOf(f) \cap (S \cup {b}) = {} /\ b \notin S
  BY <1>1, <1>4 DEF B
<1> QED BY <1>1, <1>5, <1>6, Zenon DEF Heap

\* What align_up returns for the two alignments it is called with.
LEMMA AlignUp ==
    ASSUME NEW x \in Nat
    PROVE  /\ align_up(x, 16) \in Nat /\ align_up(x, 16) >= x /\ align_up(x, 16) % 16 = 0
           /\ align_up(x, 4096) \in Nat /\ align_up(x, 4096) >= x /\ align_up(x, 4096) % 16 = 0
BY DEF align_up

\* A request needs a block that can be one, and its pages are one.
LEMMA Requests ==
    ASSUME HeapConstants, TypeOK, NEW size \in Sizes
    PROVE  /\ needed_for(size) \in Nat /\ needed_for(size) % 16 = 0 /\ needed_for(size) >= 32
           /\ pages_for(size) \in Block /\ pages_for(size).at = brk
           /\ pages_for(size).size >= needed_for(size)
<1> DEFINE n == IF size = 0 THEN 1 ELSE size
           r == align_up(n, 16)
           w == align_up(needed_for(size), 4096)
<1>1. n \in Nat /\ n >= 1
  BY DEF HeapConstants
<1>2. r \in Nat /\ r >= n /\ r % 16 = 0
  <2> HIDE DEF n
  <2> QED BY <1>1, AlignUp
<1>3. needed_for(size) = 16 + r
  BY DEF needed_for, HEADER_SIZE, ALIGN
<1> HIDE DEF n, r
<1>4. needed_for(size) \in Nat /\ needed_for(size) % 16 = 0 /\ needed_for(size) >= 32
  BY <1>1, <1>2, <1>3
<1>5. w \in Nat /\ w >= needed_for(size) /\ w % 16 = 0
  <2> HIDE DEF w
  <2> QED BY <1>4, AlignUp DEF w
<1>6. pages_for(size) = [at |-> brk, size |-> w]
  BY DEF pages_for, PGSIZE
<1> HIDE DEF w
<1>7. brk \in Nat /\ brk % 16 = 0 /\ w >= 32
  BY <1>4, <1>5 DEF TypeOK, ALIGN
<1>8. pages_for(size) \in Block
  BY <1>5, <1>6, <1>7 DEF Block, MIN_BLOCK_SIZE, HEADER_SIZE, ALIGN
<1> QED BY <1>4, <1>5, <1>6, <1>8
-----------------------------------------------------------------------------
(* The inductive invariant: the free list in order, and no byte lost.        *)
IInv == TypeOK /\ Base <= brk /\ Heap(free, used, Base, brk)

\* grow_heap leaves a list with a block that serves the request.
LEMMA Grown ==
    ASSUME HeapConstants, IInv, NEW size \in Sizes, NEW i \in 1..Len(free) + 1, grow_heap(size, i)
    PROVE  LET grown == insert_free_block(free, pages_for(size), i)
           IN  /\ Heap(grown, used, Base, brk')
               /\ \E j \in 1..Len(grown) : grown[j].size >= needed_for(size)
               /\ brk' \in Nat /\ brk' % 16 = 0 /\ Base <= brk'
<1> DEFINE b == pages_for(size)
           grown == insert_free_block(free, b, i)
<1>1. /\ needed_for(size) \in Nat /\ b \in Block /\ b.at = brk /\ b.size >= needed_for(size)
  BY Requests DEF IInv
<1>2. brk' = block_end(b) /\ place(free, b, i)
  BY <1>1 DEF grow_heap, block_end
<1>3. Base \in Nat /\ brk \in Nat /\ brk % 16 = 0 /\ Base <= brk /\ Heap(free, used, Base, brk)
  BY DEF IInv, TypeOK, HeapConstants, ALIGN
<1> HIDE DEF b
<1>4. b \notin used /\ Heap(free, used \cup {b}, Base, block_end(b))
  BY <1>1, <1>3, GrowKeeps, Zenon
<1>5. block_end(b) \in Nat /\ block_end(b) % 16 = 0 /\ Base <= block_end(b)
  <2>1. b.at \in Int /\ b.size \in Int /\ b.at % 16 = 0 /\ b.size % 16 = 0
    BY <1>1, BlockFacts
  <2>2. (b.at + b.size) % 16 = 0
    BY <2>1, Multiples, Zenon
  <2>3. block_end(b) \in Nat /\ b.at < block_end(b)
    BY <1>1, BlockFacts
  <2> QED BY <1>1, <1>3, <2>2, <2>3 DEF block_end
<1>6. Heap(grown, used, Base, block_end(b)) /\ \E c \in BlocksOf(grown) : c.size >= b.size
  BY <1>2, <1>3, <1>4, <1>5, InsertKeeps
<1> HIDE DEF grown
<1>7. \E j \in 1..Len(grown) : grown[j].size >= needed_for(size)
  <2>1. PICK j \in 1..Len(grown) : grown[j].size >= b.size
    BY <1>6 DEF BlocksOf
  <2>2. grown[j] \in Block
    BY <1>6 DEF Heap
  <2>3. grown[j].size \in Nat /\ b.size \in Nat
    BY <1>1, <2>2, BlockFacts
  <2> QED BY <1>1, <2>1, <2>3
<1>8. Heap(grown, used, Base, brk') /\ brk' \in Nat /\ brk' % 16 = 0 /\ Base <= brk'
  BY <1>2, <1>5, <1>6
<1> QED BY <1>7, <1>8, Zenon DEF grown, b

\* What the invariant needs once the new list and the new set are whole.
LEMMA Whole ==
    ASSUME Heap(free', used', Base, brk'), brk' \in Nat, brk' % 16 = 0, Base <= brk'
    PROVE  IInv'
BY Zenon DEF IInv, TypeOK, Heap, ALIGN

\* A heap that is new has nothing in it.
LEMMA InitWhole ==
    ASSUME HeapConstants, Init
    PROVE  IInv
<1>1. /\ free = <<>> /\ used = {} /\ brk = Base /\ Base \in Nat
  BY DEF Init, HeapConstants
<1>2. Base % 16 = 0
  BY DEF HeapConstants, PGSIZE
<1>3. BlocksOf(free) \cup used = {} /\ Ordered(free) /\ free \in Seq(Block)
  BY <1>1 DEF BlocksOf, Ordered
<1>4. Tiles({}, Base, Base)
  BY <1>1 DEF Tiles
<1>5. BlocksOf(free) \cap used = {} /\ used \subseteq Block
  BY <1>1
<1>6. Heap(free, used, Base, brk)
  BY <1>1, <1>3, <1>4, <1>5 DEF Heap
<1>7. TypeOK /\ Base <= brk
  BY <1>1, <1>2, <1>3, <1>5 DEF TypeOK, ALIGN
<1> QED BY <1>6, <1>7 DEF IInv

\* Every call keeps the invariant, and none grows the heap in vain.
LEMMA StepWhole ==
    ASSUME HeapConstants, IInv, [Next]_vars
    PROVE  IInv' /\ [\A size \in Sizes : ~AllocInVain(size)]_vars
<1>0. Base \in Nat /\ brk \in Nat /\ brk % 16 = 0 /\ Base <= brk /\ Heap(free, used, Base, brk)
  BY DEF IInv, TypeOK, HeapConstants, ALIGN
<1>1. ASSUME NEW size \in Sizes, AllocFits(size) PROVE IInv'
  <2>1. PICK i \in 1..Len(free) :
          /\ free[i].size >= needed_for(size)
          /\ used' = used \cup {taken(free[i], needed_for(size))}
          /\ free' = remaining(free, i, needed_for(size)) /\ brk' = brk
    BY <1>1 DEF AllocFits, first_fit
  <2>2. needed_for(size) \in Nat /\ needed_for(size) % 16 = 0 /\ needed_for(size) >= 32
    BY Requests DEF IInv
  <2>3. Heap(free', used', Base, brk')
    BY <1>0, <2>1, <2>2, TakeKeeps
  <2> QED BY <1>0, <2>1, <2>3, Whole
<1>2. ASSUME NEW size \in Sizes, AllocGrows(size) PROVE IInv'
  <2>1. PICK i \in 1..Len(free) + 1 :
          LET grown == insert_free_block(free, pages_for(size), i)
          IN  /\ grow_heap(size, i)
              /\ \E j \in 1..Len(grown) :
                    /\ first_fit(grown, needed_for(size), j)
                    /\ used' = used \cup {taken(grown[j], needed_for(size))}
                    /\ free' = remaining(grown, j, needed_for(size))
    BY <1>2 DEF AllocGrows
  <2> DEFINE grown == insert_free_block(free, pages_for(size), i)
  <2>2. PICK j \in 1..Len(grown) :
          /\ grown[j].size >= needed_for(size)
          /\ used' = used \cup {taken(grown[j], needed_for(size))}
          /\ free' = remaining(grown, j, needed_for(size))
    BY <2>1 DEF first_fit
  <2>3. needed_for(size) \in Nat /\ needed_for(size) % 16 = 0 /\ needed_for(size) >= 32
    BY Requests DEF IInv
  <2>4. Heap(grown, used, Base, brk') /\ brk' \in Nat /\ brk' % 16 = 0 /\ Base <= brk'
    BY <2>1, Grown
  <2> HIDE DEF grown
  <2>5. Heap(free', used', Base, brk')
    BY <1>0, <2>2, <2>3, <2>4, TakeKeeps
  <2> QED BY <2>4, <2>5, Whole
<1>3. ASSUME NEW size \in Sizes PROVE ~AllocInVain(size)
  <2> SUFFICES ASSUME AllocInVain(size) PROVE FALSE
    OBVIOUS
  <2>1. PICK i \in 1..Len(free) + 1 :
          /\ grow_heap(size, i)
          /\ no_fit(insert_free_block(free, pages_for(size), i), needed_for(size))
    BY DEF AllocInVain
  <2> DEFINE grown == insert_free_block(free, pages_for(size), i)
  <2>2. Heap(grown, used, Base, brk') /\ \E j \in 1..Len(grown) : grown[j].size >= needed_for(size)
    BY <2>1, Grown
  <2>3. no_fit(grown, needed_for(size))
    BY <2>1
  <2> HIDE DEF grown
  <2>4. PICK j \in 1..Len(grown) : grown[j].size >= needed_for(size)
    BY <2>2
  <2>5. grown[j].size < needed_for(size)
    BY <2>3 DEF no_fit
  <2>6. grown[j].size \in Nat /\ needed_for(size) \in Nat
    <3>1. grown[j] \in Block
      BY <2>2 DEF Heap
    <3> QED BY <3>1, BlockFacts, Requests DEF IInv
  <2> QED BY <2>4, <2>5, <2>6
<1>4. ASSUME NEW b \in used, Dealloc(b) PROVE IInv'
  <2>1. PICK i \in 1..Len(free) + 1 :
          place(free, b, i) /\ free' = insert_free_block(free, b, i)
    BY <1>4 DEF Dealloc
  <2>2. used' = used \ {b} /\ brk' = brk /\ (used \ {b}) \cup {b} = used
    BY <1>4 DEF Dealloc
  <2> DEFINE S == used \ {b}
  <2>3. Heap(free, S \cup {b}, Base, brk) /\ b \notin S
    BY <1>0, <2>2, Zenon
  <2> HIDE DEF S
  <2>4. Heap(free', S, Base, brk)
    BY <1>0, <2>1, <2>3, InsertKeeps
  <2> QED BY <1>0, <2>2, <2>4, Whole DEF S
<1>5. ASSUME UNCHANGED vars PROVE IInv'
  <2>1. free' = free /\ used' = used /\ brk' = brk
    BY <1>5 DEF vars
  <2> QED BY <1>0, <2>1, Whole
<1>6. \A size \in Sizes : AllocFails(size) => UNCHANGED vars
  BY DEF AllocFails
<1> QED BY <1>1, <1>2, <1>3, <1>4, <1>5, <1>6 DEF Next

\* With nothing in use the free list is one block: a second one would leave a
\* gap behind the first that no block covers.
LEMMA Healed ==
    ASSUME HeapConstants, IInv
    PROVE  FragmentsHeal
<1> SUFFICES ASSUME used = {}
             PROVE  \/ free = <<>> /\ brk = Base
                    \/ free = <<[at |-> Base, size |-> brk - Base]>>
  BY DEF FragmentsHeal
<1>1. /\ Base \in Nat /\ brk \in Nat /\ Base <= brk
      /\ free \in Seq(Block) /\ Ordered(free) /\ Tiles(BlocksOf(free), Base, brk)
  BY DEF IInv, TypeOK, HeapConstants, Heap
<1>2. /\ \A k \in 1..Len(free) : Base <= free[k].at /\ block_end(free[k]) <= brk
      /\ \A a \in Base..brk - 1 : \E k \in 1..Len(free) :
            free[k].at <= a /\ a < block_end(free[k])
  BY <1>1 DEF Tiles, BlocksOf
<1>3. \A k \in 1..Len(free) : /\ free[k] \in Block /\ free[k].at \in Nat
                              /\ block_end(free[k]) \in Nat /\ free[k].at < block_end(free[k])
  BY <1>1, BlockFacts
<1>4. Len(free) \in Nat
  BY <1>1
<1>5. CASE Len(free) = 0
  <2>1. free = <<>>
    BY <1>1, <1>5
  <2>2. ~(Base < brk)
    <3> SUFFICES ASSUME Base < brk PROVE FALSE
      OBVIOUS
    <3>1. Base \in Base..brk - 1 /\ 1..Len(free) = {}
      BY <1>1, <1>5
    <3> QED BY <1>2, <3>1
  <2> QED BY <1>1, <2>1, <2>2
<1>6. CASE Len(free) > 0
  <2>1. 1 \in 1..Len(free)
    BY <1>4, <1>6
  <2>2. ASSUME NEW k \in 1..Len(free), k # 1 PROVE block_end(free[1]) < free[k].at
    BY <1>1, <1>4, <2>1, <2>2 DEF Ordered
  <2>3. Len(free) = 1
    <3> SUFFICES ASSUME Len(free) # 1 PROVE FALSE
      OBVIOUS
    <3>1. 2 \in 1..Len(free)
      <4> DEFINE n == Len(free)
      <4>1. n \in Nat /\ n > 0 /\ n # 1
        BY <1>4, <1>6
      <4> HIDE DEF n
      <4>2. 2 \in 1..n
        BY <4>1
      <4> QED BY <4>2 DEF n
    <3>2. block_end(free[1]) \in Base..brk - 1
      <4>1. block_end(free[1]) < free[2].at
        BY <2>2, <3>1
      <4>2. /\ block_end(free[1]) \in Nat /\ free[1].at < block_end(free[1])
            /\ Base <= free[1].at /\ free[1].at \in Nat
        BY <1>2, <1>3, <2>1
      <4>3. free[2].at \in Nat /\ free[2].at < block_end(free[2]) /\ block_end(free[2]) <= brk
            /\ block_end(free[2]) \in Nat
        BY <1>2, <1>3, <3>1
      <4> QED BY <1>1, <4>1, <4>2, <4>3
    <3>3. PICK k \in 1..Len(free) : free[k].at <= block_end(free[1])
                                  /\ block_end(free[1]) < block_end(free[k])
      BY <1>2, <3>2
    <3> QED BY <1>3, <2>1, <2>2, <3>3
  <2>4. 1..Len(free) = {1}
    BY <2>3
  <2>5. /\ free[1] \in Block /\ free[1].at \in Nat /\ block_end(free[1]) \in Nat
        /\ free[1].at < block_end(free[1]) /\ Base <= free[1].at /\ block_end(free[1]) <= brk
    BY <1>2, <1>3, <2>1
  <2>6. Base \in Base..brk - 1 /\ brk - 1 \in Base..brk - 1
    BY <1>1, <2>5
  <2>7. \A a \in Base..brk - 1 : free[1].at <= a /\ a < block_end(free[1])
    BY <1>2, <2>4
  <2>8. free[1].at = Base /\ block_end(free[1]) = brk
    BY <1>1, <2>5, <2>6, <2>7
  <2>9. free[1] = [at |-> Base, size |-> brk - Base]
    <3>1. free[1].size \in Nat /\ free[1].at + free[1].size = brk
      BY <2>5, <2>8, BlockFacts DEF block_end
    <3>2. free[1].size = brk - Base
      BY <1>1, <2>8, <3>1
    <3>3. free[1] = [at |-> free[1].at, size |-> free[1].size]
      BY <2>5 DEF Block
    <3> QED BY <2>8, <3>2, <3>3
  <2>10. free = <<free[1]>>
    BY <1>1, <2>3
  <2> QED BY <2>9, <2>10
<1> QED BY <1>4, <1>5, <1>6

\* Whatever the program allocates and frees, and in whatever order, alloc and
\* dealloc keep the blocks of the heap typed, ordered and whole.
THEOREM HeapInvariant ==
    ASSUME HeapConstants
    PROVE  Spec => []IInv
<1>1. Init => IInv
  BY InitWhole
<1>2. IInv /\ [Next]_vars => IInv'
  BY StepWhole
<1> QED BY <1>1, <1>2, PTL DEF Spec

\* alloc hands out no byte twice and dealloc loses none: the blocks in use and
\* those of the free list partition what sbrk gave.
THEOREM HeapStaysWhole ==
    ASSUME HeapConstants
    PROVE  Spec => [](FreeListCoalesced /\ HeapPartitioned)
<1>1. IInv => FreeListCoalesced /\ HeapPartitioned
  BY DEF IInv, Heap, FreeListCoalesced, HeapPartitioned
<1> QED BY <1>1, HeapInvariant, PTL

\* insert_free_block undoes all fragmentation: when the last block is freed, the
\* heap is a single free block.
THEOREM FragmentationHeals ==
    ASSUME HeapConstants
    PROVE  Spec => []FragmentsHeal
<1>1. IInv => FragmentsHeal
  BY Healed
<1> QED BY <1>1, HeapInvariant, PTL

\* The search of alloc after grow_heap always finds a block: the null it could
\* return there is never returned.
THEOREM GrowthNeverInVain ==
    ASSUME HeapConstants
    PROVE  Spec => GrowthServes
<1>1. IInv /\ [Next]_vars => [\A size \in Sizes : ~AllocInVain(size)]_vars
  BY StepWhole
<1> QED BY <1>1, HeapInvariant, PTL DEF Spec, GrowthServes
=============================================================================
