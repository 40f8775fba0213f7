--------------------------- MODULE ChunkingProofs ---------------------------
(***************************************************************************)
(* Theorems about Chunking.tla, for any texts, sizes and overlaps.         *)
(***************************************************************************)
EXTENDS Chunking, FiniteSetTheorems, WellFoundedInduction, TLAPS

-----------------------------------------------------------------------------
(* Induction over the natural numbers, on sets.                            *)

\* A set of natural numbers has a least element.
LEMMA LeastNatural ==
  ASSUME NEW S \in SUBSET Nat, S # {}
  PROVE  \E m \in S : \A n \in S : m <= n
<1>1. \E m \in S : \A n \in S : <<n, m>> \notin OpToRel(<, Nat)
  BY NatLessThanWellFounded, WFMin
<1>2. \A m, n \in S : <<n, m>> \notin OpToRel(<, Nat) => m <= n
  BY DEF OpToRel
<1> QED BY <1>1, <1>2

\* What holds of 0 and is passed on to successors holds of every number.
LEMMA NaturalInduction ==
  ASSUME NEW S, 0 \in S, \A n \in Nat : n \in S => n + 1 \in S
  PROVE  Nat \subseteq S
<1> SUFFICES ASSUME Nat \ S # {} PROVE FALSE
  OBVIOUS
<1>1. PICK m \in Nat \ S : \A n \in Nat \ S : m <= n
  BY LeastNatural
<1>2. m - 1 \in Nat /\ m - 1 \in S
  BY <1>1
<1> QED BY <1>1, <1>2

\* A bounded set of integers has a least element.
LEMMA LeastInteger ==
  ASSUME NEW a \in Int, NEW b \in Int, NEW S, \A n \in S : n \in a..b, S # {}
  PROVE  \E m \in S : \A n \in S : m <= n
<1> DEFINE D == {n - a : n \in S}
<1>1. \A n \in S : n \in Int /\ n - a \in Nat /\ n - a \in D
  OBVIOUS
<1>2. \A d \in D : d \in Nat /\ \E n \in S : d = n - a
  BY <1>1
<1>3. D \in SUBSET Nat /\ D # {}
  BY <1>1, <1>2, Zenon
<1> HIDE DEF D
<1>4. PICK d \in D : \A e \in D : d <= e
  BY <1>3, LeastNatural
<1>5. PICK m \in S : d = m - a
  BY <1>2
<1>6. ASSUME NEW n \in S PROVE m <= n
  <2>1. m - a <= n - a
    BY <1>1, <1>4, <1>5
  <2> QED BY <1>1, <2>1
<1> QED BY <1>6

\* And a greatest one.
LEMMA GreatestInteger ==
  ASSUME NEW a \in Int, NEW b \in Int, NEW S, \A n \in S : n \in a..b, S # {}
  PROVE  \E m \in S : \A n \in S : n <= m
<1> DEFINE D == {-n : n \in S}
<1>1. \A n \in S : n \in Int /\ -n \in (-b)..(-a) /\ -n \in D
  OBVIOUS
<1>2. \A d \in D : d \in (-b)..(-a) /\ \E n \in S : d = -n
  BY <1>1
<1>3. -a \in Int /\ -b \in Int /\ D # {}
  <2>1. D # {}
    BY <1>1, Zenon
  <2> QED BY <2>1
<1> HIDE DEF D
<1>4. PICK d \in D : \A e \in D : d <= e
  BY <1>2, <1>3, LeastInteger
<1>5. PICK m \in S : d = -m
  BY <1>2
<1>6. ASSUME NEW n \in S PROVE n <= m
  <2>1. -m <= -n
    BY <1>1, <1>4, <1>5
  <2> QED BY <1>1, <2>1
<1> QED BY <1>6

-----------------------------------------------------------------------------
(* The cost of a buffer.                                                   *)

\* f gives the cost of the first pieces of b, up to n of them.
Sums(f, b, n) ==
  f = [i \in 0..n |-> IF i = 0 THEN 0 ELSE f[i - 1] + length(b[i]) + 1]

\* The recursive definition in Cost defines something.
LEMMA SumsExist == \A b : \A n \in Nat : \E f : Sums(f, b, n)
<1> SUFFICES ASSUME NEW b PROVE \A n \in Nat : \E f : Sums(f, b, n)
  OBVIOUS
<1> DEFINE S == {n \in Nat : \E f : Sums(f, b, n)}
<1>1. 0 \in S
  <2> DEFINE f == [i \in 0..0 |-> 0]
  <2>1. Sums(f, b, 0)
    BY DEF Sums
  <2> QED BY <2>1
<1>2. ASSUME NEW n \in Nat, n \in S PROVE n + 1 \in S
  <2>1. PICK f : Sums(f, b, n)
    BY <1>2
  <2> DEFINE g == [i \in 0..(n + 1) |->
                     IF i = 0 THEN 0 ELSE f[i - 1] + length(b[i]) + 1]
  <2>2. \A i \in 0..n : f[i] = g[i]
    BY <2>1 DEF Sums
  <2>3. \A i \in 0..(n + 1) :
          g[i] = IF i = 0 THEN 0 ELSE g[i - 1] + length(b[i]) + 1
    BY <2>2
  <2>4. Sums(g, b, n + 1)
    BY <2>3 DEF Sums
  <2> QED BY <2>4
<1> HIDE DEF S
<1>3. Nat \subseteq S
  BY <1>1, <1>2, NaturalInduction
<1> QED BY <1>3 DEF S

\* Cost is the last of these sums.
LEMMA CostIsSum ==
  ASSUME NEW b, Len(b) \in Nat
  PROVE  \E f : Sums(f, b, Len(b)) /\ Cost(b) = f[Len(b)]
<1> DEFINE F == CHOOSE f : Sums(f, b, Len(b))
<1>1. Sums(F, b, Len(b))
  BY SumsExist
<1>2. Cost(b) = F[Len(b)]
  BY DEF Cost, Sums
<1> QED BY <1>1, <1>2

Section == [start_char : Nat, end_char : Nat]

\* Sequences that begin alike have the same sums up to there.
LEMMA SumsAgree ==
  ASSUME NEW b, NEW c, NEW n \in Nat, NEW m \in Nat, n <= m,
         \A i \in 1..n : b[i] = c[i],
         NEW f, NEW g, Sums(f, b, n), Sums(g, c, m)
  PROVE  \A i \in 0..n : f[i] = g[i]
<1> DEFINE S == {i \in Nat : i <= n => f[i] = g[i]}
<1>1. 0 \in S
  BY DEF Sums
<1>2. ASSUME NEW i \in Nat, i \in S PROVE i + 1 \in S
  <2> SUFFICES ASSUME i + 1 <= n PROVE f[i + 1] = g[i + 1]
    OBVIOUS
  <2>1. f[i + 1] = f[i] + length(b[i + 1]) + 1
    BY DEF Sums
  <2>2. g[i + 1] = g[i] + length(c[i + 1]) + 1
    BY DEF Sums
  <2> QED BY <1>2, <2>1, <2>2
<1> HIDE DEF S
<1>3. Nat \subseteq S
  BY <1>1, <1>2, NaturalInduction
<1> QED BY <1>3 DEF S

\* The cost of no pieces, and of one more.
LEMMA CostEmpty == Cost(<< >>) = 0
<1>1. PICK f : Sums(f, << >>, 0) /\ Cost(<< >>) = f[0]
  BY CostIsSum
<1> QED BY <1>1 DEF Sums

LEMMA CostAppend ==
  ASSUME NEW b \in Seq(Section), NEW p \in Section
  PROVE  Cost(Append(b, p)) = Cost(b) + length(p) + 1
<1> DEFINE n == Len(b)
           c == Append(b, p)
<1>1. /\ n \in Nat /\ n + 1 \in Nat /\ Len(c) = n + 1
      /\ c[n + 1] = p /\ \A i \in 1..n : b[i] = c[i]
  OBVIOUS
<1> HIDE DEF c
<1>2. PICK f : Sums(f, b, n) /\ Cost(b) = f[n]
  BY <1>1, CostIsSum
<1>3. PICK g : Sums(g, c, n + 1) /\ Cost(c) = g[n + 1]
  BY <1>1, CostIsSum
<1>4. f[n] = g[n]
  <2> DEFINE m == n + 1
  <2>1. m \in Nat /\ n <= m /\ Sums(g, c, m)
    BY <1>1, <1>3
  <2> HIDE DEF n, m
  <2>2. \A i \in 0..n : f[i] = g[i]
    BY <1>1, <1>2, <2>1, SumsAgree
  <2> QED BY <1>1, <2>2
<1>5. g[n + 1] = g[n] + length(c[n + 1]) + 1
  BY <1>1, <1>3 DEF Sums
<1> QED BY <1>1, <1>2, <1>3, <1>4, <1>5 DEF c

\* A cost is an integer.
LEMMA CostTyped ==
  ASSUME NEW b \in Seq(Section)
  PROVE  Cost(b) \in Int
<1>1. PICK f : Sums(f, b, Len(b)) /\ Cost(b) = f[Len(b)]
  BY CostIsSum
<1> DEFINE S == {i \in Nat : i <= Len(b) => f[i] \in Int}
<1>2. 0 \in S
  BY <1>1 DEF Sums
<1>3. ASSUME NEW i \in Nat, i \in S PROVE i + 1 \in S
  <2> SUFFICES ASSUME i + 1 <= Len(b) PROVE f[i + 1] \in Int
    OBVIOUS
  <2>1. f[i + 1] = f[i] + length(b[i + 1]) + 1
    BY <1>1 DEF Sums
  <2>2. b[i + 1] \in Section
    OBVIOUS
  <2>3. length(b[i + 1]) \in Int
    BY <2>2 DEF Section, length
  <2> QED BY <1>3, <2>1, <2>3
<1> HIDE DEF S
<1>4. Nat \subseteq S
  BY <1>2, <1>3, NaturalInduction
<1> QED BY <1>1, <1>4 DEF S

-----------------------------------------------------------------------------
(* The stretches between separators.                                       *)

\* They are pieces, within p and free of separators.
LEMMA BetweenWithin ==
  ASSUME NEW p \in Section, NEW separators, NEW q \in Between(p, separators)
  PROVE  /\ q \in Section /\ Piece(q)
         /\ p.start_char <= q.start_char /\ q.end_char <= p.end_char
         /\ Positions(q) \subseteq Positions(p) \ separators
<1>1. /\ q \in [start_char : p.start_char..p.end_char, end_char : p.start_char..p.end_char]
      /\ Piece(q) /\ Positions(q) \cap separators = {}
  BY Zenon DEF Between
<1> QED BY <1>1 DEF Section, Piece, Positions

Disjoint(p, q) == p.end_char <= q.start_char \/ q.end_char <= p.start_char

\* Two of them do not overlap.
LEMMA BetweenDisjoint ==
  ASSUME NEW p \in Section, NEW separators,
         NEW q \in Between(p, separators), NEW r \in Between(p, separators), q # r
  PROVE  Disjoint(q, r)
<1>1. \A s \in Between(p, separators) :
        /\ s \in Section /\ Piece(s)
        /\ \A i \in Positions(s) : i \notin separators
        /\ p.start_char <= s.start_char /\ s.end_char <= p.end_char
        /\ s.start_char = p.start_char \/ s.start_char \in separators
        /\ s.end_char = p.end_char \/ s.end_char + 1 \in separators
  BY BetweenWithin DEF Between
<1>2. ASSUME NEW s \in Between(p, separators), NEW t \in Between(p, separators),
             s.start_char < t.start_char
      PROVE  s.end_char <= t.start_char
  <2>1. t.start_char \in separators
    BY <1>1, <1>2 DEF Section
  <2>2. t.start_char \notin Positions(s)
    BY <1>1, <2>1
  <2> QED BY <1>1, <1>2, <2>2 DEF Section, Positions
<1>3. ASSUME NEW s \in Between(p, separators), NEW t \in Between(p, separators),
             s.start_char = t.start_char, s.end_char < t.end_char
      PROVE  FALSE
  <2>1. s.end_char + 1 \in separators
    BY <1>1, <1>3 DEF Section
  <2>2. s.end_char + 1 \in Positions(t)
    BY <1>1, <1>3 DEF Section, Positions, Piece
  <2> QED BY <1>1, <2>1, <2>2
<1>4. q.start_char # r.start_char
  <2> SUFFICES ASSUME q.start_char = r.start_char PROVE FALSE
    OBVIOUS
  <2>1. q.end_char = r.end_char
    BY <1>1, <1>3 DEF Section
  <2> QED BY <1>1, <2>1 DEF Section
<1>5. q.start_char < r.start_char \/ r.start_char < q.start_char
  BY <1>1, <1>4 DEF Section
<1> QED BY <1>2, <1>5 DEF Disjoint

\* Every position that is no separator is in one of them.
LEMMA BetweenCovers ==
  ASSUME NEW p \in Section, NEW separators,
         NEW i \in Positions(p), i \notin separators
  PROVE  \E q \in Between(p, separators) : i \in Positions(q)
<1> DEFINE L == {j \in p.start_char..(i - 1) : j = p.start_char \/ j \in separators}
           R == {j \in i..p.end_char : j = p.end_char \/ j + 1 \in separators}
<1>1. /\ i \in Int /\ p.start_char < i /\ i <= p.end_char
      /\ p.start_char \in Int /\ p.end_char \in Int
  BY DEF Section, Positions
<1>2. PICK s \in L : \A j \in L : j <= s
  <2>1. p.start_char \in L
    BY <1>1
  <2>2. i - 1 \in Int /\ \A j \in L : j \in p.start_char..(i - 1)
    BY <1>1
  <2> HIDE DEF L
  <2> QED BY <1>1, <2>1, <2>2, GreatestInteger
<1>3. PICK e \in R : \A j \in R : e <= j
  <2>1. p.end_char \in R
    BY <1>1
  <2>2. \A j \in R : j \in i..p.end_char
    OBVIOUS
  <2> HIDE DEF R
  <2> QED BY <1>1, <2>1, <2>2, LeastInteger
<1> DEFINE q == [start_char |-> s, end_char |-> e]
<1>4. /\ s \in p.start_char..p.end_char /\ e \in p.start_char..p.end_char
      /\ s < i /\ i <= e /\ s \in Nat /\ e \in Nat
  BY <1>1 DEF Section
<1>5. Piece(q) /\ i \in Positions(q)
  BY <1>1, <1>4 DEF Piece, Positions
<1>6. Positions(q) \cap separators = {}
  <2> SUFFICES ASSUME NEW j \in (s + 1)..e, j \in separators PROVE FALSE
    BY DEF Positions
  <2>1. CASE j < i
    <3>1. j \in L
      BY <1>1, <1>4, <2>1
    <3> QED BY <1>2, <1>4, <3>1
  <2>2. CASE i < j
    <3>1. j - 1 \in R
      BY <1>1, <1>4, <2>2
    <3> QED BY <1>3, <1>4, <3>1
  <2> QED BY <1>1, <1>4, <2>1, <2>2
<1>7. q \in Between(p, separators)
  BY <1>4, <1>5, <1>6 DEF Between
<1> QED BY <1>5, <1>7

-----------------------------------------------------------------------------
(* A split of a section of the text.                                       *)

\* Pieces within p that do not overlap and leave nothing out but white space.
IsSplit(S, p, t) ==
  /\ \A q \in S : /\ q \in Section /\ Piece(q)
                  /\ p.start_char <= q.start_char /\ q.end_char <= p.end_char
  /\ \A q, r \in S : q # r => Disjoint(q, r)
  /\ \A i \in Positions(p) : t[i] \notin Spaces => \E q \in S : i \in Positions(q)

\* What is between separators of white space is a split.
LEMMA BetweenSplits ==
  ASSUME NEW p \in Section, NEW t, NEW separators,
         \A i \in separators : t[i] \in Spaces
  PROVE  IsSplit(Between(p, separators), p, t)
<1>1. \A i \in Positions(p) : t[i] \notin Spaces => i \notin separators
  OBVIOUS
<1> QED BY <1>1, BetweenWithin, BetweenDisjoint, BetweenCovers DEF IsSplit

\* So is what _split_pattern_with_offsets returns.
LEMMA SplitPatternSplits ==
  ASSUME NEW p \in Section, Piece(p), NEW t, NEW separators,
         \A i \in separators : t[i] \in Spaces
  PROVE  IsSplit(SplitPattern(p, separators), p, t)
<1>1. IsSplit({p}, p, t)
  BY DEF IsSplit, Section
<1> QED BY <1>1, BetweenSplits DEF SplitPattern

\* A split may be split further.
LEMMA SplitsCompose ==
  ASSUME NEW p \in Section, NEW t, NEW S, IsSplit(S, p, t),
         NEW F, \A s \in S : IsSplit(F[s], s, t)
  PROVE  IsSplit(UNION {F[s] : s \in S}, p, t)
<1> DEFINE U == UNION {F[s] : s \in S}
<1>1. \A q \in U : \E s \in S : q \in F[s]
  OBVIOUS
<1>2. \A s \in S : \A q \in F[s] : q \in U
  OBVIOUS
<1> HIDE DEF U
<1>3. ASSUME NEW q \in U
      PROVE  /\ q \in Section /\ Piece(q)
             /\ p.start_char <= q.start_char /\ q.end_char <= p.end_char
  <2>1. PICK s \in S : q \in F[s]
    BY <1>1
  <2>2. /\ q \in Section /\ Piece(q) /\ s \in Section
        /\ s.start_char <= q.start_char /\ q.end_char <= s.end_char
        /\ p.start_char <= s.start_char /\ s.end_char <= p.end_char
    BY <2>1 DEF IsSplit
  <2> QED BY <2>2 DEF Section
<1>4. ASSUME NEW q \in U, NEW r \in U, q # r
      PROVE  Disjoint(q, r)
  <2>1. PICK a \in S : q \in F[a]
    BY <1>1
  <2>2. PICK b \in S : r \in F[b]
    BY <1>1
  <2>3. CASE a = b
    BY <1>4, <2>1, <2>2, <2>3 DEF IsSplit
  <2>4. CASE a # b
    <3>1. Disjoint(a, b)
      BY <2>4 DEF IsSplit
    <3>2. /\ {a, b, q, r} \subseteq Section
          /\ a.start_char <= q.start_char /\ q.end_char <= a.end_char
          /\ b.start_char <= r.start_char /\ r.end_char <= b.end_char
      BY <2>1, <2>2 DEF IsSplit
    <3> QED BY <3>1, <3>2 DEF Disjoint, Section
  <2> QED BY <2>3, <2>4
<1>5. ASSUME NEW i \in Positions(p), t[i] \notin Spaces
      PROVE  \E q \in U : i \in Positions(q)
  <2>1. PICK s \in S : i \in Positions(s)
    BY <1>5 DEF IsSplit
  <2>2. PICK q \in F[s] : i \in Positions(q)
    BY <1>5, <2>1 DEF IsSplit
  <2> QED BY <1>2, <2>2
<1>6. IsSplit(U, p, t)
  BY <1>3, <1>4, <1>5 DEF IsSplit
<1> QED BY <1>6 DEF U

\* _split_recursively splits at white space, whatever is long.
LEMMA SplitRecursivelySplits ==
  ASSUME NEW p \in Section, Piece(p), NEW t
  PROVE  IsSplit(SplitRecursively(t, p), p, t)
<1>1. CASE Short(p)
  <2>1. IsSplit({p}, p, t)
    BY DEF IsSplit, Section
  <2> QED BY <1>1, <2>1 DEF SplitRecursively
<1>2. CASE ~Short(p)
  <2> DEFINE S == SplitPattern(p, SentenceBreaks(t, p))
             F == [s \in S |-> IF Short(s) THEN {s} ELSE SplitPattern(s, WordBreaks(t, s))]
  <2>1. \A i \in SentenceBreaks(t, p) : t[i] \in Spaces
    BY DEF SentenceBreaks
  <2>2. IsSplit(S, p, t)
    BY <2>1, SplitPatternSplits
  <2>3. ASSUME NEW s \in S PROVE IsSplit(F[s], s, t)
    <3>1. s \in Section /\ Piece(s)
      BY <2>2 DEF IsSplit
    <3>2. IsSplit({s}, s, t)
      BY <3>1 DEF IsSplit, Section
    <3>3. \A i \in WordBreaks(t, s) : t[i] \in Spaces
      BY DEF WordBreaks
    <3>4. IsSplit(SplitPattern(s, WordBreaks(t, s)), s, t)
      BY <3>1, <3>3, SplitPatternSplits
    <3> QED BY <3>2, <3>4
  <2>4. SplitRecursively(t, p) = UNION {F[s] : s \in S}
    BY <1>2 DEF SplitRecursively
  <2> HIDE DEF S, F
  <2> QED BY <2>2, <2>3, <2>4, SplitsCompose
<1> QED BY <1>1, <1>2

Whole(t) == [start_char |-> 0, end_char |-> Len(t)]

\* The pieces of a text lose nothing of it but white space.
LEMMA PieceSetSplits ==
  ASSUME NEW t \in Seq(Chars)
  PROVE  Whole(t) \in Section /\ IsSplit(PieceSet(t), Whole(t), t)
<1> DEFINE S == Between(Whole(t), ParagraphBreaks(t, Whole(t)))
           F == [p \in S |-> SplitRecursively(t, p)]
<1>1. Whole(t) \in Section
  BY DEF Whole, Section
<1>2. \A i \in ParagraphBreaks(t, Whole(t)) : t[i] \in Spaces
  BY DEF ParagraphBreaks, Spaces
<1>3. IsSplit(S, Whole(t), t)
  BY <1>1, <1>2, BetweenSplits
<1>4. \A p \in S : IsSplit(F[p], p, t)
  BY <1>3, SplitRecursivelySplits DEF IsSplit
<1>5. PieceSet(t) = UNION {F[p] : p \in S}
  BY DEF PieceSet, Whole
<1> HIDE DEF S, F
<1> QED BY <1>1, <1>3, <1>4, <1>5, SplitsCompose

-----------------------------------------------------------------------------
(* The pieces in order.                                                    *)

Sorted(s) == \A i, j \in DOMAIN s : i < j => s[i].start_char < s[j].start_char

\* A set of pieces that do not overlap can be put in order.
LEMMA SortedExists ==
  ASSUME NEW S, NEW m \in Nat,
         \A q \in S : q \in Section /\ Piece(q) /\ q.end_char <= m,
         \A q, r \in S : q # r => Disjoint(q, r)
  PROVE  /\ IsFiniteSet(S)
         /\ \E s \in [1..Cardinality(S) -> S] : Sorted(s)
<1> DEFINE Low(n) == {q \in S : q.start_char < n}
           Good(T) == /\ IsFiniteSet(T)
                      /\ \E s \in [1..Cardinality(T) -> T] : Sorted(s)
           N == {n \in Nat : Good(Low(n))}
<1>1. Good(Low(0))
  <2>1. Low(0) = {}
    BY DEF Section
  <2>2. IsFiniteSet({}) /\ Cardinality({}) = 0
    BY FS_EmptySet
  <2> DEFINE s == [i \in 1..0 |-> i]
  <2>3. s \in [1..0 -> {}] /\ Sorted(s)
    BY DEF Sorted
  <2> QED BY <2>1, <2>2, <2>3
<1>2. ASSUME NEW n \in Nat, Good(Low(n)) PROVE Good(Low(n + 1))
  <2>1. CASE \A q \in S : q.start_char # n
    <3>1. Low(n + 1) = Low(n)
      BY <2>1 DEF Section
    <3> HIDE DEF Low, Good
    <3> QED BY <1>2, <3>1
  <2>2. ASSUME NEW q \in S, q.start_char = n PROVE Good(Low(n + 1))
    <3> DEFINE T == Low(n)
               c == Cardinality(T)
    <3>1. \A r \in S : r.start_char = n => r = q
      BY <2>2 DEF Disjoint, Section, Piece
    <3>2. Low(n + 1) = T \cup {q}
      BY <2>2, <3>1 DEF Section
    <3>3. q \notin T /\ \A r \in T : r.start_char < n
      BY <2>2 DEF Section
    <3>4. IsFiniteSet(T) /\ c \in Nat
      BY <1>2, FS_CardinalityType
    <3>5. IsFiniteSet(T \cup {q}) /\ Cardinality(T \cup {q}) = c + 1
      BY <3>3, <3>4, FS_AddElement
    <3>6. PICK s \in [1..c -> T] : Sorted(s)
      BY <1>2
    <3> HIDE DEF Low, c, T
    <3> DEFINE r == [i \in 1..(c + 1) |-> IF i = c + 1 THEN q ELSE s[i]]
    <3>7. r \in [1..(c + 1) -> T \cup {q}]
      BY <3>4, <3>6
    <3>8. Sorted(r)
      <4>1. ASSUME NEW i \in 1..(c + 1), NEW j \in 1..(c + 1), i < j
            PROVE  r[i].start_char < r[j].start_char
        <5>1. i \in 1..c /\ r[i] = s[i] /\ s[i] \in T
          BY <3>4, <3>6, <4>1
        <5>2. CASE j = c + 1
          BY <2>2, <3>3, <3>4, <5>1, <5>2
        <5>3. CASE j # c + 1
          <6>1. j \in 1..c /\ r[j] = s[j]
            BY <3>4, <4>1, <5>3
          <6> QED BY <3>6, <4>1, <5>1, <6>1 DEF Sorted
        <5> QED BY <5>2, <5>3
      <4> QED BY <4>1 DEF Sorted
    <3> HIDE DEF r
    <3> QED BY <3>2, <3>5, <3>7, <3>8
  <2> QED BY <2>1, <2>2
<1>3. Nat \subseteq N
  <2> HIDE DEF Good, Low
  <2>1. 0 \in N /\ \A n \in Nat : n \in N => n + 1 \in N
    BY <1>1, <1>2
  <2> HIDE DEF N
  <2> QED BY <2>1, NaturalInduction
<1>4. Low(m) = S
  BY DEF Section, Piece
<1>5. Good(Low(m))
  <2> HIDE DEF Good, Low
  <2> QED BY <1>3
<1> HIDE DEF Low
<1> QED BY <1>4, <1>5

\* A sorted sequence of as many pieces as there are has all of them.
LEMMA SortedHasAll ==
  ASSUME NEW S, IsFiniteSet(S), \A q \in S : q \in Section,
         NEW s \in [1..Cardinality(S) -> S], Sorted(s),
         NEW q \in S
  PROVE  \E i \in 1..Cardinality(S) : s[i] = q
<1> DEFINE c == Cardinality(S)
<1>1. c \in Nat
  BY FS_CardinalityType
<1> HIDE DEF c
<1>2. IsFiniteSet(1..c) /\ Cardinality(1..c) = c
  BY <1>1, FS_Interval
<1>3. \A i, j \in 1..c : s[i] = s[j] => i = j
  <2> SUFFICES ASSUME NEW i \in 1..c, NEW j \in 1..c, s[i] = s[j], i < j \/ j < i
               PROVE  FALSE
    BY <1>1
  <2>1. s[i] \in Section /\ s[j] \in Section
    BY DEF c
  <2> QED BY <2>1 DEF Sorted, c, Section
<1>4. s \in Injection(1..c, S)
  BY <1>3 DEF Injection, IsInjective, c
<1>5. s \in Surjection(1..c, S)
  BY <1>2, <1>4, FS_Injection DEF c
<1> QED BY <1>5 DEF Surjection, c

\* The pieces of a text: in order, within it, and with all that is not white.
LEMMA PiecesInOrder ==
  ASSUME NEW t \in Seq(Chars)
  PROVE  /\ Pieces(t) \in Seq(Section)
         /\ \A i \in 1..Len(Pieces(t)) :
              Piece(Pieces(t)[i]) /\ Pieces(t)[i].end_char <= Len(t)
         /\ \A i, j \in 1..Len(Pieces(t)) :
              i < j => Pieces(t)[i].end_char <= Pieces(t)[j].start_char
         /\ \A x \in 1..Len(t) :
              t[x] \notin Spaces =>
                \E i \in 1..Len(Pieces(t)) : x \in Positions(Pieces(t)[i])
<1> DEFINE S == PieceSet(t)
           c == Cardinality(S)
           s == Pieces(t)
<1>1. /\ Whole(t) \in Section /\ IsSplit(S, Whole(t), t)
      /\ Len(t) \in Nat /\ Whole(t).end_char = Len(t)
      /\ Positions(Whole(t)) = 1..Len(t)
  BY PieceSetSplits DEF Whole, Positions
<1>2. /\ \A q \in S : q \in Section /\ Piece(q) /\ q.end_char <= Len(t)
      /\ \A q, r \in S : q # r => Disjoint(q, r)
  BY <1>1 DEF IsSplit
<1> HIDE DEF S
<1>3. /\ IsFiniteSet(S) /\ c \in Nat
      /\ \E u \in [1..c -> S] : Sorted(u)
  BY <1>1, <1>2, SortedExists, FS_CardinalityType
<1>4. s \in [1..c -> S] /\ Sorted(s)
  <2>1. \E u \in [1..c -> S] : \A i, j \in 1..c : i < j => u[i].start_char < u[j].start_char
    BY <1>3 DEF Sorted
  <2>2. s = CHOOSE u \in [1..c -> S] :
              \A i, j \in 1..c : i < j => u[i].start_char < u[j].start_char
    BY DEF Pieces, S
  <2> HIDE DEF c, s
  <2>3. s \in [1..c -> S] /\ \A i, j \in 1..c : i < j => s[i].start_char < s[j].start_char
    BY <2>1, <2>2
  <2> QED BY <2>3 DEF Sorted
<1> HIDE DEF s
<1>5. s \in Seq(S) /\ Len(s) = c
  BY <1>3, <1>4
<1>6. \A i \in 1..c : s[i] \in S
  BY <1>4
<1>7. ASSUME NEW i \in 1..c, NEW j \in 1..c, i < j
      PROVE  s[i].end_char <= s[j].start_char
  <2>1. s[i].start_char < s[j].start_char
    BY <1>4, <1>7 DEF Sorted
  <2>2. /\ s[i] \in Section /\ s[j] \in Section /\ Piece(s[i]) /\ Piece(s[j])
        /\ s[i] # s[j] => Disjoint(s[i], s[j])
    BY <1>2, <1>6
  <2> QED BY <2>1, <2>2 DEF Disjoint, Section, Piece
<1>8. ASSUME NEW x \in 1..Len(t), t[x] \notin Spaces
      PROVE  \E i \in 1..c : x \in Positions(s[i])
  <2>1. PICK q \in S : x \in Positions(q)
    BY <1>1, <1>8 DEF IsSplit
  <2>2. PICK i \in 1..c : s[i] = q
    BY <1>2, <1>3, <1>4, SortedHasAll
  <2> QED BY <2>1, <2>2
<1>9. s \in Seq(Section)
  BY <1>2, <1>3, <1>4
<1> QED BY <1>2, <1>5, <1>6, <1>7, <1>8, <1>9 DEF s

-----------------------------------------------------------------------------
(* Runs of pieces: buffers and chunks are such runs.                       *)

\* c is the run of the pieces of s that comes after the first i of them.
At(s, c, i) == /\ c \in Seq(Section) /\ i \in Nat
               /\ i + Len(c) <= Len(s)
               /\ \A x \in 1..Len(c) : c[x] = s[i + x]

\* The next piece is added to a run.
LEMMA AppendAt ==
  ASSUME NEW s \in Seq(Section), NEW c, NEW i, At(s, c, i), i + Len(c) < Len(s)
  PROVE  /\ s[i + Len(c) + 1] \in Section
         /\ At(s, Append(c, s[i + Len(c) + 1]), i)
         /\ Len(Append(c, s[i + Len(c) + 1])) = Len(c) + 1
<1> DEFINE p == s[i + Len(c) + 1]
           d == Append(c, p)
<1>1. c \in Seq(Section) /\ Len(c) \in Nat /\ i \in Nat
  BY DEF At
<1>2. p \in Section
  BY <1>1
<1>3. /\ d \in Seq(Section) /\ Len(d) = Len(c) + 1 /\ d[Len(c) + 1] = p
      /\ \A x \in 1..Len(c) : d[x] = c[x]
  BY <1>1, <1>2
<1> HIDE DEF d
<1>4. ASSUME NEW x \in 1..(Len(c) + 1) PROVE d[x] = s[i + x]
  BY <1>1, <1>3 DEF At
<1>5. At(s, d, i)
  BY <1>1, <1>3, <1>4 DEF At
<1> QED BY <1>2, <1>3, <1>5 DEF d

\* The first piece of a run is taken.
LEMMA TailAt ==
  ASSUME NEW s \in Seq(Section), NEW c, NEW i, At(s, c, i), c # << >>
  PROVE  /\ Head(c) = s[i + 1] /\ i + 1 <= Len(s)
         /\ At(s, Tail(c), i + 1)
         /\ Len(Tail(c)) = Len(c) - 1
<1>1. c \in Seq(Section) /\ Len(c) \in Nat \ {0} /\ i \in Nat
  BY DEF At
<1>2. /\ Tail(c) \in Seq(Section) /\ Len(Tail(c)) = Len(c) - 1 /\ Head(c) = c[1]
      /\ \A x \in 1..(Len(c) - 1) : Tail(c)[x] = c[x + 1]
  BY <1>1
<1> QED BY <1>1, <1>2 DEF At

\* The overlap is the end of the buffer, and no longer than it may be.
LEMMA OverlapAt ==
  ASSUME NEW s \in Seq(Section), NEW c, NEW i, At(s, c, i)
  PROVE  \E m \in 0..Len(c) : /\ At(s, build_overlap(c), i + m)
                              /\ Len(build_overlap(c)) = Len(c) - m
                              /\ Cost(build_overlap(c)) <= chunk_overlap
<1> DEFINE fits == {k \in 1..(Len(c) + 1) : Cost(SubSeq(c, k, Len(c))) <= chunk_overlap}
<1>1. c \in Seq(Section) /\ Len(c) \in Nat /\ i \in Nat
  BY DEF At
<1>2. Len(c) + 1 \in fits
  <2>1. SubSeq(c, Len(c) + 1, Len(c)) = << >>
    BY <1>1
  <2>2. Cost(SubSeq(c, Len(c) + 1, Len(c))) <= chunk_overlap
    <3>1. Cost(SubSeq(c, Len(c) + 1, Len(c))) = 0
      BY <2>1, CostEmpty, Zenon
    <3>2. 0 <= chunk_overlap
      BY SizeAssumption
    <3> QED BY <3>1, <3>2, Zenon
  <2>3. Len(c) + 1 \in 1..(Len(c) + 1)
    BY <1>1
  <2> QED BY <2>2, <2>3
<1>3. \A k \in fits : k \in 1..(Len(c) + 1)
  OBVIOUS
<1>4. PICK k \in fits : \A j \in fits : k <= j
  <2>1. 1 \in Int /\ Len(c) + 1 \in Int
    BY <1>1
  <2> HIDE DEF fits
  <2> QED BY <1>2, <1>3, <2>1, LeastInteger
<1>5. Min(fits) \in fits
  BY <1>4 DEF Min
<1> DEFINE m == Min(fits) - 1
           d == build_overlap(c)
<1>6. d = SubSeq(c, m + 1, Len(c)) /\ Cost(d) <= chunk_overlap /\ m \in 0..Len(c)
  <2>1. Min(fits) \in 1..(Len(c) + 1) /\ Cost(SubSeq(c, Min(fits), Len(c))) <= chunk_overlap
    BY <1>5
  <2>2. d = SubSeq(c, Min(fits), Len(c))
    BY DEF build_overlap
  <2>3. m \in 0..Len(c) /\ m + 1 = Min(fits)
    <3> HIDE DEF fits
    <3> QED BY <1>1, <2>1
  <2> HIDE DEF m, fits, d
  <2> QED BY <2>1, <2>2, <2>3
<1> HIDE DEF m, d
<1>7. /\ d \in Seq(Section) /\ Len(d) = Len(c) - m
      /\ \A x \in 1..(Len(c) - m) : d[x] = c[m + x]
  <2>1. /\ d \in Seq(Section) /\ Len(d) = Len(c) - m
    BY <1>1, <1>6
  <2>2. ASSUME NEW x \in 1..(Len(c) - m) PROVE d[x] = c[m + x]
    <3>1. m \in Int /\ x + (m + 1) - 1 = m + x
      BY <1>6
    <3>2. SubSeq(c, m + 1, Len(c))[x] = c[x + (m + 1) - 1]
      BY <1>1, <1>6
    <3> QED BY <1>6, <3>1, <3>2
  <2> QED BY <2>1, <2>2
<1>8. At(s, d, i + m)
  <2>1. i + m \in Nat /\ (i + m) + Len(d) <= Len(s)
    <3>1. i + Len(c) <= Len(s) /\ Len(s) \in Nat
      BY DEF At
    <3>2. m \in Int /\ 0 <= m /\ m <= Len(c) /\ Len(d) = Len(c) - m
      BY <1>1, <1>6, <1>7
    <3> QED BY <1>1, <3>1, <3>2
  <2>2. ASSUME NEW x \in 1..Len(d) PROVE d[x] = s[(i + m) + x]
    <3>1. x \in 1..(Len(c) - m) /\ m + x \in 1..Len(c) /\ i + (m + x) = (i + m) + x
      BY <1>1, <1>6, <1>7
    <3> QED BY <1>7, <3>1 DEF At
  <2> QED BY <1>7, <2>1, <2>2 DEF At
<1> QED BY <1>6, <1>7, <1>8 DEF d

\* d, the run after the first j pieces, begins in c or right after it, and goes
\* on with a piece that did not fit c.
Follows(s, c, d, j) ==
  \E i : /\ At(s, c, i) /\ At(s, d, j)
         /\ i <= j /\ j <= i + Len(c) /\ i + Len(c) < j + Len(d)
         /\ Cost(c) + length(s[i + Len(c) + 1]) + 1 > chunk_size

\* The size of a chunk, and of a buffer that is not empty.
Bounded(c) == \/ Cost(c) - 1 <= chunk_size + chunk_overlap
              \/ /\ length(Last(c)) > chunk_size
                 /\ Cost(Front(c)) <= chunk_overlap

-----------------------------------------------------------------------------
(* The inductive invariant.                                                *)

\* The pieces that were merged.
Taken == Len(Pieces(text)) - Len(pieces)

Typed == /\ text \in Seq(Chars)
         /\ pc \in {"split", "merge", "done"}
         /\ chunks \in Seq(Seq(Section))
         /\ buffer_length = Cost(buffer)
         /\ pc = "split" => pieces = << >> /\ buffer = << >> /\ chunks = << >>
         /\ pc = "done" => pieces = << >>

\* What is left, the buffer and the chunks are runs of pieces, and the buffer
\* ends where the rest begins.
RunInv ==
  /\ At(Pieces(text), pieces, Taken)
  /\ At(Pieces(text), buffer, Taken - Len(buffer))
  /\ \A k \in 1..Len(chunks) :
       chunks[k] # << >> /\ \E i : At(Pieces(text), chunks[k], i)

\* Every piece that was merged is in a chunk, or in the buffer.
CoverInv ==
  \A x \in 1..Taken :
    \/ pc = "merge" /\ x > Taken - Len(buffer)
    \/ \E k \in 1..Len(chunks) : \E i :
         At(Pieces(text), chunks[k], i) /\ x \in (i + 1)..(i + Len(chunks[k]))

\* Each chunk follows the one before it, and the buffer the last one.
ChainInv ==
  /\ \A k \in 1..(Len(chunks) - 1) :
       \E j : Follows(Pieces(text), chunks[k], chunks[k + 1], j)
  /\ pc = "merge" /\ chunks # << >> =>
       Follows(Pieces(text), chunks[Len(chunks)], buffer, Taken - Len(buffer))

BoundInv == /\ \A k \in 1..Len(chunks) : Bounded(chunks[k])
            /\ pc = "merge" /\ buffer # << >> => Bounded(buffer)

IInv == Typed /\ (pc # "split" => RunInv /\ CoverInv /\ ChainInv /\ BoundInv)

-----------------------------------------------------------------------------
(* Every step keeps it.                                                    *)

LEMMA InitInvariant == Init => IInv
  BY TextsAssumption, CostEmpty DEF Init, IInv, Typed

\* Before the loop all pieces are there and nothing is merged.
LEMMA SplitKeeps ==
  ASSUME IInv, Split
  PROVE  IInv'
<1> DEFINE s == Pieces(text)
<1>1. /\ text' = text /\ pieces' = s /\ buffer' = << >> /\ chunks' = << >>
      /\ pc' = "merge" /\ buffer_length' = buffer_length /\ buffer = << >>
      /\ text \in Seq(Chars)
  BY DEF Split, IInv, Typed
<1>2. s \in Seq(Section) /\ Len(s) \in Nat
  BY <1>1, PiecesInOrder
<1>3. Pieces(text)' = s
  BY <1>1
<1> HIDE DEF s
<1>4. Taken' = 0
  BY <1>1, <1>2, <1>3 DEF Taken
<1>5. At(s, s, 0) /\ At(s, << >>, 0) /\ Len(<< >>) = 0
  BY <1>2 DEF At
<1>6. Typed'
  BY <1>1 DEF IInv, Typed
<1>7. RunInv'
  BY <1>1, <1>3, <1>4, <1>5 DEF RunInv
<1>8. CoverInv'
  BY <1>4 DEF CoverInv
<1>9. ChainInv' /\ BoundInv'
  BY <1>1 DEF ChainInv, BoundInv
<1> QED BY <1>6, <1>7, <1>8, <1>9 DEF IInv

\* The next piece, where there is one, as Add and Flush take it.
LEMMA NextPiece ==
  ASSUME IInv, pc = "merge", pieces # << >>,
         text' = text, pieces' = Tail(pieces)
  PROVE  /\ Pieces(text) \in Seq(Section) /\ Pieces(text)' = Pieces(text)
         /\ Len(buffer) \in Nat /\ Taken \in Nat /\ Taken < Len(Pieces(text))
         /\ Head(pieces) = Pieces(text)[Taken + 1] /\ Head(pieces) \in Section
         /\ Taken' = Taken + 1
         /\ At(Pieces(text), Tail(pieces), Taken + 1)
<1> DEFINE s == Pieces(text)
<1>1. s \in Seq(Section) /\ Len(s) \in Nat
  BY PiecesInOrder DEF IInv, Typed
<1>2. At(s, pieces, Taken) /\ At(s, buffer, Taken - Len(buffer))
  BY DEF IInv, RunInv
<1> HIDE DEF s
<1>3. /\ Head(pieces) = s[Taken + 1] /\ Taken + 1 <= Len(s)
      /\ At(s, Tail(pieces), Taken + 1)
      /\ Len(Tail(pieces)) = Len(pieces) - 1
  BY <1>1, <1>2, TailAt
<1>4. Taken \in Nat /\ Len(buffer) \in Nat /\ Len(pieces) \in Nat
  BY <1>2 DEF At
<1>5. Pieces(text)' = s
  BY DEF s
<1>6. Taken' = Taken + 1
  BY <1>1, <1>3, <1>4, <1>5 DEF Taken, s
<1>7. Head(pieces) \in Section
  BY <1>1, <1>3, <1>4
<1> QED BY <1>1, <1>3, <1>4, <1>5, <1>6, <1>7 DEF s

\* A piece that fits goes into the buffer.
LEMMA AddKeeps ==
  ASSUME IInv, Add
  PROVE  IInv'
<1> DEFINE s == Pieces(text)
           p == Head(pieces)
           a == Taken - Len(buffer)
<1>1. /\ pc = "merge" /\ pc' = "merge" /\ pieces # << >>
      /\ text' = text /\ chunks' = chunks /\ pieces' = Tail(pieces)
      /\ buffer' = Append(buffer, p)
      /\ buffer_length' = buffer_length + length(p) + 1
      /\ buffer_length + length(p) + 1 <= chunk_size
  BY DEF Add, Fits
<1>2. Typed /\ RunInv /\ CoverInv /\ ChainInv /\ BoundInv
  BY <1>1 DEF IInv
<1>3. /\ s \in Seq(Section) /\ Pieces(text)' = s
      /\ Len(buffer) \in Nat /\ Taken \in Nat /\ Taken < Len(s)
      /\ p = s[Taken + 1] /\ p \in Section /\ Taken' = Taken + 1
      /\ At(s, Tail(pieces), Taken + 1)
  BY <1>1, NextPiece
<1>4. At(s, buffer, a) /\ buffer \in Seq(Section) /\ a \in Nat
  BY <1>2 DEF RunInv, At
<1> HIDE DEF s, p
<1>5. a + Len(buffer) = Taken
  BY <1>3
<1>6. At(s, buffer', a) /\ Len(buffer') = Len(buffer) + 1
  <2>1. a + Len(buffer) < Len(s) /\ buffer' = Append(buffer, s[a + Len(buffer) + 1])
    BY <1>1, <1>3, <1>5
  <2> HIDE DEF a
  <2> QED BY <1>3, <1>4, <2>1, AppendAt
<1>7. Taken' - Len(buffer') = a
  <2>1. Taken' = Taken + 1 /\ Len(buffer') = Len(buffer) + 1
    BY <1>3, <1>6
  <2>2. Taken \in Nat /\ Len(buffer) \in Nat /\ a \in Nat
    BY <1>3, <1>4
  <2> QED BY <1>5, <2>1, <2>2
<1>8. buffer_length' = Cost(buffer')
  BY <1>1, <1>2, <1>3, <1>4, CostAppend DEF Typed
<1> HIDE DEF a
<1>9. Typed'
  BY <1>1, <1>2, <1>8 DEF Typed
<1>10. RunInv'
  BY <1>1, <1>2, <1>3, <1>6, <1>7 DEF RunInv, s
<1>11. CoverInv'
  <2> SUFFICES ASSUME NEW x \in 1..Taken'
               PROVE  \/ x > a
                      \/ \E k \in 1..Len(chunks) : \E i :
                           At(s, chunks[k], i) /\ x \in (i + 1)..(i + Len(chunks[k]))
    BY <1>1, <1>3, <1>7 DEF CoverInv
  <2>1. CASE x = Taken + 1
    BY <1>3, <1>4, <1>5, <2>1
  <2>2. CASE x # Taken + 1
    <3>1. x \in 1..Taken
      BY <1>3, <2>2
    <3> QED BY <1>2, <3>1 DEF CoverInv, s, a
  <2> QED BY <2>1, <2>2
<1>12. ChainInv'
  <2> SUFFICES ASSUME chunks # << >>
               PROVE  Follows(s, chunks[Len(chunks)], buffer', a)
    BY <1>1, <1>2, <1>3, <1>7 DEF ChainInv, s
  <2> DEFINE c == chunks[Len(chunks)]
  <2>1. PICK i : /\ At(s, c, i)
                 /\ i <= a /\ a <= i + Len(c) /\ i + Len(c) < a + Len(buffer)
                 /\ Cost(c) + length(s[i + Len(c) + 1]) + 1 > chunk_size
    BY <1>1, <1>2 DEF ChainInv, Follows, s, a
  <2> HIDE DEF c
  <2>2. i \in Nat /\ Len(c) \in Nat
    BY <2>1 DEF At
  <2>3. i + Len(c) < a + Len(buffer')
    BY <1>3, <1>4, <1>6, <2>1, <2>2
  <2> QED BY <1>6, <2>1, <2>3 DEF Follows, c
<1>13. BoundInv'
  <2>1. Cost(buffer') - 1 <= chunk_size + chunk_overlap
    <3>1. Cost(buffer') <= chunk_size
      BY <1>1, <1>8
    <3>2. Cost(buffer') \in Int
      BY <1>6, CostTyped DEF At
    <3> QED BY <3>1, <3>2, SizeAssumption
  <2> QED BY <1>1, <1>2, <2>1 DEF BoundInv, Bounded
<1> QED BY <1>1, <1>9, <1>10, <1>11, <1>12, <1>13 DEF IInv

\* The buffer becomes a chunk, if there is one, as in Flush and Finish.
LEMMA ChunkMade ==
  ASSUME IInv, pc = "merge", Taken \in Nat,
         chunks' = IF buffer = << >> THEN chunks ELSE Append(chunks, buffer)
  PROVE  /\ chunks' \in Seq(Seq(Section))
         /\ \A k \in 1..Len(chunks') :
              /\ chunks'[k] # << >> /\ Bounded(chunks'[k])
              /\ \E i : At(Pieces(text), chunks'[k], i)
         /\ \A x \in 1..Taken : \E k \in 1..Len(chunks') : \E i :
              At(Pieces(text), chunks'[k], i) /\ x \in (i + 1)..(i + Len(chunks'[k]))
         /\ \A k \in 1..(Len(chunks') - 1) :
              \E j : Follows(Pieces(text), chunks'[k], chunks'[k + 1], j)
         /\ IF buffer = << >> THEN chunks' = << >>
            ELSE chunks' # << >> /\ chunks'[Len(chunks')] = buffer
<1> DEFINE s == Pieces(text)
           a == Taken - Len(buffer)
           n == Len(chunks)
<1>1. Typed /\ RunInv /\ CoverInv /\ ChainInv /\ BoundInv
  BY DEF IInv
<1>2. chunks \in Seq(Seq(Section)) /\ n \in Nat
  BY <1>1 DEF Typed
<1>3. At(s, buffer, a) /\ buffer \in Seq(Section) /\ a \in Nat /\ Len(buffer) \in Nat
  BY <1>1 DEF RunInv, At
<1>4. a + Len(buffer) = Taken
  BY <1>3
<1>5. /\ \A k \in 1..n : /\ chunks[k] # << >> /\ Bounded(chunks[k])
                         /\ \E i : At(s, chunks[k], i)
      /\ \A k \in 1..(n - 1) : \E j : Follows(s, chunks[k], chunks[k + 1], j)
      /\ chunks # << >> => Follows(s, chunks[n], buffer, a)
      /\ buffer # << >> => Bounded(buffer)
  BY <1>1 DEF RunInv, ChainInv, BoundInv
<1>6. \A x \in 1..Taken :
        \/ x > a
        \/ \E k \in 1..n : \E i :
             At(s, chunks[k], i) /\ x \in (i + 1)..(i + Len(chunks[k]))
  BY <1>1 DEF CoverInv
<1> HIDE DEF s, a
<1>7. CASE buffer = << >>
  <2>1. chunks' = chunks /\ Len(buffer) = 0 /\ a = Taken
    BY <1>3, <1>4, <1>7
  <2>2. \A c : ~ Follows(s, c, buffer, a)
    BY <1>3, <2>1 DEF Follows, At
  <2>3. chunks = << >>
    BY <1>5, <2>2
  <2>4. Len(chunks') = 0
    BY <2>1, <2>3
  <2>5. \A x \in 1..Taken : FALSE
    BY <1>6, <2>1, <2>4
  <2> QED BY <1>2, <1>7, <2>1, <2>3, <2>4, <2>5
<1>8. CASE buffer # << >>
  <2>1. /\ chunks' \in Seq(Seq(Section)) /\ Len(chunks') = n + 1
        /\ chunks'[n + 1] = buffer /\ \A k \in 1..n : chunks'[k] = chunks[k]
    BY <1>2, <1>3, <1>8
  <2> HIDE DEF n
  <2>2. ASSUME NEW k \in 1..(n + 1)
        PROVE  /\ chunks'[k] # << >> /\ Bounded(chunks'[k])
               /\ \E i : At(s, chunks'[k], i)
    <3>1. CASE k = n + 1
      BY <1>3, <1>5, <1>8, <2>1, <3>1
    <3>2. CASE k # n + 1
      <4>1. k \in 1..n
        BY <1>2, <3>2
      <4> QED BY <1>5, <2>1, <4>1
    <3> QED BY <3>1, <3>2
  <2>3. ASSUME NEW x \in 1..Taken
        PROVE  \E k \in 1..(n + 1) : \E i :
                 At(s, chunks'[k], i) /\ x \in (i + 1)..(i + Len(chunks'[k]))
    <3>1. CASE x > a
      <4>1. x \in (a + 1)..(a + Len(buffer))
        BY <1>3, <1>4, <3>1
      <4>2. n + 1 \in 1..(n + 1)
        BY <1>2
      <4> QED BY <1>3, <2>1, <4>1, <4>2
    <3>2. CASE ~(x > a)
      <4>1. PICK k \in 1..n : \E i :
              At(s, chunks[k], i) /\ x \in (i + 1)..(i + Len(chunks[k]))
        BY <1>6, <3>2
      <4>2. k \in 1..(n + 1)
        BY <1>2
      <4> QED BY <2>1, <4>1, <4>2
    <3> QED BY <3>1, <3>2
  <2>4. ASSUME NEW k \in 1..n
        PROVE  \E j : Follows(s, chunks'[k], chunks'[k + 1], j)
    <3>1. CASE k = n
      <4>1. chunks # << >>
        BY <1>2, <3>1 DEF n
      <4> QED BY <1>5, <2>1, <3>1, <4>1
    <3>2. CASE k # n
      <4>1. k \in 1..(n - 1) /\ k + 1 \in 1..n
        BY <1>2, <3>2
      <4> QED BY <1>5, <2>1, <4>1
    <3> QED BY <3>1, <3>2
  <2>5. Len(chunks') - 1 = n /\ Len(chunks') # 0
    BY <1>2, <2>1
  <2>6. chunks' # << >>
    BY <2>5
  <2> QED BY <1>8, <2>1, <2>2, <2>3, <2>4, <2>5, <2>6 DEF s
<1> QED BY <1>7, <1>8

\* A piece that does not fit makes the buffer a chunk and begins the next one.
LEMMA FlushKeeps ==
  ASSUME IInv, Flush
  PROVE  IInv'
<1> DEFINE s == Pieces(text)
           p == Head(pieces)
           a == Taken - Len(buffer)
           overlap == build_overlap(buffer)
<1>1. /\ pc = "merge" /\ pc' = "merge" /\ pieces # << >>
      /\ text' = text /\ pieces' = Tail(pieces)
      /\ chunks' = IF buffer = << >> THEN chunks ELSE Append(chunks, buffer)
      /\ buffer' = Append(overlap, p)
      /\ buffer_length' = Cost(buffer')
      /\ ~(buffer_length + length(p) + 1 <= chunk_size)
  BY DEF Flush, Fits
<1>2. Typed /\ RunInv
  BY <1>1 DEF IInv
<1>3. /\ s \in Seq(Section) /\ Pieces(text)' = s
      /\ Len(buffer) \in Nat /\ Taken \in Nat /\ Taken < Len(s)
      /\ p = s[Taken + 1] /\ p \in Section /\ Taken' = Taken + 1
      /\ At(s, Tail(pieces), Taken + 1)
  BY <1>1, NextPiece
<1>4. At(s, buffer, a) /\ buffer \in Seq(Section) /\ a \in Nat
  BY <1>2 DEF RunInv, At
<1>5. a + Len(buffer) = Taken
  BY <1>3
<1>6. PICK m \in 0..Len(buffer) : /\ At(s, overlap, a + m)
                                  /\ Len(overlap) = Len(buffer) - m
                                  /\ Cost(overlap) <= chunk_overlap
  <2> HIDE DEF s, a, overlap
  <2> QED BY <1>3, <1>4, OverlapAt DEF overlap
<1>7. /\ chunks' \in Seq(Seq(Section))
      /\ \A k \in 1..Len(chunks') :
           /\ chunks'[k] # << >> /\ Bounded(chunks'[k])
           /\ \E i : At(s, chunks'[k], i)
      /\ \A x \in 1..Taken : \E k \in 1..Len(chunks') : \E i :
           At(s, chunks'[k], i) /\ x \in (i + 1)..(i + Len(chunks'[k]))
      /\ \A k \in 1..(Len(chunks') - 1) :
           \E i : Follows(s, chunks'[k], chunks'[k + 1], i)
      /\ IF buffer = << >> THEN chunks' = << >>
         ELSE chunks' # << >> /\ chunks'[Len(chunks')] = buffer
  BY <1>1, <1>3, ChunkMade
<1> HIDE DEF s, p, a, overlap
<1> DEFINE j == a + m
<1>8. /\ j \in Nat /\ j + Len(overlap) = Taken
      /\ a <= j /\ j <= a + Len(buffer)
      /\ overlap \in Seq(Section) /\ Len(overlap) \in Nat
  <2>1. m \in Int /\ 0 <= m /\ m <= Len(buffer)
    BY <1>3
  <2>2. overlap \in Seq(Section) /\ Len(overlap) \in Nat
    BY <1>6 DEF At
  <2>3. Len(overlap) = Len(buffer) - m
    BY <1>6
  <2> QED BY <1>3, <1>4, <1>5, <2>1, <2>2, <2>3
<1>9. At(s, buffer', j) /\ Len(buffer') = Len(overlap) + 1
  BY <1>1, <1>3, <1>6, <1>8, AppendAt
<1> HIDE DEF j
<1>10. Taken' - Len(buffer') = j
  BY <1>3, <1>8, <1>9
<1>11. Cost(buffer') = Cost(overlap) + length(p) + 1
  BY <1>1, <1>3, <1>8, CostAppend
<1>12. Typed'
  BY <1>1, <1>2, <1>7 DEF Typed
<1>13. RunInv'
  BY <1>1, <1>3, <1>7, <1>9, <1>10 DEF RunInv, s
<1>14. CoverInv'
  <2> SUFFICES ASSUME NEW x \in 1..Taken'
               PROVE  \/ x > j
                      \/ \E k \in 1..Len(chunks') : \E i :
                           At(s, chunks'[k], i) /\ x \in (i + 1)..(i + Len(chunks'[k]))
    BY <1>1, <1>3, <1>10 DEF CoverInv
  <2>1. CASE x = Taken + 1
    BY <1>8, <2>1
  <2>2. CASE x # Taken + 1
    <3>1. x \in 1..Taken
      BY <1>3, <2>2
    <3> QED BY <1>7, <3>1
  <2> QED BY <2>1, <2>2
<1>15. ChainInv'
  <2>1. ASSUME chunks' # << >> PROVE Follows(s, chunks'[Len(chunks')], buffer', j)
    <3>1. chunks'[Len(chunks')] = buffer
      BY <1>7, <2>1
    <3>2. Cost(buffer) + length(s[a + Len(buffer) + 1]) + 1 > chunk_size
      <4>1. Cost(buffer) \in Int /\ length(p) \in Int /\ chunk_size \in Int
        <5>1. Cost(buffer) \in Int
          BY <1>4, CostTyped
        <5> QED BY <1>3, <5>1, SizeAssumption DEF Section, length
      <4>2. ~(Cost(buffer) + length(p) + 1 <= chunk_size)
        BY <1>1, <1>2 DEF Typed
      <4>3. Cost(buffer) + length(p) + 1 > chunk_size
        BY <4>1, <4>2
      <4>4. s[a + Len(buffer) + 1] = p
        BY <1>3, <1>5
      <4> QED BY <4>3, <4>4
    <3>3. a + Len(buffer) < j + Len(buffer')
      BY <1>3, <1>5, <1>8, <1>9
    <3> QED BY <1>4, <1>8, <1>9, <3>1, <3>2, <3>3 DEF Follows
  <2> QED BY <1>1, <1>3, <1>7, <1>10, <2>1 DEF ChainInv
<1>16. BoundInv'
  <2>1. Bounded(buffer')
    <3>1. Last(buffer') = p /\ Front(buffer') = overlap
      BY <1>1, <1>3, <1>8 DEF Last, Front
    <3>2. /\ Cost(overlap) \in Int /\ length(p) \in Int
          /\ chunk_size \in Int /\ chunk_overlap \in Int
      <4>1. Cost(overlap) \in Int
        BY <1>8, CostTyped
      <4> QED BY <1>3, <4>1, SizeAssumption DEF Section, length
    <3>3. CASE length(p) <= chunk_size
      <4>1. Cost(buffer') - 1 <= chunk_size + chunk_overlap
        BY <1>6, <1>11, <3>2, <3>3
      <4> QED BY <4>1 DEF Bounded
    <3>4. CASE ~(length(p) <= chunk_size)
      <4>1. length(p) > chunk_size
        BY <3>2, <3>4
      <4> QED BY <1>6, <3>1, <4>1 DEF Bounded
    <3> QED BY <3>3, <3>4
  <2> QED BY <1>7, <2>1 DEF BoundInv
<1> QED BY <1>12, <1>13, <1>14, <1>15, <1>16 DEF IInv

\* After the loop nothing is left, and every piece is in a chunk.
LEMMA FinishKeeps ==
  ASSUME IInv, Finish
  PROVE  IInv'
<1> DEFINE s == Pieces(text)
<1>1. /\ pc = "merge" /\ pc' = "done" /\ pieces = << >> /\ pieces' = pieces
      /\ text' = text /\ buffer' = buffer /\ buffer_length' = buffer_length
      /\ chunks' = IF buffer = << >> THEN chunks ELSE Append(chunks, buffer)
  BY DEF Finish
<1>2. Typed /\ RunInv
  BY <1>1 DEF IInv
<1>3. s \in Seq(Section) /\ Pieces(text)' = s
  BY <1>1, <1>2, PiecesInOrder DEF Typed
<1>4. Taken' = Taken /\ Taken \in Nat
  BY <1>1, <1>2, <1>3 DEF Taken, RunInv, At
<1>5. /\ chunks' \in Seq(Seq(Section))
      /\ \A k \in 1..Len(chunks') :
           /\ chunks'[k] # << >> /\ Bounded(chunks'[k])
           /\ \E i : At(s, chunks'[k], i)
      /\ \A x \in 1..Taken : \E k \in 1..Len(chunks') : \E i :
           At(s, chunks'[k], i) /\ x \in (i + 1)..(i + Len(chunks'[k]))
      /\ \A k \in 1..(Len(chunks') - 1) :
           \E j : Follows(s, chunks'[k], chunks'[k + 1], j)
  BY <1>1, <1>4, ChunkMade
<1> HIDE DEF s
<1>6. Typed'
  BY <1>1, <1>2, <1>5 DEF Typed
<1>7. RunInv'
  BY <1>1, <1>2, <1>3, <1>4, <1>5 DEF RunInv, s
<1>8. CoverInv'
  BY <1>3, <1>4, <1>5 DEF CoverInv
<1>9. ChainInv' /\ BoundInv'
  BY <1>1, <1>3, <1>5 DEF ChainInv, BoundInv
<1> QED BY <1>6, <1>7, <1>8, <1>9 DEF IInv

LEMMA NextInvariant == IInv /\ [Next]_vars => IInv'
<1> SUFFICES ASSUME IInv, [Next]_vars PROVE IInv'
  OBVIOUS
<1>1. CASE UNCHANGED vars
  BY <1>1 DEF vars, IInv, Typed, RunInv, CoverInv, ChainInv, BoundInv, Taken
<1>2. CASE Next
  BY <1>2, SplitKeeps, AddKeeps, FlushKeeps, FinishKeeps DEF Next
<1> QED BY <1>1, <1>2

\* The inductive invariant of the merge loop: what was merged is in order, all
\* there, no longer than it may be, and each chunk goes on where the one before
\* it ends or within it.
THEOREM Invariance == Spec => []IInv
  BY InitInvariant, NextInvariant, PTL DEF Spec

-----------------------------------------------------------------------------
(* What the invariant says of a text.                                      *)

\* The pieces of a run are in order, within the text.
LEMMA RunInOrder ==
  ASSUME text \in Seq(Chars), NEW c, NEW i, At(Pieces(text), c, i)
  PROVE  /\ c \in Seq(Section) /\ Len(c) \in Nat /\ i \in Nat
         /\ Range(c) = {c[x] : x \in 1..Len(c)}
         /\ \A x \in 1..Len(c) : /\ c[x] \in Section /\ Piece(c[x])
                                 /\ c[x].end_char <= Len(text)
         /\ \A x, y \in 1..Len(c) : x < y => c[x].end_char <= c[y].start_char
<1> DEFINE s == Pieces(text)
<1>1. /\ c \in Seq(Section) /\ Len(c) \in Nat /\ i \in Nat
      /\ i + Len(c) <= Len(s) /\ \A x \in 1..Len(c) : c[x] = s[i + x]
  BY DEF At
<1>2. /\ s \in Seq(Section) /\ Len(s) \in Nat
      /\ \A x \in 1..Len(s) : Piece(s[x]) /\ s[x].end_char <= Len(text)
      /\ \A x, y \in 1..Len(s) : x < y => s[x].end_char <= s[y].start_char
  BY PiecesInOrder
<1> HIDE DEF s
<1>3. \A x \in 1..Len(c) : i + x \in 1..Len(s)
  BY <1>1, <1>2
<1>4. \A x, y \in 1..Len(c) : x < y => i + x < i + y
  BY <1>1
<1>5. Range(c) = {c[x] : x \in 1..Len(c)}
  BY <1>1 DEF Range
<1>6. \A x \in 1..Len(c) : c[x] \in Section
  BY <1>1
<1> QED BY <1>1, <1>2, <1>3, <1>4, <1>5, <1>6

LEMMA RunOfPieces ==
  ASSUME text \in Seq(Chars), NEW c, NEW i, At(Pieces(text), c, i)
  PROVE  \A p \in Range(c) : Piece(p)
<1>1. /\ Range(c) = {c[x] : x \in 1..Len(c)}
      /\ \A x \in 1..Len(c) : Piece(c[x])
  BY RunInOrder
<1> QED BY <1>1

\* The types, and that no chunk is empty.
LEMMA InvariantTyped == IInv => TypeOK
<1> SUFFICES ASSUME IInv PROVE TypeOK
  OBVIOUS
<1>1. Typed
  BY DEF IInv
<1>2. CASE pc = "split"
  <2>1. pieces = << >> /\ buffer = << >> /\ chunks = << >>
    BY <1>1, <1>2 DEF Typed
  <2>2. Range(<< >>) = {}
    BY DEF Range
  <2> QED BY <1>1, <2>1, <2>2 DEF Typed, TypeOK
<1>3. CASE pc # "split"
  <2>1. RunInv
    BY <1>3 DEF IInv
  <2>2. \A p \in Range(pieces) \cup Range(buffer) : Piece(p)
    <3>1. text \in Seq(Chars)
      BY <1>1 DEF Typed
    <3> QED BY <2>1, <3>1, RunOfPieces DEF RunInv
  <2>3. Range(chunks) = {chunks[k] : k \in 1..Len(chunks)}
    BY <1>1 DEF Typed, Range
  <2>4. ASSUME NEW k \in 1..Len(chunks) PROVE Pieced(chunks[k])
    <3>1. PICK i : At(Pieces(text), chunks[k], i)
      BY <2>1 DEF RunInv
    <3>2. chunks[k] # << >>
      BY <2>1 DEF RunInv
    <3>3. \A p \in Range(chunks[k]) : Piece(p)
      <4>1. text \in Seq(Chars)
        BY <1>1 DEF Typed
      <4> QED BY <3>1, <4>1, RunOfPieces
    <3> QED BY <3>2, <3>3 DEF Pieced
  <2> QED BY <1>1, <2>2, <2>3, <2>4 DEF Typed, TypeOK
<1> QED BY <1>2, <1>3

\* The variables have their types, whatever text is chunked: there is never an
\* empty chunk, on which _buffer_to_chunk would raise an IndexError.
THEOREM TypeCorrect == Spec => []TypeOK
  BY Invariance, InvariantTyped, PTL

\* Each chunk is a run of pieces that is not empty; before the loop there is none.
LEMMA ChunkRuns ==
  ASSUME IInv, NEW c \in Range(chunks)
  PROVE  /\ text \in Seq(Chars) /\ pc # "split"
         /\ \E k \in 1..Len(chunks) : c = chunks[k]
         /\ c # << >> /\ Bounded(c) /\ \E i : At(Pieces(text), c, i)
<1>1. Typed
  BY DEF IInv
<1>2. PICK k \in 1..Len(chunks) : c = chunks[k]
  BY <1>1 DEF Typed, Range
<1>3. pc # "split"
  BY <1>1, <1>2 DEF Typed
<1> QED BY <1>1, <1>2, <1>3 DEF IInv, Typed, RunInv, BoundInv

\* A chunk is no longer than chunk_size and chunk_overlap together, and the
\* joiners, unless it ends with one word that is longer than chunk_size.
THEOREM SizesBounded == Spec => []SizeBound
<1>1. IInv => SizeBound
  BY ChunkRuns DEF Bounded, SizeBound
<1> QED BY <1>1, Invariance, PTL

\* When the loop has ended every piece is in a chunk, and so is every character
\* that is not white space.
THEOREM Complete == Spec => []NothingLost
<1>1. ASSUME IInv PROVE NothingLost
  <2> SUFFICES ASSUME pc = "done"
               PROVE  Ink(1..Len(text)) = UNION {InkOf(c) : c \in Range(chunks)}
    BY DEF NothingLost
  <2> DEFINE s == Pieces(text)
  <2>1. Typed /\ RunInv /\ CoverInv
    BY <1>1 DEF IInv
  <2>2. text \in Seq(Chars) /\ chunks \in Seq(Seq(Section)) /\ pieces = << >>
    BY <2>1 DEF Typed
  <2>3. s \in Seq(Section) /\ Len(s) \in Nat
    BY <2>2, PiecesInOrder
  <2>4. Taken = Len(s)
    <3>1. Len(pieces) = 0
      BY <2>2
    <3> QED BY <2>3, <3>1 DEF Taken
  <2>5. ASSUME NEW x \in Ink(1..Len(text))
        PROVE  \E c \in Range(chunks) : x \in InkOf(c)
    <3>1. x \in 1..Len(text) /\ text[x] \notin Spaces
      BY DEF Ink
    <3>2. PICK n \in 1..Len(s) : x \in Positions(s[n])
      BY <2>2, <3>1, PiecesInOrder
    <3>3. PICK k \in 1..Len(chunks) : \E i :
            At(s, chunks[k], i) /\ n \in (i + 1)..(i + Len(chunks[k]))
      BY <2>1, <2>4 DEF CoverInv
    <3>4. PICK i : At(s, chunks[k], i) /\ n \in (i + 1)..(i + Len(chunks[k]))
      BY <3>3
    <3> DEFINE c == chunks[k]
    <3>5. i \in Nat /\ Len(c) \in Nat /\ Range(c) = {c[y] : y \in 1..Len(c)}
      BY <2>2, <3>4, RunInOrder
    <3>6. n - i \in 1..Len(c) /\ i + (n - i) = n
      BY <3>4, <3>5
    <3>7. c[n - i] = s[n] /\ c[n - i] \in Range(c)
      BY <3>4, <3>5, <3>6 DEF At
    <3>8. x \in InkOf(c)
      BY <3>1, <3>2, <3>7 DEF InkOf, Ink
    <3>9. c \in Range(chunks)
      BY <2>2 DEF Range
    <3> QED BY <3>8, <3>9
  <2>6. \A c : InkOf(c) \subseteq Ink(1..Len(text))
    BY DEF InkOf, Ink
  <2> QED BY <2>5, <2>6
<1> QED BY <1>1, Invariance, PTL

\* start_char and end_char of every chunk tell the truth: the pieces in between
\* are all there, in order and once, and what is left out is white space.
THEOREM Truthful == Spec => []OffsetsTrue
<1>1. ASSUME IInv PROVE OffsetsTrue
  <2> SUFFICES ASSUME NEW c \in Range(chunks)
               PROVE  /\ InkOf(c) = Ink(Span(c))
                      /\ \A x \in 1..(Len(c) - 1) : c[x].end_char <= c[x + 1].start_char
    BY DEF OffsetsTrue
  <2> DEFINE s == Pieces(text)
  <2>1. text \in Seq(Chars) /\ c # << >>
    BY <1>1, ChunkRuns
  <2>2. PICK i : At(s, c, i)
    BY <1>1, ChunkRuns
  <2>3. /\ c \in Seq(Section) /\ Len(c) \in Nat /\ i \in Nat
        /\ Range(c) = {c[x] : x \in 1..Len(c)}
        /\ \A x \in 1..Len(c) : c[x] \in Section /\ Piece(c[x])
        /\ \A x, y \in 1..Len(c) : x < y => c[x].end_char <= c[y].start_char
    BY <2>1, <2>2, RunInOrder
  <2>4. Len(c) >= 1 /\ Head(c) = c[1] /\ Last(c) = c[Len(c)]
    BY <2>1, <2>3 DEF Last
  <2>5. \A x \in 1..Len(c) : /\ c[1].start_char <= c[x].start_char
                             /\ c[x].end_char <= c[Len(c)].end_char
    <3> SUFFICES ASSUME NEW x \in 1..Len(c)
                 PROVE  /\ c[1].start_char <= c[x].start_char
                        /\ c[x].end_char <= c[Len(c)].end_char
      OBVIOUS
    <3>1. 1 \in 1..Len(c) /\ Len(c) \in 1..Len(c)
      BY <2>3, <2>4
    <3>2. x = 1 \/ c[1].end_char <= c[x].start_char
      BY <2>3, <3>1
    <3>3. x = Len(c) \/ c[x].end_char <= c[Len(c)].start_char
      BY <2>3, <3>1
    <3>4. \A y \in {1, x, Len(c)} :
            /\ c[y].start_char \in Nat /\ c[y].end_char \in Nat
            /\ c[y].start_char < c[y].end_char
      BY <2>3, <3>1 DEF Piece, Section
    <3> QED BY <3>2, <3>3, <3>4
  <2>6. ASSUME NEW x \in InkOf(c) PROVE x \in Ink(Span(c))
    <3>1. PICK y \in 1..Len(c) : x \in Positions(c[y])
      BY <2>3 DEF InkOf, Ink
    <3>2. x \in 1..Len(text) /\ text[x] \notin Spaces
      BY DEF InkOf, Ink
    <3>3. x \in Span(c)
      <4>1. /\ 1 \in 1..Len(c) /\ Len(c) \in 1..Len(c)
        BY <2>3, <2>4
      <4>2. \A z \in {1, y, Len(c)} : c[z].start_char \in Nat /\ c[z].end_char \in Nat
        BY <2>3, <4>1 DEF Section
      <4>3. c[1].start_char <= c[y].start_char /\ c[y].end_char <= c[Len(c)].end_char
        BY <2>5
      <4>4. x \in (c[y].start_char + 1)..c[y].end_char
        BY <3>1 DEF Positions
      <4>5. x \in (c[1].start_char + 1)..c[Len(c)].end_char
        BY <4>2, <4>3, <4>4
      <4>6. Head(c) = c[1] /\ Last(c) = c[Len(c)]
        BY <2>3, <2>4 DEF Last
      <4> QED BY <4>5, <4>6 DEF Span
    <3> QED BY <3>2, <3>3 DEF Ink
  <2>7. ASSUME NEW x \in Ink(Span(c)) PROVE x \in InkOf(c)
    <3>1. x \in 1..Len(text) /\ text[x] \notin Spaces /\ x \in Span(c)
      BY DEF Ink
    <3>2. /\ s \in Seq(Section) /\ Len(s) \in Nat
          /\ \A n, m \in 1..Len(s) : n < m => s[n].end_char <= s[m].start_char
      BY <2>1, PiecesInOrder
    <3>3. PICK n \in 1..Len(s) : x \in Positions(s[n])
      BY <2>1, <3>1, PiecesInOrder
    <3> HIDE DEF s
    <3> DEFINE a == i + 1
               b == i + Len(c)
    <3>4. a \in 1..Len(s) /\ b \in 1..Len(s) /\ s[a] = c[1] /\ s[b] = c[Len(c)]
      BY <2>2, <2>3, <2>4, <3>2 DEF At
    <3>5. \A z \in {n, a, b} : s[z].start_char \in Nat /\ s[z].end_char \in Nat
      <4>1. s[n] \in Section /\ s[a] \in Section /\ s[b] \in Section
        BY <3>2, <3>3, <3>4
      <4> QED BY <4>1 DEF Section
    <3>6. x \in (s[a].start_char + 1)..s[b].end_char
      BY <2>4, <3>1, <3>4 DEF Span
    <3>7. x \in (s[n].start_char + 1)..s[n].end_char
      BY <3>3 DEF Positions
    <3>8. ~(n < a)
      <4>1. n < a => s[n].end_char <= s[a].start_char
        BY <3>2, <3>4
      <4> HIDE DEF a, b
      <4> QED BY <3>5, <3>6, <3>7, <4>1
    <3>9. ~(b < n)
      <4>1. b < n => s[b].end_char <= s[n].start_char
        BY <3>2, <3>4
      <4> HIDE DEF a, b
      <4> QED BY <3>5, <3>6, <3>7, <4>1
    <3>10. n - i \in 1..Len(c) /\ i + (n - i) = n
      BY <2>3, <3>2, <3>8, <3>9
    <3>11. c[n - i] = s[n]
      BY <2>2, <3>10 DEF At
    <3>12. s[n] \in Range(c)
      BY <2>3, <3>10, <3>11
    <3> QED BY <3>1, <3>3, <3>12 DEF InkOf, Ink
  <2>8. \A x \in 1..(Len(c) - 1) : x \in 1..Len(c) /\ x + 1 \in 1..Len(c) /\ x < x + 1
    BY <2>3
  <2> QED BY <2>3, <2>6, <2>7, <2>8
<1> QED BY <1>1, Invariance, PTL

\* The merge is greedy: each chunk begins within the one before it or right
\* after it, and goes on beyond it with a piece that did not fit there.
THEOREM Merged == Spec => []Greedy
<1>1. ASSUME IInv PROVE Greedy
  <2> SUFFICES ASSUME NEW l \in 1..(Len(chunks) - 1)
               PROVE  LET c == chunks[l]
                          d == chunks[l + 1]
                      IN  /\ Head(c).start_char <= Head(d).start_char
                          /\ \E k \in 1..Len(d) :
                               /\ \A x \in 1..Len(d) :
                                    d[x].start_char >= Last(c).end_char <=> x >= k
                               /\ Cost(c) + length(d[k]) + 1 > chunk_size
    BY DEF Greedy
  <2> DEFINE c == chunks[l]
             d == chunks[l + 1]
             s == Pieces(text)
  <2>1. Typed
    BY <1>1 DEF IInv
  <2>2. pc # "split" /\ Len(chunks) \in Nat /\ l \in 1..Len(chunks)
    <3>1. chunks \in Seq(Seq(Section)) /\ Len(<< >>) = 0
      BY <2>1 DEF Typed
    <3>2. chunks # << >>
      BY <3>1
    <3> QED BY <2>1, <3>1, <3>2 DEF Typed
  <2>3. RunInv /\ ChainInv
    BY <1>1, <2>2 DEF IInv
  <2>4. c # << >> /\ text \in Seq(Chars)
    BY <2>1, <2>2, <2>3 DEF RunInv, Typed
  <2>5. PICK j : Follows(s, c, d, j)
    BY <2>3 DEF ChainInv
  <2>6. PICK i : /\ At(s, c, i) /\ At(s, d, j)
                 /\ i <= j /\ j <= i + Len(c) /\ i + Len(c) < j + Len(d)
                 /\ Cost(c) + length(s[i + Len(c) + 1]) + 1 > chunk_size
    BY <2>5 DEF Follows
  <2>7. /\ s \in Seq(Section) /\ Len(s) \in Nat
        /\ \A x \in 1..Len(s) : Piece(s[x])
        /\ \A x, y \in 1..Len(s) : x < y => s[x].end_char <= s[y].start_char
    BY <2>4, PiecesInOrder
  <2> HIDE DEF c, d, s
  <2>8. /\ c \in Seq(Section) /\ Len(c) \in Nat /\ i \in Nat /\ i + Len(c) <= Len(s)
        /\ d \in Seq(Section) /\ Len(d) \in Nat /\ j \in Nat /\ j + Len(d) <= Len(s)
        /\ \A x \in 1..Len(c) : c[x] = s[i + x]
        /\ \A x \in 1..Len(d) : d[x] = s[j + x]
    BY <2>6 DEF At
  <2>9. Len(c) >= 1 /\ Len(d) >= 1
    BY <2>4, <2>6, <2>8
  <2> DEFINE e == i + Len(c)
             k == e + 1 - j
  <2>10. /\ Head(c) = s[i + 1] /\ Head(d) = s[j + 1] /\ Last(c) = s[e]
    <3>1. Head(c) = c[1] /\ Head(d) = d[1] /\ Last(c) = c[Len(c)]
      BY <2>8, <2>9 DEF Last
    <3>2. 1 \in 1..Len(c) /\ Len(c) \in 1..Len(c) /\ 1 \in 1..Len(d)
      BY <2>8, <2>9
    <3> HIDE DEF k
    <3> QED BY <2>8, <3>1, <3>2
  <2>11. /\ e \in 1..Len(s) /\ i + 1 \in 1..Len(s) /\ j + 1 \in 1..Len(s)
         /\ k \in 1..Len(d) /\ j + k = e + 1
    BY <2>6, <2>7, <2>8, <2>9
  <2> HIDE DEF e, k
  <2>12. \A x \in 1..Len(s) : /\ s[x].start_char \in Nat /\ s[x].end_char \in Nat
                              /\ s[x].start_char < s[x].end_char
    BY <2>7 DEF Piece, Section
  <2>13. Head(c).start_char <= Head(d).start_char
    <3>1. i = j \/ i + 1 < j + 1
      BY <2>6, <2>8
    <3>2. i = j \/ s[i + 1].end_char <= s[j + 1].start_char
      BY <2>7, <2>11, <3>1
    <3>3. /\ s[i + 1].start_char \in Nat /\ s[i + 1].end_char \in Nat
          /\ s[i + 1].start_char < s[i + 1].end_char /\ s[j + 1].start_char \in Nat
      BY <2>11, <2>12
    <3>4. CASE i = j
      <4>1. s[i + 1].start_char <= s[i + 1].start_char
        BY <3>3
      <4> QED BY <2>10, <3>4, <4>1
    <3>5. CASE s[i + 1].end_char <= s[j + 1].start_char
      <4>1. s[i + 1].start_char <= s[j + 1].start_char
        BY <3>3, <3>5
      <4> QED BY <2>10, <4>1
    <3> QED BY <3>2, <3>4, <3>5
  <2>14. ASSUME NEW x \in 1..Len(d)
         PROVE  d[x].start_char >= Last(c).end_char <=> x >= k
    <3>1. d[x] = s[j + x] /\ j + x \in 1..Len(s)
      BY <2>7, <2>8
    <3>2. CASE x >= k
      <4>1. e < j + x
        BY <2>8, <2>11, <3>2
      <4>2. s[e].end_char <= s[j + x].start_char
        BY <2>7, <2>11, <3>1, <4>1
      <4>3. s[e].end_char \in Nat /\ s[j + x].start_char \in Nat
        BY <2>11, <2>12, <3>1
      <4>4. s[j + x].start_char >= s[e].end_char
        BY <4>2, <4>3
      <4> QED BY <2>10, <3>1, <3>2, <4>4
    <3>3. CASE ~(x >= k)
      <4>1. j + x = e \/ j + x < e
        BY <2>8, <2>11, <3>3
      <4>2. j + x = e \/ s[j + x].end_char <= s[e].start_char
        BY <2>7, <2>11, <3>1, <4>1
      <4>3. /\ s[j + x].start_char \in Nat /\ s[j + x].end_char \in Nat
            /\ s[j + x].start_char < s[j + x].end_char
            /\ s[e].start_char \in Nat /\ s[e].end_char \in Nat
            /\ s[e].start_char < s[e].end_char
        BY <2>11, <2>12, <3>1
      <4>4. ASSUME j + x = e PROVE ~(s[j + x].start_char >= s[e].end_char)
        <5>1. ~(s[j + x].start_char >= s[j + x].end_char)
          BY <4>3
        <5> QED BY <4>4, <5>1
      <4>5. ASSUME s[j + x].end_char <= s[e].start_char
            PROVE  ~(s[j + x].start_char >= s[e].end_char)
        <5>1. ~(s[j + x].start_char >= s[e].end_char)
          BY <4>3, <4>5
        <5> QED BY <5>1
      <4>6. ~(s[j + x].start_char >= s[e].end_char)
        BY <4>2, <4>4, <4>5
      <4> QED BY <2>10, <3>1, <3>3, <4>6
    <3> QED BY <3>2, <3>3
  <2>15. Cost(c) + length(d[k]) + 1 > chunk_size
    <3>1. d[k] = s[i + Len(c) + 1]
      BY <2>8, <2>11 DEF e
    <3> QED BY <2>6, <3>1
  <2> QED BY <2>11, <2>13, <2>14, <2>15 DEF c, d
<1> QED BY <1>1, Invariance, PTL
=============================================================================
