--------------------------- MODULE EnricherProofs ---------------------------
(***************************************************************************)
(* Images entered by hand are kept and scheduled products are not          *)
(* forgotten, for any products, catalogue and number of jobs.              *)
(***************************************************************************)
EXTENDS Enricher, FiniteSetTheorems, TLAPS

-----------------------------------------------------------------------------
(* bestMatch.                                                              *)

\* A list has no more words than places, and as many only if no word repeats.
LEMMA WordCount ==
  ASSUME NEW words \in Seq(STRING)
  PROVE  /\ IsFiniteSet(Words(words)) /\ Cardinality(Words(words)) \in Nat
         /\ Plain(words) =>
              \A i, j \in DOMAIN words : words[i] = words[j] => i = j
<1> DEFINE f == [i \in DOMAIN words |-> words[i]]
<1>1. /\ IsFiniteSet(DOMAIN words) /\ Cardinality(DOMAIN words) = Len(words)
      /\ Len(words) \in Nat
  <2>1. DOMAIN words = 1..Len(words) /\ Len(words) \in Nat
    OBVIOUS
  <2> QED
    BY <2>1, FS_Interval
<1>2. f \in Surjection(DOMAIN words, Words(words))
  BY DEF Surjection, Words
<1>3. /\ IsFiniteSet(Words(words))
      /\ Cardinality(Words(words)) = Cardinality(DOMAIN words)
           <=> f \in Injection(DOMAIN words, Words(words))
  <2> HIDE DEF f
  <2> QED
    BY <1>1, <1>2, FS_Surjection
<1>4. f \in Injection(DOMAIN words, Words(words)) =>
        \A i, j \in DOMAIN words : words[i] = words[j] => i = j
  BY DEF Injection, IsInjective
<1> QED
  BY <1>1, <1>3, <1>4, FS_CardinalityType DEF Plain

\* The entry's places whose word is the product's are the shared words.
LEMMA MatchedIsShared ==
  ASSUME NEW local \in Seq(STRING), NEW entry, entry.keywords \in Seq(STRING),
         Plain(entry.keywords)
  PROVE  Matched(local, entry) = Shared(local, entry.keywords)
<1> DEFINE words == entry.keywords
           S == {i \in DOMAIN words : words[i] \in Words(local)}
           T == Words(local) \cap Words(words)
           f == [i \in S |-> words[i]]
<1>1. f \in Bijection(S, T)
  <2>1. \A i, j \in DOMAIN words : words[i] = words[j] => i = j
    BY WordCount
  <2>2. f \in [S -> T]
    BY DEF Words
  <2>3. \A t \in T : \E i \in S : f[i] = t
    BY DEF Words
  <2> QED
    BY <2>1, <2>2, <2>3 DEF Bijection, Injection, IsInjective, Surjection
<1>2. IsFiniteSet(S)
  <2>1. DOMAIN words = 1..Len(words) /\ Len(words) \in Nat
    OBVIOUS
  <2>2. IsFiniteSet(1..Len(words))
    BY <2>1, FS_Interval
  <2>3. S \subseteq 1..Len(words)
    BY <2>1
  <2> HIDE DEF S, words
  <2> QED
    BY <2>2, <2>3, FS_Subset
<1>3. Cardinality(S) = Cardinality(T)
  <2> HIDE DEF f, S, T
  <2> QED
    BY <1>1, <1>2, FS_Bijection DEF ExistsBijection
<1> QED
  BY <1>3 DEF Matched, Shared

\* The words of both lists, once each, and the shared ones again.
LEMMA TotalIsAllAndShared ==
  ASSUME NEW local \in Seq(STRING), NEW entry, entry.keywords \in Seq(STRING),
         Plain(local), Plain(entry.keywords)
  PROVE  /\ Shared(local, entry.keywords) \in Nat
         /\ AllWords(local, entry.keywords) \in Nat
         /\ Shared(local, entry.keywords) <= AllWords(local, entry.keywords)
         /\ Total(local, entry) =
              AllWords(local, entry.keywords) + Shared(local, entry.keywords)
<1> DEFINE A == Words(local)  B == Words(entry.keywords)
<1>1. /\ IsFiniteSet(A) /\ Cardinality(A) \in Nat /\ Cardinality(A) = Len(local)
      /\ IsFiniteSet(B) /\ Cardinality(B) \in Nat
      /\ Cardinality(B) = Len(entry.keywords)
  BY WordCount DEF Plain
<1> HIDE DEF A, B
<1>2. /\ IsFiniteSet(A \cup B) /\ IsFiniteSet(A \cap B)
      /\ Cardinality(A \cup B) = Cardinality(A) + Cardinality(B) - Cardinality(A \cap B)
      /\ Cardinality(A \cap B) <= Cardinality(A)
      /\ Cardinality(A \cap B) <= Cardinality(B)
  BY <1>1, FS_Union, FS_Intersection
<1>3. Cardinality(A \cup B) \in Nat /\ Cardinality(A \cap B) \in Nat
  BY <1>2, FS_CardinalityType
<1>4. /\ Cardinality(A \cap B) <= Cardinality(A \cup B)
      /\ Cardinality(A) + Cardinality(B) = Cardinality(A \cup B) + Cardinality(A \cap B)
  BY <1>1, <1>2, <1>3
<1> QED
  BY <1>1, <1>3, <1>4 DEF Shared, AllWords, Total, A, B

LEMMA AcceptedIsAlike ==
  ASSUME NEW local \in Seq(STRING), NEW entry, entry.keywords \in Seq(STRING),
         Plain(local), Plain(entry.keywords)
  PROVE  /\ Accepted(local, entry) <=> Alike(local, entry.keywords)
         /\ Accepted(local, entry) => Matched(local, entry) \in Nat \ {0}
<1> DEFINE s == Shared(local, entry.keywords)  a == AllWords(local, entry.keywords)
<1>1. /\ Matched(local, entry) = s /\ Total(local, entry) = a + s
      /\ s \in Nat /\ a \in Nat
  BY MatchedIsShared, TotalIsAllAndShared
<1>2. Len(local) \in Nat /\ Cardinality(Words(local)) = Len(local)
  BY DEF Plain
<1> HIDE DEF s, a
<1>3. Accepted(local, entry) <=> s >= MinMatched(local) /\ 4 * s >= a + s
  BY <1>1 DEF Accepted
<1>4. Alike(local, entry.keywords) <=>
        3 * s >= a /\ s >= 1 /\ (Len(local) >= 2 => s >= 2)
  BY <1>2 DEF Alike, s, a
<1>5. s >= MinMatched(local) <=> s >= 1 /\ (Len(local) >= 2 => s >= 2)
  BY <1>1, <1>2 DEF MinMatched
<1>6. 4 * s >= a + s <=> 3 * s >= a
  BY <1>1
<1> QED
  BY <1>1, <1>3, <1>4, <1>5, <1>6

LEMMA BetterIsCloser ==
  ASSUME NEW local \in Seq(STRING), Plain(local),
         NEW a, a.keywords \in Seq(STRING), Plain(a.keywords),
         NEW b, b.keywords \in Seq(STRING), Plain(b.keywords)
  PROVE  Better(local, a, b) <=> Closer(local, a.keywords, b.keywords)
<1> DEFINE s == Shared(local, a.keywords)  u == AllWords(local, a.keywords)
           t == Shared(local, b.keywords)  v == AllWords(local, b.keywords)
<1>1. /\ Matched(local, a) = s /\ Total(local, a) = u + s
      /\ s \in Nat /\ u \in Nat
      /\ Matched(local, b) = t /\ Total(local, b) = v + t
      /\ t \in Nat /\ v \in Nat
  BY MatchedIsShared, TotalIsAllAndShared
<1>2. Closer(local, a.keywords, b.keywords) <=> s * v > t * u
  BY DEF Closer
<1> HIDE DEF s, t, u, v
<1>3. s * (v + t) = s * v + s * t /\ t * (u + s) = t * u + s * t
  BY <1>1
<1>4. s * v \in Nat /\ t * u \in Nat /\ s * t \in Nat
  BY <1>1
<1>5. s * (v + t) > t * (u + s) <=> s * v > t * u
  BY <1>3, <1>4
<1> QED
  BY <1>1, <1>2, <1>5 DEF Better

LEMMA TimesMonotone ==
  ASSUME NEW p \in Nat, NEW q \in Nat, NEW n \in Nat \ {0}
  PROVE  /\ p >= q => p * n >= q * n
         /\ p > q => p * n > q * n
<1>1. ASSUME p >= q
      PROVE  p * n >= q * n /\ (p > q => p * n > q * n)
  <2>1. PICK d \in Nat : p = q + d
    <3>1. p - q \in Nat /\ p = q + (p - q)
      BY <1>1
    <3> QED
      BY <3>1
  <2>2. p * n = q * n + d * n /\ q * n \in Nat
    BY <2>1
  <2>3. d * n \in Nat /\ (d > 0 => d * n > 0)
    OBVIOUS
  <2> QED
    BY <2>1, <2>2, <2>3
<1> QED
  BY <1>1

\* Fractions compared by cross-multiplication are ordered.
LEMMA FractionOrder ==
  ASSUME NEW a \in Nat, NEW b \in Nat, NEW c \in Nat,
         NEW x \in Nat \ {0}, NEW y \in Nat \ {0}, NEW z \in Nat \ {0},
         a * y >= b * x, b * z >= c * y
  PROVE  /\ a * z >= c * x
         /\ a * y > b * x \/ b * z > c * y => a * z > c * x
<1>1. /\ a * y \in Nat /\ b * x \in Nat /\ b * z \in Nat /\ c * y \in Nat
      /\ a * z \in Nat /\ c * x \in Nat
  OBVIOUS
<1>2. /\ (a * y) * z >= (b * x) * z
      /\ a * y > b * x => (a * y) * z > (b * x) * z
      /\ (b * z) * x >= (c * y) * x
      /\ b * z > c * y => (b * z) * x > (c * y) * x
  BY <1>1, TimesMonotone
<1>3. /\ (a * y) * z = (a * z) * y /\ (b * x) * z = (b * z) * x
      /\ (c * y) * x = (c * x) * y
  OBVIOUS
<1>4. /\ (a * z) * y \in Nat /\ (b * x) * z \in Nat /\ (c * x) * y \in Nat
  BY <1>1
<1>5. /\ (a * z) * y >= (c * x) * y
      /\ a * y > b * x \/ b * z > c * y => (a * z) * y > (c * x) * y
  BY <1>2, <1>3, <1>4
<1>6. /\ c * x > a * z => (c * x) * y > (a * z) * y
      /\ c * x >= a * z => (c * x) * y >= (a * z) * y
  BY <1>1, TimesMonotone
<1> QED
  BY <1>1, <1>4, <1>5, <1>6

\* A finite set with an order has an element that none is below.
LEMMA FirstOfOrder ==
  ASSUME NEW S, IsFiniteSet(S), S # {}, NEW R,
         \A x \in S : <<x, x>> \notin R,
         \A x, y, z \in S : <<x, y>> \in R /\ <<y, z>> \in R => <<x, z>> \in R
  PROVE  \E m \in S : \A y \in S : <<y, m>> \notin R
<1> DEFINE Upto(x) == {y \in S : y = x \/ <<y, x>> \in R}
           T == {Upto(x) : x \in S}
<1>1. T \subseteq SUBSET S /\ T # {}
  <2>1. T \subseteq SUBSET S
    OBVIOUS
  <2>2. PICK x : x \in S
    OBVIOUS
  <2>3. Upto(x) \in T
    BY <2>2
  <2> QED
    BY <2>1, <2>3
<1>2. \E A \in T : \A B \in T : ~(<<B, A>> \in StrictSubsetOrdering(S))
  <2>1. FiniteSubsetsOf(S) = SUBSET S
    BY FS_FiniteSubsetsOfFinite
  <2>2. IsWellFoundedOn(StrictSubsetOrdering(S), FiniteSubsetsOf(S))
    BY FS_StrictSubsetOrderingWellFounded
  <2> HIDE DEF T
  <2> QED
    BY <1>1, <2>1, <2>2, WFMin
<1>3. PICK m \in S : \A B \in T : ~(<<B, Upto(m)>> \in StrictSubsetOrdering(S))
  BY <1>2
<1>4. ASSUME NEW y \in S, <<y, m>> \in R PROVE FALSE
  <2>1. Upto(y) \subseteq Upto(m)
    BY <1>4
  <2>2. m \in Upto(m) /\ m \notin Upto(y)
    BY <1>4
  <2>3. Upto(y) \in T /\ Upto(y) \in SUBSET S /\ Upto(m) \in SUBSET S
    OBVIOUS
  <2> HIDE DEF Upto, T
  <2>4. Upto(y) # Upto(m)
    BY <2>2
  <2> QED
    BY <1>3, <2>1, <2>3, <2>4 DEF StrictSubsetOrdering
<1> QED
  BY <1>4

Beats(local, idx, i, j) ==
  \/ Closer(local, idx[i].keywords, idx[j].keywords)
  \/ /\ ~Closer(local, idx[j].keywords, idx[i].keywords)
     /\ i < j

PlainIndex(local, idx) ==
  /\ local \in Seq(STRING) /\ Plain(local)
  /\ \A i \in DOMAIN idx : idx[i].keywords \in Seq(STRING)
  /\ \A i \in DOMAIN idx : Plain(idx[i].keywords)

AlikeIn(local, idx) == {i \in DOMAIN idx : Alike(local, idx[i].keywords)}

LEMMA BeatsIsOrder ==
  ASSUME NEW local, NEW N \in Nat, NEW idx, DOMAIN idx = 1..N,
         PlainIndex(local, idx)
  PROVE  LET alike == AlikeIn(local, idx)
             B(i, j) == Beats(local, idx, i, j)
         IN  /\ \A i \in alike : ~B(i, i)
             /\ \A i, j \in alike : i # j => B(i, j) \/ B(j, i)
             /\ \A i, j \in alike : ~(B(i, j) /\ B(j, i))
             /\ \A i, j, k \in alike : B(i, j) /\ B(j, k) => B(i, k)
<1> DEFINE alike == AlikeIn(local, idx)
           s(i) == Shared(local, idx[i].keywords)
           u(i) == AllWords(local, idx[i].keywords)
           B(i, j) == Beats(local, idx, i, j)
<1>1. \A i \in alike : i \in Nat /\ s(i) \in Nat /\ u(i) \in Nat \ {0}
  <2> SUFFICES ASSUME NEW i \in alike
               PROVE  i \in Nat /\ s(i) \in Nat /\ u(i) \in Nat \ {0}
    OBVIOUS
  <2>1. i \in 1..N /\ Alike(local, idx[i].keywords)
    BY DEF AlikeIn
  <2>2. s(i) \in Nat /\ u(i) \in Nat /\ s(i) <= u(i)
    BY <2>1, TotalIsAllAndShared DEF PlainIndex
  <2>3. s(i) >= 1
    BY <2>1 DEF Alike
  <2> HIDE DEF s, u
  <2> QED
    BY <2>1, <2>2, <2>3
<1>2. \A i, j : B(i, j) <=> \/ s(i) * u(j) > s(j) * u(i)
                            \/ ~(s(j) * u(i) > s(i) * u(j)) /\ i < j
  BY DEF Beats, Closer
<1> HIDE DEF s, u, alike, B
<1>3. \A i, j \in alike : s(i) * u(j) \in Nat
  BY <1>1
<1>4. \A i, j, k \in alike :
        s(i) * u(j) >= s(j) * u(i) /\ s(j) * u(k) >= s(k) * u(j) =>
          /\ s(i) * u(k) >= s(k) * u(i)
          /\ s(i) * u(j) > s(j) * u(i) \/ s(j) * u(k) > s(k) * u(j) =>
               s(i) * u(k) > s(k) * u(i)
  BY <1>1, FractionOrder
<1>5. \A i, j \in alike : B(i, j) <=>
        \/ s(i) * u(j) > s(j) * u(i)
        \/ s(i) * u(j) >= s(j) * u(i) /\ i < j
  BY <1>2, <1>3
<1>6. \A i \in alike : ~B(i, i)
  BY <1>1, <1>2, <1>3
<1>7. \A i, j \in alike : /\ i # j => B(i, j) \/ B(j, i)
                          /\ ~(B(i, j) /\ B(j, i))
  <2> TAKE i, j \in alike
  <2> DEFINE p == s(i) * u(j)  q == s(j) * u(i)
  <2>1. i \in Nat /\ j \in Nat /\ p \in Nat /\ q \in Nat
    BY <1>1, <1>3
  <2>2. /\ B(i, j) <=> p > q \/ (p >= q /\ i < j)
        /\ B(j, i) <=> q > p \/ (q >= p /\ j < i)
    BY <1>5
  <2> HIDE DEF p, q
  <2> QED
    BY <2>1, <2>2
<1>8. \A i, j, k \in alike : B(i, j) /\ B(j, k) => B(i, k)
  <2> TAKE i, j, k \in alike
  <2> HAVE B(i, j) /\ B(j, k)
  <2>1. s(i) * u(j) >= s(j) * u(i) /\ s(j) * u(k) >= s(k) * u(j)
    BY <1>3, <1>5
  <2>2. CASE s(i) * u(j) > s(j) * u(i) \/ s(j) * u(k) > s(k) * u(j)
    BY <1>4, <1>5, <2>1, <2>2
  <2>3. CASE ~(s(i) * u(j) > s(j) * u(i) \/ s(j) * u(k) > s(k) * u(j))
    <3>1. i < j /\ j < k
      BY <1>5, <2>3
    <3>2. i < k
      BY <1>1, <3>1
    <3> QED
      BY <1>4, <1>5, <2>1, <3>2
  <2> QED
    BY <2>2, <2>3
<1> QED
  BY <1>6, <1>7, <1>8 DEF alike, B

\* Of the entries that are alike one beats all the others.
LEMMA OneBeatsAll ==
  ASSUME NEW local, NEW N \in Nat, NEW idx, DOMAIN idx = 1..N,
         PlainIndex(local, idx), AlikeIn(local, idx) # {}
  PROVE  \E i \in AlikeIn(local, idx) :
           \A j \in AlikeIn(local, idx) \ {i} : Beats(local, idx, i, j)
<1> DEFINE alike == AlikeIn(local, idx)
           B(i, j) == Beats(local, idx, i, j)
           R == {pair \in alike \X alike : B(pair[1], pair[2])}
<1>1. /\ \A i \in alike : ~B(i, i)
      /\ \A i, j \in alike : i # j => B(i, j) \/ B(j, i)
      /\ \A i, j, k \in alike : B(i, j) /\ B(j, k) => B(i, k)
  BY BeatsIsOrder
<1>2. IsFiniteSet(alike) /\ alike # {}
  <2>1. IsFiniteSet(1..N) /\ alike \subseteq 1..N
    BY FS_Interval DEF AlikeIn
  <2> HIDE DEF alike
  <2> QED
    BY <2>1, FS_Subset DEF alike
<1> HIDE DEF alike, B
<1>3. \A i, j \in alike : <<i, j>> \in R <=> B(i, j)
  OBVIOUS
<1>4. PICK i \in alike : \A j \in alike : <<j, i>> \notin R
  <2>1. /\ \A j \in alike : <<j, j>> \notin R
        /\ \A j, k, l \in alike :
             <<j, k>> \in R /\ <<k, l>> \in R => <<j, l>> \in R
    BY <1>1, <1>3
  <2> HIDE DEF R
  <2> QED
    BY <1>2, <2>1, FirstOfOrder
<1>5. \A j \in alike \ {i} : B(i, j)
  BY <1>1, <1>3, <1>4
<1> QED
  BY <1>5 DEF alike, B

\* The loop's best entry is the one that beats all the others.
LEMMA BestBeatsAll ==
  ASSUME NEW local, NEW N \in Nat, NEW idx, DOMAIN idx = 1..N,
         PlainIndex(local, idx), NEW i \in 1..N
  PROVE  IsBest(local, idx, i) <=>
           /\ i \in AlikeIn(local, idx)
           /\ \A j \in AlikeIn(local, idx) \ {i} : Beats(local, idx, i, j)
<1> DEFINE alike == AlikeIn(local, idx)
           B(j, k) == Beats(local, idx, j, k)
           C(j, k) == Closer(local, idx[j].keywords, idx[k].keywords)
<1>1. \A j \in 1..N : Accepted(local, idx[j]) <=> j \in alike
  BY AcceptedIsAlike DEF PlainIndex, AlikeIn
<1>2. \A j, k \in 1..N : Better(local, idx[j], idx[k]) <=> C(j, k)
  BY BetterIsCloser DEF PlainIndex
<1>3. IsBest(local, idx, i) <=>
        /\ i \in alike
        /\ \A j \in alike \ {i} : ~C(j, i) /\ (j < i => C(i, j))
  <2>1. alike \subseteq 1..N
    BY DEF AlikeIn
  <2> HIDE DEF alike, C
  <2> QED
    BY <1>1, <1>2, <2>1 DEF IsBest
<1>4. \A j, k : B(j, k) <=> C(j, k) \/ (~C(k, j) /\ j < k)
  BY DEF Beats
<1>5. \A j, k \in alike : j \in Nat /\ ~(B(j, k) /\ B(k, j))
  <2>1. \A j, k \in alike : ~(B(j, k) /\ B(k, j))
    BY BeatsIsOrder
  <2>2. \A j \in alike : j \in Nat
    BY DEF AlikeIn
  <2> QED
    BY <2>1, <2>2
<1> HIDE DEF alike, B, C
<1>6. ASSUME i \in alike, NEW j \in alike \ {i}
      PROVE  ~C(j, i) /\ (j < i => C(i, j)) <=> B(i, j)
  <2>1. i \in Nat /\ j \in Nat /\ i # j /\ ~(B(i, j) /\ B(j, i))
    BY <1>5, <1>6
  <2>2. j < i \/ i < j
    BY <2>1
  <2>3. ~(j < i /\ i < j)
    BY <2>1
  <2> QED
    BY <1>4, <2>1, <2>2, <2>3, Zenon
<1>7. IsBest(local, idx, i) <=> i \in alike /\ \A j \in alike \ {i} : B(i, j)
  BY <1>3, <1>6, Zenon
<1> QED
  BY <1>7 DEF alike, B

\* What bestMatch finds is right.
LEMMA MatchIsRight ==
  ASSUME NEW local \in Seq(STRING), NEW N \in Nat, NEW idx,
         DOMAIN idx = 1..N,
         \A i \in 1..N : idx[i].keywords \in Seq(STRING)
  PROVE  RightImage(local, idx, BestMatch(local, idx))
<1> SUFFICES ASSUME PlainIndex(local, idx)
             PROVE  \/ AlikeIn(local, idx) = {} /\ BestMatch(local, idx) = NoImage
                    \/ \E i \in AlikeIn(local, idx) :
                         /\ BestMatch(local, idx) = idx[i].thumb
                         /\ \A j \in AlikeIn(local, idx) \ {i} :
                              Beats(local, idx, i, j)
  BY DEF RightImage, PlainIndex, AlikeIn, Beats
<1>1. CASE \E i \in DOMAIN idx : IsBest(local, idx, i)
  <2> DEFINE i == CHOOSE j \in DOMAIN idx : IsBest(local, idx, j)
  <2>1. i \in 1..N /\ IsBest(local, idx, i)
    BY <1>1
  <2>2. BestMatch(local, idx) = idx[i].thumb
    BY <1>1 DEF BestMatch
  <2> HIDE DEF i
  <2> QED
    BY <2>1, <2>2, BestBeatsAll
<1>2. CASE ~\E i \in DOMAIN idx : IsBest(local, idx, i)
  <2>1. BestMatch(local, idx) = NoImage
    BY <1>2 DEF BestMatch
  <2>2. ~\E i \in AlikeIn(local, idx) :
          \A j \in AlikeIn(local, idx) \ {i} : Beats(local, idx, i, j)
    <3>1. AlikeIn(local, idx) \subseteq 1..N
      BY DEF AlikeIn
    <3> QED
      BY <1>2, <3>1, BestBeatsAll
  <2> QED
    BY <2>1, <2>2, OneBeatsAll
<1> QED
  BY <1>1, <1>2

-----------------------------------------------------------------------------
(* Types.                                                                  *)

USE DEF Runner

\* A match is one of the index's thumbnails.
LEMMA MatchType ==
  ASSUME NEW local, NEW idx \in Seq(Entry)
  PROVE  BestMatch(local, idx) \in Thumb \cup {NoImage}
<1>1. CASE \E i \in DOMAIN idx : IsBest(local, idx, i)
  <2>1. PICK i \in DOMAIN idx : i = CHOOSE j \in DOMAIN idx : IsBest(local, idx, j)
    BY <1>1, Zenon
  <2>2. idx[i] \in Entry
    OBVIOUS
  <2>3. idx[i].thumb \in Thumb
    BY <2>2 DEF Entry
  <2>4. BestMatch(local, idx) = idx[i].thumb
    BY <1>1, <2>1, Zenon DEF BestMatch
  <2> QED
    BY <2>3, <2>4
<1>2. CASE ~\E i \in DOMAIN idx : IsBest(local, idx, i)
  BY <1>2 DEF BestMatch
<1> QED
  BY <1>1, <1>2

LEMMA FetchedType ==
  ASSUME NEW s \in 1..Subcats, NEW entries \in Fetched(s)
  PROVE  entries \in Seq(Entry)
<1>1. Entries[s] \in Seq(Entry)
  BY EntriesAssumption
<1>2. <<>> \in Seq(Entry)
  OBVIOUS
<1>3. entries = Entries[s] \/ entries = <<>>
  BY DEF Fetched
<1> QED
  BY <1>1, <1>2, <1>3

LEMMA InitInv == Init => EnricherInv
<1> SUFFICES ASSUME Init PROVE EnricherInv
  OBVIOUS
<1>1. TypeOK
  <2>1. <<>> \in Seq(Entry) /\ 1 \in 1..Subcats /\ "off" \in PC
    BY SubcatsAssumption DEF PC
  <2> QED
    BY <2>1 DEF Init, TypeOK
<1>2. ManualKept /\ ManualIsLocked
  BY DEF Init, ManualKept, ManualIsLocked
<1>3. NoneForgotten
  BY DEF Init, NoneForgotten
<1> QED
  BY <1>1, <1>2, <1>3 DEF EnricherInv

-----------------------------------------------------------------------------
(* One lemma for each conjunct: what a step does to it.                    *)

\* The ways a run ends keep the types.
LEMMA EndRunType ==
  ASSUME TypeOK, NEW r \in Runner, NEW next \in PC, EndRun(r, next)
  PROVE  /\ pc' \in [Runner -> PC]
         /\ index' \in [Runner -> Seq(Entry)]
         /\ subcat' \in [Runner -> 1..Subcats]
         /\ todo' \in [Runner -> SUBSET known]
BY SubcatsAssumption DEF TypeOK, EndRun

LEMMA FailType ==
  ASSUME TypeOK, NEW r \in Runner, Fail(r)
  PROVE  TypeOK'
<1>1. /\ pc' \in [Runner -> PC]
      /\ index' \in [Runner -> Seq(Entry)]
      /\ subcat' \in [Runner -> 1..Subcats]
      /\ todo' \in [Runner -> SUBSET known]
  <2>1. (IF r = Worker THEN "failed" ELSE "off") \in PC
    BY DEF PC
  <2> QED
    BY <2>1, EndRunType DEF Fail
<1>2. waiting' \subseteq known
  BY DEF Fail, Forget, TypeOK
<1> QED
  BY <1>1, <1>2 DEF TypeOK, Fail, productVars, workerVars

LEMMA RunStepType ==
  ASSUME TypeOK, NEW r \in Runner, RunStep(r)
  PROVE  TypeOK'
<1> USE DEF TypeOK, productVars, workerVars, runVars, history
<1>1. CASE ProductIndex(r)
  BY <1>1 DEF ProductIndex, Goto, PC
<1>2. CASE ProductIndexFails(r)
  BY <1>2, FailType DEF ProductIndexFails
<1>3. CASE FetchSubcategory(r)
  <2>1. PICK entries \in Fetched(subcat[r]) :
          index' = [index EXCEPT ![r] = @ \o entries]
    BY <1>3 DEF FetchSubcategory
  <2>2. entries \in Seq(Entry)
    BY FetchedType
  <2>3. index[r] \o entries \in Seq(Entry)
    BY <2>2
  <2>4. index' \in [Runner -> Seq(Entry)]
    BY <2>1, <2>3
  <2>5. /\ cache' \in Seq(Entry)
        /\ subcat' \in [Runner -> 1..Subcats]
        /\ pc' \in [Runner -> PC]
    <3>1. CASE subcat[r] < Subcats
      <4>1. subcat[r] + 1 \in 1..Subcats
        BY <3>1, SubcatsAssumption
      <4> QED
        BY <1>3, <3>1, <4>1 DEF FetchSubcategory
    <3>2. CASE ~(subcat[r] < Subcats)
      <4>1. pc' = [pc EXCEPT ![r] = "list"] /\ subcat' = subcat
        BY <1>3, <3>2 DEF FetchSubcategory, Goto
      <4>2. index'[r] \in Seq(Entry)
        BY <2>4
      <4>3. cache' \in Seq(Entry)
        BY <1>3, <3>2, <4>2 DEF FetchSubcategory
      <4> QED
        BY <4>1, <4>3 DEF PC
    <3> QED
      BY <3>1, <3>2
  <2>6. UNCHANGED <<productVars, pending, todo, history>>
    BY <1>3 DEF FetchSubcategory
  <2> QED
    BY <2>4, <2>5, <2>6
<1>4. CASE List(r)
  <2>1. WithoutImage \subseteq known
    BY DEF WithoutImage
  <2>2. todo' \in [Runner -> SUBSET known]
    BY <1>4, <2>1 DEF List
  <2> QED
    BY <1>4, <2>2 DEF List, Goto, PC
<1>5. CASE StoreFails(r)
  BY <1>5, FailType DEF StoreFails
<1>6. ASSUME NEW p \in Product, Try(r, p)
      PROVE  TypeOK'
  <2>1. PICK tr \in Translation :
          LET url == BestMatch(Local[p][tr], index[r])
          IN  image' = [image EXCEPT ![p] = IF url = NoImage THEN @ ELSE url]
    BY <1>6 DEF Try
  <2>2. BestMatch(Local[p][tr], index[r]) \in Thumb \cup {NoImage}
    BY MatchType
  <2>3. image' \in [Product -> Thumb \cup {NoImage}]
    BY <2>1, <2>2
  <2>4. todo' \in [Runner -> SUBSET known]
    BY <1>6 DEF Try
  <2> QED
    BY <1>6, <2>3, <2>4 DEF Try
<1>7. CASE Finish(r)
  <2>1. (IF r = Worker THEN "idle" ELSE "off") \in PC
    BY DEF PC
  <2> QED
    BY <1>7, <2>1, EndRunType DEF Finish
<1> QED
  BY <1>1, <1>2, <1>3, <1>4, <1>5, <1>6, <1>7 DEF RunStep

\* Types are kept by every step.
LEMMA TypeStep == TypeOK /\ [Next]_vars => TypeOK'
<1> SUFFICES ASSUME TypeOK, [Next]_vars PROVE TypeOK'
  OBVIOUS
<1> USE DEF productVars, workerVars, runVars, history
<1>1. ASSUME NEW p \in Product, Import(p)
      PROVE  TypeOK'
  <2>1. todo' \in [Runner -> SUBSET known']
    BY <1>1 DEF Import, TypeOK
  <2> QED
    BY <1>1, <2>1 DEF Import, TypeOK
<1>2. ASSUME NEW p \in Product, Schedule(p)
      PROVE  TypeOK'
  BY <1>2 DEF Schedule, TypeOK
<1>3. ASSUME NEW p \in Product, NEW url \in ByHand[p], SetManual(p, url)
      PROVE  TypeOK'
  <2>1. url \in Thumb
    BY ImageAssumption
  <2> QED
    BY <1>3, <2>1 DEF SetManual, TypeOK
<1>4. CASE Start
  BY <1>4 DEF Start, Goto, PC, TypeOK
<1>5. CASE WorkerStep
  <2>1. CASE TakeSignal
    BY <2>1 DEF TakeSignal, Goto, PC, TypeOK
  <2>2. CASE RunStep(Worker)
    BY <2>2, RunStepType
  <2>3. CASE Continue
    BY <2>3 DEF Continue, Goto, PC, TypeOK
  <2> QED
    BY <1>5, <2>1, <2>2, <2>3 DEF WorkerStep
<1>6. CASE Expire
  BY <1>6 DEF Expire, TypeOK
<1>7. CASE Restart
  <2>1. "off" \in PC /\ <<>> \in Seq(Entry)
    BY DEF PC
  <2>2. /\ pc' \in [Runner -> PC]
        /\ index' \in [Runner -> Seq(Entry)]
        /\ subcat' \in [Runner -> 1..Subcats]
        /\ todo' \in [Runner -> SUBSET known]
    BY <1>7, <2>1, EndRunType DEF Restart
  <2> QED
    BY <1>7, <2>1, <2>2 DEF Restart, TypeOK
<1>8. ASSUME NEW j \in Job, StartJob(j) \/ RunStep(j) \/ StopJob(j)
      PROVE  TypeOK'
  <2>1. CASE StartJob(j)
    BY <2>1 DEF StartJob, Goto, PC, TypeOK
  <2>2. CASE RunStep(j)
    BY <2>2, RunStepType
  <2>3. CASE StopJob(j)
    BY <2>3, FailType DEF StopJob
  <2> QED
    BY <1>8, <2>1, <2>2, <2>3
<1>9. CASE UNCHANGED vars
  BY <1>9 DEF vars, TypeOK
<1> QED
  BY <1>1, <1>2, <1>3, <1>4, <1>5, <1>6, <1>7, <1>8, <1>9 DEF Next

-----------------------------------------------------------------------------
(* Images entered by hand.                                                 *)

\* A runner's own steps list products that are not locked, and update those
\* it has listed.
LEMMA RunStepImages ==
  ASSUME TypeOK, NEW r \in Runner, RunStep(r)
  PROVE  /\ UNCHANGED <<known, locked, manual, exposed>>
         /\ \A p \in Product : p \notin todo[r] => image'[p] = image[p]
         /\ \A s \in Runner, p \in Product :
              p \in todo'[s] => p \in todo[s] \/ p \notin locked
<1> USE DEF productVars, workerVars, runVars, history, TypeOK
<1>1. CASE ProductIndex(r)
  BY <1>1 DEF ProductIndex
<1>2. ASSUME Fail(r)
      PROVE  /\ UNCHANGED <<known, locked, manual, exposed, image>>
             /\ \A s \in Runner : todo'[s] \subseteq todo[s]
  BY <1>2 DEF Fail, EndRun
<1>3. CASE FetchSubcategory(r)
  BY <1>3 DEF FetchSubcategory
<1>4. CASE List(r)
  BY <1>4 DEF List, WithoutImage
<1>5. ASSUME NEW p \in Product, Try(r, p)
      PROVE  /\ UNCHANGED <<known, locked, manual, exposed>>
             /\ p \in todo[r]
             /\ \A q \in Product \ {p} : image'[q] = image[q]
             /\ \A s \in Runner : todo'[s] \subseteq todo[s]
  <2>1. PICK url : image' = [image EXCEPT ![p] = url]
    BY <1>5, Zenon DEF Try
  <2> QED
    BY <1>5, <2>1 DEF Try
<1>6. CASE Finish(r)
  BY <1>6 DEF Finish, EndRun
<1> QED
  BY <1>1, <1>2, <1>3, <1>4, <1>5, <1>6
     DEF RunStep, ProductIndexFails, StoreFails

ManualInv == ManualKept /\ ManualIsLocked

LEMMA ManualStep ==
  TypeOK /\ ManualInv /\ [Next]_vars => ManualInv'
<1> SUFFICES ASSUME TypeOK, ManualInv, [Next]_vars PROVE ManualInv'
  OBVIOUS
<1> USE DEF productVars, workerVars, runVars, history,
            ManualInv, ManualKept, ManualIsLocked
<1>1. ASSUME NEW r \in Runner, RunStep(r)
      PROVE  ManualInv'
  BY <1>1, RunStepImages
<1>2. ASSUME NEW p \in Product, Import(p) \/ Schedule(p)
      PROVE  ManualInv'
  BY <1>2 DEF Import, Schedule
<1>3. ASSUME NEW p \in Product, NEW url \in ByHand[p], SetManual(p, url)
      PROVE  ManualInv'
  BY <1>3 DEF SetManual, TypeOK
<1>4. CASE Start \/ TakeSignal \/ Continue \/ Expire
  BY <1>4 DEF Start, TakeSignal, Continue, Expire
<1>5. ASSUME NEW r \in Runner, NEW next, EndRun(r, next),
             UNCHANGED <<productVars, manual, exposed>>
      PROVE  ManualInv'
  BY <1>5 DEF EndRun, TypeOK
<1>6. CASE Restart
  BY <1>5, <1>6 DEF Restart
<1>7. ASSUME NEW j \in Job, StartJob(j) \/ StopJob(j)
      PROVE  ManualInv'
  <2>1. CASE StartJob(j)
    BY <2>1 DEF StartJob
  <2>2. CASE StopJob(j)
    BY <1>5, <2>2 DEF StopJob, Fail
  <2> QED
    BY <1>7, <2>1, <2>2
<1>8. CASE UNCHANGED vars
  BY <1>8 DEF vars
<1> QED
  BY <1>1, <1>2, <1>3, <1>4, <1>6, <1>7, <1>8 DEF Next, WorkerStep

-----------------------------------------------------------------------------
(* Scheduled products.                                                     *)

\* A job does not touch the worker, its signal or what it owes.
LEMMA JobStep ==
  ASSUME TypeOK, NEW j \in Job, StartJob(j) \/ RunStep(j) \/ StopJob(j)
  PROVE  /\ UNCHANGED <<waiting, pending>>
         /\ pc'[Worker] = pc[Worker] /\ todo'[Worker] = todo[Worker]
<1> USE WorkerAssumption DEF workerVars, history, runVars, TypeOK
<1>1. j # Worker
  OBVIOUS
<1>2. ASSUME Fail(j)
      PROVE  /\ UNCHANGED <<waiting, pending>>
             /\ pc'[Worker] = pc[Worker] /\ todo'[Worker] = todo[Worker]
  BY <1>1, <1>2 DEF Fail, EndRun, Forget
<1>3. CASE StartJob(j)
  BY <1>1, <1>3 DEF StartJob, Goto
<1>4. CASE ProductIndex(j) \/ FetchSubcategory(j)
  <2>1. \/ Goto(j, "list") \/ Goto(j, "fetch") \/ UNCHANGED pc
    BY <1>4 DEF ProductIndex, FetchSubcategory
  <2> QED
    BY <1>1, <1>4, <2>1 DEF ProductIndex, FetchSubcategory, Goto
<1>5. CASE List(j)
  BY <1>1, <1>5 DEF List, Goto
<1>6. ASSUME NEW p \in Product, Try(j, p)
      PROVE  /\ UNCHANGED <<waiting, pending>>
             /\ pc'[Worker] = pc[Worker] /\ todo'[Worker] = todo[Worker]
  BY <1>1, <1>6 DEF Try
<1>7. CASE Finish(j)
  BY <1>1, <1>7 DEF Finish, EndRun
<1>8. CASE ProductIndexFails(j) \/ StoreFails(j) \/ StopJob(j)
  BY <1>2, <1>8 DEF ProductIndexFails, StoreFails, StopJob
<1>9. CASE RunStep(j)
  BY <1>4, <1>5, <1>6, <1>7, <1>8, <1>9 DEF RunStep
<1> QED
  BY <1>3, <1>8, <1>9

LEMMA WorkerRun ==
  ASSUME TypeOK, NoneForgotten, RunStep(Worker)
  PROVE  NoneForgotten'
<1> USE DEF workerVars, history, runVars, NoneForgotten, TypeOK
<1>1. CASE ProductIndex(Worker)
  BY <1>1 DEF ProductIndex, Goto
<1>2. ASSUME Fail(Worker)
      PROVE  NoneForgotten'
  BY <1>2 DEF Fail, Forget
<1>3. CASE FetchSubcategory(Worker)
  <2>1. pc'[Worker] \in {"fetch", "list"} /\ UNCHANGED waiting
    BY <1>3 DEF FetchSubcategory, Goto
  <2> QED
    BY <2>1
<1>4. CASE List(Worker)
  <2>1. todo'[Worker] = WithoutImage /\ waiting' \subseteq WithoutImage
    BY <1>4 DEF List
  <2> QED
    BY <2>1
<1>5. ASSUME NEW p \in Product, Try(Worker, p)
      PROVE  NoneForgotten'
  <2>1. /\ pc[Worker] = "match" /\ UNCHANGED <<pc, pending>>
        /\ waiting' = waiting \ {p}
        /\ todo'[Worker] = todo[Worker] \ {p}
    BY <1>5 DEF Try
  <2> QED
    BY <2>1
<1>6. CASE Finish(Worker)
  BY <1>6 DEF Finish
<1> QED
  BY <1>1, <1>2, <1>3, <1>4, <1>5, <1>6
     DEF RunStep, ProductIndexFails, StoreFails

LEMMA ForgottenStep ==
  TypeOK /\ NoneForgotten /\ [Next]_vars => NoneForgotten'
<1> SUFFICES ASSUME TypeOK, NoneForgotten, [Next]_vars PROVE NoneForgotten'
  OBVIOUS
<1> USE DEF productVars, workerVars, runVars, history, NoneForgotten
<1>1. ASSUME NEW p \in Product, Import(p) \/ Schedule(p)
      PROVE  NoneForgotten'
  BY <1>1 DEF Import, Schedule
<1>2. ASSUME NEW p \in Product, NEW url \in ByHand[p], SetManual(p, url)
      PROVE  NoneForgotten'
  BY <1>2 DEF SetManual
<1>3. CASE Start \/ Continue
  BY <1>3 DEF Start, Continue, Goto, TypeOK
<1>4. CASE TakeSignal
  BY <1>4 DEF TakeSignal, Goto, TypeOK
<1>5. CASE RunStep(Worker)
  BY <1>5, WorkerRun
<1>6. CASE Expire \/ Restart
  BY <1>6 DEF Expire, Restart
<1>7. ASSUME NEW j \in Job, StartJob(j) \/ RunStep(j) \/ StopJob(j)
      PROVE  NoneForgotten'
  BY <1>7, JobStep
<1>8. CASE UNCHANGED vars
  BY <1>8 DEF vars
<1> QED
  BY <1>1, <1>2, <1>3, <1>4, <1>5, <1>6, <1>7, <1>8 DEF Next, WorkerStep

-----------------------------------------------------------------------------
(* Runs try what they have listed, and only then.                          *)

\* A run has products listed only while it matches.
ListedInMatch == \A r \in Runner : pc[r] # "match" => todo[r] = {}

\* What a step does to the list of a runner: nothing (or it is empty, and
\* the runner goes on to another step), the run ends, the list is made, or a
\* product is tried.
ListChange(s) ==
  \/ todo'[s] = todo[s] /\ (pc'[s] = pc[s] \/ pc[s] # "match")
  \/ todo'[s] = {} /\ pc'[s] # "match"
  \/ pc[s] = "list" /\ pc'[s] = "match"
  \/ \E p \in Product : Try(s, p)

LEMMA ListChanges ==
  ASSUME TypeOK, [Next]_vars, NEW s \in Runner
  PROVE  ListChange(s)
<1> USE DEF productVars, workerVars, runVars, history
<1>1. ASSUME UNCHANGED <<pc, todo>> PROVE ListChange(s)
  BY <1>1 DEF ListChange
<1>2. ASSUME NEW r \in Runner, NEW next, Goto(r, next), UNCHANGED todo,
             pc[r] # "match"
      PROVE  ListChange(s)
  BY <1>2 DEF Goto, TypeOK, ListChange
<1>3. ASSUME NEW r \in Runner, NEW next, EndRun(r, next), next # "match"
      PROVE  ListChange(s)
  BY <1>3 DEF EndRun, TypeOK, ListChange
<1>4. ASSUME NEW r \in Runner, Fail(r) PROVE ListChange(s)
  BY <1>3, <1>4 DEF Fail
<1>5. ASSUME NEW r \in Runner, RunStep(r) PROVE ListChange(s)
  <2>1. CASE ProductIndex(r) \/ FetchSubcategory(r)
    <3>1. /\ UNCHANGED todo /\ pc[r] # "match"
          /\ Goto(r, "list") \/ Goto(r, "fetch") \/ UNCHANGED pc
      BY <2>1 DEF ProductIndex, FetchSubcategory
    <3> QED
      BY <1>1, <1>2, <3>1
  <2>2. CASE ProductIndexFails(r) \/ StoreFails(r)
    BY <1>4, <2>2 DEF ProductIndexFails, StoreFails
  <2>3. CASE List(r)
    BY <2>3 DEF List, Goto, TypeOK, ListChange
  <2>4. ASSUME NEW p \in Product, Try(r, p) PROVE ListChange(s)
    <3>1. CASE r = s
      BY <2>4, <3>1 DEF ListChange
    <3>2. CASE r # s
      BY <2>4, <3>2 DEF Try, TypeOK, ListChange
    <3> QED
      BY <3>1, <3>2
  <2>5. CASE Finish(r)
    BY <1>3, <2>5 DEF Finish
  <2> QED
    BY <1>5, <2>1, <2>2, <2>3, <2>4, <2>5 DEF RunStep
<1>6. ASSUME NEW p \in Product, Import(p) \/ Schedule(p) PROVE ListChange(s)
  BY <1>1, <1>6 DEF Import, Schedule
<1>7. ASSUME NEW p \in Product, NEW url \in ByHand[p], SetManual(p, url)
      PROVE  ListChange(s)
  BY <1>1, <1>7 DEF SetManual
<1>8. CASE Start \/ TakeSignal \/ Continue
  <2>1. UNCHANGED todo /\ pc[Worker] # "match"
    BY <1>8 DEF Start, TakeSignal, Continue
  <2>2. Goto(Worker, "idle") \/ Goto(Worker, "index")
    BY <1>8 DEF Start, TakeSignal, Continue
  <2> QED
    BY <1>2, <2>1, <2>2
<1>9. CASE Expire
  BY <1>1, <1>9 DEF Expire
<1>10. CASE Restart
  BY <1>3, <1>10 DEF Restart
<1>11. ASSUME NEW j \in Job, StartJob(j) \/ StopJob(j) PROVE ListChange(s)
  <2>1. CASE StartJob(j)
    BY <1>2, <2>1 DEF StartJob
  <2>2. CASE StopJob(j)
    BY <1>4, <2>2 DEF StopJob
  <2> QED
    BY <1>11, <2>1, <2>2
<1>12. CASE UNCHANGED vars
  BY <1>1, <1>12 DEF vars
<1>13. CASE WorkerStep
  BY <1>5, <1>8, <1>13 DEF WorkerStep
<1> QED
  BY <1>5, <1>6, <1>7, <1>8, <1>9, <1>10, <1>11, <1>12, <1>13 DEF Next

LEMMA ListedStep ==
  TypeOK /\ ListedInMatch /\ [Next]_vars => ListedInMatch'
<1> SUFFICES ASSUME TypeOK, ListedInMatch, [Next]_vars, NEW s \in Runner,
                    pc'[s] # "match"
             PROVE  todo'[s] = {}
  BY DEF ListedInMatch
<1>1. ASSUME NEW p \in Product, Try(s, p) PROVE FALSE
  BY <1>1 DEF Try, workerVars
<1> QED
  BY <1>1, ListChanges DEF ListedInMatch, ListChange

\* What a run tries gets the right image.
LEMMA TriedStep ==
  ASSUME TypeOK, ListedInMatch, [Next]_vars, NEW r \in Runner, NEW p \in todo[r],
         todo'[r] = todo[r] \ {p}, pc'[r] = "match"
  PROVE  \E tr \in Translation, url \in Thumb \cup {NoImage} :
           /\ image' = [image EXCEPT ![p] = IF url = NoImage THEN @ ELSE url]
           /\ RightImage(Local[p][tr], index[r], url)
<1>1. PICK q \in Product : Try(r, q)
  BY ListChanges DEF ListedInMatch, ListChange
<1>2. q = p
  <2>1. todo'[r] = todo[r] \ {q} /\ q \in todo[r]
    BY <1>1 DEF Try, TypeOK
  <2> QED
    BY <2>1
<1>3. PICK tr \in Translation :
        image' = [image EXCEPT ![p] =
                    IF BestMatch(Local[p][tr], index[r]) = NoImage
                    THEN @ ELSE BestMatch(Local[p][tr], index[r])]
  BY <1>1, <1>2 DEF Try
<1>4. /\ Local[p][tr] \in Seq(STRING)
      /\ index[r] \in Seq(Entry)
  <2>1. p \in Product /\ tr \in BOOLEAN
    BY DEF TypeOK, Translation
  <2> QED
    BY <2>1, LocalAssumption DEF TypeOK
<1>5. BestMatch(Local[p][tr], index[r]) \in Thumb \cup {NoImage}
  BY <1>4, MatchType
<1>6. RightImage(Local[p][tr], index[r], BestMatch(Local[p][tr], index[r]))
  <2>1. /\ Len(index[r]) \in Nat /\ DOMAIN index[r] = 1..Len(index[r])
        /\ \A i \in 1..Len(index[r]) : index[r][i] \in Entry
    BY <1>4
  <2>2. \A i \in 1..Len(index[r]) : index[r][i].keywords \in Seq(STRING)
    BY <2>1 DEF Entry
  <2> QED
    BY <1>4, <2>1, <2>2, MatchIsRight
<1> QED
  BY <1>3, <1>5, <1>6

-----------------------------------------------------------------------------
\* Tables, channel, cache and runs have their types: a run's index holds
\* only entries of the catalogue's kind and lists only known products.
THEOREM TypeCorrect == Spec => []TypeOK
<1>1. Init => TypeOK
  BY InitInv DEF EnricherInv
<1>2. TypeOK /\ [Next]_vars => TypeOK'
  BY TypeStep
<1> QED
  BY <1>1, <1>2, PTL DEF Spec

\* An image that a user entered is never replaced by a run that lists
\* products afterwards, whatever the number of runs (ProductImageHandler).
THEOREM ManualKeptHolds == Spec => []ManualKept
<1>1. Init => TypeOK /\ ManualInv
  BY InitInv DEF EnricherInv, ManualInv
<1>2. TypeOK /\ ManualInv /\ [Next]_vars => TypeOK' /\ ManualInv'
  BY TypeStep, ManualStep
<1>3. ManualInv => ManualKept
  BY DEF ManualInv
<1> QED
  BY <1>1, <1>2, <1>3, PTL DEF Spec

\* A channel of capacity one is enough: no product that was scheduled is
\* forgotten while signals are dropped (Schedule, Start).
THEOREM NoneForgottenHolds == Spec => []NoneForgotten
<1>1. Init => TypeOK /\ NoneForgotten
  BY InitInv DEF EnricherInv
<1>2. TypeOK /\ NoneForgotten /\ [Next]_vars => TypeOK' /\ NoneForgotten'
  BY TypeStep, ForgottenStep
<1> QED
  BY <1>1, <1>2, PTL DEF Spec

\* For any keywords, catalogue and number of runs, a run leaves a product it
\* tries with the thumbnail of the first of the entries that share most with
\* it, or with the image it had if none is alike (bestMatch, enrichProduct).
THEOREM TriedByRuleHolds == Spec => TriedByRule
<1> DEFINE ByRule ==
             \A r \in Runner : \A p \in todo[r] :
               todo'[r] = todo[r] \ {p} /\ pc'[r] = "match" =>
                 \E tr \in Translation, url \in Thumb \cup {NoImage} :
                   /\ image' = [image EXCEPT ![p] = IF url = NoImage THEN @ ELSE url]
                   /\ RightImage(Local[p][tr], index[r], url)
<1>1. Init => TypeOK /\ ListedInMatch
  BY InitInv DEF EnricherInv, Init, ListedInMatch
<1>2. TypeOK /\ ListedInMatch /\ [Next]_vars => TypeOK' /\ ListedInMatch'
  BY TypeStep, ListedStep
<1>3. TypeOK /\ ListedInMatch /\ [Next]_vars => ByRule
  <2> SUFFICES ASSUME TypeOK, ListedInMatch, [Next]_vars PROVE ByRule
    OBVIOUS
  <2> QED
    BY TriedStep
<1>4. TriedByRule <=> [][ByRule]_vars
  BY DEF TriedByRule
<1> HIDE DEF ByRule
<1> QED
  BY <1>1, <1>2, <1>3, <1>4, PTL DEF Spec
=============================================================================
