--------------------------- MODULE TransferProofs ---------------------------
(* What is proved of Transfer, for every image, every choice of relocated slots *)
(* and of further blocks, every unwind table and every jump table that the      *)
(* assumptions allow, and for words of any width.                              *)
(*                                                                             *)
(* First the operators: numbers in order, the search among the blocks of a      *)
(* function, DT_RELR written and read, the writable image, what a word means,   *)
(* the arms of a table, the rows of the two tables, the pads.  Then TransferInv: *)
(* wherever a transfer is, what it still has of the word aims at what the guest *)
(* means by it, and that has a block or is an arm nothing vouches for.  One     *)
(* lemma for each action says that it keeps it.                                *)
EXTENDS Transfer, FiniteSetTheorems, SequenceTheorems, WellFoundedInduction, TLAPS

-----------------------------------------------------------------------------
(* Sets of numbers.                                                           *)

\* Of a set of natural numbers that is not empty, one is the least.
LEMMA LeastNumber ==
    ASSUME NEW T \in SUBSET Nat, T # {}
    PROVE  \E m \in T : \A k \in T : m <= k
<1> DEFINE R == {xy \in Nat \X Nat : xy[1] < xy[2]}
<1>1. IsWellFoundedOn(R, Nat)
  BY NatLessThanWellFounded DEF OpToRel
<1>2. \A k, m \in Nat : k < m => <<k, m>> \in R
  OBVIOUS
<1> HIDE DEF R
<1>3. PICK m \in T : \A k \in T : <<k, m>> \notin R
  BY <1>1, WFMin
<1>4. ASSUME NEW k \in T PROVE m <= k
  <2>1. k \in Nat /\ m \in Nat /\ ~(k < m)
    BY <1>2, <1>3
  <2> QED BY <2>1
<1> QED BY <1>4

\* The least number of a set is in it.
LEMMA MinFacts ==
    ASSUME NEW T \in SUBSET Nat, T # {}
    PROVE  Min(T) \in T /\ \A k \in T : Min(T) <= k
BY LeastNumber DEF Min

\* So is the greatest, if the set has a bound.
LEMMA MaxFacts ==
    ASSUME NEW T \in SUBSET Nat, T # {}, NEW b \in Nat, \A k \in T : k <= b
    PROVE  Max(T) \in T /\ \A k \in T : k <= Max(T)
<1> DEFINE U == {i \in Nat : \E k \in T : i = b - k}
<1>1. PICK i \in U : \A j \in U : i <= j
  <2>1. U \in SUBSET Nat /\ U # {}
    <3>1. PICK k \in T : TRUE
      OBVIOUS
    <3>2. b - k \in Nat
      BY <3>1
    <3> QED BY <3>1, <3>2
  <2> HIDE DEF U
  <2> QED BY <2>1, LeastNumber
<1>2. PICK m \in T : i = b - m
  OBVIOUS
<1>3. ASSUME NEW k \in T PROVE m >= k
  <2>1. b - k \in U
    OBVIOUS
  <2>2. i <= b - k
    BY <1>1, <2>1
  <2> QED BY <1>2, <2>2
<1> QED BY <1>3 DEF Max

\* Ascending lists each number of a finite set once, in order.
LEMMA AscendingFacts ==
    ASSUME NEW S \in SUBSET Nat, IsFiniteSet(S)
    PROVE  /\ Ascending(S) \in Seq(S) /\ Len(Ascending(S)) = Cardinality(S)
           /\ DOMAIN Ascending(S) = 1 .. Cardinality(S)
           /\ \A i \in DOMAIN Ascending(S) : Ascending(S)[i] \in S
           /\ \A i, j \in DOMAIN Ascending(S) : i < j => Ascending(S)[i] < Ascending(S)[j]
           /\ \A x \in S : \E i \in DOMAIN Ascending(S) : Ascending(S)[i] = x
           /\ \A i \in DOMAIN Ascending(S) :
                  Cardinality({y \in S : y < Ascending(S)[i]}) = i - 1
<1> DEFINE n == Cardinality(S)
           below(x) == {y \in S : y < x}
           rank == [x \in S |-> Cardinality(below(x))]
           s == Ascending(S)
<1>1. IsFiniteSet(S) /\ n \in Nat /\ S \subseteq Nat
  BY FS_CardinalityType
<1>2. ASSUME NEW x \in S
      PROVE  IsFiniteSet(below(x)) /\ Cardinality(below(x)) \in 0..n - 1
  <2>1. below(x) \in SUBSET S /\ below(x) # S
    BY <1>1
  <2>2. IsFiniteSet(below(x)) /\ Cardinality(below(x)) <= n /\ Cardinality(below(x)) # n
    BY <1>1, <2>1, FS_Subset
  <2>3. Cardinality(below(x)) \in Nat
    BY <2>2, FS_CardinalityType
  <2> QED BY <1>1, <2>2, <2>3
<1>3. ASSUME NEW x \in S, NEW y \in S, x < y PROVE rank[x] < rank[y]
  <2>1. below(x) \in SUBSET below(y) /\ below(x) # below(y)
    <3>1. \A z \in S : z < x => z < y
      BY <1>1, <1>3
    <3>2. x \in below(y) /\ x \notin below(x)
      BY <1>1, <1>3
    <3> QED BY <3>1, <3>2
  <2>2. Cardinality(below(x)) <= Cardinality(below(y)) /\ Cardinality(below(x)) # Cardinality(below(y))
    BY <1>2, <2>1, FS_Subset
  <2>3. Cardinality(below(x)) \in 0..n - 1 /\ Cardinality(below(y)) \in 0..n - 1
    BY <1>2
  <2>4. Cardinality(below(x)) < Cardinality(below(y))
    <3> HIDE DEF below, n
    <3> QED BY <1>1, <2>2, <2>3
  <2> QED BY <2>4
<1>4. rank \in [S -> 0..n - 1]
  BY <1>2
<1>5. \A x, y \in S : rank[x] = rank[y] => x = y
  <2> SUFFICES ASSUME NEW x \in S, NEW y \in S, rank[x] = rank[y], x # y PROVE FALSE
    OBVIOUS
  <2>1. rank[x] \in 0..n - 1 /\ rank[y] \in 0..n - 1
    BY <1>4
  <2>2. x < y \/ y < x
    BY <1>1
  <2>3. ~(rank[x] < rank[y]) /\ ~(rank[y] < rank[x])
    <3> HIDE DEF rank
    <3> QED BY <1>1, <2>1
  <2> QED BY <1>3, <2>2, <2>3
<1>6. rank \in Surjection(S, 0..n - 1)
  <2>1. rank \in Injection(S, 0..n - 1)
    BY <1>4, <1>5 DEF Injection, IsInjective
  <2>2. IsFiniteSet(0..n - 1) /\ Cardinality(0..n - 1) = n
    <3>1. 0 \in Int /\ n - 1 \in Int /\ (0 > n - 1 => n = 0) /\ n - 1 - 0 + 1 = n
      BY <1>1
    <3> HIDE DEF n
    <3> QED BY <3>1, FS_Interval
  <2> HIDE DEF rank
  <2> QED BY <1>1, <2>1, <2>2, FS_Injection
<1>7. \A x \in S : rank[x] = Cardinality(below(x))
  OBVIOUS
<1>8. s = [i \in 1..n |-> CHOOSE x \in S : Cardinality(below(x)) = i - 1]
  BY DEF Ascending
<1> HIDE DEF rank, below, s, n
<1>9. ASSUME NEW i \in 1..n PROVE s[i] \in S /\ rank[s[i]] = i - 1
  <2>1. i - 1 \in 0..n - 1
    BY <1>1
  <2>2. \E x \in S : rank[x] = i - 1
    BY <1>6, <2>1 DEF Surjection
  <2>3. s[i] = CHOOSE x \in S : Cardinality(below(x)) = i - 1
    BY <1>8
  <2> QED BY <1>7, <2>2, <2>3
<1>10. s \in [1..n -> S]
  <2>1. s = [i \in 1..n |-> s[i]]
    BY <1>8
  <2> QED BY <1>9, <2>1
<1>11. s \in Seq(S) /\ DOMAIN s = 1..n /\ Len(s) = n
  <2>2. \A f \in [1..n -> S] : f \in Seq(S) /\ DOMAIN f = 1..n /\ Len(f) = n
    BY <1>1
  <2> QED BY <1>10, <2>2
<1>12. ASSUME NEW x \in S PROVE \E i \in 1..n : s[i] = x
  <2>1. PICK r \in 0..n - 1 : rank[x] = r
    BY <1>4
  <2>2. r + 1 \in 1..n /\ r + 1 - 1 = r
    BY <1>1, <2>1
  <2>3. s[r + 1] \in S /\ rank[s[r + 1]] = r
    BY <1>9, <2>2
  <2> QED BY <1>5, <2>1, <2>2, <2>3
<1>13. ASSUME NEW i \in 1..n, NEW j \in 1..n, i < j PROVE s[i] < s[j]
  <2>1. s[i] \in S /\ s[j] \in S /\ s[i] \in Nat /\ s[j] \in Nat
    BY <1>1, <1>9
  <2>2. rank[s[i]] = i - 1 /\ rank[s[j]] = j - 1
    BY <1>9
  <2>3. s[j] < s[i] => rank[s[j]] < rank[s[i]]
    BY <1>3, <2>1
  <2>4. s[i] # s[j] /\ ~(s[j] < s[i])
    BY <1>13, <2>2, <2>3
  <2> QED BY <2>1, <2>4
<1>14. \A i \in 1..n : Cardinality({y \in S : y < s[i]}) = i - 1
  BY <1>7, <1>9 DEF below
<1> QED BY <1>9, <1>11, <1>12, <1>13, <1>14 DEF s, n

\* Remainders of numbers that are at most one turn away.
LEMMA Remainder ==
    ASSUME NEW w \in Nat, NEW x \in Int
    PROVE  /\ x \in 0 .. w - 1 => x % w = x
           /\ x \in -w .. -1 => x % w = x + w
           /\ w # 0 => x % w \in 0 .. w - 1
<1>1. CASE x \in 0 .. w - 1
  BY <1>1, SMT
<1>2. CASE x \in -w .. -1
  BY <1>2, SMT
<1>3. w # 0 => x % w \in 0 .. w - 1
  BY SMT
<1> QED BY <1>1, <1>2, <1>3

-----------------------------------------------------------------------------
(* The dispatch inside a function.                                            *)

\* One of a finite set of numbers is in the middle.
LEMMA MiddleFacts ==
    ASSUME NEW S \in SUBSET Nat, IsFiniteSet(S), S # {}
    PROVE  Middle(S) \in S
<1> DEFINE n == Cardinality(S)
           i == (n - 1) \div 2 + 1
<1>1. n \in Nat /\ n # 0
  BY FS_CardinalityType, FS_EmptySet
<1>2. i \in 1 .. n /\ i - 1 = (n - 1) \div 2
  <2> HIDE DEF n
  <2> QED BY <1>1
<1>3. /\ Ascending(S)[i] \in S
      /\ Cardinality({y \in S : y < Ascending(S)[i]}) = i - 1
  <2>1. i \in DOMAIN Ascending(S)
    BY <1>2, AscendingFacts
  <2> HIDE DEF i
  <2> QED BY <2>1, AscendingFacts
<1> HIDE DEF i
<1> QED BY <1>2, <1>3 DEF Middle

\* The part of a finite set below or above the middle has fewer members.
LEMMA HalvesAreSmaller ==
    ASSUME NEW S \in SUBSET Nat, IsFiniteSet(S), NEW m \in S, NEW T \in SUBSET S, m \notin T
    PROVE  IsFiniteSet(T) /\ Cardinality(T) \in Nat /\ Cardinality(T) < Cardinality(S)
<1>1. IsFiniteSet(T) /\ Cardinality(T) <= Cardinality(S) /\ Cardinality(T) # Cardinality(S)
  BY FS_Subset
<1>2. Cardinality(T) \in Nat /\ Cardinality(S) \in Nat
  BY <1>1, FS_CardinalityType
<1> QED BY <1>1, <1>2

\* The generated search (rec in emit_local_dispatch) finds just what is there.
LEMMA SearchedFinds ==
    ASSUME NEW all \in SUBSET Nat, IsFiniteSet(all), NEW k \in Nat
    PROVE  Searched(all, k) <=> k \in all
<1> DEFINE Under(ks) == {y \in ks : y < Middle(ks)}
           Over(ks) == {y \in ks : y > Middle(ks)}
           Eqn(g) == g = [ks \in SUBSET all |->
                            IF Cardinality(ks) <= 4 THEN k \in ks
                            ELSE \/ k = Middle(ks)
                                 \/ k < Middle(ks) /\ g[Under(ks)]
                                 \/ k > Middle(ks) /\ g[Over(ks)]]
<1>1. Searched(all, k) = (CHOOSE g : Eqn(g))[all]
  BY DEF Searched
<1>2. \A ks \in SUBSET all : IsFiniteSet(ks) /\ Cardinality(ks) \in Nat /\ ks \in SUBSET Nat
  BY FS_Subset, FS_CardinalityType
<1>3. \A ks \in SUBSET all :
         /\ Under(ks) \in SUBSET all /\ Over(ks) \in SUBSET all
         /\ ~(Cardinality(ks) <= 4) => Middle(ks) \in ks
  <2> TAKE ks \in SUBSET all
  <2>1. Cardinality({}) = 0
    BY FS_EmptySet
  <2>2. ~(Cardinality(ks) <= 4) => ks # {}
    BY <2>1
  <2> QED BY <1>2, <2>2, MiddleFacts
<1> DEFINE f == [ks \in SUBSET all |-> k \in ks]
<1>4. \E g : Eqn(g)
  <2>1. ASSUME NEW ks \in SUBSET all
        PROVE  (k \in ks) = IF Cardinality(ks) <= 4 THEN k \in ks
                            ELSE \/ k = Middle(ks)
                                 \/ k < Middle(ks) /\ f[Under(ks)]
                                 \/ k > Middle(ks) /\ f[Over(ks)]
    <3>1. f[Under(ks)] = (k \in Under(ks)) /\ f[Over(ks)] = (k \in Over(ks))
      BY <1>3
    <3>2. ~(Cardinality(ks) <= 4) => Middle(ks) \in ks /\ Middle(ks) \in Nat
      BY <1>3
    <3>3. CASE Cardinality(ks) <= 4
      BY <3>3, Zenon
    <3>4. CASE ~(Cardinality(ks) <= 4)
      <4> DEFINE m == Middle(ks)
                 Split(a, b) == k = m \/ (k < m /\ a) \/ (k > m /\ b)
      <4>1. k \in ks <=> Split(k \in Under(ks), k \in Over(ks))
        BY <1>2, <3>2, <3>4
      <4>2. (k \in ks) = Split(k \in Under(ks), k \in Over(ks))
        <5> HIDE DEF m, Under, Over
        <5> QED BY <4>1, SMT
      <4>3. (k \in ks) = Split(f[Under(ks)], f[Over(ks)])
        <5> HIDE DEF m, Split, f, Under, Over
        <5> QED BY <3>1, <4>2, Zenon
      <4>4. Split(f[Under(ks)], f[Over(ks)]) =
              (IF Cardinality(ks) <= 4 THEN k \in ks
               ELSE \/ k = Middle(ks)
                    \/ k < Middle(ks) /\ f[Under(ks)]
                    \/ k > Middle(ks) /\ f[Over(ks)])
        <5> HIDE DEF f, Under, Over
        <5> QED BY <3>4, Zenon
      <4> HIDE DEF f
      <4> QED BY <4>3, <4>4, Zenon
    <3> QED BY <3>3, <3>4
  <2>2. Eqn(f)
    <3> DEFINE h == [ks \in SUBSET all |->
                            IF Cardinality(ks) <= 4 THEN k \in ks
                            ELSE \/ k = Middle(ks)
                                 \/ k < Middle(ks) /\ f[Under(ks)]
                                 \/ k > Middle(ks) /\ f[Over(ks)]]
    <3>1. \A ks \in SUBSET all : f[ks] = h[ks]
      BY <2>1, Zenon
    <3>2. f = h
      BY <3>1, Zenon
    <3> QED BY <3>2, Zenon
  <2> QED BY <2>2
<1>5. PICK g : Eqn(g) /\ Searched(all, k) = g[all]
  BY <1>1, <1>4
<1> DEFINE T == {n \in Nat : \E ks \in SUBSET all : Cardinality(ks) = n /\ ~(g[ks] <=> k \in ks)}
<1>6. CASE T = {}
  <2>1. all \in SUBSET all /\ Cardinality(all) \in Nat /\ Cardinality(all) \notin T
    BY <1>2, <1>6
  <2> QED BY <1>5, <2>1
<1>7. CASE T # {}
  <2>1. PICK n \in T : \A j \in T : n <= j
    <3>1. T \in SUBSET Nat
      OBVIOUS
    <3> HIDE DEF T
    <3> QED BY <1>7, <3>1, LeastNumber
  <2>2. PICK ks \in SUBSET all : Cardinality(ks) = n /\ ~(g[ks] <=> k \in ks)
    BY <2>1
  <2>3. g[ks] = IF Cardinality(ks) <= 4 THEN k \in ks
                ELSE \/ k = Middle(ks)
                     \/ k < Middle(ks) /\ g[Under(ks)]
                     \/ k > Middle(ks) /\ g[Over(ks)]
    BY <1>5, Zenon
  <2>4. CASE Cardinality(ks) <= 4
    <3>1. g[ks] = (k \in ks)
      BY <2>3, <2>4, Zenon
    <3> QED BY <2>2, <3>1
  <2>5. CASE ~(Cardinality(ks) <= 4)
    <3> DEFINE m == Middle(ks)
    <3>1. m \in ks /\ m \in Nat
      BY <1>2, <1>3, <2>5
    <3>2. \A h \in {Under(ks), Over(ks)} :
             h \in SUBSET ks /\ m \notin h /\ h \in SUBSET all
      BY <1>2, <3>1
    <3>3. \A h \in {Under(ks), Over(ks)} : g[h] <=> k \in h
      <4> TAKE h \in {Under(ks), Over(ks)}
      <4>1. Cardinality(h) \in Nat /\ Cardinality(h) < n
        BY <1>2, <2>2, <3>1, <3>2, HalvesAreSmaller
      <4>2. Cardinality(h) \notin T
        BY <2>1, <4>1
      <4> QED BY <3>2, <4>1, <4>2
    <3>4. g[ks] = (k = m \/ (k < m /\ g[Under(ks)]) \/ (k > m /\ g[Over(ks)]))
      BY <2>3, <2>5, Zenon
    <3>5. (k = m \/ (k < m /\ g[Under(ks)]) \/ (k > m /\ g[Over(ks)])) <=> k \in ks
      <4>1. g[Under(ks)] <=> k \in Under(ks)
        BY <3>3
      <4>2. g[Over(ks)] <=> k \in Over(ks)
        BY <3>3
      <4>3. (k = m \/ (k < m /\ k \in Under(ks)) \/ (k > m /\ k \in Over(ks))) <=> k \in ks
        BY <1>2, <3>1
      <4> HIDE DEF Under, Over, m
      <4> QED BY <4>1, <4>2, <4>3, Zenon
    <3> QED BY <2>2, <3>4, <3>5, Zenon
  <2> QED BY <2>4, <2>5
<1> QED BY <1>6, <1>7

\* Inside the span of the blocks the index of a word is that of one block only.
LEMMA IndexIsBlock ==
    ASSUME NEW cases \in SUBSET Nat, NEW m \in cases, \A c \in cases : m <= c /\ (c - m) % 4 = 0,
           NEW p \in Nat, m <= p, (p - m) % 4 = 0
    PROVE  (p - m) \div 4 \in {(c - m) \div 4 : c \in cases} <=> p \in cases
<1>1. ASSUME NEW c \in cases, (c - m) \div 4 = (p - m) \div 4 PROVE c = p
  <2>1. c \in Nat /\ m <= c /\ (c - m) % 4 = 0
    OBVIOUS
  <2>2. c - m = 4 * ((c - m) \div 4) /\ p - m = 4 * ((p - m) \div 4)
    BY <2>1, SMT
  <2> QED BY <1>1, <2>1, <2>2
<1> QED BY <1>1

\* emit_local_dispatch: exactly equivalent to the switch it replaces.
LEMMA LocalIsPlain ==
    ASSUME NEW cases \in SUBSET Nat, IsFiniteSet(cases), Word \in Nat, Key \in Nat \ {0},
           \A c \in cases : c < Word, \A a, b \in cases : a - b < 4 * Key,
           NEW p \in Words, cases # {}
    PROVE  LocalDispatch(cases, p) = Plain(cases, p)
<1> DEFINE m   == Min(cases)
           M   == Max(cases)
           off == (p - m) % Word
           k   == (off \div 4) % Key
           ks  == Indices(cases)
           inside == off <= M - m /\ off % 4 = 0
           dense  == Max(ks) + 1 <= Sparse * Cardinality(cases)
<1>1. p \in Nat /\ p < Word /\ Word \in Nat \ {0}
  BY DEF Words
<1>2. m \in cases /\ m \in Nat /\ \A c \in cases : m <= c
  BY MinFacts
<1>3. M \in cases /\ M \in Nat /\ \A c \in cases : c <= M
  <2>1. \A c \in cases : c <= Word
    OBVIOUS
  <2> QED BY <2>1, MaxFacts
<1>4. LocalDispatch(cases, p) =
        IF NoIndex(cases) THEN Plain(cases, p)
        ELSE IF inside /\ (IF dense THEN k \in ks ELSE Searched(ks, k)) THEN m + 4 * k
        ELSE NoBlock
  BY DEF LocalDispatch
<1>5. CASE NoIndex(cases)
  BY <1>4, <1>5
<1>6. CASE ~NoIndex(cases)
  <2>1. \A c \in cases : (c - m) % 4 = 0
    BY <1>6 DEF NoIndex
  <2>2. ks = {(c - m) \div 4 : c \in cases}
    BY DEF Indices
  <2>3. \A c \in cases : c - m \in Nat /\ (c - m) \div 4 \in Nat
    BY <1>2
  <2>4. ks \in SUBSET Nat /\ IsFiniteSet(ks)
    <3> DEFINE index == [c \in cases |-> (c - m) \div 4]
    <3>1. IsFiniteSet({index[c] : c \in cases})
      <4>1. index \in Surjection(cases, {index[c] : c \in cases})
        BY DEF Surjection
      <4> HIDE DEF index
      <4> QED BY <4>1, FS_Surjection
    <3>2. {index[c] : c \in cases} = ks
      BY <2>2
    <3> QED BY <2>2, <2>3, <3>1, <3>2
  <2>5. off \in Nat /\ k \in Nat /\ (p >= m => off = p - m) /\ (p < m => off = p - m + Word)
    <3>1. p - m \in Int /\ (p >= m => p - m \in 0 .. Word - 1) /\ (p < m => p - m \in -Word .. -1)
      BY <1>1, <1>2
    <3>2. off \in 0 .. Word - 1 /\ (p >= m => off = p - m) /\ (p < m => off = p - m + Word)
      BY <1>1, <3>1, Remainder
    <3> HIDE DEF off, m
    <3>3. off \div 4 \in Nat
      BY <1>1, <3>2
    <3>4. (off \div 4) % Key \in Nat
      BY <3>3, SMT
    <3> QED BY <3>2, <3>4
  <2>6. inside => p >= m /\ off = p - m /\ (p - m) % 4 = 0 /\ k = (p - m) \div 4
    <3> SUFFICES ASSUME inside PROVE p >= m /\ off = p - m /\ (p - m) % 4 = 0 /\ k = (p - m) \div 4
      OBVIOUS
    <3>1. p >= m
      <4>1. M < Word /\ off <= M - m
        BY <1>3
      <4> HIDE DEF off, m, M
      <4> QED BY <1>1, <1>2, <1>3, <2>5, <4>1
    <3>2. off = p - m
      BY <2>5, <3>1
    <3>3. off \div 4 \in 0 .. Key - 1
      <4>1. M - m < 4 * Key /\ off <= M - m
        BY <1>2, <1>3
      <4> HIDE DEF off, m, M
      <4> QED BY <1>2, <1>3, <2>5, <4>1
    <3>4. k = off \div 4
      <4>1. \A x \in 0 .. Key - 1 : x % Key = x
        <5> TAKE x \in 0 .. Key - 1
        <5>1. Key \in Nat /\ x \in Int
          OBVIOUS
        <5> QED BY <5>1, Remainder
      <4> HIDE DEF off
      <4> QED BY <3>3, <4>1
    <3> HIDE DEF m, M, k
    <3> QED BY <3>1, <3>2, <3>4
  <2>7. p \in cases => inside
    <3> SUFFICES ASSUME p \in cases PROVE inside
      OBVIOUS
    <3>1. p >= m /\ p <= M /\ (p - m) % 4 = 0
      BY <1>2, <1>3, <2>1
    <3>2. off = p - m
      BY <2>5, <3>1
    <3> HIDE DEF off, m, M
    <3> QED BY <1>1, <1>2, <1>3, <3>1, <3>2
  <2>8. (IF dense THEN k \in ks ELSE Searched(ks, k)) <=> k \in ks
    <3>1. Searched(ks, k) <=> k \in ks
      BY <2>4, <2>5, SearchedFinds
    <3> QED BY <3>1
  <2>9. inside => (k \in ks <=> p \in cases)
    <3> SUFFICES ASSUME inside PROVE k \in ks <=> p \in cases
      OBVIOUS
    <3>1. p >= m /\ (p - m) % 4 = 0 /\ k = (p - m) \div 4
      BY <2>6
    <3>2. m <= p /\ \A c \in cases : m <= c /\ (c - m) % 4 = 0
      BY <1>1, <1>2, <2>1, <3>1
    <3> HIDE DEF m, k, ks
    <3>3. (p - m) \div 4 \in {(c - m) \div 4 : c \in cases} <=> p \in cases
      BY <1>1, <1>2, <3>1, <3>2, IndexIsBlock
    <3> QED BY <2>2, <3>1, <3>3
  <2>10. inside => m + 4 * k = p
    <3> SUFFICES ASSUME inside PROVE m + 4 * k = p
      OBVIOUS
    <3>1. p >= m /\ (p - m) % 4 = 0 /\ k = (p - m) \div 4
      BY <2>6
    <3> HIDE DEF m, k
    <3>2. p - m = 4 * ((p - m) \div 4)
      BY <1>1, <1>2, <3>1, SMT
    <3> QED BY <1>1, <1>2, <3>1, <3>2
  <2> HIDE DEF inside, dense, ks, k, off, m, M
  <2>11. CASE p \in cases
    BY <1>4, <1>6, <2>7, <2>8, <2>9, <2>10, <2>11 DEF Plain
  <2>12. CASE p \notin cases
    BY <1>4, <1>6, <2>7, <2>8, <2>9, <2>10, <2>12 DEF Plain
  <2> QED BY <2>11, <2>12
<1> QED BY <1>5, <1>6

-----------------------------------------------------------------------------
(* DT_RELR: the entries are read one after the other.                         *)

\* A function that goes on from each number to the next.
GoesOnBy(f, c, M, F) == f[0] = c /\ \A n \in 1 .. M : f[n] = F[n][f[n - 1]]

\* A function that begins and goes on as given exists.
LEMMA StepsExist ==
    ASSUME NEW D, NEW c \in D, NEW N \in Nat, NEW F \in [1 .. N -> [D -> D]]
    PROVE  \E f \in [0 .. N -> D] : GoesOnBy(f, c, N, F)
<1> DEFINE Runs(M, f) == f[0] = c /\ \A n \in 1 .. M : f[n] = F[n][f[n - 1]]
           T == {M \in Nat : M <= N /\ ~ \E f \in [0 .. M -> D] : Runs(M, f)}
<1>1. ASSUME T # {} PROVE FALSE
  <2>1. PICK M \in T : \A k \in T : M <= k
    <3>1. T \in SUBSET Nat
      OBVIOUS
    <3> HIDE DEF T
    <3> QED BY <1>1, <3>1, LeastNumber
  <2>2. M \in Nat /\ M <= N /\ ~ \E f \in [0 .. M -> D] : Runs(M, f)
    BY <2>1
  <2>3. CASE M = 0
    <3> DEFINE f == [n \in 0 .. 0 |-> c]
    <3>1. f \in [0 .. 0 -> D] /\ Runs(0, f)
      OBVIOUS
    <3> QED BY <2>2, <2>3, <3>1
  <2>4. CASE M # 0
    <3>1. M - 1 \in Nat /\ M - 1 <= N /\ ~(M <= M - 1)
      BY <2>2, <2>4
    <3>2. M - 1 \notin T
      BY <2>1, <3>1
    <3>3. PICK f \in [0 .. M - 1 -> D] : Runs(M - 1, f)
      BY <3>1, <3>2
    <3> DEFINE g == [n \in 0 .. M |-> IF n = M THEN F[M][f[M - 1]] ELSE f[n]]
    <3>4. M \in 1 .. N /\ M - 1 \in 0 .. M - 1 /\ f[M - 1] \in D
      BY <2>2, <2>4, <3>3
    <3>5. F[M][f[M - 1]] \in D
      BY <3>4
    <3>6. g \in [0 .. M -> D]
      <4>1. \A n \in 0 .. M : n # M => n \in 0 .. M - 1
        BY <2>2
      <4> QED BY <3>3, <3>5, <4>1
    <3>7. Runs(M, g)
      <4>1. g[0] = c
        BY <2>2, <2>4, <3>3
      <4>2. ASSUME NEW n \in 1 .. M PROVE g[n] = F[n][g[n - 1]]
        <5>1. n - 1 \in 0 .. M - 1 /\ g[n - 1] = f[n - 1]
          BY <2>2
        <5>2. CASE n = M
          BY <2>2, <5>1, <5>2
        <5>3. CASE n # M
          <6>1. n \in 1 .. M - 1 /\ g[n] = f[n]
            BY <2>2, <5>3
          <6> QED BY <3>3, <5>1, <6>1
        <5> QED BY <5>2, <5>3
      <4> QED BY <4>1, <4>2
    <3> QED BY <2>2, <3>6, <3>7
  <2> QED BY <2>3, <2>4
<1>2. N \notin T
  BY <1>1
<1> QED BY <1>2 DEF GoesOnBy

-----------------------------------------------------------------------------
(* DT_RELR.                                                                   *)

Entry   == [anchor : Nat, bits : SUBSET Nat]
Read    == [slots : SUBSET Nat, base : Nat]

\* Reading an entry gives slots and a base again.
LEMMA ReadNextIsRead ==
    ASSUME NEW r \in Read, NEW e \in Entry
    PROVE  ReadNext(r, e) \in Read
<1>1. RelrBits \in Nat /\ SlotSize = 8
  BY ImageAssumption DEF SlotSize
<1>2. r.slots \in SUBSET Nat /\ r.base \in Nat /\ e.anchor \in Nat /\ e.bits \in SUBSET Nat
  BY DEF Read, Entry
<1>3. RelrBits * SlotSize \in Nat /\ \A i \in Nat : i * SlotSize \in Nat
  BY <1>1
<1>4. e.anchor + SlotSize \in Nat /\ r.base + RelrBits * SlotSize \in Nat
  BY <1>1, <1>2, <1>3
<1>5. r.slots \cup {e.anchor} \in SUBSET Nat
  BY <1>2
<1>6. r.slots \cup {r.base + i * SlotSize : i \in e.bits} \in SUBSET Nat
  <2>1. \A i \in e.bits : r.base + i * SlotSize \in Nat
    BY <1>1, <1>2, <1>3
  <2> QED BY <1>2, <2>1
<1>7. CASE e.bits = {}
  BY <1>4, <1>5, <1>7 DEF ReadNext, Read
<1>8. CASE e.bits # {}
  BY <1>4, <1>6, <1>8 DEF ReadNext, Read
<1> QED BY <1>7, <1>8

\* The entries are read one after the other.
LEMMA ReadingSteps ==
    ASSUME NEW es \in Seq(Entry)
    PROVE  \E r \in [0 .. Len(es) -> Read] :
              /\ r[0] = [slots |-> {}, base |-> 0]
              /\ \A n \in 1 .. Len(es) : r[n] = ReadNext(r[n - 1], es[n])
              /\ Reading(es) = r[Len(es)]
<1> DEFINE N == Len(es)
           c == [slots |-> {}, base |-> 0]
           Eqn(g) == g = [n \in 0 .. N |-> IF n = 0 THEN c ELSE ReadNext(g[n - 1], es[n])]
           F == [n \in 1 .. N |-> [x \in Read |-> ReadNext(x, es[n])]]
<1>1. N \in Nat /\ c \in Read /\ \A n \in 1 .. N : es[n] \in Entry
  BY DEF Read
<1>2. F \in [1 .. N -> [Read -> Read]]
  <2>1. \A n \in 1 .. N, x \in Read : ReadNext(x, es[n]) \in Read
    BY <1>1, ReadNextIsRead
  <2> QED BY <2>1
<1>3. Reading(es) = (CHOOSE g : Eqn(g))[N]
  BY DEF Reading
<1>4. \E g : Eqn(g)
  <2>1. PICK f \in [0 .. N -> Read] : f[0] = c /\ \A n \in 1 .. N : f[n] = F[n][f[n - 1]]
    <3> HIDE DEF F, c, N
    <3>1. \E f \in [0 .. N -> Read] : GoesOnBy(f, c, N, F)
      BY <1>1, <1>2, StepsExist, Zenon
    <3> QED BY <3>1 DEF GoesOnBy
  <2>2. ASSUME NEW n \in 0 .. N
        PROVE  f[n] = IF n = 0 THEN c ELSE ReadNext(f[n - 1], es[n])
    <3>1. CASE n = 0
      BY <2>1, <3>1
    <3>2. CASE n # 0
      <4>1. n \in 1 .. N /\ n - 1 \in 0 .. N
        BY <1>1, <3>2
      <4>2. f[n - 1] \in Read
        BY <4>1
      <4>3. F[n][f[n - 1]] = ReadNext(f[n - 1], es[n])
        BY <4>1, <4>2
      <4> QED BY <2>1, <3>2, <4>1, <4>3
    <3> QED BY <3>1, <3>2
  <2>3. Eqn(f)
    <3> HIDE DEF N, c
    <3> QED BY <2>2
  <2> QED BY <2>3
<1>5. PICK r : Eqn(r) /\ Reading(es) = r[N]
  <2> HIDE DEF Eqn
  <2> QED BY <1>3, <1>4
<1> HIDE DEF F
<1>6. r[0] = c /\ \A n \in 1 .. N : r[n] = ReadNext(r[n - 1], es[n])
  <2>1. \A n \in 0 .. N : r[n] = IF n = 0 THEN c ELSE ReadNext(r[n - 1], es[n])
    <3> HIDE DEF N, c
    <3> QED BY <1>5
  <2>2. 0 \in 0 .. N /\ \A n \in 1 .. N : n \in 0 .. N /\ n # 0
    BY <1>1
  <2> HIDE DEF N, c
  <2> QED BY <2>1, <2>2
<1>7. \A n \in 0 .. N : r[n] \in Read
  <2> DEFINE T == {n \in Nat : n <= N /\ r[n] \notin Read}
  <2>1. ASSUME T # {} PROVE FALSE
    <3>1. PICK m \in T : \A k \in T : m <= k
      <4>1. T \in SUBSET Nat
        OBVIOUS
      <4> HIDE DEF T
      <4> QED BY <2>1, <4>1, LeastNumber
    <3>2. m # 0 /\ m \in Nat /\ m <= N
      BY <1>1, <1>6, <3>1
    <3>3. m - 1 \in Nat /\ m - 1 <= N /\ ~(m <= m - 1) /\ m \in 1 .. N
      BY <1>1, <3>2
    <3>4. r[m - 1] \in Read
      BY <3>1, <3>3
    <3>5. r[m] \in Read
      BY <1>1, <1>6, <3>3, <3>4, ReadNextIsRead
    <3> QED BY <3>1, <3>5
  <2> QED BY <1>1, <2>1
<1>8. r \in [0 .. N -> Read]
  <2>1. r = [n \in 0 .. N |-> r[n]]
    <3> HIDE DEF N, c
    <3>1. r = [n \in 0 .. N |-> IF n = 0 THEN c ELSE ReadNext(r[n - 1], es[n])]
      BY <1>5
    <3>2. DOMAIN r = 0 .. N
      BY <3>1
    <3> QED BY <3>1, <3>2
  <2> HIDE DEF N
  <2> QED BY <1>7, <2>1
<1> QED BY <1>5, <1>6, <1>8

\* One entry more is read from where the others end.
LEMMA ReadingAppend ==
    ASSUME NEW es \in Seq(Entry), NEW e \in Entry
    PROVE  Reading(Append(es, e)) = ReadNext(Reading(es), e)
<1> DEFINE fs == Append(es, e)
           N == Len(es)
<1>1. fs \in Seq(Entry) /\ Len(fs) = N + 1 /\ N \in Nat /\ fs[N + 1] = e
      /\ \A n \in 1 .. N : fs[n] = es[n]
  OBVIOUS
<1>2. PICK r \in [0 .. N -> Read] :
         /\ r[0] = [slots |-> {}, base |-> 0]
         /\ \A n \in 1 .. N : r[n] = ReadNext(r[n - 1], es[n])
         /\ Reading(es) = r[N]
  BY ReadingSteps
<1>3. PICK q \in [0 .. N + 1 -> Read] :
         /\ q[0] = [slots |-> {}, base |-> 0]
         /\ \A n \in 1 .. N + 1 : q[n] = ReadNext(q[n - 1], fs[n])
         /\ Reading(fs) = q[N + 1]
  <2> HIDE DEF fs, N
  <2>1. \E q \in [0 .. Len(fs) -> Read] :
           /\ q[0] = [slots |-> {}, base |-> 0]
           /\ \A n \in 1 .. Len(fs) : q[n] = ReadNext(q[n - 1], fs[n])
           /\ Reading(fs) = q[Len(fs)]
    BY <1>1, ReadingSteps
  <2> QED BY <1>1, <2>1, Zenon
<1> HIDE DEF fs, N
<1> DEFINE T == {n \in Nat : n <= N /\ q[n] # r[n]}
<1>4. ASSUME T # {} PROVE FALSE
  <2>1. PICK m \in T : \A k \in T : m <= k
    <3>1. T \in SUBSET Nat
      OBVIOUS
    <3> HIDE DEF T
    <3> QED BY <1>4, <3>1, LeastNumber
  <2>2. m # 0 /\ m \in Nat /\ m <= N
    BY <1>2, <1>3, <2>1
  <2>3. m - 1 \in Nat /\ m - 1 <= N /\ ~(m <= m - 1) /\ m \in 1 .. N /\ m \in 1 .. N + 1
    BY <1>1, <2>2
  <2>4. q[m - 1] = r[m - 1]
    BY <2>1, <2>3
  <2>5. q[m] = r[m]
    BY <1>1, <1>2, <1>3, <2>3, <2>4
  <2> QED BY <2>1, <2>5
<1>5. q[N] = r[N]
  BY <1>1, <1>4
<1>6. ASSUME NEW M, M = N + 1 PROVE q[M] = ReadNext(q[N], fs[M])
  <2>1. M \in 1 .. N + 1
    BY <1>1, <1>6
  <2>2. M - 1 = N
    BY <1>1, <1>6
  <2>3. q[M] = ReadNext(q[M - 1], fs[M])
    BY <1>3, <2>1, Zenon
  <2> QED BY <2>2, <2>3, Zenon
<1>7. q[N + 1] = ReadNext(q[N], fs[N + 1])
  BY <1>6, Zenon
<1>8. Reading(fs) = ReadNext(Reading(es), e)
  BY <1>1, <1>2, <1>3, <1>5, <1>7
<1> QED BY <1>8 DEF fs

-----------------------------------------------------------------------------
(* DT_RELR: what a linker packs.                                              *)

\* Slots are eight bytes apart.
LEMMA Eights ==
    ASSUME NEW s \in Nat, NEW b \in Nat, s % 8 = 0, b % 8 = 0, b <= s
    PROVE  (s - b) \div 8 \in Nat /\ b + ((s - b) \div 8) * 8 = s
BY SMT

\* What a linker has packed reads back, and the rest is still to come.
PackedSoFar(ss) ==
    {p \in [out : Seq(Entry), left : SUBSET ss, base : Nat] :
        /\ p.base % SlotSize = 0 /\ \A s \in p.left : p.base <= s
        /\ Reading(p.out).slots = ss \ p.left
        /\ Reading(p.out).base = p.base}

\* An entry more keeps it so, and leaves less to pack.
LEMMA PackKeeps ==
    ASSUME NEW ss \in SUBSET Nat, \A s \in ss : s % SlotSize = 0,
           NEW p \in PackedSoFar(ss)
    PROVE  /\ PackNext(p) \in PackedSoFar(ss)
           /\ p.left # {} => PackNext(p).left # p.left
           /\ PackNext(p).left \subseteq p.left
<1> DEFINE near == {s \in p.left : s < p.base + RelrBits * SlotSize}
<1>1. RelrBits \in Nat /\ SlotSize = 8
  BY ImageAssumption DEF SlotSize
<1>2. /\ p = [out |-> p.out, left |-> p.left, base |-> p.base]
      /\ p.out \in Seq(Entry) /\ p.left \in SUBSET ss /\ p.base \in Nat
      /\ p.base % 8 = 0 /\ \A s \in p.left : p.base <= s
      /\ Reading(p.out).slots = ss \ p.left /\ Reading(p.out).base = p.base
  BY <1>1 DEF PackedSoFar
<1>3. \A s \in ss : s \in Nat /\ s % 8 = 0
  BY <1>1
<1>4. CASE p.left = {}
  <2>1. PackNext(p) = p
    BY <1>4 DEF PackNext
  <2> QED BY <1>4, <2>1
<1>5. CASE p.left # {} /\ p.base # 0 /\ near # {}
  <2> DEFINE bits == {(s - p.base) \div SlotSize : s \in near}
             q == PackNext(p)
             base == p.base + RelrBits * SlotSize
  <2>1. q = [out |-> Append(p.out, Bitmap(bits)), left |-> p.left \ near, base |-> base]
    BY <1>5 DEF PackNext
  <2>2. \A s \in near : s \in Nat /\ s \in ss /\ (s - p.base) \div 8 \in Nat
                       /\ p.base + ((s - p.base) \div 8) * 8 = s
    <3> SUFFICES ASSUME NEW s \in near
                 PROVE  s \in Nat /\ s \in ss /\ (s - p.base) \div 8 \in Nat
                       /\ p.base + ((s - p.base) \div 8) * 8 = s
      OBVIOUS
    <3>1. s \in p.left /\ s \in ss /\ s \in Nat /\ s % 8 = 0 /\ p.base <= s
      BY <1>2, <1>3
    <3> HIDE DEF near
    <3> QED BY <1>2, <3>1, Eights
  <2>3. bits \in SUBSET Nat /\ bits # {}
    BY <1>1, <1>5, <2>2
  <2>4. {p.base + i * SlotSize : i \in bits} = near
    <3> HIDE DEF near
    <3> QED BY <1>1, <2>2
  <2>5. Bitmap(bits) \in Entry /\ Bitmap(bits).bits = bits
    BY <2>3 DEF Bitmap, Entry
  <2> HIDE DEF bits
  <2>6. Reading(Append(p.out, Bitmap(bits))) = ReadNext(Reading(p.out), Bitmap(bits))
    BY <1>2, <2>5, ReadingAppend
  <2>7. ReadNext(Reading(p.out), Bitmap(bits)) = [slots |-> (ss \ p.left) \cup near, base |-> base]
    <3> HIDE DEF near
    <3> QED BY <1>2, <2>3, <2>4, <2>5 DEF ReadNext
  <2>8. (ss \ p.left) \cup near = ss \ (p.left \ near)
    BY <1>2
  <2>9. base \in Nat /\ base % 8 = 0
    BY <1>1, <1>2, SMT
  <2>10. \A s \in p.left \ near : base <= s
    <3>1. \A s \in p.left : s \in Nat
      BY <1>2
    <3> HIDE DEF base
    <3>2. \A s \in p.left \ near : ~(s < base)
      BY DEF base
    <3> QED BY <2>9, <3>1, <3>2
  <2>11. Append(p.out, Bitmap(bits)) \in Seq(Entry) /\ p.left \ near \in SUBSET ss
    BY <1>2, <2>5
  <2> HIDE DEF base
  <2>12. /\ q.out = Append(p.out, Bitmap(bits)) /\ q.left = p.left \ near /\ q.base = base
         /\ q \in [out : Seq(Entry), left : SUBSET ss, base : Nat]
    <3> HIDE DEF near, q
    <3> QED BY <2>1, <2>9, <2>11
  <2> HIDE DEF q
  <2>13. q \in PackedSoFar(ss)
    <3> HIDE DEF near
    <3>1. Reading(q.out).slots = ss \ q.left
      BY <2>6, <2>7, <2>8, <2>12
    <3>2. Reading(q.out).base = q.base
      BY <2>6, <2>7, <2>12
    <3>3. q.base % SlotSize = 0 /\ \A s \in q.left : q.base <= s
      BY <1>1, <2>9, <2>10, <2>12
    <3> QED BY <2>12, <3>1, <3>2, <3>3 DEF PackedSoFar
  <2>14. q.left # p.left /\ q.left \subseteq p.left
    BY <1>5, <2>12
  <2> QED BY <2>13, <2>14 DEF q
<1>6. CASE p.left # {} /\ ~(p.base # 0 /\ near # {})
  <2> DEFINE m == Min(p.left)
             q == PackNext(p)
  <2>1. m \in p.left /\ m \in Nat /\ m \in ss /\ \A k \in p.left : m <= k
    BY <1>2, <1>6, MinFacts
  <2>2. q = [out |-> Append(p.out, Anchor(m)), left |-> p.left \ {m}, base |-> m + SlotSize]
    BY <1>6 DEF PackNext
  <2> HIDE DEF m
  <2>3. Anchor(m) \in Entry /\ Anchor(m).bits = {} /\ Anchor(m).anchor = m
    BY <2>1 DEF Anchor, Entry
  <2>4. Reading(Append(p.out, Anchor(m))) = ReadNext(Reading(p.out), Anchor(m))
    BY <1>2, <2>3, ReadingAppend
  <2>5. ReadNext(Reading(p.out), Anchor(m)) = [slots |-> (ss \ p.left) \cup {m}, base |-> m + SlotSize]
    BY <1>2, <2>3 DEF ReadNext
  <2>6. (ss \ p.left) \cup {m} = ss \ (p.left \ {m})
    BY <1>2, <2>1
  <2>7. m + SlotSize \in Nat /\ (m + SlotSize) % SlotSize = 0
    <3>1. m % 8 = 0
      BY <1>3, <2>1
    <3> QED BY <1>1, <2>1, <3>1, SMT
  <2>8. \A s \in p.left \ {m} : m + SlotSize <= s
    <3> SUFFICES ASSUME NEW s \in p.left \ {m} PROVE m + 8 <= s
      BY <1>1
    <3>1. s \in Nat /\ s % 8 = 0 /\ m <= s /\ m # s /\ m % 8 = 0
      BY <1>2, <1>3, <2>1
    <3> QED BY <2>1, <3>1, SMT
  <2>9. Append(p.out, Anchor(m)) \in Seq(Entry) /\ p.left \ {m} \in SUBSET ss
    BY <1>2, <2>3
  <2>10. /\ q.out = Append(p.out, Anchor(m)) /\ q.left = p.left \ {m} /\ q.base = m + SlotSize
         /\ q \in [out : Seq(Entry), left : SUBSET ss, base : Nat]
    <3> HIDE DEF q
    <3> QED BY <2>2, <2>7, <2>9
  <2> HIDE DEF q
  <2>11. q \in PackedSoFar(ss)
    <3>1. Reading(q.out).slots = ss \ q.left
      BY <2>4, <2>5, <2>6, <2>10
    <3>2. Reading(q.out).base = q.base
      BY <2>4, <2>5, <2>10
    <3>3. q.base % SlotSize = 0 /\ \A s \in q.left : q.base <= s
      BY <2>7, <2>8, <2>10
    <3> QED BY <2>10, <3>1, <3>2, <3>3 DEF PackedSoFar
  <2>12. q.left # p.left /\ q.left \subseteq p.left
    BY <2>1, <2>10
  <2> QED BY <2>11, <2>12 DEF q
<1> QED BY <1>4, <1>5, <1>6

\* Of no entries nothing is read.
LEMMA ReadingNothing == Reading(<<>>) = [slots |-> {}, base |-> 0]
<1>1. <<>> \in Seq(Entry) /\ Len(<<>>) = 0
  OBVIOUS
<1>2. PICK r \in [0 .. Len(<<>>) -> Read] :
         /\ r[0] = [slots |-> {}, base |-> 0]
         /\ \A n \in 1 .. Len(<<>>) : r[n] = ReadNext(r[n - 1], <<>>[n])
         /\ Reading(<<>>) = r[Len(<<>>)]
  BY <1>1, ReadingSteps
<1> QED BY <1>1, <1>2

\* The packing takes one slot at a time at least, so it ends with all of them.
LEMMA PackingEnds ==
    ASSUME NEW ss \in SUBSET Nat, \A s \in ss : s % SlotSize = 0, IsFiniteSet(ss)
    PROVE  Packing(ss) \in PackedSoFar(ss) /\ Packing(ss).left = {}
<1> DEFINE N == Cardinality(ss)
           c == [out |-> <<>>, left |-> ss, base |-> 0]
           D == PackedSoFar(ss)
           Eqn(g) == g = [n \in 0 .. N |-> IF n = 0 THEN c ELSE PackNext(g[n - 1])]
           F == [n \in 1 .. N |-> [x \in D |-> PackNext(x)]]
<1>1. N \in Nat
  BY FS_CardinalityType
<1>2. c \in D
  <2>1. c \in [out : Seq(Entry), left : SUBSET ss, base : Nat] /\ c.left = ss /\ c.out = <<>> /\ c.base = 0
    OBVIOUS
  <2>2. 0 % SlotSize = 0 /\ \A s \in ss : 0 <= s
    BY DEF SlotSize
  <2>3. Reading(c.out).slots = ss \ c.left /\ Reading(c.out).base = c.base
    BY <2>1, ReadingNothing
  <2> HIDE DEF c
  <2> QED BY <2>1, <2>2, <2>3 DEF PackedSoFar
<1>3. \A x \in D : PackNext(x) \in D
  BY PackKeeps
<1> HIDE DEF c, N, D
<1>4. F \in [1 .. N -> [D -> D]]
  BY <1>3
<1>5. Packing(ss) = (CHOOSE g : Eqn(g))[N]
  BY DEF Packing, N, c
<1>6. \E g : Eqn(g)
  <2>1. PICK f \in [0 .. N -> D] : f[0] = c /\ \A n \in 1 .. N : f[n] = F[n][f[n - 1]]
    <3> HIDE DEF F
    <3>1. \E f \in [0 .. N -> D] : GoesOnBy(f, c, N, F)
      BY <1>1, <1>2, <1>4, StepsExist, Zenon
    <3> QED BY <3>1 DEF GoesOnBy
  <2>2. ASSUME NEW n \in 0 .. N
        PROVE  f[n] = IF n = 0 THEN c ELSE PackNext(f[n - 1])
    <3>1. CASE n = 0
      BY <2>1, <3>1
    <3>2. CASE n # 0
      <4>1. n \in 1 .. N /\ n - 1 \in 0 .. N
        BY <1>1, <3>2
      <4>2. f[n - 1] \in D
        BY <4>1
      <4>3. F[n][f[n - 1]] = PackNext(f[n - 1])
        BY <4>1, <4>2
      <4> QED BY <2>1, <3>2, <4>1, <4>3
    <3> QED BY <3>1, <3>2
  <2>3. Eqn(f)
    BY <2>2
  <2> QED BY <2>3
<1>7. PICK r : Eqn(r) /\ Packing(ss) = r[N]
  <2> HIDE DEF Eqn
  <2> QED BY <1>5, <1>6
<1> HIDE DEF F
<1>8. r[0] = c /\ \A n \in 1 .. N : r[n] = PackNext(r[n - 1])
  <2>1. \A n \in 0 .. N : r[n] = IF n = 0 THEN c ELSE PackNext(r[n - 1])
    BY <1>7
  <2>2. 0 \in 0 .. N /\ \A n \in 1 .. N : n \in 0 .. N /\ n # 0
    BY <1>1
  <2> QED BY <2>1, <2>2
<1> DEFINE Good(n) == /\ r[n] \in D /\ IsFiniteSet(r[n].left)
                      /\ r[n].left = {} \/ Cardinality(r[n].left) + n <= N
           T == {n \in Nat : n <= N /\ ~Good(n)}
<1>9. Good(0)
  <2>1. r[0].left = ss /\ Cardinality(ss) = N
    BY <1>8 DEF c, N
  <2> QED BY <1>1, <1>2, <1>8, <2>1
<1>10. ASSUME NEW n \in 1 .. N, Good(n - 1) PROVE Good(n)
  <2>1. n \in Nat /\ n - 1 \in Nat /\ n - 1 + 1 = n
    BY <1>1
  <2>2. r[n] = PackNext(r[n - 1])
    BY <1>8
  <2>3. /\ r[n] \in D /\ (r[n - 1].left # {} => r[n].left # r[n - 1].left)
        /\ r[n].left \subseteq r[n - 1].left
    BY <1>10, <2>2, PackKeeps DEF D
  <2>4. r[n - 1].left \in SUBSET Nat
    BY <1>10 DEF D, PackedSoFar
  <2>5. IsFiniteSet(r[n].left) /\ Cardinality(r[n].left) \in Nat /\ Cardinality(r[n - 1].left) \in Nat
    BY <1>10, <2>3, FS_Subset, FS_CardinalityType
  <2>6. CASE r[n - 1].left = {}
    BY <2>3, <2>5, <2>6
  <2>7. CASE r[n - 1].left # {}
    <3>1. PICK m \in r[n - 1].left : m \notin r[n].left
      BY <2>3, <2>7
    <3>2. Cardinality(r[n].left) < Cardinality(r[n - 1].left)
      BY <1>10, <2>3, <2>4, <3>1, HalvesAreSmaller
    <3>3. Cardinality(r[n - 1].left) + (n - 1) <= N
      BY <1>10, <2>7
    <3> HIDE DEF T
    <3> QED BY <1>1, <2>1, <2>3, <2>5, <3>2, <3>3
  <2> QED BY <2>6, <2>7
<1> HIDE DEF Good
<1>11. ASSUME T # {} PROVE FALSE
  <2>1. PICK m \in T : \A k \in T : m <= k
    <3>1. T \in SUBSET Nat
      OBVIOUS
    <3> HIDE DEF T
    <3> QED BY <1>11, <3>1, LeastNumber
  <2>2. m # 0 /\ m \in Nat /\ m <= N
    BY <1>9, <2>1
  <2>3. m - 1 \in Nat /\ m - 1 <= N /\ ~(m <= m - 1) /\ m \in 1 .. N
    BY <1>1, <2>2
  <2>4. Good(m - 1)
    BY <2>1, <2>3
  <2> QED BY <1>10, <2>1, <2>3, <2>4
<1>12. Good(N)
  BY <1>1, <1>11
<1>13. r[N] \in D /\ r[N].left = {}
  <2>1. r[N] \in D /\ IsFiniteSet(r[N].left) /\ (r[N].left = {} \/ Cardinality(r[N].left) + N <= N)
    BY <1>12 DEF Good
  <2>2. Cardinality(r[N].left) \in Nat
    BY <2>1, FS_CardinalityType
  <2>3. Cardinality(r[N].left) + N <= N => Cardinality(r[N].left) = 0
    BY <1>1, <2>2
  <2> QED BY <2>1, <2>3, FS_EmptySet
<1> QED BY <1>7, <1>13 DEF D

\* The slots a linker packs are the slots the generator reads.
LEMMA UnpackPack ==
    ASSUME NEW ss \in SUBSET Nat, \A s \in ss : s % SlotSize = 0, IsFiniteSet(ss)
    PROVE  Unpack(Pack(ss)) = ss
<1>1. Packing(ss) \in PackedSoFar(ss) /\ Packing(ss).left = {}
  BY PackingEnds
<1>2. Reading(Packing(ss).out).slots = ss \ Packing(ss).left
  BY <1>1 DEF PackedSoFar
<1> QED BY <1>1, <1>2 DEF Unpack, Pack

-----------------------------------------------------------------------------
(* The image.                                                                 *)

\* Where the segments and the arrays of the host are.
LEMMA Places ==
    /\ Rx.lo \in Nat /\ Rx.hi \in Nat /\ Ro.lo \in Nat /\ Ro.hi \in Nat /\ Rw.lo \in Nat /\ Rw.hi \in Nat
    /\ 0 < Rx.lo /\ Rx.lo <= Rx.hi /\ Rx.hi <= Ro.lo
    /\ Ro.lo <= Ro.hi /\ Ro.hi <= Rw.lo /\ Rw.lo <= Rw.hi
    /\ Word \in Nat /\ GRo \in Nat /\ GRw \in Nat
    /\ GRo > Rw.hi /\ GRo + (Ro.hi - Ro.lo) < Word
    /\ GRw > Rw.hi /\ GRw + (Rw.hi - Rw.lo) < Word
    /\ GRo + (Ro.hi - Ro.lo) <= GRw \/ GRw + (Rw.hi - Rw.lo) <= GRo
BY ImageAssumption, HostAssumption, PlacesAssumption

\* An address of the image is taken to one place.
LEMMA Addresses ==
    ASSUME NEW v \in Nat, InImage(v)
    PROVE  /\ RelocSlot(v) = ConstAddr(v) /\ ConstAddr(v) \in Nat /\ ConstAddr(v) # NoSlot
           /\ ConstAddr(v) \in Words /\ ConstAddr(v) > 0
           /\ \/ Within(Rx, v) /\ ConstAddr(v) = v
              \/ Within(Ro, v) /\ ~Within(Rx, v) /\ ConstAddr(v) = GRo + (v - Ro.lo)
              \/ Within(Rw, v) /\ ~Within(Rx, v) /\ ~Within(Ro, v) /\ ConstAddr(v) = GRw + (v - Rw.lo)
<1> USE Places
<1>0. /\ Within(Rx, v) => ~Within(Ro, v) /\ ~Within(Rw, v)
      /\ Within(Ro, v) => ~Within(Rw, v)
  BY DEF Within
<1>1. CASE Within(Rx, v)
  <2>1. RelocSlot(v) = v /\ ConstAddr(v) = v
    BY <1>0, <1>1 DEF RelocSlot, ConstAddr
  <2> QED BY <1>1, <2>1 DEF Within, NoSlot, Words
<1>2. CASE ~Within(Rx, v) /\ Within(Ro, v)
  <2>1. RelocSlot(v) = GRo + (v - Ro.lo) /\ ConstAddr(v) = GRo + (v - Ro.lo)
    BY <1>0, <1>2 DEF RelocSlot, ConstAddr
  <2>2. v - Ro.lo \in Nat /\ v - Ro.lo < Ro.hi - Ro.lo
    BY <1>2 DEF Within
  <2> QED BY <1>2, <2>1, <2>2 DEF NoSlot, Words
<1>3. CASE ~Within(Rx, v) /\ ~Within(Ro, v)
  <2>1. Within(Rw, v)
    BY <1>3 DEF InImage
  <2>2. RelocSlot(v) = GRw + (v - Rw.lo) /\ ConstAddr(v) = GRw + (v - Rw.lo)
    BY <1>3, <2>1 DEF RelocSlot, ConstAddr
  <2>3. v - Rw.lo \in Nat /\ v - Rw.lo < Rw.hi - Rw.lo
    BY <2>1 DEF Within
  <2> QED BY <1>3, <2>1, <2>2, <2>3 DEF NoSlot, Words
<1> QED BY <1>1, <1>2, <1>3

\* What a relocation of a symbol stores.
LEMMA Stored ==
    ASSUME NEW i \in Stores
    PROVE  /\ SymbolSlot(Symbols[i]) \in Nat /\ SymbolSlot(Symbols[i]) # NoSlot
           /\ \/ SymbolSlot(Symbols[i]) = 0 /\ SymbolMeaning(Symbols[i]) = Null
              \/ \E v \in Nat : InImage(v) /\ SymbolSlot(Symbols[i]) = ConstAddr(v)
                                  /\ SymbolMeaning(Symbols[i]) = Guest(v)
              \/ /\ i \in Imports /\ SymbolSlot(Symbols[i]) = ImportWord(i)
                 /\ SymbolMeaning(Symbols[i]) = HostOf(Symbols[i].name, Symbols[i].addend)
<1> DEFINE r == Symbols[i]
<1>1. r.kind # "other"
  BY DEF Stores
<1>2. CASE r.name \in Ignored
  BY <1>1, <1>2 DEF SymbolSlot, SymbolMeaning, NoSlot
<1>3. CASE r.name \notin Ignored /\ r.name \in DOMAIN Defined
  <2> DEFINE v == Defined[r.name] + r.addend
  <2>1. v \in Nat /\ InImage(v)
    BY <1>3, ImageAssumption
  <2>2. SymbolSlot(r) = RelocSlot(v) /\ SymbolMeaning(r) = Guest(v)
    BY <1>1, <1>3 DEF SymbolSlot, SymbolMeaning
  <2> HIDE DEF v
  <2>3. RelocSlot(v) = ConstAddr(v) /\ ConstAddr(v) \in Nat /\ ConstAddr(v) # NoSlot
    BY <2>1, Addresses
  <2> QED BY <2>1, <2>2, <2>3
<1>4. CASE r.name \notin Ignored /\ r.name \notin DOMAIN Defined
  <2>1. i \in Imports
    BY <1>4 DEF Imports
  <2>2. SymbolSlot(r) = ImportWord(i) /\ SymbolMeaning(r) = HostOf(r.name, r.addend)
    BY <1>1, <1>4 DEF SymbolSlot, SymbolMeaning, ImportWord
  <2>3. r.name \in DOMAIN Host /\ r.addend \in Nat
    BY <2>1, PlacesAssumption
  <2>4. Host[r.name] \in Nat
    BY <2>3, HostAssumption DEF HostWords, Words
  <2>5. ImportWord(i) \in Nat
    BY <2>3, <2>4 DEF ImportWord
  <2> QED BY <2>1, <2>2, <2>5 DEF NoSlot
<1> QED BY <1>2, <1>3, <1>4

\* A set of slots a build relocates.
Relative(rs) ==
    /\ rs \subseteq Slots /\ \A s \in rs : InImage(Raw[s])
    /\ \A i \in Stores : Symbols[i].slot \notin rs

\* There are finitely many slots, so what is packed reads back.
LEMMA SlotsAreFinite ==
    ASSUME NEW rs \in SUBSET Slots
    PROVE  rs \in SUBSET Nat /\ IsFiniteSet(rs) /\ Unpack(Pack(rs)) = rs
<1>1. \A s \in rs : s \in Nat /\ s % SlotSize = 0 /\ s < Rw.hi /\ s \in 0 .. Rw.hi
  BY ImageAssumption, Places DEF Within
<1>2. IsFiniteSet(0 .. Rw.hi)
  <2>1. 0 \in Int /\ Rw.hi \in Int
    BY Places
  <2>2. \A a, b \in Int : IsFiniteSet(a .. b)
    BY FS_Interval
  <2> QED BY <2>1, <2>2, Zenon
<1>3. IsFiniteSet(rs)
  BY <1>1, <1>2, FS_Subset
<1> QED BY <1>1, <1>3, UnpackPack

\* The relocations are the relative ones and then those of symbols.
LEMMA RelocationsAre ==
    ASSUME NEW rs \in SUBSET Slots
    PROVE  LET n == Cardinality(rs)
               R == Relocations(rs)
           IN  /\ n \in Nat /\ DOMAIN R = 1 .. n + Len(Symbols)
               /\ \A i \in 1 .. n : R[i].slot = Ascending(rs)[i]
                                     /\ R[i].value = RelocSlot(Raw[Ascending(rs)[i]])
               /\ \A i \in 1 .. Len(Symbols) : R[n + i].slot = Symbols[i].slot
                                     /\ R[n + i].value = SymbolSlot(Symbols[i])
<1> DEFINE n == Cardinality(rs)
           L == Len(Symbols)
           a == Ascending(rs)
           A == [i \in 1 .. n |-> [slot |-> a[i], value |-> RelocSlot(Raw[a[i]])]]
           B == [i \in 1 .. L |-> [slot |-> Symbols[i].slot, value |-> SymbolSlot(Symbols[i])]]
           X == {A[i] : i \in 1 .. n} \cup {B[i] : i \in 1 .. L}
<1>1. rs \in SUBSET Nat /\ IsFiniteSet(rs) /\ Unpack(Pack(rs)) = rs /\ n \in Nat
  BY SlotsAreFinite, FS_CardinalityType
<1>2. DOMAIN a = 1 .. n /\ \A i \in 1 .. n : a[i] \in rs /\ a[i] \in Slots
  BY <1>1, AscendingFacts
<1>3. L \in Nat /\ DOMAIN Symbols = 1 .. L
  BY ImageAssumption
<1>4. Relocations(rs) = A \o B
  <2>1. Relocations(rs) =
          [i \in DOMAIN a |-> [slot |-> a[i],
                               value |-> IF a[i] \in Slots THEN RelocSlot(Raw[a[i]]) ELSE NoSlot]]
          \o [i \in DOMAIN Symbols |-> [slot |-> Symbols[i].slot, value |-> SymbolSlot(Symbols[i])]]
    BY <1>1 DEF Relocations
  <2>2. [i \in DOMAIN a |-> [slot |-> a[i],
                             value |-> IF a[i] \in Slots THEN RelocSlot(Raw[a[i]]) ELSE NoSlot]] = A
    <3> HIDE DEF a, n
    <3> QED BY <1>2
  <2>3. [i \in DOMAIN Symbols |-> [slot |-> Symbols[i].slot, value |-> SymbolSlot(Symbols[i])]] = B
    <3> HIDE DEF L
    <3> QED BY <1>3
  <2> HIDE DEF A, B, a
  <2> QED BY <2>1, <2>2, <2>3
<1>5. /\ \A i \in 1 .. n : A[i].slot = a[i] /\ A[i].value = RelocSlot(Raw[a[i]])
      /\ \A i \in 1 .. L : B[i].slot = Symbols[i].slot /\ B[i].value = SymbolSlot(Symbols[i])
  <2> HIDE DEF a, n, L
  <2> QED OBVIOUS
<1>6. A \in Seq(X) /\ Len(A) = n /\ B \in Seq(X) /\ Len(B) = L
  <2>1. A \in [1 .. n -> X] /\ B \in [1 .. L -> X]
    <3> HIDE DEF a, n, L
    <3> QED OBVIOUS
  <2> HIDE DEF A, B, X, n, L
  <2>2. \A M \in Nat : \A f \in [1 .. M -> X] : f \in Seq(X) /\ Len(f) = M
    OBVIOUS
  <2> QED BY <1>1, <1>3, <2>1, <2>2
<1> HIDE DEF A, B, X, n, L
<1>7. /\ A \o B \in Seq(X) /\ Len(A \o B) = n + L
      /\ \A i \in 1 .. n + L : (A \o B)[i] = IF i <= n THEN A[i] ELSE B[i - n]
  BY <1>6, ConcatProperties
<1>8. DOMAIN (A \o B) = 1 .. n + L
  BY <1>7
<1>9. \A i \in 1 .. n : (A \o B)[i] = A[i]
  BY <1>1, <1>3, <1>7
<1>10. ASSUME NEW i \in 1 .. L PROVE (A \o B)[n + i] = B[i]
  <2>1. ASSUME NEW m, m = n + i PROVE (A \o B)[m] = B[i]
    <3>1. m \in 1 .. n + L /\ ~(m <= n) /\ m - n = i
      BY <1>1, <1>3, <2>1
    <3>2. (A \o B)[m] = IF m <= n THEN A[m] ELSE B[m - n]
      BY <1>7, <3>1, Zenon
    <3> QED BY <3>1, <3>2, Zenon
  <2> QED BY <2>1, Zenon
<1> QED BY <1>1, <1>4, <1>5, <1>8, <1>9, <1>10 DEF n, L

\* A slot that has one relocation that counts holds what this one makes of it.
LEMMA OneRelocation ==
    ASSUME NEW rs, NEW s \in Slots, NEW j \in DOMAIN Relocations(rs),
           Relocations(rs)[j].slot = s, Relocations(rs)[j].value # NoSlot,
           \A i \in DOMAIN Relocations(rs) :
              Relocations(rs)[i].slot = s /\ Relocations(rs)[i].value # NoSlot => i = j,
           j \in Nat
    PROVE  WritableImage(rs)[s] = Relocations(rs)[j].value
<1> DEFINE R    == Relocations(rs)
           kept == {i \in DOMAIN R : Within(Rw, R[i].slot) /\ R[i].value # NoSlot}
           of   == {i \in kept : R[i].slot = s}
<1>1. Within(Rw, s)
  BY ImageAssumption
<1>2. of = {j}
  <2> HIDE DEF R
  <2>1. j \in of
    BY <1>1 DEF R
  <2>2. \A i \in of : i = j
    BY DEF R
  <2> HIDE DEF of
  <2> QED BY <2>1, <2>2
<1>3. WritableImage(rs)[s] = IF of = {} THEN Raw[s] ELSE R[Max(of)].value
  BY DEF WritableImage
<1>4. Max({j}) = j
  BY DEF Max
<1> HIDE DEF of, R
<1>5. WritableImage(rs)[s] = R[j].value
  BY <1>2, <1>3, <1>4
<1> QED BY <1>5 DEF R

\* A slot of DT_RELR holds where the address in the file is.
LEMMA RelocatedSlot ==
    ASSUME NEW rs, Relative(rs), NEW s \in rs
    PROVE  WritableImage(rs)[s] = ConstAddr(Raw[s])
<1> DEFINE n == Cardinality(rs)
           R == Relocations(rs)
           L == Len(Symbols)
<1>1. rs \in SUBSET Slots /\ s \in Slots /\ InImage(Raw[s]) /\ Raw[s] \in Nat
  BY ImageAssumption DEF Relative
<1>2. rs \in SUBSET Nat /\ IsFiniteSet(rs)
  BY <1>1, SlotsAreFinite
<1>3. RelocSlot(Raw[s]) = ConstAddr(Raw[s]) /\ ConstAddr(Raw[s]) # NoSlot
  BY <1>1, Addresses
<1>4. /\ n \in Nat /\ DOMAIN R = 1 .. n + L
      /\ \A i \in 1 .. n : R[i].slot = Ascending(rs)[i] /\ R[i].value = RelocSlot(Raw[Ascending(rs)[i]])
      /\ \A i \in 1 .. L : R[n + i].slot = Symbols[i].slot /\ R[n + i].value = SymbolSlot(Symbols[i])
  BY <1>1, RelocationsAre
<1>5. L \in Nat /\ DOMAIN Symbols = 1 .. L
  BY ImageAssumption
<1>6. /\ DOMAIN Ascending(rs) = 1 .. n
      /\ \A i, k \in 1 .. n : i < k => Ascending(rs)[i] < Ascending(rs)[k]
      /\ \A i \in 1 .. n : Ascending(rs)[i] \in Nat
      /\ \E i \in 1 .. n : Ascending(rs)[i] = s
  BY <1>2, AscendingFacts
<1> HIDE DEF n, R, L
<1>7. PICK j \in 1 .. n : Ascending(rs)[j] = s
  BY <1>6
<1>8. j \in DOMAIN R /\ R[j].slot = s /\ R[j].value = ConstAddr(Raw[s]) /\ j \in Nat
  BY <1>3, <1>4, <1>5, <1>7
<1>9. ASSUME NEW i \in DOMAIN R, R[i].slot = s, R[i].value # NoSlot PROVE i = j
  <2>1. i \in 1 .. n + L
    BY <1>4
  <2>2. CASE i <= n
    <3>1. i \in 1 .. n
      BY <1>4, <1>5, <2>1, <2>2
    <3>2. Ascending(rs)[i] = s
      BY <1>4, <1>9, <3>1
    <3>3. ~(i < j) /\ ~(j < i)
      BY <1>6, <1>7, <3>1, <3>2
    <3> QED BY <1>4, <1>8, <2>1, <3>3
  <2>3. CASE ~(i <= n)
    <3>1. PICK m \in 1 .. L : i = n + m
      <4>1. i - n \in 1 .. L /\ i = n + (i - n)
        BY <1>4, <1>5, <2>1, <2>3
      <4> QED BY <4>1
    <3>2. Symbols[m].slot = s /\ SymbolSlot(Symbols[m]) # NoSlot
      BY <1>4, <1>9, <3>1
    <3>3. m \in Stores
      BY <1>5, <3>2 DEF Stores, SymbolSlot
    <3> QED BY <3>2, <3>3 DEF Relative
  <2> QED BY <2>2, <2>3
<1>10. WritableImage(rs)[s] = R[j].value
  BY <1>1, <1>3, <1>8, <1>9, OneRelocation DEF R
<1> QED BY <1>8, <1>10

\* A slot of a symbol's relocation holds what that stores.
LEMMA StoredSlot ==
    ASSUME NEW rs, Relative(rs), NEW k \in Stores
    PROVE  WritableImage(rs)[Symbols[k].slot] = SymbolSlot(Symbols[k])
<1> DEFINE n == Cardinality(rs)
           R == Relocations(rs)
           L == Len(Symbols)
           s == Symbols[k].slot
           j == n + k
<1>1. rs \in SUBSET Slots /\ s \in Slots
  BY ImageAssumption DEF Relative
<1>2. rs \in SUBSET Nat /\ IsFiniteSet(rs)
  BY <1>1, SlotsAreFinite
<1>3. SymbolSlot(Symbols[k]) # NoSlot
  BY Stored
<1>4. /\ n \in Nat /\ DOMAIN R = 1 .. n + L
      /\ \A i \in 1 .. n : R[i].slot = Ascending(rs)[i] /\ R[i].value = RelocSlot(Raw[Ascending(rs)[i]])
      /\ \A i \in 1 .. L : R[n + i].slot = Symbols[i].slot /\ R[n + i].value = SymbolSlot(Symbols[i])
  BY <1>1, RelocationsAre
<1>5. L \in Nat /\ DOMAIN Symbols = 1 .. L /\ k \in 1 .. L
  BY ImageAssumption DEF Stores
<1>6. \A i \in 1 .. n : Ascending(rs)[i] \in rs
  BY <1>2, AscendingFacts
<1> HIDE DEF n, R, L, s
<1>8. j \in DOMAIN R /\ R[j].slot = s /\ R[j].value = SymbolSlot(Symbols[k]) /\ j \in Nat
  BY <1>4, <1>5 DEF s
<1>9. ASSUME NEW i \in DOMAIN R, R[i].slot = s, R[i].value # NoSlot PROVE i = j
  <2>1. i \in 1 .. n + L
    BY <1>4
  <2>2. CASE i <= n
    <3>1. i \in 1 .. n
      BY <1>4, <1>5, <2>1, <2>2
    <3>2. s \in rs
      BY <1>4, <1>6, <1>9, <3>1
    <3> QED BY <3>2 DEF Relative, s
  <2>3. CASE ~(i <= n)
    <3>1. PICK m \in 1 .. L : i = n + m
      <4>1. i - n \in 1 .. L /\ i = n + (i - n)
        BY <1>4, <1>5, <2>1, <2>3
      <4> QED BY <4>1
    <3>2. Symbols[m].slot = s /\ SymbolSlot(Symbols[m]) # NoSlot
      BY <1>4, <1>9, <3>1
    <3>3. m \in Stores
      BY <1>5, <3>2 DEF Stores, SymbolSlot
    <3>4. m = k
      BY <3>2, <3>3, ImageAssumption DEF s
    <3> QED BY <3>1, <3>4
  <2> QED BY <2>2, <2>3
<1> HIDE DEF j
<1>10. WritableImage(rs)[s] = R[j].value
  BY <1>1, <1>3, <1>8, <1>9, OneRelocation DEF R
<1> QED BY <1>8, <1>10 DEF s

-----------------------------------------------------------------------------
(* What a word means.                                                         *)

\* A word, and what the guest means by it.
Means(w, m) ==
    \/ \E v \in Nat : InImage(v) /\ w = ConstAddr(v) /\ m = Guest(v)
    \/ w = 0 /\ m = Null
    \/ \E i \in Imports : w = ImportWord(i) /\ m = HostOf(Symbols[i].name, Symbols[i].addend)

\* Every pointer the guest holds is the word of what it means.
LEMMA PointersMean ==
    ASSUME NEW rs, Relative(rs), NEW p \in Pointers(rs, WritableImage(rs))
    PROVE  Means(p.word, p.meant)
<1> DEFINE im == WritableImage(rs)
<1>1. CASE p \in {[word |-> ConstAddr(v), meant |-> Guest(v)] : v \in MayDefine}
  BY <1>1, ImageAssumption DEF Means
<1>2. CASE p \in {[word |-> im[s], meant |-> Guest(Raw[s])] : s \in rs}
  <2>1. PICK s \in rs : p = [word |-> im[s], meant |-> Guest(Raw[s])]
    BY <1>2
  <2>2. im[s] = ConstAddr(Raw[s])
    BY RelocatedSlot
  <2>3. Raw[s] \in Nat /\ InImage(Raw[s])
    BY ImageAssumption DEF Relative
  <2> HIDE DEF im
  <2>4. p.word = ConstAddr(Raw[s]) /\ p.meant = Guest(Raw[s])
    BY <2>1, <2>2
  <2> QED BY <2>3, <2>4 DEF Means
<1>3. CASE p \in {[word |-> im[Symbols[i].slot], meant |-> SymbolMeaning(Symbols[i])] :
                    i \in {j \in DOMAIN Symbols : Symbols[j].kind # "other"}}
  <2>1. PICK i \in Stores : p = [word |-> im[Symbols[i].slot], meant |-> SymbolMeaning(Symbols[i])]
    BY <1>3 DEF Stores
  <2>2. im[Symbols[i].slot] = SymbolSlot(Symbols[i])
    BY StoredSlot
  <2> HIDE DEF im
  <2>3. p.word = SymbolSlot(Symbols[i]) /\ p.meant = SymbolMeaning(Symbols[i])
    BY <2>1, <2>2
  <2> QED BY <2>3, Stored DEF Means
<1> HIDE DEF im
<1>4. p \in {[word |-> ConstAddr(v), meant |-> Guest(v)] : v \in MayDefine}
        \cup {[word |-> im[s], meant |-> Guest(Raw[s])] : s \in rs}
        \cup {[word |-> im[Symbols[i].slot], meant |-> SymbolMeaning(Symbols[i])] :
                i \in {j \in DOMAIN Symbols : Symbols[j].kind # "other"}}
  BY DEF Pointers, im
<1> QED BY <1>1, <1>2, <1>3, <1>4

\* The kinds of meaning differ.
LEMMA Kinds ==
    ASSUME NEW v, NEW n, NEW k
    PROVE  /\ Guest(v) # Null /\ Guest(v) # HostOf(n, k) /\ HostOf(n, k) # Null
           /\ Guest(v)[1] = "guest" /\ Guest(v)[2] = v
           /\ HostOf(n, k)[1] = "host" /\ HostOf(n, k)[2] = n /\ HostOf(n, k)[3] = k
           /\ Null[1] = "null"
<1>1. /\ Guest(v)[1] = "guest" /\ Guest(v)[2] = v
      /\ HostOf(n, k)[1] = "host" /\ HostOf(n, k)[2] = n /\ HostOf(n, k)[3] = k
      /\ Null[1] = "null"
  BY DEF Guest, HostOf, Null
<1>2. "guest" # "host" /\ "guest" # "null" /\ "host" # "null"
  OBVIOUS
<1> QED BY <1>1, <1>2

\* An import is not in the image, nor is it null.
LEMMA ImportsApart ==
    ASSUME NEW i \in Imports
    PROVE  /\ ImportWord(i) \in Nat /\ ImportWord(i) > Rw.hi
           /\ \A v \in Nat : InImage(v) => ConstAddr(v) # ImportWord(i)
<1>1. /\ Symbols[i].name \in DOMAIN Host /\ Symbols[i].addend \in Nat
      /\ ImportWord(i) \notin GRo .. GRo + (Ro.hi - Ro.lo) - 1
      /\ ImportWord(i) \notin GRw .. GRw + (Rw.hi - Rw.lo) - 1
  BY PlacesAssumption
<1>2. Host[Symbols[i].name] \in Nat /\ Host[Symbols[i].name] > Rw.hi
  BY <1>1, HostAssumption DEF HostWords, Words
<1>3. ImportWord(i) \in Nat /\ ImportWord(i) > Rw.hi
  <2> DEFINE h == Host[Symbols[i].name]
             a == Symbols[i].addend
  <2>1. ImportWord(i) = h + a
    BY DEF ImportWord
  <2> HIDE DEF h, a
  <2>2. h \in Nat /\ h > Rw.hi /\ a \in Nat
    BY <1>1, <1>2 DEF h, a
  <2> QED BY <2>1, <2>2, Places
<1>4. ASSUME NEW v \in Nat, InImage(v), ConstAddr(v) = ImportWord(i) PROVE FALSE
  <2>1. CASE Within(Rx, v) /\ ConstAddr(v) = v
    BY <1>3, <1>4, <2>1, Places DEF Within
  <2>2. CASE Within(Ro, v) /\ ConstAddr(v) = GRo + (v - Ro.lo)
    <3>1. GRo + (v - Ro.lo) \in GRo .. GRo + (Ro.hi - Ro.lo) - 1
      BY <2>2, Places DEF Within
    <3> QED BY <1>1, <1>4, <2>2, <3>1
  <2>3. CASE Within(Rw, v) /\ ConstAddr(v) = GRw + (v - Rw.lo)
    <3>1. GRw + (v - Rw.lo) \in GRw .. GRw + (Rw.hi - Rw.lo) - 1
      BY <2>3, Places DEF Within
    <3> QED BY <1>1, <1>4, <2>3, <3>1
  <2> QED BY <1>4, <2>1, <2>2, <2>3, Addresses
<1> QED BY <1>3, <1>4

\* Two addresses of the image are not taken to one place.
LEMMA AddressesApart ==
    ASSUME NEW v \in Nat, NEW u \in Nat, InImage(v), InImage(u), ConstAddr(v) = ConstAddr(u)
    PROVE  v = u
<1> DEFINE At(a, c) ==
             \/ Rx.lo <= a /\ a < Rx.hi /\ c = a
             \/ Ro.lo <= a /\ a < Ro.hi /\ c = GRo + (a - Ro.lo)
             \/ Rw.lo <= a /\ a < Rw.hi /\ c = GRw + (a - Rw.lo)
<1>1. At(v, ConstAddr(v)) /\ At(u, ConstAddr(u))
  BY Addresses DEF Within
<1>2. ASSUME NEW c \in Nat, At(v, c), At(u, c) PROVE v = u
  BY <1>2, Places
<1>3. ConstAddr(v) \in Nat
  BY Addresses
<1> HIDE DEF At
<1> QED BY <1>1, <1>2, <1>3

\* Words decide: equal ones mean the same, and what means the same is one word.
LEMMA WordsDecide ==
    ASSUME NEW w, NEW m, NEW x, NEW y, Means(w, m), Means(x, y)
    PROVE  w = x <=> m = y
<1>1. CASE \E v \in Nat : InImage(v) /\ w = ConstAddr(v) /\ m = Guest(v)
  <2>1. PICK v \in Nat : InImage(v) /\ w = ConstAddr(v) /\ m = Guest(v)
    BY <1>1
  <2>2. CASE \E u \in Nat : InImage(u) /\ x = ConstAddr(u) /\ y = Guest(u)
    <3>1. PICK u \in Nat : InImage(u) /\ x = ConstAddr(u) /\ y = Guest(u)
      BY <2>2
    <3>2. m = y => v = u
      <4>1. Guest(v)[2] = v /\ Guest(u)[2] = u
        BY Kinds
      <4> QED BY <2>1, <3>1, <4>1
    <3> QED BY <2>1, <3>1, <3>2, AddressesApart
  <2>3. CASE x = 0 /\ y = Null
    <3>1. w # x
      BY <2>1, <2>3, Addresses
    <3> QED BY <2>1, <2>3, <3>1, Kinds
  <2>4. CASE \E i \in Imports : x = ImportWord(i) /\ y = HostOf(Symbols[i].name, Symbols[i].addend)
    BY <2>1, <2>4, Kinds, ImportsApart
  <2> QED BY <2>2, <2>3, <2>4 DEF Means
<1>2. CASE w = 0 /\ m = Null
  <2>2. CASE \E u \in Nat : InImage(u) /\ x = ConstAddr(u) /\ y = Guest(u)
    <3>1. PICK u \in Nat : InImage(u) /\ x = ConstAddr(u) /\ y = Guest(u)
      BY <2>2
    <3>2. w # x
      BY <1>2, <3>1, Addresses
    <3> QED BY <1>2, <3>1, <3>2, Kinds
  <2>3. CASE x = 0 /\ y = Null
    BY <1>2, <2>3
  <2>4. CASE \E i \in Imports : x = ImportWord(i) /\ y = HostOf(Symbols[i].name, Symbols[i].addend)
    <3>1. PICK i \in Imports : x = ImportWord(i) /\ y = HostOf(Symbols[i].name, Symbols[i].addend)
      BY <2>4
    <3>2. w # x
      BY <1>2, <3>1, ImportsApart, Places
    <3> QED BY <1>2, <3>1, <3>2, Kinds
  <2> QED BY <2>2, <2>3, <2>4 DEF Means
<1>3. CASE \E i \in Imports : w = ImportWord(i) /\ m = HostOf(Symbols[i].name, Symbols[i].addend)
  <2>1. PICK i \in Imports : w = ImportWord(i) /\ m = HostOf(Symbols[i].name, Symbols[i].addend)
    BY <1>3
  <2>2. CASE \E u \in Nat : InImage(u) /\ x = ConstAddr(u) /\ y = Guest(u)
    BY <2>1, <2>2, Kinds, ImportsApart
  <2>3. CASE x = 0 /\ y = Null
    <3>1. w # x
      BY <2>1, <2>3, ImportsApart, Places
    <3> QED BY <2>1, <2>3, <3>1, Kinds
  <2>4. CASE \E j \in Imports : x = ImportWord(j) /\ y = HostOf(Symbols[j].name, Symbols[j].addend)
    <3>1. PICK j \in Imports : x = ImportWord(j) /\ y = HostOf(Symbols[j].name, Symbols[j].addend)
      BY <2>4
    <3>2. m = y => Symbols[i].name = Symbols[j].name /\ Symbols[i].addend = Symbols[j].addend
      <4>1. \A n, k : HostOf(n, k)[2] = n /\ HostOf(n, k)[3] = k
        BY Kinds
      <4> DEFINE ni == Symbols[i].name
                 ai == Symbols[i].addend
                 nj == Symbols[j].name
                 aj == Symbols[j].addend
      <4>2. m = HostOf(ni, ai) /\ y = HostOf(nj, aj)
        BY <2>1, <3>1
      <4> HIDE DEF ni, ai, nj, aj
      <4>3. m[2] = ni /\ m[3] = ai /\ y[2] = nj /\ y[3] = aj
        BY <4>1, <4>2
      <4>4. m = y => ni = nj /\ ai = aj
        BY <4>3
      <4> QED BY <4>4 DEF ni, ai, nj, aj
    <3>3. m = y => w = x
      BY <2>1, <3>1, <3>2 DEF ImportWord
    <3>4. w = x => m = y
      BY <2>1, <3>1, PlacesAssumption
    <3> QED BY <3>3, <3>4
  <2> QED BY <2>2, <2>3, <2>4 DEF Means
<1> QED BY <1>1, <1>2, <1>3 DEF Means

-----------------------------------------------------------------------------
(* Where a word leads.                                                        *)

Code(v) == v \in Nat /\ Within(Rx, v)

\* An address of code is a word, and is taken to itself.
LEMMA CodeIsWord ==
    ASSUME NEW v, Code(v)
    PROVE  v \in Words /\ v # 0 /\ InImage(v) /\ ConstAddr(v) = v /\ v \in Rx.lo .. Rx.hi - 1
           /\ v < Rw.hi
<1>1. v \in Nat /\ Within(Rx, v) /\ InImage(v)
  BY DEF Code, InImage
<1>2. ConstAddr(v) = v
  BY <1>1, Addresses
<1>3. v \in Words /\ v # 0
  BY <1>1, Places DEF Within, Words
<1>4. v \in Rx.lo .. Rx.hi - 1 /\ v < Rw.hi
  BY <1>1, Places DEF Within
<1> QED BY <1>1, <1>2, <1>3, <1>4

\* The word of a code address: itself, or through one of the arrays only.
Names(w, v) ==
    /\ w \in Words /\ Code(v)
    /\ \/ w = v
       \/ w # 0 /\ ~Within(Rx, w) /\ ThroughRo(w) = v
       \/ w # 0 /\ ~Within(Rx, w) /\ ~Within(Rx, ThroughRo(w)) /\ ThroughRw(w) = v

\* Where control may be sent: null, an imported function, or code.
Aims(w, m) ==
    \/ w = 0 /\ m = Null
    \/ \E n \in DOMAIN Host : w = Host[n] /\ m = HostOf(n, 0)
    \/ \E v \in Nat : Names(w, v) /\ m = Guest(v)

\* The address of an import is a code address by no way back.
LEMMA HostsApart ==
    ASSUME NEW n \in DOMAIN Host
    PROVE  /\ Host[n] \in Words /\ Host[n] # 0 /\ Host[n] > Rw.hi /\ ~Within(Rx, Host[n])
           /\ ~Within(Rx, ThroughRo(Host[n])) /\ ~Within(Rx, ThroughRw(Host[n]))
<1>1. Host[n] \in HostWords
  BY DEF HostWords
<1>2. Host[n] \in Words /\ Host[n] > Rw.hi /\ Host[n] \in Nat
  BY <1>1, HostAssumption DEF Words
<1>3. Host[n] # 0 /\ ~Within(Rx, Host[n])
  BY <1>2, Places DEF Within
<1>4. ~Within(Rx, ThroughRo(Host[n])) /\ ~Within(Rx, ThroughRw(Host[n]))
  BY <1>1, HostAssumption
<1> QED BY <1>2, <1>3, <1>4

\* A pointer the guest may branch to.
LEMMA HeldAims ==
    ASSUME NEW w, NEW m, Means(w, m), Branchable(m)
    PROVE  w \in Words /\ Aims(w, m)
<1>1. CASE \E v \in Nat : InImage(v) /\ w = ConstAddr(v) /\ m = Guest(v)
  <2>1. PICK v \in Nat : InImage(v) /\ w = ConstAddr(v) /\ m = Guest(v)
    BY <1>1
  <2>2. m[1] = "guest" /\ m[2] = v
    BY <2>1, Kinds
  <2>3. Within(Rx, v)
    BY <2>2 DEF Branchable
  <2>4. Code(v)
    BY <2>3 DEF Code
  <2>5. w = v /\ v \in Words
    BY <2>1, <2>4, CodeIsWord
  <2> QED BY <2>1, <2>4, <2>5 DEF Aims, Names
<1>2. CASE w = 0 /\ m = Null
  BY <1>2, Places DEF Aims, Words
<1>3. CASE \E i \in Imports : w = ImportWord(i) /\ m = HostOf(Symbols[i].name, Symbols[i].addend)
  <2>1. PICK i \in Imports : w = ImportWord(i) /\ m = HostOf(Symbols[i].name, Symbols[i].addend)
    BY <1>3
  <2> DEFINE n == Symbols[i].name
             k == Symbols[i].addend
  <2>2. m[1] = "host" /\ m[3] = k
    BY <2>1, Kinds
  <2>3. k = 0
    <3> HIDE DEF k
    <3> QED BY <2>2 DEF Branchable
  <2>4. n \in DOMAIN Host
    BY PlacesAssumption
  <2>5. Host[n] \in Words /\ Host[n] \in Nat
    BY <2>4, HostsApart DEF Words
  <2>6. w = Host[n] /\ m = HostOf(n, 0)
    <3>1. w = Host[n] + k /\ m = HostOf(n, k)
      BY <2>1 DEF ImportWord
    <3> HIDE DEF n, k
    <3> QED BY <2>3, <2>5, <3>1
  <2> HIDE DEF n
  <2> QED BY <2>4, <2>5, <2>6 DEF Aims
<1> QED BY <1>1, <1>2, <1>3 DEF Means

-----------------------------------------------------------------------------
(* Jump tables.                                                               *)

\* What is added before the word is cut is taken off again.
LEMMA Turned ==
    ASSUME NEW w \in Nat, NEW d \in 0 .. w - 1, NEW v \in 0 .. w - 1
    PROVE  (v + d) % w \in 0 .. w - 1 /\ (((v + d) % w) - d) % w = v
<1>1. CASE v + d < w
  <2>1. (v + d) % w = v + d
    BY <1>1, SMT
  <2>2. v + d - d = v /\ v % w = v
    BY SMT
  <2> QED BY <1>1, <2>1, <2>2
<1>2. CASE ~(v + d < w)
  <2>1. (v + d) % w = v + d - w
    BY <1>2, SMT
  <2>2. v + d - w - d = v - w /\ (v - w) % w = v
    BY SMT
  <2>3. v + d - w \in 0 .. w - 1
    BY <1>2
  <2> QED BY <2>1, <2>2, <2>3
<1> QED BY <1>1, <1>2

\* A word is not cut.
LEMMA InWord ==
    ASSUME NEW x \in Words
    PROVE  x % Word = x
<1>1. Word \in Nat /\ x \in Int /\ x \in 0 .. Word - 1
  BY Places DEF Words
<1> QED BY <1>1, Remainder

\* The word of an arm is one of the address it means.
LEMMA ArmsAim ==
    ASSUME NEW i \in DOMAIN Sites, NEW k \in 1 .. Sites[i].length
    PROVE  LET p == Arm(Sites[i], k)
           IN  /\ Names(p.word, Leads(Sites[i], k)) /\ p.meant = Guest(Leads(Sites[i], k))
               /\ Within(Rx, p.word) => p.word = Leads(Sites[i], k)
               /\ Leads(Sites[i], k) % 4 = 0
<1> DEFINE site == Sites[i]
           v == Leads(site, k)
           p == Arm(site, k)
           w == site.words[k]
<1>1. /\ site.table \in Nat /\ site.base \in Nat \cup {None}
      /\ site.length \in Nat /\ Len(site.words) \in Nat /\ site.length <= Len(site.words)
      /\ \A j \in 1 .. Len(site.words) : site.words[j] \in Int
      /\ \A j \in 1 .. site.length : Within(Rx, Leads(site, j)) /\ Leads(site, j) % 4 = 0
      /\ site.base # None => Within(Rx, site.base)
      /\ site.base = None => Within(Ro, site.table) \/ Within(Rw, site.table)
  BY SitesAssumption
<1>2. w \in Int /\ Within(Rx, v) /\ v % 4 = 0
  BY <1>1
<1>3. p.meant = Guest(v) /\
      p.word = (IF site.base # None THEN ConstAddr(site.base) + w * 4
                ELSE ConstAddr(site.table) + w) % Word
  BY DEF Arm
<1>4. CASE site.base # None
  <2>1. site.base \in Nat /\ Within(Rx, site.base) /\ v = site.base + w * 4
    BY <1>1, <1>4 DEF Leads
  <2>2. ConstAddr(site.base) = site.base
    BY <2>1, CodeIsWord DEF Code
  <2> HIDE DEF site, v, p, w
  <2>3. v \in Int
    BY <1>2, <2>1
  <2>4. Code(v)
    BY <1>2, <2>3, Places DEF Code, Within
  <2>5. v \in Words
    BY <2>4, CodeIsWord
  <2>6. p.word = v % Word
    BY <1>3, <1>4, <2>1, <2>2
  <2>7. p.word = v
    BY <2>5, <2>6, InWord
  <2>8. Names(p.word, v)
    BY <2>4, <2>5, <2>7 DEF Names
  <2> QED BY <1>2, <1>3, <2>7, <2>8 DEF site, v, p
<1>5. CASE site.base = None
  <2>1. v = site.table + w /\ p.word = (ConstAddr(site.table) + w) % Word /\ site.table \in Nat
    BY <1>1, <1>3, <1>5 DEF Leads
  <2>2. Within(Ro, site.table) \/ Within(Rw, site.table)
    BY <1>1, <1>5
  <2> DEFINE t == site.table
             x == p.word
  <2> HIDE DEF site, v, p, w, t, x
  <2>3. v \in Int /\ v = t + w /\ t \in Nat /\ x = (ConstAddr(t) + w) % Word /\ (Within(Ro, t) \/ Within(Rw, t))
    BY <1>2, <2>1, <2>2 DEF t, x
  <2>4. Code(v)
    BY <1>2, <2>3, Places DEF Code, Within
  <2>5. v \in 0 .. Word - 1
    BY <2>4, CodeIsWord DEF Words
  <2>6. InImage(t)
    BY <2>3 DEF InImage
  <2>7. CASE Within(Ro, t)
    <3> DEFINE d == GRo - Ro.lo
    <3>1. ConstAddr(t) = GRo + (t - Ro.lo)
      BY <2>3, <2>6, <2>7, Addresses, Places DEF Within
    <3>2. d \in 0 .. Word - 1 /\ GRo + (t - Ro.lo) + w = v + d
      BY <1>2, <2>3, <2>7, Places DEF Within
    <3>3. x = (v + d) % Word
      <4> HIDE DEF d
      <4> QED BY <2>3, <3>1, <3>2
    <3>4. x \in 0 .. Word - 1 /\ (x - d) % Word = v
      <4> HIDE DEF d
      <4> QED BY <2>5, <3>2, <3>3, Turned, Places
    <3>5. x - d = x - GRo + Ro.lo
      BY <3>4, Places
    <3>6. ThroughRo(x) = v
      <4> HIDE DEF d
      <4> QED BY <3>4, <3>5 DEF ThroughRo
    <3>7. x \in Words /\ x \notin (Rx.lo .. Rw.hi) \cup {0}
      BY <1>2, <3>4, <3>6, HostAssumption DEF Words
    <3>8. x # 0 /\ ~Within(Rx, x)
      BY <3>7, Places DEF Within, Words
    <3>9. Names(x, v)
      BY <2>4, <3>6, <3>7, <3>8 DEF Names
    <3> QED BY <1>2, <1>3, <3>8, <3>9 DEF x, p, v, site
  <2>8. CASE ~Within(Ro, t) /\ Within(Rw, t)
    <3> DEFINE d == GRw - Rw.lo
    <3>1. ConstAddr(t) = GRw + (t - Rw.lo)
      BY <2>3, <2>6, <2>8, Addresses, Places DEF Within
    <3>2. d \in 0 .. Word - 1 /\ GRw + (t - Rw.lo) + w = v + d
      BY <1>2, <2>3, <2>8, Places DEF Within
    <3>3. x = (v + d) % Word
      <4> HIDE DEF d
      <4> QED BY <2>3, <3>1, <3>2
    <3>4. x \in 0 .. Word - 1 /\ (x - d) % Word = v
      <4> HIDE DEF d
      <4> QED BY <2>5, <3>2, <3>3, Turned, Places
    <3>5. x - d = x - GRw + Rw.lo
      BY <3>4, Places
    <3>6. ThroughRw(x) = v
      <4> HIDE DEF d
      <4> QED BY <3>4, <3>5 DEF ThroughRw
    <3>7. x \in Words /\ x \notin (Rx.lo .. Rw.hi) \cup {0} /\ ~Within(Rx, ThroughRo(x))
      BY <1>2, <3>4, <3>6, HostAssumption DEF Words
    <3>8. x # 0 /\ ~Within(Rx, x)
      BY <3>7, Places DEF Within, Words
    <3>9. Names(x, v)
      BY <2>4, <3>6, <3>7, <3>8 DEF Names
    <3> QED BY <1>2, <1>3, <3>8, <3>9 DEF x, p, v, site
  <2> QED BY <2>3, <2>7, <2>8
<1> QED BY <1>4, <1>5

\* The arms read before one fails.
Untried(limit, bad)  == IF bad = {} THEN limit ELSE Min(bad) - 1
Before(A, limit, bad) == {A[k] : k \in 1 .. Untried(limit, bad)}

\* The arms read before one fails are those of the table, if none of them does.
LEMMA ArmsTaken ==
    ASSUME NEW limit \in Nat, NEW A, NEW bad \in SUBSET (1 .. limit),
           NEW length \in Nat, length <= limit, \A k \in 1 .. length : k \notin bad,
           \E j, k \in 1 .. length : A[j] # A[k]
    PROVE  /\ ~(Cardinality(Before(A, limit, bad)) < 2)
           /\ \A k \in 1 .. length : A[k] \in Before(A, limit, bad)
           /\ \A k \in 1 .. Untried(limit, bad) : k \in 1 .. limit
<1> DEFINE n    == Untried(limit, bad)
           arms == {A[k] : k \in 1 .. n}
<1>1. n \in Nat /\ length <= n /\ n <= limit
  <2>1. CASE bad = {}
    BY <2>1 DEF Untried
  <2>2. CASE bad # {}
    <3>1. bad \in SUBSET Nat
      OBVIOUS
    <3>2. Min(bad) \in bad
      BY <2>2, <3>1, MinFacts
    <3>3. Min(bad) \in 1 .. limit /\ Min(bad) \notin 1 .. length
      BY <3>2
    <3> QED BY <2>2, <3>3 DEF Untried
  <2> QED BY <2>1, <2>2
<1> HIDE DEF n
<1>2. \A k \in 1 .. length : k \in 1 .. n
  BY <1>1
<1>3. \A k \in 1 .. length : A[k] \in arms
  BY <1>2
<1>4. PICK j \in 1 .. length, k \in 1 .. length : A[j] # A[k]
  OBVIOUS
<1>5. IsFiniteSet(arms) /\ Cardinality(arms) \in Nat
  <2> DEFINE f == [m \in 1 .. n |-> A[m]]
  <2>1. IsFiniteSet(1 .. n)
    BY <1>1, FS_Interval
  <2>2. f \in Surjection(1 .. n, arms)
    BY DEF Surjection
  <2>3. IsFiniteSet(arms)
    BY <2>1, <2>2, FS_Surjection
  <2> QED BY <2>3, FS_CardinalityType
<1>6. Cardinality({A[j], A[k]}) = 2
  <2>1. IsFiniteSet({A[j]}) /\ Cardinality({A[j]}) = 1
    BY FS_Singleton
  <2>2. Cardinality({A[j]} \cup {A[k]}) = 2
    <3> DEFINE S == {A[j]}
    <3>1. IsFiniteSet(S) /\ Cardinality(S) = 1 /\ A[k] \notin S
      BY <1>4, <2>1
    <3> HIDE DEF S
    <3>2. Cardinality(S \cup {A[k]}) = Cardinality(S) + 1
      BY <3>1, FS_AddElement
    <3> QED BY <3>1, <3>2 DEF S
  <2>3. {A[j]} \cup {A[k]} = {A[j], A[k]}
    OBVIOUS
  <2> QED BY <2>2, <2>3
<1>7. Cardinality({A[j], A[k]}) <= Cardinality(arms)
  <2>1. {A[j], A[k]} \in SUBSET arms
    BY <1>3
  <2> HIDE DEF arms
  <2> QED BY <1>5, <2>1, FS_Subset
<1>8. ~(Cardinality(arms) < 2)
  <2> HIDE DEF arms
  <2> QED BY <1>5, <1>6, <1>7
<1>9. \A m \in 1 .. n : m \in 1 .. limit
  BY <1>1
<1> QED BY <1>3, <1>8, <1>9 DEF n, Before

\* The guard of a site is a number, if there is one.
LEMMA GuardIs ==
    ASSUME NEW i \in DOMAIN Sites, Guarded(Sites[i])
    PROVE  Guard(Sites[i]) \in Nat
<1> DEFINE cs == Sites[i].compares
<1>1. Len(cs) \in Nat /\ \A k \in 1 .. Len(cs) : cs[k] \in Nat
  BY SitesAssumption
<1>2. cs # <<>> /\ Guard(Sites[i]) = cs[Len(cs)]
  BY DEF Guarded, Guard, Last
<1>3. CASE Len(cs) # 0
  <2>1. Len(cs) \in 1 .. Len(cs)
    BY <1>1, <1>3
  <2> HIDE DEF cs
  <2> QED BY <1>1, <1>2, <2>1
<1> QED BY <1>1, <1>2, <1>3

\* What something vouches for is recovered.
LEMMA VouchedArmsAreRecovered ==
    ASSUME NEW i \in DOMAIN Sites, Vouched(Sites[i]), NEW k \in 1 .. Sites[i].length
    PROVE  Leads(Sites[i], k) \in RecoveredArms(Sites[i])
<1> DEFINE site == Sites[i]
           L == site.length
<1>1. /\ site.table \in Nat /\ site.base \in Nat \cup {None}
      /\ L \in Nat /\ Len(site.words) \in Nat /\ L <= Len(site.words)
      /\ \A j \in 1 .. L : Within(Rx, Leads(site, j)) /\ Leads(site, j) % 4 = 0
      /\ \E j, m \in 1 .. L : Leads(site, j) # Leads(site, m)
      /\ TableCap <= Len(site.words)
      /\ Len(site.compares) \in Nat
      /\ \A j \in 1 .. Len(site.compares) : site.compares[j] \in Nat
      /\ IF site.base # None
         THEN Within(Rx, site.base) /\ \A j \in 1 .. L : site.words[j] \in Words
         ELSE site.wide /\ (Within(Ro, site.table) \/ Within(Rw, site.table))
  BY SitesAssumption
<1>2. Within(Ro, site.table) /\ L <= TableCap
  BY DEF Vouched
<1>3. TableCap \in Nat /\ L <= TableCap
  BY <1>2, FunctionsAssumption
<1>4. CASE site.base # None
  <2> DEFINE A   == [j \in 1 .. TableCap |-> site.base + (site.words[j] % Word) * 4]
             bad == {j \in 1 .. TableCap : ~InSpan(site.fn, A[j])}
             n    == Untried(TableCap, bad)
             arms == Before(A, TableCap, bad)
  <2>1. \A j \in 1 .. L : InSpan(site.fn, Leads(site, j))
    BY <1>4 DEF Vouched
  <2>2. \A j \in 1 .. L : A[j] = Leads(site, j)
    <3> SUFFICES ASSUME NEW j \in 1 .. L PROVE A[j] = Leads(site, j)
      OBVIOUS
    <3>1. site.words[j] \in Words /\ j \in 1 .. TableCap
      BY <1>1, <1>3, <1>4
    <3>2. site.words[j] % Word = site.words[j]
      BY <3>1, InWord
    <3>3. Leads(site, j) = site.base + site.words[j] * 4
      BY <1>4 DEF Leads
    <3> HIDE DEF site
    <3> QED BY <3>1, <3>2, <3>3
  <2>3. \A j \in 1 .. L : j \notin bad
    <3> HIDE DEF A, site
    <3> QED BY <2>1, <2>2
  <2>4. \E j, m \in 1 .. L : A[j] # A[m]
    <3> HIDE DEF A, site
    <3> QED BY <1>1, <2>2
  <2>5. bad \in SUBSET (1 .. TableCap)
    OBVIOUS
  <2>6. /\ ~(Cardinality(arms) < 2) /\ \A j \in 1 .. L : A[j] \in arms
        /\ \A j \in 1 .. n : j \in 1 .. TableCap
    <3> HIDE DEF A, bad, site, L
    <3> QED BY <1>1, <1>3, <2>3, <2>4, <2>5, ArmsTaken
  <2>7. ScaledArms(site) = IF Cardinality(arms) < 2 THEN {} ELSE arms
    <3>1. \A j \in 1 .. TableCap : A[j] = site.base + (site.words[j] % Word) * 4
      OBVIOUS
    <3>2. bad = {j \in 1 .. TableCap : ~InSpan(site.fn, site.base + (site.words[j] % Word) * 4)}
      OBVIOUS
    <3>4. arms = {site.base + (site.words[j] % Word) * 4 : j \in 1 .. n}
      <4>1. arms = {A[j] : j \in 1 .. n}
        BY DEF Before
      <4>2. \A j \in 1 .. n : A[j] = site.base + (site.words[j] % Word) * 4
        <5>1. \A j \in 1 .. n : j \in 1 .. TableCap
          BY <2>6
        <5> HIDE DEF n, bad, site, arms
        <5> QED BY <5>1
      <4> HIDE DEF n, arms, site, A, bad
      <4> QED BY <4>1, <4>2
    <3> HIDE DEF A, arms, site
    <3> QED BY <3>2, <3>4 DEF ScaledArms, ArmsWhile, Untried
  <2>8. Leads(site, k) \in ScaledArms(site)
    <3> HIDE DEF A, arms, site
    <3> QED BY <2>2, <2>6, <2>7 DEF site
  <2> QED BY <1>2, <1>4, <2>8 DEF RecoveredArms
<1>5. CASE site.base = None
  <2>1. site.wide
    BY <1>1, <1>5
  <2>2. \A j : Leads(site, j) = site.table + site.words[j]
    BY <1>5 DEF Leads
  <2>3. SelfArms(site) \subseteq RecoveredArms(site)
    BY <1>2, <2>1 DEF RecoveredArms
  <2>4. CASE Guarded(site)
    <3> DEFINE m   == Guard(site) + 1
               A   == [j \in 1 .. m |-> site.table + site.words[j]]
               bad == {j \in 1 .. m : ~(A[j] % 4 = 0 /\ Within(Rx, A[j]))}
               n    == Untried(m, bad)
               arms == Before(A, m, bad)
    <3>1. m \in Nat /\ L <= m
      BY <1>5, <2>4, GuardIs DEF Vouched
    <3>2. \A j \in 1 .. L : j \in 1 .. m /\ A[j] = Leads(site, j)
      BY <1>1, <2>2, <3>1
    <3>3. \A j \in 1 .. L : j \notin bad
      <4> HIDE DEF A, site
      <4> QED BY <1>1, <3>2
    <3>4. \E j, h \in 1 .. L : A[j] # A[h]
      <4> HIDE DEF A, site
      <4> QED BY <1>1, <3>2
    <3>5. bad \in SUBSET (1 .. m)
      OBVIOUS
    <3>6. /\ ~(Cardinality(arms) < 2) /\ \A j \in 1 .. L : A[j] \in arms
          /\ \A j \in 1 .. n : j \in 1 .. m
      <4> HIDE DEF A, bad, site, L, m
      <4> QED BY <1>1, <3>1, <3>3, <3>4, <3>5, ArmsTaken
    <3>7. bad = {j \in 1 .. m : ~((site.table + site.words[j]) % 4 = 0 /\ Within(Rx, site.table + site.words[j]))}
      OBVIOUS
    <3>9. arms = {site.table + site.words[j] : j \in 1 .. n}
      <4>1. arms = {A[j] : j \in 1 .. n}
        BY DEF Before
      <4>2. \A j \in 1 .. n : A[j] = site.table + site.words[j]
        <5>1. \A j \in 1 .. n : j \in 1 .. m
          BY <3>6
        <5> HIDE DEF n, bad, site, arms, m
        <5> QED BY <5>1
      <4> HIDE DEF n, arms, site, A, bad, m
      <4> QED BY <4>1, <4>2
    <3>10. SelfArms(site) = IF Cardinality(arms) < 2 THEN {} ELSE arms
      <4> HIDE DEF A, arms, site
      <4> QED BY <2>4, <3>7, <3>9 DEF SelfArms, ArmsWhile, Untried
    <3>11. Leads(site, k) \in SelfArms(site)
      <4> HIDE DEF A, arms, site
      <4> QED BY <3>2, <3>6, <3>10 DEF site
    <3> QED BY <2>3, <3>11
  <2>5. CASE ~Guarded(site)
    <3> DEFINE A   == [j \in 1 .. TableCap |-> site.table + site.words[j]]
               bad == {j \in 1 .. TableCap : ~InSpan(site.fn, A[j])}
               n    == Untried(TableCap, bad)
               arms == Before(A, TableCap, bad)
    <3>1. \A j \in 1 .. L : InSpan(site.fn, Leads(site, j))
      BY <1>5, <2>5 DEF Vouched
    <3>2. \A j \in 1 .. L : j \in 1 .. TableCap /\ A[j] = Leads(site, j)
      BY <1>1, <1>3, <2>2
    <3>3. \A j \in 1 .. L : j \notin bad
      <4> HIDE DEF A, site
      <4> QED BY <3>1, <3>2
    <3>4. \E j, m \in 1 .. L : A[j] # A[m]
      <4> HIDE DEF A, site
      <4> QED BY <1>1, <3>2
    <3>5. bad \in SUBSET (1 .. TableCap)
      OBVIOUS
    <3>6. /\ ~(Cardinality(arms) < 2) /\ \A j \in 1 .. L : A[j] \in arms
          /\ \A j \in 1 .. n : j \in 1 .. TableCap
      <4> HIDE DEF A, bad, site, L
      <4> QED BY <1>1, <1>3, <3>3, <3>4, <3>5, ArmsTaken
    <3>7. bad = {j \in 1 .. TableCap : ~InSpan(site.fn, site.table + site.words[j])}
      OBVIOUS
    <3>9. arms = {site.table + site.words[j] : j \in 1 .. n}
      <4>1. arms = {A[j] : j \in 1 .. n}
        BY DEF Before
      <4>2. \A j \in 1 .. n : A[j] = site.table + site.words[j]
        <5>1. \A j \in 1 .. n : j \in 1 .. TableCap
          BY <3>6
        <5> HIDE DEF n, bad, site, arms
        <5> QED BY <5>1
      <4> HIDE DEF n, arms, site, A, bad
      <4> QED BY <4>1, <4>2
    <3>10. SelfArms(site) = IF Cardinality(arms) < 2 THEN {} ELSE arms
      <4> HIDE DEF A, arms, site
      <4> QED BY <2>5, <3>7, <3>9 DEF SelfArms, ArmsWhile, Untried
    <3>11. Leads(site, k) \in SelfArms(site)
      <4> HIDE DEF A, arms, site
      <4> QED BY <3>2, <3>6, <3>10 DEF site
    <3> QED BY <2>3, <3>11
  <2> QED BY <2>4, <2>5
<1> QED BY <1>4, <1>5

-----------------------------------------------------------------------------
(* The program that is built.                                                 *)

Program ==
    /\ \E b \in Builds :
          /\ relr = b.relr
          /\ blocks = [f \in DOMAIN Functions |->
                          Blocks(b.relr)[f] \cup (b.extra \cap Functions[f])]
          /\ image = WritableImage(b.relr)
    /\ entries = EntryRows(blocks)

LEMMA ImageFacts ==
    ASSUME Program
    PROVE  /\ Relative(relr) /\ image = WritableImage(relr) /\ DOMAIN image = Slots
           /\ relr \in SUBSET Slots /\ Unpack(Pack(relr)) = relr
<1>1. PICK b \in Builds : relr = b.relr /\ image = WritableImage(b.relr)
  BY DEF Program
<1>2. Relative(relr)
  BY <1>1, GuestAssumption DEF Relative
<1>3. DOMAIN WritableImage(relr) = Slots
  BY DEF WritableImage
<1>4. relr \in SUBSET Slots
  BY <1>2 DEF Relative
<1> QED BY <1>1, <1>2, <1>3, <1>4, SlotsAreFinite

\* The blocks of a function are its own.
LEMMA BlocksFacts ==
    ASSUME Program, NEW f \in DOMAIN Functions
    PROVE  /\ f \in blocks[f] /\ blocks[f] \subseteq Functions[f]
           /\ MustBeBlocks(relr) \cap Functions[f] \subseteq blocks[f]
           /\ blocks[f] \in SUBSET Nat /\ IsFiniteSet(blocks[f])
           /\ \A a \in blocks[f] : Code(a)
<1>1. PICK b \in Builds : relr = b.relr /\
         blocks = [g \in DOMAIN Functions |-> Blocks(b.relr)[g] \cup (b.extra \cap Functions[g])]
  BY DEF Program
<1>2. /\ f \in Functions[f] /\ Cfg[f] \subseteq Functions[f]
      /\ \A a \in Functions[f] : a \in Nat /\ Within(Rx, a)
  BY FunctionsAssumption
<1>3. blocks[f] = ({f} \cup Cfg[f] \cup (MustBeBlocks(relr) \cap Functions[f]))
                     \cup (b.extra \cap Functions[f])
  BY <1>1 DEF Blocks
<1>4. f \in blocks[f] /\ blocks[f] \subseteq Functions[f]
      /\ MustBeBlocks(relr) \cap Functions[f] \subseteq blocks[f]
  BY <1>2, <1>3
<1>5. \A a \in blocks[f] : Code(a) /\ a \in Nat /\ a \in 0 .. Rx.hi
  BY <1>2, <1>4, Places DEF Code, Within
<1>6. IsFiniteSet(0 .. Rx.hi)
  <2>1. 0 \in Int /\ Rx.hi \in Int
    BY Places
  <2>2. \A a, d \in Int : IsFiniteSet(a .. d)
    BY FS_Interval
  <2> QED BY <2>1, <2>2, Zenon
<1>7. IsFiniteSet(blocks[f])
  <2>1. blocks[f] \in SUBSET (0 .. Rx.hi)
    BY <1>5
  <2> QED BY <1>6, <2>1, FS_Subset
<1> QED BY <1>4, <1>5, <1>7

\* Every code address is in one function.
LEMMA OwnerFacts ==
    ASSUME NEW a, Code(a)
    PROVE  /\ Owner(a) \in DOMAIN Functions /\ a \in Functions[Owner(a)]
           /\ \A f \in DOMAIN Functions : a \in Functions[f] => f = Owner(a)
<1>1. a \in Rx.lo .. Rx.hi - 1
  BY CodeIsWord
<1>2. \E f \in DOMAIN Functions : a \in Functions[f]
  BY <1>1, FunctionsAssumption
<1>3. Owner(a) \in DOMAIN Functions /\ a \in Functions[Owner(a)]
  BY <1>2 DEF Owner
<1>4. \A f \in DOMAIN Functions : a \in Functions[f] => f = Owner(a)
  <2> TAKE f \in DOMAIN Functions
  <2>1. a \in Functions[f] => Functions[f] \cap Functions[Owner(a)] # {}
    BY <1>3
  <2> QED BY <1>3, <2>1, FunctionsAssumption
<1> QED BY <1>3, <1>4

\* What must be a block is one, in the function that it is in.
LEMMA MustBeIs ==
    ASSUME Program, NEW a \in MustBeBlocks(relr), Code(a)
    PROVE  a \in AllBlocks(blocks)
<1>1. Owner(a) \in DOMAIN Functions /\ a \in Functions[Owner(a)]
  BY OwnerFacts
<1>2. a \in blocks[Owner(a)]
  BY <1>1, BlocksFacts
<1> QED BY <1>1, <1>2 DEF AllBlocks

\* A function has a block at its start.
LEMMA StartsAre ==
    ASSUME Program, NEW f \in DOMAIN Functions
    PROVE  f \in AllBlocks(blocks)
BY BlocksFacts DEF AllBlocks

LEMMA BlockOfOwner ==
    ASSUME Program, NEW a \in AllBlocks(blocks)
    PROVE  Code(a) /\ Owner(a) \in DOMAIN Functions /\ a \in blocks[Owner(a)]
<1>1. PICK f \in DOMAIN Functions : a \in blocks[f]
  BY DEF AllBlocks
<1>2. Code(a) /\ a \in Functions[f]
  BY <1>1, BlocksFacts
<1>3. f = Owner(a)
  BY <1>2, OwnerFacts
<1> QED BY <1>1, <1>2, <1>3

\* A row for every block of every function, in order.
LEMMA EntriesFacts ==
    ASSUME Program
    PROVE  /\ entries \in Seq(Row) /\ Sorted(entries)
           /\ \A i \in DOMAIN entries : entries[i].lo \in AllBlocks(blocks)
                                          /\ entries[i].hi = entries[i].lo + 1
           /\ \A a \in AllBlocks(blocks) : \E i \in DOMAIN entries : Covers(entries[i], a)
<1> DEFINE S == AllBlocks(blocks)
           a == Ascending(S)
           n == Cardinality(S)
<1>1. S \in SUBSET (0 .. Rx.hi) /\ S \in SUBSET Nat
  <2> SUFFICES ASSUME NEW x \in S PROVE x \in 0 .. Rx.hi /\ x \in Nat
    OBVIOUS
  <2>1. Code(x)
    BY BlockOfOwner
  <2> QED BY <2>1, Places DEF Code, Within
<1>2. IsFiniteSet(S) /\ n \in Nat
  <2>1. 0 \in Int /\ Rx.hi \in Int
    BY Places
  <2>2. \A c, d \in Int : IsFiniteSet(c .. d)
    BY FS_Interval
  <2>3. IsFiniteSet(0 .. Rx.hi)
    BY <2>1, <2>2, Zenon
  <2> HIDE DEF S
  <2> QED BY <1>1, <2>3, FS_Subset, FS_CardinalityType
<1> HIDE DEF S
<1>3. /\ DOMAIN a = 1 .. n
      /\ \A i \in 1 .. n : a[i] \in S /\ a[i] \in Nat
      /\ \A i, j \in 1 .. n : i < j => a[i] < a[j]
      /\ \A x \in S : \E i \in 1 .. n : a[i] = x
  BY <1>1, <1>2, AscendingFacts
<1>4. entries = [i \in 1 .. n |-> [lo |-> a[i], hi |-> a[i] + 1]]
  BY <1>3 DEF Program, EntryRows, S
<1> HIDE DEF a, n
<1>5. entries \in [1 .. n -> Row]
  BY <1>3, <1>4 DEF Row
<1>6. entries \in Seq(Row) /\ DOMAIN entries = 1 .. n
  BY <1>2, <1>5
<1>7. \A i \in 1 .. n : entries[i].lo = a[i] /\ entries[i].hi = a[i] + 1
  BY <1>4
<1>8. Sorted(entries)
  <2>1. \A i \in 1 .. n : entries[i].lo < entries[i].hi
    BY <1>3, <1>7
  <2>2. \A i, j \in 1 .. n : i < j => entries[i].hi <= entries[j].lo
    <3> TAKE i, j \in 1 .. n
    <3>1. a[i] \in Nat /\ a[j] \in Nat /\ (i < j => a[i] < a[j])
      BY <1>3
    <3> QED BY <1>7, <3>1
  <2> QED BY <1>6, <2>1, <2>2 DEF Sorted
<1>9. \A x \in S : \E i \in 1 .. n : Covers(entries[i], x)
  <2> TAKE x \in S
  <2>1. PICK i \in 1 .. n : a[i] = x
    BY <1>3
  <2>2. x \in Nat /\ entries[i].lo = x /\ entries[i].hi = x + 1
    BY <1>1, <1>7, <2>1
  <2> QED BY <2>2 DEF Covers
<1>10. \A i \in 1 .. n : entries[i].lo \in S /\ entries[i].hi = entries[i].lo + 1
  BY <1>3, <1>7
<1> QED BY <1>6, <1>8, <1>9, <1>10 DEF S

\* A row for every function that has a table, in order.
LEMMA RegionsFacts ==
    /\ Regions \in Seq(Row) /\ Sorted(Regions)
    /\ \A i \in DOMAIN Regions : /\ Regions[i].lo \in Regioned
                                 /\ Regions[i].hi = Regions[i].lo + RegionSize(Regions[i].lo)
    /\ \A s \in Regioned : \E i \in DOMAIN Regions : Regions[i].lo = s
    /\ \A s \in Regioned : s \in Nat /\ RegionSize(s) \in Nat /\ RegionSize(s) # 0
<1> DEFINE S == Regioned
           a == Ascending(S)
           n == Cardinality(S)
<1>1. ASSUME NEW s \in S
      PROVE  /\ s \in 0 .. Rx.hi /\ s \in Nat
             /\ RegionSize(s) \in Nat /\ RegionSize(s) # 0
  <2>1. s \in Starts /\ Within(Rx, s)
    BY DEF Regioned
  <2>2. PICK i \in DOMAIN Frames : IsFrame(i) /\ Begin(i) = s
    BY <2>1 DEF Starts
  <2>3. s \in Int
    BY <2>2, TablesAssumption
  <2>4. s \in 0 .. Rx.hi /\ s \in Nat
    BY <2>1, <2>3, Places DEF Within
  <2>5. FrameOf(s) \in DOMAIN Frames /\ IsFrame(FrameOf(s))
    <3> DEFINE of  == {j \in DOMAIN Frames : IsFrame(j) /\ Begin(j) = s}
               has == {j \in of : Lsda(j) # None}
    <3>1. of \in SUBSET Nat /\ has \in SUBSET Nat /\ i \in of
      BY <2>2, TablesAssumption
    <3>2. (has # {} => Min(has) \in has) /\ Min(of) \in of
      <4> HIDE DEF of, has
      <4> QED BY <3>1, MinFacts
    <3>3. FrameOf(s) = IF has # {} THEN Min(has) ELSE Min(of)
      BY DEF FrameOf
    <3>4. FrameOf(s) \in of
      <4> HIDE DEF of
      <4> QED BY <3>2, <3>3
    <3> QED BY <3>4
  <2>6. Frames[FrameOf(s)].range \in Nat
    BY <2>5, TablesAssumption
  <2>7. RegionSize(s) \in Nat /\ RegionSize(s) # 0
    BY <2>6 DEF RegionSize
  <2> QED BY <2>4, <2>7
<1>2. S \in SUBSET Nat /\ IsFiniteSet(S) /\ n \in Nat
  <2>1. 0 \in Int /\ Rx.hi \in Int
    BY Places
  <2>2. \A c, d \in Int : IsFiniteSet(c .. d)
    BY FS_Interval
  <2>3. IsFiniteSet(0 .. Rx.hi)
    BY <2>1, <2>2, Zenon
  <2>4. S \in SUBSET (0 .. Rx.hi) /\ S \in SUBSET Nat
    BY <1>1
  <2> HIDE DEF S
  <2> QED BY <2>3, <2>4, FS_Subset, FS_CardinalityType
<1>3. /\ DOMAIN a = 1 .. n
      /\ \A i \in 1 .. n : a[i] \in S
      /\ \A i, j \in 1 .. n : i < j => a[i] < a[j]
      /\ \A x \in S : \E i \in 1 .. n : a[i] = x
  BY <1>2, AscendingFacts
<1>4. Regions = [i \in 1 .. n |-> [lo |-> a[i], hi |-> a[i] + RegionSize(a[i])]]
  BY <1>3 DEF Regions
<1> HIDE DEF a, n, S
<1>5. \A i \in 1 .. n : a[i] \in Nat /\ a[i] + RegionSize(a[i]) \in Nat
                        /\ a[i] < a[i] + RegionSize(a[i])
  BY <1>1, <1>3
<1>6. Regions \in [1 .. n -> Row]
  BY <1>4, <1>5 DEF Row
<1>7. Regions \in Seq(Row) /\ DOMAIN Regions = 1 .. n
  BY <1>2, <1>6
<1>8. \A i \in 1 .. n : Regions[i].lo = a[i] /\ Regions[i].hi = a[i] + RegionSize(a[i])
  BY <1>4
<1>9. Sorted(Regions)
  <2>1. \A i \in 1 .. n : Regions[i].lo < Regions[i].hi
    BY <1>5, <1>8
  <2>2. \A i, j \in 1 .. n : i < j => Regions[i].hi <= Regions[j].lo
    <3> TAKE i, j \in 1 .. n
    <3>1. a[i] \in S /\ a[j] \in S /\ (i < j => a[i] < a[j])
      BY <1>3
    <3>2. i < j => a[i] + RegionSize(a[i]) <= a[j]
      BY <3>1, TablesAssumption DEF S
    <3> QED BY <1>8, <3>2
  <2> QED BY <1>7, <2>1, <2>2 DEF Sorted
<1> QED BY <1>1, <1>3, <1>7, <1>8, <1>9 DEF S

-----------------------------------------------------------------------------
(* Landing pads.                                                              *)

\* In the region of a function the pad of its table is the one the guest means.
LEMMA PadIsMeant ==
    ASSUME NEW s \in Regioned, NEW ra \in Words \ {0}, NEW pad,
           LET around == {i \in DOMAIN LsdaOf[s].sites : InSite(s, i, ra - 1)}
               padOf(i) == LsdaOf[s].sites[i].pad
           IN  \/ pad = 0 /\ \A i \in around : padOf(i) = 0
               \/ \E i \in around : padOf(i) # 0 /\ pad = PadBase(LsdaOf[s], s) + padOf(i)
    PROVE  PadFor(s, ra) = pad /\ (pad # 0 => pad \in PadsOf(s))
<1> DEFINE t == LsdaOf[s]
           D == DOMAIN t.sites
           Lo(i) == SiteLo(t, i, s)
           len(i) == t.sites[i].len
           pc == ra - 1
           stop == {i \in D : pc < Lo(i) + len(i)}
<1>1. /\ \A i \in D : i \in Nat /\ Lo(i) \in Int /\ len(i) \in Nat
      /\ \A i, j \in D : i < j => Lo(i) + len(i) <= Lo(j)
  BY TablesAssumption
<1>2. pc \in Int
  BY Places DEF Words
<1>3. PadFor(s, ra) = IF stop = {} \/ pc < Lo(Min(stop)) \/ t.sites[Min(stop)].pad = 0
                      THEN 0 ELSE PadBase(t, s) + t.sites[Min(stop)].pad
  BY DEF PadFor
<1>4. \A i \in D : InSite(s, i, pc) <=> Lo(i) <= pc /\ pc < Lo(i) + len(i)
  BY DEF InSite
<1>5. stop \in SUBSET Nat /\ stop \subseteq D
  BY <1>1
<1>6. stop # {} => Min(stop) \in stop /\ \A k \in stop : Min(stop) <= k
  <2> HIDE DEF stop
  <2> QED BY <1>5, MinFacts
<1>7. CASE pad = 0 /\ \A i \in D : InSite(s, i, pc) => t.sites[i].pad = 0
  <2>1. CASE stop = {}
    BY <1>3, <1>7, <2>1
  <2>2. CASE stop # {}
    <3> DEFINE m == Min(stop)
    <3>1. m \in D /\ pc < Lo(m) + len(m)
      BY <1>6, <2>2
    <3>2. ~(pc < Lo(m)) => t.sites[m].pad = 0
      <4> HIDE DEF m
      <4>1. Lo(m) \in Int
        BY <1>1, <3>1
      <4>2. ~(pc < Lo(m)) => Lo(m) <= pc
        <5> HIDE DEF Lo, pc
        <5> QED BY <1>2, <4>1
      <4> HIDE DEF Lo, pc, t, len
      <4> QED BY <1>4, <1>7, <3>1, <4>2
    <3> HIDE DEF m, pc, Lo, t, stop
    <3> QED BY <1>3, <1>7, <3>2 DEF m
  <2> QED BY <1>7, <2>1, <2>2
<1>8. CASE \E i \in D : InSite(s, i, pc) /\ t.sites[i].pad # 0
                         /\ pad = PadBase(t, s) + t.sites[i].pad
  <2>1. PICK i \in D : InSite(s, i, pc) /\ t.sites[i].pad # 0 /\ pad = PadBase(t, s) + t.sites[i].pad
    BY <1>8
  <2>2. Lo(i) <= pc /\ pc < Lo(i) + len(i) /\ i \in stop
    BY <1>4, <2>1
  <2> DEFINE m == Min(stop)
  <2>3. m \in stop /\ m <= i /\ m \in D /\ pc < Lo(m) + len(m)
    BY <1>5, <1>6, <2>2
  <2>4. m = i
    <3> HIDE DEF m, pc, Lo, len, t, stop
    <3>1. m < i => Lo(m) + len(m) <= Lo(i)
      BY <1>1, <2>1, <2>3
    <3>2. ~(m < i)
      BY <1>1, <1>2, <2>1, <2>2, <2>3, <3>1
    <3> QED BY <1>1, <2>1, <2>3, <3>2
  <2>5. stop # {} /\ ~(pc < Lo(m)) /\ t.sites[m].pad # 0
    <3> HIDE DEF m, pc, Lo, len, t, stop
    <3> QED BY <1>1, <1>2, <2>1, <2>2, <2>4
  <2>6. PadFor(s, ra) = pad
    <3> HIDE DEF pc, Lo, t, stop
    <3> QED BY <1>3, <2>1, <2>4, <2>5
  <2>7. pad \in PadsOf(s)
    BY <2>1 DEF PadsOf
  <2> QED BY <2>6, <2>7
<1> QED BY <1>7, <1>8

-----------------------------------------------------------------------------
(* The searches.                                                              *)

\* What is left of the table is within it.
Bounds ==
    /\ table \in Seq(Row) /\ Sorted(table)
    /\ key \in Nat
    /\ lo \in Nat /\ hi \in Nat
    /\ lo <= hi /\ hi <= Len(table)

\* A row that covers the address is among those left.
Ahead == \A i \in DOMAIN table : Covers(table[i], key) => lo < i /\ i <= hi

SearchInv ==
    /\ Bounds
    /\ phase \in {"searching", "done"}
    /\ phase = "searching" => Ahead /\ at = 0
    /\ FindsTheRow

\* The middle row is one of those left.
LEMMA MiddleIsLeft ==
    ASSUME Bounds, lo < hi
    PROVE  LET m == lo + (hi - lo) \div 2 IN
              /\ m \in Nat /\ lo <= m /\ m < hi
              /\ m + 1 \in DOMAIN table
              /\ table[m + 1] \in Row
<1>1. /\ lo + (hi - lo) \div 2 \in Nat
      /\ lo <= lo + (hi - lo) \div 2
      /\ lo + (hi - lo) \div 2 < hi
  BY DEF Bounds
<1>2. lo + (hi - lo) \div 2 + 1 \in 1..Len(table)
  BY <1>1 DEF Bounds
<1>3. DOMAIN table = 1..Len(table) /\ \A i \in 1..Len(table) : table[i] \in Row
  BY DEF Bounds
<1> QED BY <1>1, <1>2, <1>3

LEMMA RowsLeftShrink == SearchInv /\ [Probe]_searchVars => SearchInv'
<1> SUFFICES ASSUME SearchInv, [Probe]_searchVars PROVE SearchInv'
  OBVIOUS
<1> DEFINE m == lo + (hi - lo) \div 2
<1>s. table \in Seq(Row)
  BY DEF SearchInv, Bounds
<1>e. DOMAIN table = 1..Len(table) /\ \A i \in DOMAIN table : table[i] \in Row
  BY <1>s
<1>t. /\ DOMAIN table = 1..Len(table)
      /\ \A i \in DOMAIN table : table[i] \in Row /\ table[i].lo \in Nat /\ table[i].hi \in Nat
  BY <1>e DEF Row
<1>1. CASE Below
  <2>1. lo < hi /\ phase = "searching" /\ key < Mid.lo
    BY <1>1 DEF Below
  <2>2. /\ m \in Nat /\ lo <= m /\ m < hi
        /\ m + 1 \in DOMAIN table /\ table[m + 1] \in Row
    BY <2>1, MiddleIsLeft DEF SearchInv
  <2>3. UNCHANGED <<table, key, lo, at, phase>> /\ hi' = m
    BY <1>1 DEF Below
  <2>4. ASSUME NEW i \in DOMAIN table, Covers(table[i], key) PROVE i <= m
    <3>1. i # m + 1
      BY <2>1, <2>2, <2>4, <1>t DEF Mid, Covers, SearchInv, Bounds
    <3>2. ~(m + 1 < i)
      <4>1. SUFFICES ASSUME m + 1 < i PROVE FALSE
        OBVIOUS
      <4>2. table[m + 1].hi <= table[i].lo /\ table[m + 1].lo < table[m + 1].hi
        BY <4>1, <2>2 DEF SearchInv, Bounds, Sorted
      <4>3. table[i].lo <= key /\ key < table[m + 1].lo
        BY <2>4, <2>1 DEF Covers, Mid
      <4> QED BY <4>2, <4>3, <1>t, <2>2 DEF SearchInv, Bounds
    <3> QED BY <3>1, <3>2, <2>2, <1>t
  <2>5. Ahead'
    BY <2>1, <2>3, <2>4 DEF SearchInv, Ahead
  <2> QED BY <2>1, <2>2, <2>3, <2>5 DEF SearchInv, Bounds, FindsTheRow
<1>2. CASE Above
  <2>1. lo < hi /\ phase = "searching" /\ key >= Mid.hi
    BY <1>2 DEF Above
  <2>2. /\ m \in Nat /\ lo <= m /\ m < hi
        /\ m + 1 \in DOMAIN table /\ table[m + 1] \in Row
    BY <2>1, MiddleIsLeft DEF SearchInv
  <2>3. UNCHANGED <<table, key, hi, at, phase>> /\ lo' = m + 1
    BY <1>2 DEF Above
  <2>4. ASSUME NEW i \in DOMAIN table, Covers(table[i], key) PROVE m + 1 < i
    <3>1. i # m + 1
      BY <2>1, <2>2, <2>4, <1>t DEF Mid, Covers, Row, SearchInv, Bounds
    <3>2. ~(i < m + 1)
      <4>1. SUFFICES ASSUME i < m + 1 PROVE FALSE
        OBVIOUS
      <4>2. table[i].hi <= table[m + 1].lo /\ table[m + 1].lo < table[m + 1].hi
        BY <4>1, <2>2 DEF SearchInv, Bounds, Sorted
      <4>3. key < table[i].hi /\ table[m + 1].hi <= key
        BY <2>4, <2>1, <2>2, <1>t DEF Covers, Mid, SearchInv, Bounds
      <4> QED BY <4>2, <4>3, <1>t, <2>2 DEF SearchInv, Bounds
    <3> QED BY <3>1, <3>2, <2>2, <1>t
  <2>5. Ahead'
    BY <2>1, <2>3, <2>4 DEF SearchInv, Ahead
  <2> QED BY <2>1, <2>2, <2>3, <2>5 DEF SearchInv, Bounds, FindsTheRow
<1>3. CASE Hit
  <2>1. lo < hi /\ Covers(Mid, key)
    BY <1>3 DEF Hit
  <2>2. /\ m \in Nat
        /\ m + 1 \in DOMAIN table
    BY <2>1, MiddleIsLeft DEF SearchInv
  <2>3. UNCHANGED <<table, key, lo, hi>> /\ at' = m + 1 /\ phase' = "done"
    BY <1>3 DEF Hit
  <2>4. FindsTheRow'
    BY <2>1, <2>2, <2>3 DEF FindsTheRow, Mid, Covers
  <2> QED BY <2>3, <2>4 DEF SearchInv, Bounds
<1>4. CASE Miss
  <2>1. lo >= hi /\ phase = "searching" /\ phase' = "done"
        /\ UNCHANGED <<table, key, lo, hi, at>>
    BY <1>4 DEF Miss
  <2>2. \A i \in DOMAIN table : ~Covers(table[i], key)
    BY <2>1, <1>t DEF SearchInv, Bounds, Ahead
  <2>3. FindsTheRow'
    BY <2>1, <2>2 DEF FindsTheRow, SearchInv
  <2> QED BY <2>1, <2>3 DEF SearchInv, Bounds
<1>5. CASE UNCHANGED searchVars
  BY <1>5 DEF searchVars, SearchInv, Bounds, Ahead, FindsTheRow
<1> QED BY <1>1, <1>2, <1>3, <1>4, <1>5 DEF Probe

\* guest_lookup and guest_eh_find, for every sorted table of disjoint rows and for
\* every address, return the row that covers it, or none when there is none.
THEOREM SearchIsExact == SearchSpec => []FindsTheRow
<1>1. SearchInit => SearchInv
  BY DEF SearchInit, SearchInv, Bounds, Ahead, FindsTheRow
<1>2. SearchInv /\ [Probe]_searchVars => SearchInv'
  BY RowsLeftShrink
<1>3. SearchInv => FindsTheRow
  BY DEF SearchInv
<1> QED BY <1>1, <1>2, <1>3, PTL DEF SearchSpec

-----------------------------------------------------------------------------
(* The invariant.                                                             *)

Asked == table = entries /\ Code(key) /\ meant = Guest(key)

\* Where the transfer is, and what is known of the word and of what it means.
OnItsWay ==
    /\ step \in {"branch", "fallback", "local", "call"} => Aims(word, meant) /\ missed = 0
    /\ step = "branch" => \A a \in targets : Within(Rx, a)
    /\ step \in {"addr", "read-only", "writable"} => Asked
    /\ step = "read-only" =>
          missed = 0 /\ word # 0 /\ ~Within(Rx, word) /\ key = ThroughRo(word)
    /\ step = "writable" => missed = 0
    /\ step = "written" =>
          /\ word # 0 /\ ~Within(Rx, word)
          /\ missed = 0 => Aims(word, meant) /\ ~Within(Rx, ThroughRo(word))
          /\ missed # 0 => /\ missed = ThroughRo(word) /\ Code(missed)
                           /\ missed \notin AllBlocks(blocks) /\ meant = Guest(missed)
    /\ step = "region" =>
          /\ table = Regions /\ key = word - 1
          /\ \E c \in Calls : c.fn = fn /\ c.ra = word /\ meant = Guest(c.pad)
    /\ step \in {"ran", "host", "unresolved"} => reached = meant
    /\ step = "unresolved" =>
          meant = Null \/ \E v \in Nat : meant = Guest(v) /\ Code(v) /\ v \notin AllBlocks(blocks)
    /\ step = "no pad" => meant = Guest(0)

\* What the guest means has a block, unless nothing vouches for it.
Reaches(m, bs) ==
    \A v \in Nat : m = Guest(v) /\ Code(v) /\ v % 4 = 0 /\ v \notin AllBlocks(bs) => m \in Doubtful

\* A jump that is past the dispatch of its function is to none of its blocks.
Outside ==
    jumping /\ step \in {"call", "read-only", "written", "writable", "addr"} /\ HasLocalDispatch(fn)
        => word \notin blocks[fn]

Steps == Ended \cup {"idle", "branch", "fallback", "local", "call", "addr",
                     "read-only", "written", "writable", "region"}

TransferInv ==
    /\ Program
    /\ fn \in DOMAIN Functions /\ word \in Words /\ missed \in Words /\ step \in Steps
    /\ SearchIdle \/ SearchInv
    /\ OnItsWay
    /\ Reaches(meant, blocks)
    /\ Outside

\* The program is the same from step to step.
LEMMA SameProgram ==
    ASSUME Program, UNCHANGED program
    PROVE  /\ Program' /\ relr' = relr /\ blocks' = blocks /\ image' = image /\ entries' = entries
           /\ AllBlocks(blocks') = AllBlocks(blocks)
<1>1. relr' = relr /\ blocks' = blocks /\ image' = image /\ entries' = entries
  BY DEF program
<1> QED BY <1>1 DEF Program

\* So is a search that does not go on.
LEMMA SameSearch ==
    ASSUME SearchIdle \/ SearchInv, UNCHANGED searchVars
    PROVE  /\ (SearchIdle \/ SearchInv)'
           /\ table' = table /\ key' = key /\ lo' = lo /\ hi' = hi /\ at' = at /\ phase' = phase
<1>1. table' = table /\ key' = key /\ lo' = lo /\ hi' = hi /\ at' = at /\ phase' = phase
  BY DEF searchVars
<1>2. SearchIdle => SearchIdle'
  BY <1>1 DEF SearchIdle
<1>3. SearchInv => SearchInv'
  BY <1>1 DEF SearchInv, Bounds, Ahead, FindsTheRow
<1> QED BY <1>1, <1>2, <1>3

\* A search begins with every row left.
LEMMA Asking ==
    ASSUME NEW t \in Seq(Row), Sorted(t), NEW k \in Nat, Ask(t, k)
    PROVE  SearchInv' /\ table' = t /\ key' = k
<1>1. table' = t /\ key' = k /\ lo' = 0 /\ hi' = Len(t) /\ at' = 0 /\ phase' = "searching"
  BY DEF Ask
<1>2. Len(t) \in Nat /\ DOMAIN t = 1 .. Len(t)
  OBVIOUS
<1>3. Bounds'
  BY <1>1, <1>2 DEF Bounds
<1>4. Ahead'
  BY <1>1, <1>2 DEF Ahead
<1>5. FindsTheRow'
  BY <1>1 DEF FindsTheRow
<1> QED BY <1>1, <1>3, <1>4, <1>5 DEF SearchInv

\* A word in the code aims at itself.
LEMMA AimsAtItself ==
    ASSUME NEW w \in Words, NEW m, Aims(w, m), Within(Rx, w)
    PROVE  Code(w) /\ m = Guest(w)
<1>1. Code(w) /\ w # 0
  BY Places DEF Code, Words, Within
<1>2. \A n \in DOMAIN Host : w # Host[n]
  BY HostsApart
<1>3. PICK v \in Nat : Names(w, v) /\ m = Guest(v)
  BY <1>1, <1>2 DEF Aims
<1>4. w = v
  BY <1>3 DEF Names
<1> QED BY <1>1, <1>3, <1>4

\* The dispatch of a function is the switch over its blocks.
LEMMA LocalIsTheSwitch ==
    ASSUME Program, NEW f \in DOMAIN Functions, NEW p \in Words
    PROVE  LocalDispatch(blocks[f], p) = Plain(blocks[f], p)
<1>1. /\ blocks[f] \in SUBSET Nat /\ IsFiniteSet(blocks[f]) /\ blocks[f] # {}
      /\ blocks[f] \subseteq Functions[f] /\ \A a \in blocks[f] : Code(a)
  BY BlocksFacts
<1>2. \A a \in blocks[f] : a < Word
  <2> SUFFICES ASSUME NEW a \in blocks[f] PROVE a < Word
    OBVIOUS
  <2>1. a \in Words
    BY <1>1, CodeIsWord
  <2> QED BY <2>1, Places DEF Words
<1>3. Word \in Nat /\ Key \in Nat \ {0} /\ \A a, b \in blocks[f] : a - b < 4 * Key
  BY <1>1, FunctionsAssumption
<1> QED BY <1>1, <1>2, <1>3, LocalIsPlain

\* A function without a dispatch has one block.
LEMMA OneBlock ==
    ASSUME Program, NEW f \in DOMAIN Functions, ~HasLocalDispatch(f), NEW a \in blocks[f]
    PROVE  a = f
<1>1. f \in blocks[f] /\ IsFiniteSet(blocks[f])
  BY BlocksFacts
<1>2. Cardinality(blocks[f]) \in Nat /\ ~(Cardinality(blocks[f]) > 1)
  BY <1>1, FS_CardinalityType DEF HasLocalDispatch
<1>3. SUFFICES ASSUME a # f PROVE FALSE
  OBVIOUS
<1>4. IsFiniteSet({a}) /\ Cardinality({a}) = 1
  BY FS_Singleton
<1>5. Cardinality({a} \cup {f}) = 2
  <2> DEFINE S == {a}
  <2>1. IsFiniteSet(S) /\ Cardinality(S) = 1 /\ f \notin S
    BY <1>3, <1>4
  <2> HIDE DEF S
  <2>2. Cardinality(S \cup {f}) = Cardinality(S) + 1
    BY <2>1, FS_AddElement
  <2> QED BY <2>1, <2>2 DEF S
<1>6. {a} \cup {f} \in SUBSET blocks[f]
  BY <1>1
<1>7. Cardinality({a} \cup {f}) <= Cardinality(blocks[f])
  BY <1>1, <1>6, FS_Subset
<1> QED BY <1>2, <1>5, <1>7

\* A row that covers an address is the one of its block.
LEMMA EntryFound ==
    ASSUME TransferInv, table = entries, Code(key)
    PROVE  /\ Found => at \in DOMAIN entries /\ entries[at].lo = key /\ key \in AllBlocks(blocks)
           /\ NotFound => key \notin AllBlocks(blocks)
<1>1. Program /\ (phase = "done" => FindsTheRow)
  BY DEF TransferInv, SearchIdle, SearchInv
<1>2. /\ \A i \in DOMAIN entries : entries[i].lo \in AllBlocks(blocks) /\ entries[i].hi = entries[i].lo + 1
      /\ \A a \in AllBlocks(blocks) : \E i \in DOMAIN entries : Covers(entries[i], a)
  BY <1>1, EntriesFacts
<1>3. key \in Nat
  BY DEF Code
<1>4. ASSUME Found PROVE at \in DOMAIN entries /\ entries[at].lo = key /\ key \in AllBlocks(blocks)
  <2>1. phase = "done" /\ at # 0
    BY <1>4 DEF Found
  <2>2. at \in DOMAIN entries /\ Covers(entries[at], key)
    BY <1>1, <2>1 DEF FindsTheRow
  <2>3. entries[at].lo \in AllBlocks(blocks) /\ entries[at].hi = entries[at].lo + 1
    BY <1>2, <2>2
  <2>4. entries[at].lo \in Nat
    BY <1>1, <2>3, BlockOfOwner DEF Code
  <2>5. entries[at].lo = key
    BY <1>3, <2>2, <2>3, <2>4 DEF Covers
  <2> QED BY <2>2, <2>3, <2>5
<1>5. ASSUME NotFound PROVE key \notin AllBlocks(blocks)
  <2>1. phase = "done" /\ at = 0
    BY <1>5 DEF NotFound
  <2>2. \A i \in DOMAIN entries : ~Covers(entries[i], key)
    BY <1>1, <2>1 DEF FindsTheRow
  <2> QED BY <1>2, <2>2
<1> QED BY <1>4, <1>5

\* The pad of a call is a block of the function that made it.
LEMMA PadOfCall ==
    ASSUME Program, NEW c \in Calls
    PROVE  /\ c.fn \in DOMAIN Functions /\ c.ra \in Words /\ c.ra # 0 /\ c.ra - 1 \in Nat
           /\ c.pad # 0 => /\ Code(c.pad) /\ c.pad \in LandingPads
                           /\ c.pad \in blocks[c.fn] /\ c.pad \in AllBlocks(blocks)
<1>1. /\ c.fn \in DOMAIN Functions /\ c.ra \in Words \ {0}
      /\ c.pad # 0 => c.pad \in Functions[c.fn]
      /\ \/ c.pad = 0 /\ \A s \in Regioned : ~InRegion(s, c.ra - 1)
         \/ \E s \in Regioned :
               LET around == {i \in DOMAIN LsdaOf[s].sites : InSite(s, i, c.ra - 1)}
                   padOf(i) == LsdaOf[s].sites[i].pad
               IN  /\ InRegion(s, c.ra - 1)
                   /\ \/ c.pad = 0 /\ \A i \in around : padOf(i) = 0
                      \/ \E i \in around : padOf(i) # 0 /\ c.pad = PadBase(LsdaOf[s], s) + padOf(i)
  BY GuestAssumption
<1>2. c.ra - 1 \in Nat
  BY <1>1, Places DEF Words
<1>3. ASSUME c.pad # 0
      PROVE  /\ Code(c.pad) /\ c.pad \in LandingPads
             /\ c.pad \in blocks[c.fn] /\ c.pad \in AllBlocks(blocks)
  <2>1. PICK s \in Regioned :
           \E i \in DOMAIN LsdaOf[s].sites :
              /\ InSite(s, i, c.ra - 1) /\ LsdaOf[s].sites[i].pad # 0
              /\ c.pad = PadBase(LsdaOf[s], s) + LsdaOf[s].sites[i].pad
    BY <1>1, <1>3
  <2>2. c.pad \in PadsOf(s)
    BY <2>1 DEF PadsOf
  <2>3. c.pad \in Functions[c.fn] /\ Code(c.pad)
    BY <1>1, <1>3, FunctionsAssumption DEF Code
  <2>4. c.pad \in LandingPads
    BY <2>2, <2>3 DEF LandingPads, Code
  <2>5. c.pad \in MustBeBlocks(relr)
    <3>1. LandingPads \subseteq MustBeBlocks(relr)
      BY DEF MustBeBlocks
    <3> QED BY <2>4, <3>1
  <2>6. c.pad \in blocks[c.fn]
    BY <1>1, <2>3, <2>5, BlocksFacts
  <2> QED BY <1>1, <2>3, <2>4, <2>6 DEF AllBlocks
<1> QED BY <1>1, <1>2, <1>3

\* The search over the regions finds the pad the guest means.
LEMMA PadFound ==
    ASSUME TransferInv, step = "region", phase = "done",
           NEW c \in Calls, c.ra = word, key = word - 1
    PROVE  PadOf = c.pad
<1>1. table = Regions /\ FindsTheRow /\ Program
  BY DEF TransferInv, OnItsWay, SearchIdle, SearchInv
<1>2. /\ c.ra \in Words \ {0}
      /\ \/ c.pad = 0 /\ \A s \in Regioned : ~InRegion(s, c.ra - 1)
         \/ \E s \in Regioned :
               LET around == {i \in DOMAIN LsdaOf[s].sites : InSite(s, i, c.ra - 1)}
                   padOf(i) == LsdaOf[s].sites[i].pad
               IN  /\ InRegion(s, c.ra - 1)
                   /\ \/ c.pad = 0 /\ \A i \in around : padOf(i) = 0
                      \/ \E i \in around : padOf(i) # 0 /\ c.pad = PadBase(LsdaOf[s], s) + padOf(i)
  BY GuestAssumption
<1>3. /\ \A i \in DOMAIN Regions : /\ Regions[i].lo \in Regioned
                                   /\ Regions[i].hi = Regions[i].lo + RegionSize(Regions[i].lo)
      /\ \A s \in Regioned : \E i \in DOMAIN Regions : Regions[i].lo = s
      /\ \A s \in Regioned : s \in Nat /\ RegionSize(s) \in Nat /\ RegionSize(s) # 0
  BY RegionsFacts
<1>4. \A i \in DOMAIN Regions : Covers(Regions[i], key) <=> InRegion(Regions[i].lo, key)
  BY <1>3 DEF Covers, InRegion
<1>5. CASE \A s \in Regioned : ~InRegion(s, key)
  <2>1. ~Found
    BY <1>1, <1>3, <1>4, <1>5 DEF Found, FindsTheRow
  <2>2. c.pad = 0
    BY <1>2, <1>5
  <2> QED BY <2>1, <2>2 DEF PadOf
<1>6. ASSUME NEW s \in Regioned, InRegion(s, key) PROVE PadOf = c.pad
  <2>1. at # 0
    <3>1. PICK i \in DOMAIN Regions : Regions[i].lo = s
      BY <1>3
    <3>2. Covers(Regions[i], key)
      BY <1>4, <1>6, <3>1
    <3> QED BY <1>1, <3>2 DEF FindsTheRow
  <2>2. Regions[at].lo \in Regioned /\ InRegion(Regions[at].lo, key)
    BY <1>1, <1>3, <1>4, <2>1 DEF FindsTheRow
  <2>3. \A r \in Regioned : InRegion(r, key) => r = s
    <3> SUFFICES ASSUME NEW r \in Regioned, InRegion(r, key) PROVE r = s
      OBVIOUS
    <3>1. /\ r \in Nat /\ s \in Nat /\ RegionSize(r) \in Nat /\ RegionSize(s) \in Nat
      BY <1>3
    <3>2. key \in Nat /\ r <= key /\ key < r + RegionSize(r) /\ s <= key /\ key < s + RegionSize(s)
      BY <1>2, <1>6, PadOfCall, <1>1 DEF InRegion
    <3>3. (r < s => r + RegionSize(r) <= s) /\ (s < r => s + RegionSize(s) <= r)
      BY TablesAssumption
    <3> QED BY <3>1, <3>2, <3>3
  <2>4. Regions[at].lo = s
    BY <2>2, <2>3
  <2>5. PadFor(s, word) = c.pad
    <3>1. LET around == {i \in DOMAIN LsdaOf[s].sites : InSite(s, i, word - 1)}
              padOf(i) == LsdaOf[s].sites[i].pad
          IN  \/ c.pad = 0 /\ \A i \in around : padOf(i) = 0
              \/ \E i \in around : padOf(i) # 0 /\ c.pad = PadBase(LsdaOf[s], s) + padOf(i)
      BY <1>2, <1>6, <2>3
    <3> QED BY <1>2, <3>1, PadIsMeant
  <2> QED BY <2>1, <2>4, <2>5 DEF PadOf, Found
<1> QED BY <1>5, <1>6

-----------------------------------------------------------------------------
(* What the guest means has a block.                                          *)

\* What a relative relocation puts in a slot must be a block.
LEMMA RelocatedMustBe ==
    ASSUME NEW rs, NEW s \in rs, Unpack(Pack(rs)) = rs, rs \subseteq Slots,
           Code(Raw[s]), Raw[s] % 4 = 0
    PROVE  Raw[s] \in MustBeBlocks(rs)
<1>1. Raw[s] \in {v \in {Raw[t] : t \in Unpack(Pack(rs)) \cap Slots} : Within(Rx, v)}
  BY DEF Code
<1>2. Raw[s] \in RelocatedEntries(rs)
  BY <1>1 DEF RelocatedEntries, Entries
<1> QED BY <1>2 DEF MustBeBlocks, PotentialEntries

\* A constant is registered, is the start of a function, or is no branch target of
\* the function that makes it.
LEMMA ConstantMustBe ==
    ASSUME NEW rs, NEW c \in Materialised, Code(c.value), c.value % 4 = 0
    PROVE  \/ c.value \in MustBeBlocks(rs)
           \/ c.value \in DOMAIN Functions
           \/ Guest(c.value) \in Doubtful
<1>1. CASE c.value \notin DOMAIN Functions /\ Plausible(c.fn, c.value)
  <2>1. c.value \in ConstantEntries
    BY <1>1 DEF ConstantEntries, Entries, Code
  <2> QED BY <2>1 DEF MustBeBlocks, PotentialEntries
<1>2. CASE ~Plausible(c.fn, c.value)
  <2>1. Guest(c.value) \in StrayConstants
    BY <1>2 DEF StrayConstants
  <2> QED BY <2>1 DEF Doubtful
<1> QED BY <1>1, <1>2

\* What a pointer of the guest means has a block.
LEMMA PointersReach ==
    ASSUME Program, NEW p \in Pointers(relr, image)
    PROVE  Reaches(p.meant, blocks)
<1>1. Relative(relr) /\ Unpack(Pack(relr)) = relr /\ relr \subseteq Slots
  BY ImageFacts DEF Relative
<1>2. SUFFICES ASSUME NEW v \in Nat, p.meant = Guest(v), Code(v), v % 4 = 0
               PROVE  \/ v \in MustBeBlocks(relr)
                      \/ v \in DOMAIN Functions
                      \/ Guest(v) \in Doubtful
  BY MustBeIs, StartsAre DEF Reaches
<1>3. CASE p \in {[word |-> ConstAddr(u), meant |-> Guest(u)] : u \in MayDefine}
  <2>1. PICK u \in MayDefine : p = [word |-> ConstAddr(u), meant |-> Guest(u)]
    BY <1>3
  <2>2. u = v
    BY <1>2, <2>1, Kinds
  <2>3. PICK c \in Materialised : c.value = v
    BY <2>2 DEF MayDefine
  <2> QED BY <1>2, <2>3, ConstantMustBe
<1>4. CASE p \in {[word |-> image[s], meant |-> Guest(Raw[s])] : s \in relr}
  <2>1. PICK s \in relr : p = [word |-> image[s], meant |-> Guest(Raw[s])]
    BY <1>4
  <2>2. Raw[s] = v
    BY <1>2, <2>1, Kinds
  <2> QED BY <1>1, <1>2, <2>2, RelocatedMustBe
<1>5. CASE p \in {[word |-> image[Symbols[i].slot], meant |-> SymbolMeaning(Symbols[i])] :
                    i \in {j \in DOMAIN Symbols : Symbols[j].kind # "other"}}
  <2>1. PICK i \in Stores :
                p = [word |-> image[Symbols[i].slot], meant |-> SymbolMeaning(Symbols[i])]
    BY <1>5 DEF Stores
  <2>2. SymbolMeaning(Symbols[i]) = Guest(v)
    BY <1>2, <2>1
  <2>3. /\ Symbols[i].name \in DOMAIN Defined \ Ignored
        /\ Guest(v) = Guest(Defined[Symbols[i].name] + Symbols[i].addend)
    BY <2>2, Kinds DEF SymbolMeaning
  <2>4. Guest(v) \in StraySymbols
    BY <2>3 DEF StraySymbols
  <2> QED BY <2>4 DEF Doubtful
<1> QED BY <1>3, <1>4, <1>5 DEF Pointers

\* What the guest branches to by a pointer.
LEMMA HeldReaches ==
    ASSUME Program, NEW p \in Held
    PROVE  p.word \in Words /\ Aims(p.word, p.meant) /\ Reaches(p.meant, blocks)
<1>1. CASE p \in Pointers(relr, image) /\ Branchable(p.meant)
  <2>1. Relative(relr) /\ image = WritableImage(relr)
    BY ImageFacts
  <2>2. Means(p.word, p.meant)
    BY <1>1, <2>1, PointersMean
  <2> QED BY <1>1, <2>2, HeldAims, PointersReach
<1>2. CASE p = [word |-> 0, meant |-> Null]
  <2>1. 0 \in Words
    BY Places DEF Words
  <2>2. Reaches(Null, blocks)
    BY Kinds DEF Reaches
  <2> QED BY <1>2, <2>1, <2>2 DEF Aims
<1> QED BY <1>1, <1>2 DEF Held

\* What an arm leads to.
LEMMA ArmReaches ==
    ASSUME Program, NEW i \in DOMAIN Sites, NEW k \in 1 .. Sites[i].length
    PROVE  Reaches(Arm(Sites[i], k).meant, blocks)
<1> DEFINE a == Leads(Sites[i], k)
           m == Arm(Sites[i], k).meant
<1>1. m = Guest(a)
  BY ArmsAim
<1>2. SUFFICES ASSUME NEW v \in Nat, m = Guest(v), Code(v), v \notin AllBlocks(blocks)
               PROVE  m \in Doubtful
  BY DEF Reaches
<1>3. v = a
  <2> HIDE DEF a, m
  <2>1. Guest(v) = Guest(a)
    BY <1>1, <1>2
  <2> QED BY <2>1 DEF Guest
<1>4. CASE Vouched(Sites[i])
  <2>1. a \in RecoveredArms(Sites[i])
    BY <1>4, VouchedArmsAreRecovered
  <2>2. a \in MustBeBlocks(relr)
    BY <2>1 DEF MustBeBlocks
  <2> QED BY <1>2, <1>3, <2>2, MustBeIs
<1>5. CASE ~Vouched(Sites[i])
  <2>1. m \in {Arm(Sites[i], j).meant : j \in 1 .. Sites[i].length}
    OBVIOUS
  <2> HIDE DEF m
  <2>2. m \in DoubtfulArms
    BY <1>5, <2>1 DEF DoubtfulArms
  <2> QED BY <2>2 DEF Doubtful
<1> QED BY <1>4, <1>5

\* What the unwinder lands at.
LEMMA PadReaches ==
    ASSUME Program, NEW c \in Calls
    PROVE  Reaches(Guest(c.pad), blocks)
<1>1. SUFFICES ASSUME NEW v \in Nat, Guest(c.pad) = Guest(v), Code(v)
               PROVE  v \in AllBlocks(blocks)
  BY DEF Reaches
<1>2. v = c.pad /\ v # 0
  BY <1>1, Kinds, CodeIsWord
<1> QED BY <1>2, PadOfCall

-----------------------------------------------------------------------------
(* The steps of a transfer keep the invariant.                                *)

\* What is to be shown of each step.
LEMMA Kept ==
    ASSUME TransferInv, UNCHANGED program,
           fn' \in DOMAIN Functions, word' \in Words, missed' \in Words, step' \in Steps,
           (SearchIdle \/ SearchInv)', OnItsWay', Reaches(meant', blocks), Outside'
    PROVE  TransferInv'
<1>1. Program' /\ blocks' = blocks
  BY SameProgram DEF TransferInv
<1>2. Reaches(meant, blocks)'
  BY <1>1 DEF Reaches, AllBlocks
<1> QED BY <1>1, <1>2 DEF TransferInv

\* A branch or a call begins.
LEMMA BeginsKeeps ==
    ASSUME TransferInv, NEW p, NEW ts, NEW jump, NEW to \in {"branch", "fallback", "call"},
           Begins(p, ts, jump, to), UNCHANGED fn,
           p.word \in Words, Aims(p.word, p.meant), Reaches(p.meant, blocks),
           to = "branch" => \A a \in ts : Within(Rx, a),
           to = "call" => jump = FALSE
    PROVE  TransferInv'
<1>1. /\ word' = p.word /\ meant' = p.meant /\ targets' = ts /\ jumping' = jump /\ missed' = 0
      /\ step' = to /\ UNCHANGED program /\ UNCHANGED searchVars /\ fn' = fn
  BY DEF Begins
<1>2. fn' \in DOMAIN Functions /\ word' \in Words /\ missed' \in Words /\ step' \in Steps
  BY <1>1, Places DEF TransferInv, Words, Steps
<1>3. (SearchIdle \/ SearchInv)'
  BY <1>1, SameSearch DEF TransferInv
<1>4. Aims(word, meant)'
  BY <1>1 DEF Aims, Names
<1>5. OnItsWay'
  BY <1>1, <1>4 DEF OnItsWay, Ended
<1>6. Outside'
  BY <1>1 DEF Outside
<1> QED BY <1>1, <1>2, <1>3, <1>5, <1>6, Kept

LEMMA CallPointerKeeps == TransferInv /\ CallPointer => TransferInv'
<1> SUFFICES ASSUME TransferInv, CallPointer PROVE TransferInv'
  OBVIOUS
<1>1. PICK p \in Held : Begins(p, {}, FALSE, "call")
  BY DEF CallPointer
<1>2. p.word \in Words /\ Aims(p.word, p.meant) /\ Reaches(p.meant, blocks)
  BY HeldReaches DEF TransferInv
<1> QED BY <1>1, <1>2, BeginsKeeps DEF CallPointer

LEMMA JumpPointerKeeps == TransferInv /\ JumpPointer => TransferInv'
<1> SUFFICES ASSUME TransferInv, JumpPointer PROVE TransferInv'
  OBVIOUS
<1>1. PICK p \in Held : Begins(p, {}, TRUE, "fallback")
  BY DEF JumpPointer
<1>2. p.word \in Words /\ Aims(p.word, p.meant) /\ Reaches(p.meant, blocks)
  BY HeldReaches DEF TransferInv
<1> QED BY <1>1, <1>2, BeginsKeeps DEF JumpPointer

LEMMA JumpTableKeeps == TransferInv /\ JumpTable => TransferInv'
<1> SUFFICES ASSUME TransferInv, JumpTable PROVE TransferInv'
  OBVIOUS
<1>1. PICK i \in DOMAIN Sites : \E k \in 1 .. Sites[i].length :
                Begins(Arm(Sites[i], k), Sites[i].targets, TRUE, "branch")
  BY DEF JumpTable
<1>2. PICK k \in 1 .. Sites[i].length :
                Begins(Arm(Sites[i], k), Sites[i].targets, TRUE, "branch")
  BY <1>1
<1> DEFINE p == Arm(Sites[i], k)
<1>3. Names(p.word, Leads(Sites[i], k)) /\ p.meant = Guest(Leads(Sites[i], k))
  BY ArmsAim
<1>4. p.word \in Words /\ Aims(p.word, p.meant)
  <2> HIDE DEF p
  <2> QED BY <1>3 DEF Aims, Names, Code
<1>5. Reaches(p.meant, blocks)
  BY ArmReaches DEF TransferInv
<1>6. \A a \in Sites[i].targets : Within(Rx, a)
  BY SitesAssumption
<1> HIDE DEF p
<1> QED BY <1>2, <1>4, <1>5, <1>6, BeginsKeeps DEF JumpTable, p

LEMMA RaiseKeeps == TransferInv /\ Raise => TransferInv'
<1> SUFFICES ASSUME TransferInv, Raise PROVE TransferInv'
  OBVIOUS
<1>1. PICK c \in Calls : /\ c.fn = fn /\ Ask(Regions, c.ra - 1)
                         /\ word' = c.ra /\ meant' = Guest(c.pad)
  BY DEF Raise
<1>2. /\ targets' = {} /\ jumping' = FALSE /\ missed' = 0 /\ step' = "region"
      /\ UNCHANGED program /\ fn' = fn
  BY DEF Raise
<1>3. c.ra \in Words /\ c.ra - 1 \in Nat /\ Reaches(Guest(c.pad), blocks)
  BY PadOfCall, PadReaches DEF TransferInv
<1>4. SearchInv' /\ table' = Regions /\ key' = c.ra - 1
  BY <1>1, <1>3, RegionsFacts, Asking
<1>5. fn' \in DOMAIN Functions /\ word' \in Words /\ missed' \in Words /\ step' \in Steps
  BY <1>1, <1>2, <1>3, Places DEF TransferInv, Words, Steps
<1>6. OnItsWay'
  BY <1>1, <1>2, <1>4 DEF OnItsWay
<1>7. Outside'
  BY <1>2 DEF Outside
<1> QED BY <1>1, <1>2, <1>3, <1>4, <1>5, <1>6, <1>7, Kept

\* A block of the function runs, the one the guest means.
LEMMA RanKeeps ==
    ASSUME TransferInv, NEW b, Ran(b), meant = Guest(b)
    PROVE  TransferInv'
<1>1. /\ step' = "ran" /\ reached' = Guest(b) /\ UNCHANGED program /\ UNCHANGED searchVars
      /\ fn' = fn /\ word' = word /\ missed' = missed /\ meant' = meant
  BY DEF Ran, request
<1>2. (SearchIdle \/ SearchInv)'
  BY <1>1, SameSearch DEF TransferInv
<1>3. OnItsWay' /\ Outside' /\ step' \in Steps
  BY <1>1 DEF OnItsWay, Outside, Steps, Ended
<1> QED BY <1>1, <1>2, <1>3, Kept DEF TransferInv

\* A word that is a block of the function means that block.
LEMMA BlockIsMeant ==
    ASSUME TransferInv, Aims(word, meant), word \in blocks[fn]
    PROVE  meant = Guest(word)
<1>1. Code(word)
  BY BlocksFacts DEF TransferInv
<1> QED BY <1>1, AimsAtItself DEF TransferInv, Code

LEMMA OnTargetKeeps == TransferInv /\ OnTarget => TransferInv'
<1> SUFFICES ASSUME TransferInv, OnTarget PROVE TransferInv'
  OBVIOUS
<1>1. step = "branch" /\ word \in blocks[fn] /\ Ran(word)
  BY DEF OnTarget
<1>2. Aims(word, meant)
  BY <1>1 DEF TransferInv, OnItsWay
<1> QED BY <1>1, <1>2, BlockIsMeant, RanKeeps

\* A search for an entry begins.
LEMMA AskKeeps ==
    ASSUME TransferInv, NEW k, Code(k), meant = Guest(k), missed = 0,
           NEW to \in {"addr", "read-only", "writable"},
           AskFor(entries, k, to), UNCHANGED missed,
           to = "read-only" => word # 0 /\ ~Within(Rx, word) /\ k = ThroughRo(word),
           jumping /\ HasLocalDispatch(fn) => word \notin blocks[fn]
    PROVE  TransferInv'
<1>1. /\ step' = to /\ UNCHANGED program /\ fn' = fn /\ word' = word /\ missed' = missed
      /\ meant' = meant /\ jumping' = jumping /\ Ask(entries, k)
  BY DEF AskFor, request
<1>2. entries' = entries /\ blocks' = blocks
  BY <1>1 DEF program
<1>3. SearchInv' /\ table' = entries /\ key' = k
  BY <1>1, EntriesFacts, Asking DEF TransferInv, Code
<1>4. Asked'
  BY <1>1, <1>2, <1>3 DEF Asked, Code
<1>5. step' \in Steps
  BY <1>1 DEF Steps
<1>6. OnItsWay'
  BY <1>1, <1>3, <1>4 DEF OnItsWay, Ended
<1>7. Outside'
  BY <1>1, <1>2 DEF Outside, HasLocalDispatch
<1> QED BY <1>1, <1>3, <1>5, <1>6, <1>7, Kept DEF TransferInv

LEMMA OnOutsideKeeps == TransferInv /\ OnOutside => TransferInv'
<1> SUFFICES ASSUME TransferInv, OnOutside PROVE TransferInv'
  OBVIOUS
<1>1. /\ step = "branch" /\ word \in targets /\ word \notin blocks[fn]
      /\ AskFor(entries, word, "addr") /\ UNCHANGED missed
  BY DEF OnOutside
<1>2. Aims(word, meant) /\ missed = 0 /\ Within(Rx, word) /\ word \in Words
  BY <1>1 DEF TransferInv, OnItsWay
<1>3. Code(word) /\ meant = Guest(word)
  BY <1>2, AimsAtItself
<1> QED BY <1>1, <1>2, <1>3, AskKeeps

LEMMA CodeAddressKeeps == TransferInv /\ CodeAddress => TransferInv'
<1> SUFFICES ASSUME TransferInv, CodeAddress PROVE TransferInv'
  OBVIOUS
<1>1. /\ step = "call" /\ Within(Rx, word) /\ AskFor(entries, word, "addr") /\ UNCHANGED missed
  BY DEF CodeAddress
<1>2. Aims(word, meant) /\ missed = 0 /\ word \in Words
  BY <1>1 DEF TransferInv, OnItsWay
<1>3. Code(word) /\ meant = Guest(word)
  BY <1>1, <1>2, AimsAtItself
<1>4. jumping /\ HasLocalDispatch(fn) => word \notin blocks[fn]
  BY <1>1 DEF TransferInv, Outside
<1> QED BY <1>1, <1>2, <1>3, <1>4, AskKeeps

\* A step that only goes on to the next test.
LEMMA GoesKeeps ==
    ASSUME TransferInv, NEW to \in {"fallback", "local", "call", "written"}, Goes(to),
           missed = 0, Aims(word, meant),
           to = "written" => word # 0 /\ ~Within(Rx, word) /\ ~Within(Rx, ThroughRo(word)),
           to \in {"call", "written"} /\ jumping /\ HasLocalDispatch(fn) => word \notin blocks[fn]
    PROVE  TransferInv'
<1>1. /\ step' = to /\ UNCHANGED program /\ UNCHANGED searchVars /\ fn' = fn /\ word' = word
      /\ missed' = missed /\ meant' = meant /\ jumping' = jumping /\ reached' = reached
  BY DEF Goes, request
<1>2. blocks' = blocks
  BY <1>1 DEF program
<1>3. (SearchIdle \/ SearchInv)'
  BY <1>1, SameSearch DEF TransferInv
<1>4. Aims(word, meant)'
  BY <1>1 DEF Aims, Names
<1>5. OnItsWay'
  BY <1>1, <1>4 DEF OnItsWay, Ended
<1>6. Outside' /\ step' \in Steps
  BY <1>1, <1>2 DEF Outside, HasLocalDispatch, Steps
<1> QED BY <1>1, <1>3, <1>5, <1>6, Kept DEF TransferInv

LEMMA OnNoTargetKeeps == TransferInv /\ OnNoTarget => TransferInv'
<1> SUFFICES ASSUME TransferInv, OnNoTarget PROVE TransferInv'
  OBVIOUS
<1>1. step = "branch" /\ Goes("fallback")
  BY DEF OnNoTarget
<1>2. Aims(word, meant) /\ missed = 0
  BY <1>1 DEF TransferInv, OnItsWay
<1> QED BY <1>1, <1>2, GoesKeeps

LEMMA FallbackKeeps == TransferInv /\ Fallback => TransferInv'
<1> SUFFICES ASSUME TransferInv, Fallback PROVE TransferInv'
  OBVIOUS
<1>1. step = "fallback" /\ Goes(IF HasLocalDispatch(fn) THEN "local" ELSE "call")
  BY DEF Fallback
<1>2. Aims(word, meant) /\ missed = 0
  BY <1>1 DEF TransferInv, OnItsWay
<1>3. CASE HasLocalDispatch(fn)
  <2>1. Goes("local")
    BY <1>1, <1>3
  <2> QED BY <1>2, <2>1, GoesKeeps
<1>4. CASE ~HasLocalDispatch(fn)
  <2>1. Goes("call")
    BY <1>1, <1>4
  <2> QED BY <1>2, <1>4, <2>1, GoesKeeps
<1> QED BY <1>3, <1>4

LEMMA LocalKeeps == TransferInv /\ Local => TransferInv'
<1> SUFFICES ASSUME TransferInv, Local PROVE TransferInv'
  OBVIOUS
<1> DEFINE b == LocalDispatch(blocks[fn], word)
<1>1. step = "local" /\ IF b # NoBlock THEN Ran(b) ELSE Goes("call")
  BY DEF Local
<1>2. Aims(word, meant) /\ missed = 0
  BY <1>1 DEF TransferInv, OnItsWay
<1>3. b = Plain(blocks[fn], word)
  BY LocalIsTheSwitch DEF TransferInv
<1> HIDE DEF b
<1>4. CASE word \in blocks[fn]
  <2>1. b = word /\ word # NoBlock
    BY <1>3, <1>4, Places DEF Plain, TransferInv, Words, NoBlock
  <2>2. meant = Guest(b)
    BY <1>2, <1>4, <2>1, BlockIsMeant
  <2> QED BY <1>1, <2>1, <2>2, RanKeeps
<1>5. CASE word \notin blocks[fn]
  <2>1. b = NoBlock
    BY <1>3, <1>5 DEF Plain
  <2> QED BY <1>1, <1>2, <1>5, <2>1, GoesKeeps
<1> QED BY <1>4, <1>5

\* A word that is not an address of the code.
LEMMA ThroughTheArrays ==
    ASSUME NEW w \in Words, NEW m, Aims(w, m), w # 0, ~Within(Rx, w)
    PROVE  /\ Within(Rx, ThroughRo(w)) => Code(ThroughRo(w)) /\ m = Guest(ThroughRo(w))
           /\ ~Within(Rx, ThroughRo(w)) /\ Within(Rx, ThroughRw(w))
                => Code(ThroughRw(w)) /\ m = Guest(ThroughRw(w))
           /\ ~Within(Rx, ThroughRo(w)) /\ ~Within(Rx, ThroughRw(w))
                => \E n \in DOMAIN Host : w = Host[n] /\ m = HostOf(n, 0)
<1>1. CASE \E n \in DOMAIN Host : w = Host[n] /\ m = HostOf(n, 0)
  BY <1>1, HostsApart
<1>2. ASSUME NEW v \in Nat, Names(w, v), m = Guest(v)
      PROVE  /\ Code(v) /\ m = Guest(v)
             /\ v = ThroughRo(w) \/ (~Within(Rx, ThroughRo(w)) /\ v = ThroughRw(w))
             /\ Within(Rx, v)
  BY <1>2 DEF Names, Code
<1> QED BY <1>1, <1>2 DEF Aims

LEMMA ReadOnlyBasedKeeps == TransferInv /\ ReadOnlyBased => TransferInv'
<1> SUFFICES ASSUME TransferInv, ReadOnlyBased PROVE TransferInv'
  OBVIOUS
<1>1. /\ step = "call" /\ word # 0 /\ ~Within(Rx, word)
      /\ IF Within(Rx, ThroughRo(word))
         THEN AskFor(entries, ThroughRo(word), "read-only") /\ UNCHANGED missed
         ELSE Goes("written")
  BY DEF ReadOnlyBased
<1>2. Aims(word, meant) /\ missed = 0 /\ word \in Words
  BY <1>1 DEF TransferInv, OnItsWay
<1>3. jumping /\ HasLocalDispatch(fn) => word \notin blocks[fn]
  BY <1>1 DEF TransferInv, Outside
<1>4. CASE Within(Rx, ThroughRo(word))
  <2>1. Code(ThroughRo(word)) /\ meant = Guest(ThroughRo(word))
    BY <1>1, <1>2, <1>4, ThroughTheArrays
  <2> QED BY <1>1, <1>2, <1>3, <1>4, <2>1, AskKeeps
<1>5. CASE ~Within(Rx, ThroughRo(word))
  BY <1>1, <1>2, <1>3, <1>5, GoesKeeps
<1> QED BY <1>4, <1>5

LEMMA WritableBasedKeeps == TransferInv /\ WritableBased => TransferInv'
<1> SUFFICES ASSUME TransferInv, WritableBased PROVE TransferInv'
  OBVIOUS
<1>1. /\ step = "written" /\ Within(Rx, ThroughRw(word))
      /\ AskFor(entries, ThroughRw(word), "writable") /\ UNCHANGED missed
  BY DEF WritableBased
<1>2. /\ word \in Words /\ word # 0 /\ ~Within(Rx, word)
      /\ missed = 0 => Aims(word, meant) /\ ~Within(Rx, ThroughRo(word))
      /\ missed # 0 => Within(Rx, ThroughRo(word))
  BY <1>1 DEF TransferInv, OnItsWay, Code
<1>3. missed = 0
  BY <1>1, <1>2, HostAssumption
<1>4. Code(ThroughRw(word)) /\ meant = Guest(ThroughRw(word))
  BY <1>1, <1>2, <1>3, ThroughTheArrays
<1>5. jumping /\ HasLocalDispatch(fn) => word \notin blocks[fn]
  BY <1>1 DEF TransferInv, Outside
<1> QED BY <1>1, <1>3, <1>4, <1>5, AskKeeps

\* A transfer that is reported, by what the guest means.
LEMMA UnresolvedKeeps ==
    ASSUME TransferInv, NEW a, Unresolved(a), UNCHANGED searchVars, meant = a,
           a = Null \/ \E v \in Nat : a = Guest(v) /\ Code(v) /\ v \notin AllBlocks(blocks)
    PROVE  TransferInv'
<1>1. /\ step' = "unresolved" /\ reached' = a /\ UNCHANGED program
      /\ fn' = fn /\ word' = word /\ missed' = missed /\ meant' = meant
  BY DEF Unresolved, request
<1>2. AllBlocks(blocks') = AllBlocks(blocks)
  BY <1>1, SameProgram DEF TransferInv
<1>3. (SearchIdle \/ SearchInv)'
  BY SameSearch DEF TransferInv
<1>4. meant' = Null \/ \E v \in Nat : meant' = Guest(v) /\ Code(v) /\ v \notin AllBlocks(blocks')
  BY <1>1, <1>2
<1>5. OnItsWay'
  BY <1>1, <1>4 DEF OnItsWay
<1>6. Outside' /\ step' \in Steps
  BY <1>1 DEF Outside, Steps, Ended
<1> QED BY <1>1, <1>3, <1>5, <1>6, Kept DEF TransferInv

LEMMA NullPointerKeeps == TransferInv /\ NullPointer => TransferInv'
<1> SUFFICES ASSUME TransferInv, NullPointer PROVE TransferInv'
  OBVIOUS
<1>1. step = "call" /\ word = 0 /\ Unresolved(Null) /\ UNCHANGED searchVars
  BY DEF NullPointer
<1>2. Aims(word, meant)
  BY <1>1 DEF TransferInv, OnItsWay
<1>3. \A v : ~Names(0, v)
  BY CodeIsWord DEF Names
<1>4. meant = Null
  BY <1>1, <1>2, <1>3, HostsApart DEF Aims
<1> QED BY <1>1, <1>4, UnresolvedKeeps

LEMMA NotBasedKeeps == TransferInv /\ NotBased => TransferInv'
<1> SUFFICES ASSUME TransferInv, NotBased PROVE TransferInv'
  OBVIOUS
<1>1. step = "written" /\ ~Within(Rx, ThroughRw(word))
  BY DEF NotBased
<1>2. /\ word \in Words /\ word # 0 /\ ~Within(Rx, word)
      /\ missed = 0 => Aims(word, meant) /\ ~Within(Rx, ThroughRo(word))
      /\ missed # 0 => Code(missed) /\ missed \notin AllBlocks(blocks) /\ meant = Guest(missed)
  BY <1>1 DEF TransferInv, OnItsWay
<1>3. CASE missed # 0
  <2>1. Unresolved(Guest(missed)) /\ UNCHANGED searchVars
    BY <1>3 DEF NotBased
  <2> QED BY <1>2, <1>3, <2>1, UnresolvedKeeps DEF Code
<1>4. CASE missed = 0
  <2>1. /\ step' = "host" /\ UNCHANGED program /\ UNCHANGED searchVars
        /\ fn' = fn /\ word' = word /\ missed' = missed /\ meant' = meant
        /\ \E n \in DOMAIN Host : Host[n] = word /\ reached' = HostOf(n, 0)
    BY <1>4 DEF NotBased, request
  <2>2. \E n \in DOMAIN Host : word = Host[n] /\ meant = HostOf(n, 0)
    BY <1>1, <1>2, <1>4, ThroughTheArrays
  <2>3. reached' = meant'
    BY <2>1, <2>2, HostAssumption
  <2>4. (SearchIdle \/ SearchInv)'
    BY <2>1, SameSearch DEF TransferInv
  <2>5. OnItsWay' /\ Outside' /\ step' \in Steps
    BY <2>1, <2>3 DEF OnItsWay, Outside, Steps, Ended
  <2> QED BY <2>1, <2>4, <2>5, Kept DEF TransferInv
<1> QED BY <1>3, <1>4

LEMMA SearchesKeeps == TransferInv /\ Searches => TransferInv'
<1> SUFFICES ASSUME TransferInv, Searches PROVE TransferInv'
  OBVIOUS
<1>1. Probe /\ UNCHANGED transferVars
  BY DEF Searches
<1>2. phase = "searching" /\ table' = table /\ key' = key
  BY <1>1 DEF Probe, Below, Above, Hit, Miss
<1>3. SearchInv'
  BY <1>1, <1>2, RowsLeftShrink DEF TransferInv, SearchIdle
<1>4. /\ UNCHANGED program /\ fn' = fn /\ word' = word /\ missed' = missed /\ meant' = meant
      /\ jumping' = jumping /\ step' = step /\ reached' = reached /\ targets' = targets
      /\ blocks' = blocks /\ entries' = entries
  BY <1>1 DEF transferVars, program
<1>5. Asked => Asked'
  BY <1>2, <1>4 DEF Asked
<1>6. Aims(word, meant) => Aims(word, meant)'
  BY <1>4 DEF Aims, Names
<1>7. AllBlocks(blocks') = AllBlocks(blocks)
  BY <1>4
<1>8. OnItsWay'
  BY <1>2, <1>4, <1>5, <1>6, <1>7 DEF TransferInv, OnItsWay
<1>9. Outside'
  BY <1>4 DEF TransferInv, Outside, HasLocalDispatch
<1> QED BY <1>3, <1>4, <1>8, <1>9, Kept DEF TransferInv

LEMMA LookAgainKeeps == TransferInv /\ LookAgain => TransferInv'
<1> SUFFICES ASSUME TransferInv, LookAgain PROVE TransferInv'
  OBVIOUS
<1>1. /\ step \in {"read-only", "writable"} /\ AskFor(entries, key, "addr") /\ UNCHANGED missed
  BY DEF LookAgain
<1>2. missed = 0 /\ Code(key) /\ meant = Guest(key)
  BY <1>1 DEF TransferInv, OnItsWay, Asked
<1>3. jumping /\ HasLocalDispatch(fn) => word \notin blocks[fn]
  BY <1>1 DEF TransferInv, Outside
<1> QED BY <1>1, <1>2, <1>3, AskKeeps

LEMMA MissReadOnlyKeeps == TransferInv /\ MissReadOnly => TransferInv'
<1> SUFFICES ASSUME TransferInv, MissReadOnly PROVE TransferInv'
  OBVIOUS
<1>1. /\ step = "read-only" /\ NotFound /\ missed' = key /\ step' = "written"
      /\ UNCHANGED program /\ UNCHANGED searchVars
      /\ fn' = fn /\ word' = word /\ meant' = meant /\ jumping' = jumping /\ reached' = reached
  BY DEF MissReadOnly, request
<1>2. /\ table = entries /\ Code(key) /\ meant = Guest(key)
      /\ word # 0 /\ ~Within(Rx, word) /\ key = ThroughRo(word)
  BY <1>1 DEF TransferInv, OnItsWay, Asked
<1>3. key \notin AllBlocks(blocks) /\ key \in Words /\ key # 0
  BY <1>1, <1>2, EntryFound, CodeIsWord
<1>4. blocks' = blocks /\ AllBlocks(blocks') = AllBlocks(blocks)
  BY <1>1, SameProgram DEF TransferInv
<1>5. (SearchIdle \/ SearchInv)'
  BY <1>1, SameSearch DEF TransferInv
<1>6. OnItsWay'
  <2>1. /\ word' # 0 /\ ~Within(Rx, word') /\ missed' # 0 /\ missed' = ThroughRo(word')
        /\ Code(missed') /\ missed' \notin AllBlocks(blocks') /\ meant' = Guest(missed')
    BY <1>1, <1>2, <1>3, <1>4
  <2> QED BY <1>1, <2>1 DEF OnItsWay, Ended
<1>7. Outside' /\ step' \in Steps
  BY <1>1, <1>4 DEF TransferInv, Outside, HasLocalDispatch, Steps
<1> QED BY <1>1, <1>3, <1>5, <1>6, <1>7, Kept DEF TransferInv

LEMMA MissWritableKeeps == TransferInv /\ MissWritable => TransferInv'
<1> SUFFICES ASSUME TransferInv, MissWritable PROVE TransferInv'
  OBVIOUS
<1>1. /\ step = "writable" /\ NotFound /\ UNCHANGED searchVars
      /\ Unresolved(Guest(IF missed # 0 THEN missed ELSE key))
  BY DEF MissWritable
<1>2. missed = 0 /\ table = entries /\ Code(key) /\ meant = Guest(key)
  BY <1>1 DEF TransferInv, OnItsWay, Asked
<1>3. key \notin AllBlocks(blocks)
  BY <1>1, <1>2, EntryFound
<1>4. Unresolved(Guest(key))
  BY <1>1, <1>2
<1> QED BY <1>1, <1>2, <1>3, <1>4, UnresolvedKeeps DEF Code

LEMMA MissAddressKeeps == TransferInv /\ MissAddress => TransferInv'
<1> SUFFICES ASSUME TransferInv, MissAddress PROVE TransferInv'
  OBVIOUS
<1>1. step = "addr" /\ NotFound /\ UNCHANGED searchVars /\ Unresolved(Guest(key))
  BY DEF MissAddress
<1>2. table = entries /\ Code(key) /\ meant = Guest(key)
  BY <1>1 DEF TransferInv, OnItsWay, Asked
<1>3. key \notin AllBlocks(blocks)
  BY <1>1, <1>2, EntryFound
<1> QED BY <1>1, <1>2, <1>3, UnresolvedKeeps DEF Code

\* A function begins at the block the guest means.
LEMMA EnterKeeps ==
    ASSUME TransferInv, NEW f \in DOMAIN Functions, NEW entry, Enter(f, entry),
           entry = 0 => meant = Guest(f),
           entry # 0 => entry \in blocks[f] /\ meant = Guest(entry)
    PROVE  TransferInv'
<1>1. /\ fn' = f /\ word' = entry /\ jumping' = FALSE /\ missed' = 0
      /\ UNCHANGED program /\ UNCHANGED searchVars /\ meant' = meant
  BY DEF Enter
<1>2. (SearchIdle \/ SearchInv)'
  BY <1>1, SameSearch DEF TransferInv
<1>3. entry # 0 => Code(entry) /\ entry \in Words
  BY BlocksFacts, CodeIsWord DEF TransferInv
<1>4. word' \in Words /\ 0 \in Words
  BY <1>1, <1>3, Places DEF Words
<1>5. Outside'
  BY <1>1 DEF Outside
<1>6. CASE entry # 0 /\ HasLocalDispatch(f)
  <2>1. step' = "local" /\ reached' = reached
    BY <1>6 DEF Enter
  <2>2. Names(entry, entry)
    BY <1>3, <1>6 DEF Names
  <2>3. Aims(entry, Guest(entry))
    BY <1>3, <1>6, <2>2 DEF Aims, Code
  <2>4. Aims(word, meant)'
    BY <1>1, <1>6, <2>3 DEF Aims, Names
  <2>5. OnItsWay' /\ step' \in Steps
    BY <1>1, <2>1, <2>4 DEF OnItsWay, Ended, Steps
  <2> QED BY <1>1, <1>2, <1>4, <1>5, <2>5, Kept DEF TransferInv
<1>7. CASE entry = 0 \/ ~HasLocalDispatch(f)
  <2>1. step' = "ran" /\ reached' = Guest(f)
    BY <1>7 DEF Enter
  <2>2. meant = Guest(f)
    BY <1>7, OneBlock DEF TransferInv
  <2>3. OnItsWay' /\ step' \in Steps
    BY <1>1, <2>1, <2>2 DEF OnItsWay, Ended, Steps
  <2> QED BY <1>1, <1>2, <1>4, <1>5, <2>3, Kept DEF TransferInv
<1> QED BY <1>6, <1>7

LEMMA HitAddressKeeps == TransferInv /\ HitAddress => TransferInv'
<1> SUFFICES ASSUME TransferInv, HitAddress PROVE TransferInv'
  OBVIOUS
<1>1. step = "addr" /\ Found
      /\ Enter(Owner(entries[at].lo), IF entries[at].lo = Owner(entries[at].lo) THEN 0 ELSE key)
  BY DEF HitAddress
<1>2. table = entries /\ Code(key) /\ meant = Guest(key)
  BY <1>1 DEF TransferInv, OnItsWay, Asked
<1>3. entries[at].lo = key /\ key \in AllBlocks(blocks)
  BY <1>1, <1>2, EntryFound
<1>4. Owner(key) \in DOMAIN Functions /\ key \in blocks[Owner(key)] /\ key # 0
  BY <1>2, <1>3, BlockOfOwner, CodeIsWord DEF TransferInv
<1>5. CASE key = Owner(key)
  <2>1. Enter(Owner(key), 0)
    BY <1>1, <1>3, <1>5
  <2> QED BY <1>2, <1>4, <1>5, <2>1, EnterKeeps
<1>6. CASE key # Owner(key)
  <2>1. Enter(Owner(key), key)
    BY <1>1, <1>3, <1>6
  <2> QED BY <1>2, <1>4, <2>1, EnterKeeps
<1> QED BY <1>5, <1>6

LEMMA LandKeeps == TransferInv /\ Land => TransferInv'
<1> SUFFICES ASSUME TransferInv, Land PROVE TransferInv'
  OBVIOUS
<1>1. step = "region" /\ phase = "done"
  BY DEF Land
<1>2. PICK c \in Calls : c.fn = fn /\ c.ra = word /\ meant = Guest(c.pad)
  BY <1>1 DEF TransferInv, OnItsWay
<1>3. PadOf = c.pad
  <2>1. key = word - 1
    BY <1>1 DEF TransferInv, OnItsWay
  <2> QED BY <1>1, <1>2, <2>1, PadFound
<1>4. CASE c.pad = 0
  <2>1. /\ step' = "no pad" /\ UNCHANGED program /\ UNCHANGED searchVars
        /\ fn' = fn /\ word' = word /\ missed' = missed /\ meant' = meant
    BY <1>3, <1>4 DEF Land, request
  <2>2. (SearchIdle \/ SearchInv)'
    BY <2>1, SameSearch DEF TransferInv
  <2>3. OnItsWay' /\ Outside' /\ step' \in Steps
    BY <1>2, <1>4, <2>1 DEF OnItsWay, Outside, Steps, Ended
  <2> QED BY <2>1, <2>2, <2>3, Kept DEF TransferInv
<1>5. CASE c.pad # 0
  <2>1. Enter(fn, c.pad)
    BY <1>3, <1>5 DEF Land
  <2>2. c.pad \in blocks[fn] /\ fn \in DOMAIN Functions
    BY <1>2, <1>5, PadOfCall DEF TransferInv
  <2> QED BY <1>2, <1>5, <2>1, <2>2, EnterKeeps
<1> QED BY <1>4, <1>5

LEMMA GoesOnKeeps == TransferInv /\ GoesOn => TransferInv'
<1> SUFFICES ASSUME TransferInv, GoesOn PROVE TransferInv'
  OBVIOUS
<1>1. /\ step' = "idle" /\ word' = 0 /\ meant' = Null /\ missed' = 0 /\ jumping' = FALSE
      /\ UNCHANGED program /\ fn' = fn /\ SearchIdle'
  BY DEF GoesOn, SearchIdle
<1>2. word' \in Words /\ missed' \in Words /\ step' \in Steps
  BY <1>1, Places DEF Words, Steps
<1>3. OnItsWay' /\ Outside'
  BY <1>1 DEF OnItsWay, Outside, Ended
<1>4. Reaches(meant', blocks)
  BY <1>1, Kinds DEF Reaches
<1> QED BY <1>1, <1>2, <1>3, <1>4, Kept DEF TransferInv

LEMMA StutterKeeps == TransferInv /\ UNCHANGED vars => TransferInv'
<1> SUFFICES ASSUME TransferInv, UNCHANGED vars PROVE TransferInv'
  OBVIOUS
<1>1. UNCHANGED searchVars /\ UNCHANGED transferVars
  BY DEF vars
<1>2. /\ UNCHANGED program /\ fn' = fn /\ word' = word /\ missed' = missed /\ meant' = meant
      /\ jumping' = jumping /\ step' = step /\ reached' = reached /\ targets' = targets
      /\ blocks' = blocks /\ entries' = entries
  BY <1>1 DEF transferVars, program
<1>3. (SearchIdle \/ SearchInv)' /\ table' = table /\ key' = key
  BY <1>1, SameSearch DEF TransferInv
<1>4. Asked => Asked'
  BY <1>2, <1>3 DEF Asked
<1>5. Aims(word, meant) => Aims(word, meant)'
  BY <1>2 DEF Aims, Names
<1>6. AllBlocks(blocks') = AllBlocks(blocks)
  BY <1>2
<1>7. OnItsWay'
  BY <1>2, <1>3, <1>4, <1>5, <1>6 DEF TransferInv, OnItsWay
<1>8. Outside'
  BY <1>2 DEF TransferInv, Outside, HasLocalDispatch
<1> QED BY <1>2, <1>3, <1>7, <1>8, Kept DEF TransferInv

-----------------------------------------------------------------------------
(* The theorems.                                                              *)

LEMMA Begun == Init => TransferInv
<1> SUFFICES ASSUME Init PROVE TransferInv
  OBVIOUS
<1>1. Program
  BY DEF Init, Program
<1>2. /\ fn \in DOMAIN Functions /\ word = 0 /\ meant = Null /\ missed = 0 /\ jumping = FALSE
      /\ step = "idle" /\ SearchIdle
  BY DEF Init
<1>3. word \in Words /\ missed \in Words /\ step \in Steps
  BY <1>2, Places DEF Words, Steps
<1>4. OnItsWay /\ Outside
  BY <1>2 DEF OnItsWay, Outside, Ended
<1>5. Reaches(meant, blocks)
  BY <1>2, Kinds DEF Reaches
<1> QED BY <1>1, <1>2, <1>3, <1>4, <1>5 DEF TransferInv

LEMMA StepKeeps == TransferInv /\ [Next]_vars => TransferInv'
<1> SUFFICES ASSUME TransferInv, [Next]_vars PROVE TransferInv'
  OBVIOUS
<1>1. CASE CallPointer \/ JumpPointer \/ JumpTable \/ Raise \/ GoesOn
  BY <1>1, CallPointerKeeps, JumpPointerKeeps, JumpTableKeeps, RaiseKeeps, GoesOnKeeps
<1>2. CASE OnTarget \/ OnOutside \/ OnNoTarget \/ Fallback \/ Local
  BY <1>2, OnTargetKeeps, OnOutsideKeeps, OnNoTargetKeeps, FallbackKeeps, LocalKeeps
<1>3. CASE NullPointer \/ CodeAddress \/ ReadOnlyBased \/ WritableBased \/ NotBased
  BY <1>3, NullPointerKeeps, CodeAddressKeeps, ReadOnlyBasedKeeps, WritableBasedKeeps, NotBasedKeeps
<1>4. CASE Searches \/ LookAgain \/ MissReadOnly \/ MissWritable
  BY <1>4, SearchesKeeps, LookAgainKeeps, MissReadOnlyKeeps, MissWritableKeeps
<1>5. CASE HitAddress \/ MissAddress \/ Land
  BY <1>5, HitAddressKeeps, MissAddressKeeps, LandKeeps
<1>6. CASE UNCHANGED vars
  BY <1>6, StutterKeeps
<1> QED BY <1>1, <1>2, <1>3, <1>4, <1>5, <1>6 DEF Next, Moves

LEMMA TransferSafety == Spec => []TransferInv
<1> QED BY Begun, StepKeeps, PTL DEF Spec

\* Every search is over rows in order, whatever the program, and every function has
\* a block of its own and none of another's.
THEOREM TransferIsTyped == Spec => []TransferTypeOK
<1>1. TransferInv => TransferTypeOK
  <2> SUFFICES ASSUME TransferInv PROVE TransferTypeOK
    OBVIOUS
  <2>1. \A f \in DOMAIN Functions : f \in blocks[f] /\ blocks[f] \subseteq Functions[f]
    BY BlocksFacts DEF TransferInv
  <2>2. DOMAIN image = Slots
    BY ImageFacts DEF TransferInv
  <2>3. /\ \A i \in DOMAIN table : table[i] \in Row
        /\ Sorted(table) /\ phase \in {"idle", "searching", "done"}
    <3>1. CASE SearchIdle
      BY <3>1 DEF SearchIdle, Sorted
    <3>2. CASE SearchInv
      BY <3>2 DEF SearchInv, Bounds
    <3> QED BY <3>1, <3>2 DEF TransferInv
  <2> QED BY <2>1, <2>2, <2>3 DEF TransferInv, TransferTypeOK, Steps
<1> QED BY <1>1, TransferSafety, PTL

\* The searches of a transfer find the row that covers the address asked for, or none
\* when there is none.
THEOREM SearchesAreExact == Spec => []FindsTheRow
<1>1. TransferInv => FindsTheRow
  BY DEF TransferInv, SearchIdle, SearchInv, FindsTheRow
<1> QED BY <1>1, TransferSafety, PTL

\* Two pointers of the guest are equal just when they mean the same, in every program:
\* a constant of the code and a word of a relocated slot are taken to one place.
THEOREM PointersCompare == Spec => []ComparisonsAgree
<1>1. TransferInv => ComparisonsAgree
  <2> SUFFICES ASSUME TransferInv, NEW p \in Pointers(relr, image), NEW q \in Pointers(relr, image)
               PROVE  p.word = q.word <=> p.meant = q.meant
    BY DEF ComparisonsAgree
  <2>1. Relative(relr) /\ image = WritableImage(relr)
    BY ImageFacts DEF TransferInv
  <2>2. Means(p.word, p.meant) /\ Means(q.word, q.meant)
    BY <2>1, PointersMean
  <2> QED BY <2>2, WordsDecide
<1> QED BY <1>1, TransferSafety, PTL

\* Every transfer that ends is where the guest means it to be: at the block of the
\* address, at the import, or reported by that address.
THEOREM TransfersLand == Spec => []LandsWhereMeant
<1>1. TransferInv => LandsWhereMeant
  BY DEF TransferInv, OnItsWay, LandsWhereMeant
<1> QED BY <1>1, TransferSafety, PTL

\* An address that the guest reaches by a relative relocation, by a constant that a
\* branch of its function could mean, by an arm the recovery reads as far as, or by an
\* unwind is never reported, nor is the start of a function.
THEOREM NothingIsMissed == Spec => []ReachableIsTranslated
<1>1. TransferInv => ReachableIsTranslated
  <2> SUFFICES ASSUME TransferInv, step = "unresolved", meant # Null, meant[2] % 4 = 0
               PROVE  meant \in Doubtful /\ meant[2] \notin DOMAIN Functions
    BY DEF ReachableIsTranslated
  <2>1. PICK v \in Nat : meant = Guest(v) /\ Code(v) /\ v \notin AllBlocks(blocks)
    BY DEF TransferInv, OnItsWay
  <2>2. v % 4 = 0 /\ meant[2] = v
    BY <2>1, Kinds
  <2>3. v \notin DOMAIN Functions
    BY <2>1, StartsAre DEF TransferInv
  <2> QED BY <2>1, <2>2, <2>3 DEF TransferInv, Reaches
<1> QED BY <1>1, TransferSafety, PTL

\* emit_local_dispatch takes every word where a switch over the blocks of the function
\* would, however far apart they are, and no jump to one of them leaves the function.
THEOREM DispatchIsExact == Spec => []DispatchIsTheSwitch
<1>1. TransferInv => DispatchIsTheSwitch
  <2> SUFFICES ASSUME TransferInv PROVE DispatchIsTheSwitch
    OBVIOUS
  <2>1. \A p \in Words : LocalDispatch(blocks[fn], p) = Plain(blocks[fn], p)
    BY LocalIsTheSwitch DEF TransferInv
  <2> QED BY <2>1 DEF TransferInv, Outside, DispatchIsTheSwitch
<1> QED BY <1>1, TransferSafety, PTL

\* The landing pad the runtime reads at a throw is the one the guest means, and one
\* the generator made a block of.
THEOREM PadsAreBlocks == Spec => []PadsWereRecovered
<1>1. TransferInv => PadsWereRecovered
  <2> SUFFICES ASSUME TransferInv, step = "region", phase = "done"
               PROVE  PadOf = meant[2] /\ (PadOf # 0 => PadOf \in LandingPads)
    BY DEF PadsWereRecovered
  <2>1. PICK c \in Calls : c.fn = fn /\ c.ra = word /\ meant = Guest(c.pad)
    BY DEF TransferInv, OnItsWay
  <2>2. key = word - 1
    BY DEF TransferInv, OnItsWay
  <2>3. PadOf = c.pad
    BY <2>1, <2>2, PadFound
  <2> QED BY <2>1, <2>3, Kinds, PadOfCall DEF TransferInv
<1> QED BY <1>1, TransferSafety, PTL
=============================================================================
