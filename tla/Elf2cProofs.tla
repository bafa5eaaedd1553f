---------------------------- MODULE Elf2cProofs ------------------------------
(* What is proved of Elf2c: for texts of any length, for every program, and for  *)
(* any number of workers, whichever of them takes the next function.            *)
(*                                                                             *)
(* What is right at the end was made right by several parts of main(), so the  *)
(* invariant says of each part what the later ones rely on.  A row leads to its *)
(* block because the cases of a function are its blocks when it is emitted,    *)
(* because the fold gives a function to one that has all its blocks and is not *)
(* folded itself, and because the prune keeps what a stub declares.  A call     *)
(* leads to a function because pass 2 ends when nothing is referenced that was *)
(* not emitted.  With workers, both need that a worker knows of the functions  *)
(* still to emit what the parent does: only emitting a function changes its    *)
(* block list, and the result goes to the parent at once.                      *)
EXTENDS Elf2c, FiniteSetTheorems, SequenceTheorems, WellFoundedInduction, TLAPS

-----------------------------------------------------------------------------
\* Numbers, addresses and worklists.

\* Of a set of natural numbers that is not empty, one is the least.
LEMMA LeastNumber ==
    ASSUME NEW T \in SUBSET Nat, T # {}
    PROVE  \E m \in T : \A k \in T : m <= k
<1> DEFINE R == {xy \in Nat \X Nat : xy[1] < xy[2]}
<1>1. IsWellFoundedOn(R, Nat)
  BY NatLessThanWellFounded DEF OpToRel
<1>2. \A k, m \in Nat : k < m => <<k, m>> \in R
  OBVIOUS
<1> HIDE DEF R
<1>3. PICK m \in T : \A k \in T : <<k, m>> \notin R
  BY <1>1, WFMin
<1>4. ASSUME NEW k \in T PROVE m <= k
  <2>1. k \in Nat /\ m \in Nat /\ ~(k < m)
    BY <1>2, <1>3
  <2> QED BY <2>1
<1> QED BY <1>4

\* The least number of a set is in it.
LEMMA MinFacts ==
    ASSUME NEW T \in SUBSET Nat, T # {}
    PROVE  Min(T) \in T /\ \A k \in T : Min(T) <= k
BY LeastNumber DEF Min

\* A set of numbers below a bound has a greatest.
LEMMA MaxFacts ==
    ASSUME NEW T \in SUBSET Addr, T # {}
    PROVE  Max(T) \in T /\ \A k \in T : k <= Max(T)
<1> DEFINE U == {i \in Nat : N - i \in T}
<1>1. N \in Nat /\ Addr = 1..N
  BY Elf2cAssumption DEF Addr
<1>2. U # {}
  <2>1. PICK k \in T : TRUE
    OBVIOUS
  <2>2. N - k \in Nat /\ N - (N - k) = k
    BY <1>1
  <2> QED BY <2>1, <2>2
<1>3. PICK i \in U : \A j \in U : i <= j
  <2>1. U \in SUBSET Nat
    OBVIOUS
  <2> HIDE DEF U
  <2> QED BY <1>2, <2>1, LeastNumber
<1>4. ASSUME NEW k \in T PROVE k <= N - i
  <2>1. N - k \in Nat /\ N - (N - k) = k
    BY <1>1
  <2>2. i <= N - k
    BY <1>3, <2>1
  <2> QED BY <1>1, <2>2
<1>5. \E m \in T : \A k \in T : m >= k
  BY <1>1, <1>3, <1>4
<1> QED BY <1>1, <1>5 DEF Max

\* What the text is: finitely many numbers from 1.
LEMMA AddrFacts ==
    /\ N \in Nat \ {0} /\ Addr = 1..N /\ Addr \subseteq Nat
    /\ \A S \in SUBSET Addr : IsFiniteSet(S) /\ Cardinality(S) \in 0..N
<1>1. N \in Nat \ {0} /\ Addr = 1..N /\ Addr \subseteq Nat
  BY Elf2cAssumption DEF Addr
<1>2. IsFiniteSet(Addr) /\ Cardinality(Addr) = N
  BY <1>1, FS_Interval
<1>3. ASSUME NEW S \in SUBSET Addr PROVE IsFiniteSet(S) /\ Cardinality(S) \in 0..N
  <2>1. IsFiniteSet(S) /\ Cardinality(S) <= N
    BY <1>2, FS_Subset
  <2>2. Cardinality(S) \in Nat
    BY <2>1, FS_CardinalityType
  <2> QED BY <1>1, <2>1, <2>2
<1> QED BY <1>1, <1>3

\* A worklist: addresses, none of them twice.
Queue(s) == s \in Seq(Addr) /\ \A i, j \in DOMAIN s : s[i] = s[j] => i = j

\* Sorted lists each element of a set once.
LEMMA SortedFacts ==
    ASSUME NEW S \in SUBSET Addr
    PROVE  /\ Queue(Sorted(S)) /\ Range(Sorted(S)) = S
           /\ Sorted(S) = <<>> <=> S = {}
<1> DEFINE n == Cardinality(S)
           below(x) == {y \in S : y < x}
           rank == [x \in S |-> Cardinality(below(x))]
           s == Sorted(S)
<1>1. IsFiniteSet(S) /\ n \in Nat /\ S \subseteq Nat
  BY AddrFacts
<1>2. ASSUME NEW x \in S
      PROVE  IsFiniteSet(below(x)) /\ Cardinality(below(x)) \in 0..n - 1
  <2>1. below(x) \in SUBSET S /\ below(x) # S
    BY <1>1
  <2>2. IsFiniteSet(below(x)) /\ Cardinality(below(x)) <= n /\ Cardinality(below(x)) # n
    BY <1>1, <2>1, FS_Subset
  <2>3. Cardinality(below(x)) \in Nat
    BY <2>2, FS_CardinalityType
  <2> QED BY <1>1, <2>2, <2>3
<1>3. ASSUME NEW x \in S, NEW y \in S, x < y PROVE rank[x] < rank[y]
  <2>1. below(x) \in SUBSET below(y) /\ below(x) # below(y)
    <3>1. \A z \in S : z < x => z < y
      BY <1>1, <1>3
    <3>2. x \in below(y) /\ x \notin below(x)
      BY <1>1, <1>3
    <3> QED BY <3>1, <3>2
  <2>2. Cardinality(below(x)) <= Cardinality(below(y)) /\ Cardinality(below(x)) # Cardinality(below(y))
    BY <1>2, <2>1, FS_Subset
  <2>3. Cardinality(below(x)) \in 0..n - 1 /\ Cardinality(below(y)) \in 0..n - 1
    BY <1>2
  <2>4. Cardinality(below(x)) < Cardinality(below(y))
    <3> HIDE DEF below, n
    <3> QED BY <1>1, <2>2, <2>3
  <2> QED BY <2>4
<1>4. rank \in [S -> 0..n - 1]
  BY <1>2
<1>5. \A x, y \in S : rank[x] = rank[y] => x = y
  <2> SUFFICES ASSUME NEW x \in S, NEW y \in S, rank[x] = rank[y], x # y PROVE FALSE
    OBVIOUS
  <2>1. rank[x] \in 0..n - 1 /\ rank[y] \in 0..n - 1
    BY <1>4
  <2>2. x < y \/ y < x
    BY <1>1
  <2>3. ~(rank[x] < rank[y]) /\ ~(rank[y] < rank[x])
    <3> HIDE DEF rank
    <3> QED BY <1>1, <2>1
  <2> QED BY <1>3, <2>2, <2>3
<1>6. rank \in Surjection(S, 0..n - 1)
  <2>1. rank \in Injection(S, 0..n - 1)
    BY <1>4, <1>5 DEF Injection, IsInjective
  <2>2. IsFiniteSet(0..n - 1) /\ Cardinality(0..n - 1) = n
    <3>1. 0 \in Int /\ n - 1 \in Int /\ (0 > n - 1 => n = 0) /\ n - 1 - 0 + 1 = n
      BY <1>1
    <3> HIDE DEF n
    <3> QED BY <3>1, FS_Interval
  <2> HIDE DEF rank
  <2> QED BY <1>1, <2>1, <2>2, FS_Injection
<1>7. \A x \in S : rank[x] = Cardinality(below(x))
  OBVIOUS
<1>8. s = [i \in 1..n |-> CHOOSE x \in S : Cardinality(below(x)) = i - 1]
  BY DEF Sorted
<1> HIDE DEF rank, below, s, n
<1>9. ASSUME NEW i \in 1..n PROVE s[i] \in S /\ rank[s[i]] = i - 1
  <2>1. i - 1 \in 0..n - 1
    BY <1>1
  <2>2. \E x \in S : rank[x] = i - 1
    BY <1>6, <2>1 DEF Surjection
  <2>3. s[i] = CHOOSE x \in S : Cardinality(below(x)) = i - 1
    BY <1>8
  <2> QED BY <1>7, <2>2, <2>3
<1>10. s \in [1..n -> S]
  <2>1. s = [i \in 1..n |-> s[i]]
    BY <1>8
  <2> QED BY <1>9, <2>1
<1>11. s \in Seq(S) /\ s \in Seq(Addr) /\ DOMAIN s = 1..n /\ Len(s) = n
  <2>1. s \in [1..n -> Addr]
    BY <1>10
  <2>2. \A f \in [1..n -> S] : f \in Seq(S) /\ DOMAIN f = 1..n /\ Len(f) = n
    BY <1>1
  <2>3. \A f \in [1..n -> Addr] : f \in Seq(Addr)
    BY <1>1
  <2> QED BY <1>10, <2>1, <2>2, <2>3
<1>12. ASSUME NEW x \in S PROVE \E i \in 1..n : s[i] = x
  <2>1. PICK r \in 0..n - 1 : rank[x] = r
    BY <1>4
  <2>2. r + 1 \in 1..n /\ r + 1 - 1 = r
    BY <1>1, <2>1
  <2>3. s[r + 1] \in S /\ rank[s[r + 1]] = r
    BY <1>9, <2>2
  <2> QED BY <1>5, <2>1, <2>2, <2>3
<1>13. Range(s) = S
  BY <1>9, <1>11, <1>12 DEF Range
<1>14. Queue(s)
  <2>1. \A i, j \in 1..n : s[i] = s[j] => i = j
    <3> SUFFICES ASSUME NEW i \in 1..n, NEW j \in 1..n, s[i] = s[j] PROVE i = j
      OBVIOUS
    <3>1. i - 1 = j - 1
      BY <1>9
    <3> QED BY <1>1, <3>1
  <2> QED BY <1>11, <2>1 DEF Queue
<1>15. s = <<>> <=> S = {}
  <2>1. n = 0 <=> S = {}
    BY <1>1, FS_EmptySet DEF n
  <2> QED BY <1>11, <2>1
<1> QED BY <1>13, <1>14, <1>15 DEF s

\* Taking the first function off a worklist.
LEMMA TailFacts ==
    ASSUME NEW s, Queue(s), s # <<>>
    PROVE  /\ Queue(Tail(s)) /\ Head(s) \in Addr
           /\ Head(s) \in Range(s) /\ Range(Tail(s)) = Range(s) \ {Head(s)}
<1>1. s \in Seq(Addr) /\ Len(s) \in Nat /\ Len(s) >= 1 /\ DOMAIN s = 1..Len(s)
  BY DEF Queue
<1>2. /\ Tail(s) \in Seq(Addr) /\ Len(Tail(s)) = Len(s) - 1 /\ Head(s) = s[1]
      /\ DOMAIN Tail(s) = 1..Len(s) - 1
      /\ \A i \in 1..Len(s) - 1 : Tail(s)[i] = s[i + 1]
  BY <1>1
<1>3. Queue(Tail(s))
  <2>1. ASSUME NEW i \in DOMAIN Tail(s), NEW j \in DOMAIN Tail(s), Tail(s)[i] = Tail(s)[j]
        PROVE  i = j
    <3>1. i + 1 \in DOMAIN s /\ j + 1 \in DOMAIN s
      BY <1>1, <1>2
    <3>2. s[i + 1] = s[j + 1]
      BY <1>2, <2>1
    <3>3. i + 1 = j + 1
      BY <3>1, <3>2 DEF Queue
    <3> QED BY <1>1, <1>2, <3>3
  <2> QED BY <1>2, <2>1 DEF Queue
<1>4. Head(s) \in Range(s) /\ Head(s) \in Addr
  BY <1>1, <1>2 DEF Range
<1>5. Range(Tail(s)) \subseteq Range(s) \ {Head(s)}
  <2> SUFFICES ASSUME NEW i \in 1..Len(s) - 1 PROVE s[i + 1] \in Range(s) /\ s[i + 1] # s[1]
    BY <1>2 DEF Range
  <2>1. i + 1 \in DOMAIN s /\ 1 \in DOMAIN s /\ i + 1 # 1
    BY <1>1
  <2> QED BY <2>1 DEF Queue, Range
<1>6. Range(s) \ {Head(s)} \subseteq Range(Tail(s))
  <2> SUFFICES ASSUME NEW i \in 1..Len(s), i # 1 PROVE s[i] \in Range(Tail(s))
    BY <1>1, <1>2 DEF Range
  <2>1. i - 1 \in 1..Len(s) - 1 /\ i - 1 + 1 = i
    BY <1>1
  <2>2. Tail(s)[i - 1] = s[i]
    BY <1>2, <2>1
  <2> QED BY <1>2, <2>1, <2>2 DEF Range
<1> QED BY <1>3, <1>4, <1>5, <1>6

-----------------------------------------------------------------------------
\* Code.  Walk and Live are iterated once for every instruction, which is enough
\* to close a set of addresses.

\* What an instruction is, and that the text goes on after those that fall through.
LEMMA CodeFacts ==
    ASSUME Program(prog), NEW e \in Addr
    PROVE  /\ Code(e).op \in {"plain", "takes", "branch", "jump", "call", "switch", "ret"}
           /\ Code(e).op \in {"takes", "branch", "jump", "call"} => Code(e).to \in Addr
           /\ Code(e).op \in {"branch", "plain", "takes", "call"} => e + 1 \in Addr
           /\ Ends(N)
<1>1. N \in Nat \ {0} /\ Addr = 1..N
  BY AddrFacts
<1>2. prog.code \in [Addr -> Instruction] /\ prog.code[N].op \in {"jump", "switch", "ret"}
  BY DEF Program
<1>3. \A a \in Addr : prog.code[a].to = 0 <=> prog.code[a].op \in {"plain", "switch", "ret"}
  BY DEF Program
<1>4. prog.code[e] \in Instruction
  BY <1>2
<1>5. /\ prog.code[e].op \in {"plain", "takes", "branch", "jump", "call", "switch", "ret"}
      /\ prog.code[e].to \in 0..N
  BY <1>4 DEF Instruction
<1>6. prog.code[e].op \in {"takes", "branch", "jump", "call"} => prog.code[e].to \in Addr
  <2> SUFFICES ASSUME prog.code[e].op \in {"takes", "branch", "jump", "call"}
               PROVE  prog.code[e].to \in Addr
    OBVIOUS
  <2>1. prog.code[e].to # 0
    BY <1>3
  <2> QED BY <1>1, <1>5, <2>1
<1>7. prog.code[e].op \in {"branch", "plain", "takes", "call"} => e + 1 \in Addr
  <2> SUFFICES ASSUME prog.code[e].op \in {"branch", "plain", "takes", "call"}
               PROVE  e + 1 \in Addr
    OBVIOUS
  <2>1. e # N
    BY <1>2
  <2> QED BY <1>1, <2>1
<1>8. Ends(N)
  BY <1>2 DEF Ends, Code
<1> QED BY <1>5, <1>6, <1>7, <1>8 DEF Code

\* Control stays in the text,
LEMMA GoesFacts ==
    ASSUME Program(prog), NEW e \in Addr
    PROVE  Goes(e) \subseteq Addr /\ Calls(e) \subseteq Addr /\ Returns(e) \subseteq Addr
BY CodeFacts DEF Goes, Calls, Returns

\* the code constants are in it,
LEMMA TakesFacts ==
    ASSUME Program(prog), NEW b \in Addr, NEW e \in Addr
    PROVE  Takes(b, e) \subseteq Addr
<1> SUFFICES ASSUME NEW y \in b..e, Code(y).op = "takes" PROVE Code(y).to \in Addr
  BY DEF Takes
<1>1. y \in Addr
  BY AddrFacts
<1> QED BY <1>1, CodeFacts

\* and so are the ends of blocks, with any limit
LEMMA EndFacts ==
    ASSUME Program(prog), NEW b \in Addr, NEW limit
    PROVE  End(b, limit) \in Addr
<1> DEFINE X == {x \in b..N : Ends(x) \/ x + 1 = limit}
<1>1. N \in Nat \ {0} /\ Addr = 1..N
  BY AddrFacts
<1>2. X \in SUBSET Nat /\ N \in X /\ X \subseteq Addr
  BY <1>1, CodeFacts
<1>3. End(b, limit) = Min(X)
  BY DEF End
<1> HIDE DEF X
<1> QED BY <1>2, <1>3, MinFacts

\* and in any function.
LEMMA EndInFacts ==
    ASSUME Program(prog), NEW b \in Addr, NEW blocks
    PROVE  EndIn(b, blocks) \in Addr
BY EndFacts DEF EndIn

\* Rounds of following g from X.
Rounds(h, m, X, g) ==
    \A n \in 0..m : h[n] = IF n = 0 THEN X ELSE h[n - 1] \cup UNION {g[a] : a \in h[n - 1]}

\* They can be made, any number of them, so the functions Walk and Live are chosen from are there.
LEMMA RoundsExist ==
    ASSUME NEW X, NEW g
    PROVE  \A n \in Nat : \E h : h = [i \in 0..n |-> h[i]] /\ Rounds(h, n, X, g)
<1> DEFINE T == {n \in Nat : ~ \E h : h = [i \in 0..n |-> h[i]] /\ Rounds(h, n, X, g)}
<1>1. SUFFICES ASSUME T # {} PROVE FALSE
  OBVIOUS
<1>2. PICK m \in T : \A k \in T : m <= k
  <2>1. T \in SUBSET Nat
    OBVIOUS
  <2> HIDE DEF T
  <2> QED BY <1>1, <2>1, LeastNumber
<1>3. CASE m = 0
  <2> DEFINE h == [i \in 0..0 |-> X]
  <2>1. h = [i \in 0..0 |-> h[i]] /\ Rounds(h, 0, X, g)
    BY DEF Rounds
  <2> QED BY <1>2, <1>3, <2>1
<1>4. CASE m # 0
  <2>1. m - 1 \in Nat /\ m \in Nat /\ ~(m <= m - 1)
    BY <1>2, <1>4
  <2>2. PICK f : f = [i \in 0..m - 1 |-> f[i]] /\ Rounds(f, m - 1, X, g)
    BY <1>2, <2>1
  <2> DEFINE x == f[m - 1] \cup UNION {g[a] : a \in f[m - 1]}
             h == [i \in 0..m |-> IF i = m THEN x ELSE f[i]]
  <2>3. h[m] = x /\ \A i \in 0..m - 1 : h[i] = f[i]
    <3> HIDE DEF x
    <3> QED BY <2>1
  <2>4. h = [i \in 0..m |-> h[i]]
    <3> HIDE DEF x
    <3> QED OBVIOUS
  <2> HIDE DEF h
  <2>5. Rounds(h, m, X, g)
    <3> SUFFICES ASSUME NEW i \in 0..m
                 PROVE  h[i] = IF i = 0 THEN X ELSE h[i - 1] \cup UNION {g[a] : a \in h[i - 1]}
      BY DEF Rounds
    <3>1. CASE i = m
      <4>1. m - 1 \in 0..m - 1 /\ m # 0
        BY <2>1, <1>4
      <4>2. h[m] = x /\ h[m - 1] = f[m - 1]
        BY <2>3, <4>1
      <4> QED BY <3>1, <4>1, <4>2
    <3>2. CASE i # m
      <4>1. i \in 0..m - 1 /\ (i # 0 => i - 1 \in 0..m - 1)
        BY <2>1, <3>2
      <4>2. h[i] = f[i] /\ (i # 0 => h[i - 1] = f[i - 1])
        BY <2>3, <4>1
      <4>3. f[i] = IF i = 0 THEN X ELSE f[i - 1] \cup UNION {g[a] : a \in f[i - 1]}
        BY <2>2, <4>1 DEF Rounds
      <4> QED BY <4>2, <4>3
    <3> QED BY <3>1, <3>2
  <2> QED BY <1>2, <2>4, <2>5
<1> QED BY <1>3, <1>4

\* In a finite text the rounds come to an end.
LEMMA RoundsClose ==
    ASSUME NEW X \in SUBSET Addr, NEW g \in [Addr -> SUBSET Addr], NEW h, Rounds(h, N, X, g)
    PROVE  \A i \in 0..N :
              /\ h[i] \subseteq Addr /\ X \subseteq h[i]
              /\ (\A a \in h[i] : g[a] \subseteq h[i]) \/ Cardinality(h[i]) >= i + 1
<1> DEFINE Shut(i) == \A a \in h[i] : g[a] \subseteq h[i]
           Grows(i) == /\ h[i] \subseteq Addr /\ X \subseteq h[i]
                       /\ Shut(i) \/ Cardinality(h[i]) >= i + 1
           T == {i \in 0..N : ~Grows(i)}
<1>1. N \in Nat \ {0}
  BY AddrFacts
<1>2. \A S \in SUBSET Addr : IsFiniteSet(S) /\ Cardinality(S) \in Nat
  BY AddrFacts
<1>3. SUFFICES ASSUME T # {} PROVE FALSE
  OBVIOUS
<1>4. PICK m \in T : \A k \in T : m <= k
  <2>1. T \in SUBSET Nat
    BY <1>1
  <2> HIDE DEF T
  <2> QED BY <1>3, <2>1, LeastNumber
<1>5. CASE m = 0
  <2>0. 0 \in 0..N
    BY <1>1
  <2>1. h[0] = X
    BY <2>0 DEF Rounds
  <2>2. CASE X = {}
    <3>1. Grows(0)
      <4>1. h[0] = {}
        BY <2>1, <2>2
      <4>2. Shut(0)
        BY <4>1
      <4>3. h[0] \subseteq Addr /\ X \subseteq h[0]
        BY <2>1
      <4> HIDE DEF Shut
      <4> QED BY <4>2, <4>3
    <3> QED BY <1>4, <1>5, <3>1
  <2>3. CASE X # {}
    <3>0. IsFiniteSet(X) /\ Cardinality(X) \in Nat
      BY <1>2
    <3>1. Cardinality(X) # 0
      BY <3>0, <2>3, FS_EmptySet, Zenon
    <3>2. Cardinality(X) >= 0 + 1
      BY <3>0, <3>1
    <3> QED BY <1>4, <1>5, <2>1, <3>2
  <2> QED BY <2>2, <2>3
<1>6. CASE m # 0
  <2>1. m \in 0..N /\ m - 1 \in 0..N /\ m \in Nat /\ ~(m <= m - 1)
    BY <1>1, <1>4, <1>6
  <2> DEFINE R == h[m - 1]
  <2>2. Grows(m - 1)
    BY <1>4, <2>1
  <2>3. h[m] = R \cup UNION {g[a] : a \in R}
    BY <1>6, <2>1 DEF Rounds
  <2>4. R \subseteq h[m] /\ h[m] \subseteq Addr /\ X \subseteq h[m]
    BY <2>2, <2>3
  <2>5. CASE Shut(m - 1)
    <3>1. h[m] = R
      BY <2>3, <2>5
    <3> QED BY <1>4, <2>4, <2>5, <3>1
  <2>6. CASE ~Shut(m - 1)
    <3>1. h[m] # R
      BY <2>3, <2>6
    <3>2. /\ Cardinality(R) >= m - 1 + 1
          /\ Cardinality(R) \in Nat /\ Cardinality(h[m]) \in Nat /\ IsFiniteSet(h[m])
      BY <1>2, <2>2, <2>4, <2>6
    <3>3. Cardinality(R) <= Cardinality(h[m]) /\ Cardinality(R) # Cardinality(h[m])
      BY <2>4, <3>1, <3>2, FS_Subset
    <3>4. Cardinality(h[m]) >= m + 1
      BY <2>1, <3>2, <3>3
    <3> QED BY <1>4, <2>4, <3>4
  <2> QED BY <2>5, <2>6
<1> QED BY <1>5, <1>6

\* So what the last one has is closed.
LEMMA RoundsShut ==
    ASSUME NEW X \in SUBSET Addr, NEW g \in [Addr -> SUBSET Addr], NEW h, Rounds(h, N, X, g)
    PROVE  X \subseteq h[N] /\ h[N] \subseteq Addr /\ \A a \in h[N] : g[a] \subseteq h[N]
<1>1. N \in Nat /\ N \in 0..N
  BY AddrFacts
<1>2. /\ h[N] \subseteq Addr /\ X \subseteq h[N]
      /\ (\A a \in h[N] : g[a] \subseteq h[N]) \/ Cardinality(h[N]) >= N + 1
  BY <1>1, RoundsClose
<1>3. Cardinality(h[N]) \in 0..N
  BY <1>2, AddrFacts
<1> QED BY <1>1, <1>2, <1>3

\* The blocks _walk_blocks finds are in the text, and the entry is one.
LEMMA WalkFacts ==
    ASSUME Program(prog), NEW starts, NEW entry \in Addr
    PROVE  Walk(starts, entry) \subseteq Addr /\ entry \in Walk(starts, entry)
<1> DEFINE Step(a) == {d \in Goes(End(a, 0)) : d \notin starts \/ d = entry} \cup Returns(End(a, 0))
           g == [a \in Addr |-> Step(a)]
           Eqn(h) == h = [n \in 0..N |->
                            IF n = 0 THEN {entry} ELSE h[n - 1] \cup UNION {Step(a) : a \in h[n - 1]}]
<1>1. N \in Nat \ {0} /\ N \in 0..N
  BY AddrFacts
<1>2. g \in [Addr -> SUBSET Addr]
  <2> SUFFICES ASSUME NEW a \in Addr PROVE Step(a) \subseteq Addr
    OBVIOUS
  <2>1. End(a, 0) \in Addr
    BY EndFacts
  <2> QED BY <2>1, GoesFacts
<1>3. \A a \in Addr : g[a] = Step(a)
  OBVIOUS
<1>4. Walk(starts, entry) = (CHOOSE h : Eqn(h))[N]
  BY DEF Walk
<1> HIDE DEF g, Step
<1>5. PICK h : h = [i \in 0..N |-> h[i]] /\ Rounds(h, N, {entry}, g)
  BY <1>1, RoundsExist
<1>6. \A i \in 0..N : h[i] \subseteq Addr
  <2>1. {entry} \in SUBSET Addr
    OBVIOUS
  <2> QED BY <1>2, <1>5, <2>1, RoundsClose
<1>7. Eqn(h)
  <2>1. ASSUME NEW n \in 0..N
        PROVE  h[n] = IF n = 0 THEN {entry} ELSE h[n - 1] \cup UNION {Step(a) : a \in h[n - 1]}
    <3>1. h[n] = IF n = 0 THEN {entry} ELSE h[n - 1] \cup UNION {g[a] : a \in h[n - 1]}
      BY <1>5 DEF Rounds
    <3>2. n # 0 => n - 1 \in 0..N
      BY <1>1
    <3>3. n # 0 => UNION {g[a] : a \in h[n - 1]} = UNION {Step(a) : a \in h[n - 1]}
      BY <1>3, <1>6, <3>2
    <3> QED BY <3>1, <3>3
  <2> QED BY <1>5, <2>1
<1>8. PICK r : Eqn(r) /\ Walk(starts, entry) = r[N]
  BY <1>4, <1>7
<1> DEFINE T == {n \in 0..N : ~(r[n] \subseteq Addr /\ entry \in r[n])}
<1>9. CASE T = {}
  <2>1. N \notin T
    BY <1>9
  <2>2. r[N] \subseteq Addr /\ entry \in r[N]
    BY <1>1, <2>1
  <2> QED BY <1>8, <2>2
<1>10. CASE T # {}
  <2>1. PICK m \in T : \A k \in T : m <= k
    <3>1. T \in SUBSET Nat
      OBVIOUS
    <3> HIDE DEF T
    <3> QED BY <1>10, <3>1, LeastNumber
  <2>2. r[m] = IF m = 0 THEN {entry} ELSE r[m - 1] \cup UNION {Step(a) : a \in r[m - 1]}
    BY <1>8
  <2>3. CASE m = 0
    BY <2>1, <2>2, <2>3
  <2>4. CASE m # 0
    <3>1. m - 1 \in 0..N /\ ~(m <= m - 1)
      BY <1>1, <2>1, <2>4
    <3>2. r[m - 1] \subseteq Addr /\ entry \in r[m - 1]
      BY <2>1, <3>1
    <3>3. \A a \in r[m - 1] : Step(a) \subseteq Addr
      BY <1>2, <1>3, <3>2
    <3> QED BY <2>1, <2>2, <2>4, <3>2, <3>3
  <2> QED BY <2>3, <2>4
<1> QED BY <1>9, <1>10

\* What Live leads to is there, and leads nowhere else.
LEMMA LiveFacts ==
    ASSUME DOMAIN files \subseteq Addr
    PROVE  LET named == {table[a].fn : a \in DOMAIN table} \cup prog.exports
           IN  /\ Live \subseteq DOMAIN files /\ named \cap DOMAIN files \subseteq Live
               /\ \A f \in Live : files[f].deps \cap DOMAIN files \subseteq Live
<1> DEFINE X == ({table[a].fn : a \in DOMAIN table} \cup prog.exports) \cap DOMAIN files
           Step(f) == files[f].deps \cap DOMAIN files
           g == [f \in Addr |-> Step(f)]
           Eqn(h) == h = [n \in 0..N |->
                            IF n = 0 THEN X ELSE h[n - 1] \cup UNION {Step(f) : f \in h[n - 1]}]
<1>1. N \in Nat \ {0} /\ N \in 0..N
  BY AddrFacts
<1>2. g \in [Addr -> SUBSET Addr] /\ X \in SUBSET Addr
  OBVIOUS
<1>3. \A f \in Addr : g[f] = Step(f)
  OBVIOUS
<1>4. Live = (CHOOSE h : Eqn(h))[N]
  BY DEF Live
<1>0. X \subseteq DOMAIN files /\ \A f : Step(f) \subseteq DOMAIN files
  OBVIOUS
<1> SUFFICES X \subseteq Live /\ Live \subseteq DOMAIN files /\ \A f \in Live : Step(f) \subseteq Live
  OBVIOUS
<1> HIDE DEF g, Step, X
<1>5. PICK h : h = [i \in 0..N |-> h[i]] /\ Rounds(h, N, X, g)
  BY <1>1, RoundsExist
<1>6. \A i \in 0..N : h[i] \subseteq Addr
  BY <1>2, <1>5, RoundsClose
<1>7. Eqn(h)
  <2>1. ASSUME NEW n \in 0..N
        PROVE  h[n] = IF n = 0 THEN X ELSE h[n - 1] \cup UNION {Step(a) : a \in h[n - 1]}
    <3>1. h[n] = IF n = 0 THEN X ELSE h[n - 1] \cup UNION {g[a] : a \in h[n - 1]}
      BY <1>5 DEF Rounds
    <3>2. n # 0 => n - 1 \in 0..N
      BY <1>1
    <3>3. n # 0 => UNION {g[a] : a \in h[n - 1]} = UNION {Step(a) : a \in h[n - 1]}
      BY <1>3, <1>6, <3>2
    <3> QED BY <3>1, <3>3
  <2> QED BY <1>5, <2>1
<1>8. PICK r : Eqn(r) /\ Live = r[N]
  BY <1>4, <1>7
<1>9. \A n \in 0..N : r[n] \subseteq DOMAIN files
  <2> DEFINE T == {n \in 0..N : ~(r[n] \subseteq DOMAIN files)}
  <2> SUFFICES ASSUME T # {} PROVE FALSE
    OBVIOUS
  <2>1. PICK m \in T : \A k \in T : m <= k
    <3>1. T \in SUBSET Nat
      OBVIOUS
    <3> HIDE DEF T
    <3> QED BY <3>1, LeastNumber
  <2>2. r[m] = IF m = 0 THEN X ELSE r[m - 1] \cup UNION {Step(a) : a \in r[m - 1]}
    BY <1>8
  <2>3. CASE m = 0
    BY <1>0, <2>1, <2>2, <2>3
  <2>4. CASE m # 0
    <3>1. m - 1 \in 0..N /\ ~(m <= m - 1)
      BY <1>1, <2>1, <2>4
    <3>2. r[m - 1] \subseteq DOMAIN files
      BY <2>1, <3>1
    <3> QED BY <1>0, <2>1, <2>2, <2>4, <3>2
  <2> QED BY <2>3, <2>4
<1>10. Rounds(r, N, X, g)
  <2> SUFFICES ASSUME NEW n \in 0..N
               PROVE  r[n] = IF n = 0 THEN X ELSE r[n - 1] \cup UNION {g[a] : a \in r[n - 1]}
    BY DEF Rounds
  <2>1. r[n] = IF n = 0 THEN X ELSE r[n - 1] \cup UNION {Step(a) : a \in r[n - 1]}
    BY <1>8
  <2>2. n # 0 => n - 1 \in 0..N
    BY <1>1
  <2>3. n # 0 => UNION {g[a] : a \in r[n - 1]} = UNION {Step(a) : a \in r[n - 1]}
    BY <1>3, <1>9, <2>2
  <2> QED BY <2>1, <2>3
<1>11. X \subseteq r[N] /\ \A a \in r[N] : g[a] \subseteq r[N]
  BY <1>2, <1>10, RoundsShut
<1> QED BY <1>1, <1>3, <1>8, <1>9, <1>11

-----------------------------------------------------------------------------
\* The fold goes from a function to its host, to the host of that, and so on.

\* How many functions are ranked before b.
Rank(b) == Cardinality({x \in done : Better(x, b)})

\* The block lists are of functions that were emitted.
Listed == done \subseteq Addr /\ \A f \in done : ctx.blocksOf[f] \subseteq Addr

\* The ranking of fold_subset_functions is a strict order of the emitted functions.
LEMMA BetterFacts ==
    ASSUME Listed
    PROVE  /\ \A a \in done : Rank(a) \in 0..N
           /\ \A a, b \in done : a # b => Better(a, b) \/ Better(b, a)
           /\ \A a, b \in done : Better(a, b) => Rank(a) < Rank(b)
<1>1. \A f \in done : Cardinality(ctx.blocksOf[f]) \in 0..N /\ f \in Nat
  BY AddrFacts DEF Listed
<1>2. N \in Nat
  BY AddrFacts
<1>3. ASSUME NEW a \in done PROVE ~Better(a, a)
  BY <1>1, <1>2 DEF Better
<1>4. ASSUME NEW a \in done, NEW b \in done, NEW c \in done, Better(a, b), Better(b, c)
      PROVE  Better(a, c)
  BY <1>1, <1>2, <1>4 DEF Better
<1>5. ASSUME NEW a \in done, NEW b \in done, a # b PROVE Better(a, b) \/ Better(b, a)
  BY <1>1, <1>2, <1>5 DEF Better
<1> DEFINE before(b) == {x \in done : Better(x, b)}
<1>6. ASSUME NEW a \in done
      PROVE  before(a) \in SUBSET Addr /\ IsFiniteSet(before(a)) /\ Cardinality(before(a)) \in 0..N
  <2>1. before(a) \in SUBSET Addr
    BY DEF Listed
  <2> HIDE DEF before
  <2> QED BY <2>1, AddrFacts
<1>7. ASSUME NEW a \in done, NEW b \in done, Better(a, b)
      PROVE  Cardinality(before(a)) < Cardinality(before(b))
  <2>1. before(a) \subseteq before(b)
    BY <1>4, <1>7
  <2>2. a \in before(b) /\ a \notin before(a)
    BY <1>3, <1>7
  <2>3. before(a) \in SUBSET before(b) /\ before(a) # before(b)
    BY <2>1, <2>2
  <2>4. /\ IsFiniteSet(before(b)) /\ Cardinality(before(a)) \in 0..N
        /\ Cardinality(before(b)) \in 0..N
    BY <1>6
  <2> HIDE DEF before
  <2>5. Cardinality(before(a)) <= Cardinality(before(b)) /\ Cardinality(before(a)) # Cardinality(before(b))
    BY <2>3, <2>4, FS_Subset
  <2> QED BY <1>2, <2>4, <2>5
<1> QED BY <1>5, <1>6, <1>7 DEF Rank

\* The host a function is folded into is ranked before it and before every other.
Best(b) == CHOOSE a \in Hosts(b) : \A x \in Hosts(b) \ {a} : Better(a, x)

\* It is one of the hosts.
LEMMA BestFacts ==
    ASSUME Listed, NEW b \in done, Hosts(b) # {}
    PROVE  Best(b) \in Hosts(b) /\ Best(b) \in done /\ Rank(Best(b)) < Rank(b)
<1>1. \A a \in Hosts(b) : a \in done /\ Better(a, b)
  BY DEF Hosts
<1> DEFINE T == {Rank(a) : a \in Hosts(b)}
<1>2. T \in SUBSET Nat /\ T # {}
  BY <1>1, BetterFacts
<1> HIDE DEF T
<1>3. PICK m \in T : \A k \in T : m <= k
  BY <1>2, LeastNumber
<1> USE DEF T
<1>4. PICK a \in Hosts(b) : m = Rank(a)
  BY <1>3
<1>5. ASSUME NEW x \in Hosts(b), x # a PROVE Better(a, x)
  <2>1. Rank(a) <= Rank(x) /\ x \in done /\ a \in done
    BY <1>1, <1>3, <1>4
  <2>2. Rank(a) \in 0..N /\ Rank(x) \in 0..N /\ N \in Nat
    BY <2>1, BetterFacts, AddrFacts
  <2>3. ~(Rank(x) < Rank(a))
    BY <2>1, <2>2
  <2> QED BY <1>5, <2>1, <2>3, BetterFacts
<1>6. \E z \in Hosts(b) : \A x \in Hosts(b) \ {z} : Better(z, x)
  BY <1>5
<1>7. Best(b) \in Hosts(b)
  BY <1>6 DEF Best
<1> QED BY <1>1, <1>7, BetterFacts

\* Root goes from host to host: the ranking makes the recursion well founded.
LEMMA RootIs ==
    ASSUME Listed
    PROVE  \A b \in done : Root[b] = IF Hosts(b) = {} THEN b ELSE Root[Best(b)]
<1> DEFINE Right(h, b) == h[b] = IF Hosts(b) = {} THEN b ELSE h[Best(b)]
           Upto(h, n) == DOMAIN h = done /\ \A b \in done : Rank(b) < n => Right(h, b)
           T == {n \in Nat : ~ \E h : Upto(h, n)}
           Eqn(h) == h = [b \in done |-> IF Hosts(b) = {} THEN b ELSE h[Best(b)]]
<1>1. \A b \in done : Rank(b) \in 0..N /\ N \in Nat
  BY BetterFacts, AddrFacts
<1>2. T = {}
  <2> SUFFICES ASSUME T # {} PROVE FALSE
    OBVIOUS
  <2>1. PICK m \in T : \A k \in T : m <= k
    <3>1. T \in SUBSET Nat
      OBVIOUS
    <3> HIDE DEF T
    <3> QED BY <3>1, LeastNumber
  <2>2. CASE m = 0
    <3> DEFINE h == [b \in done |-> b]
    <3>1. Upto(h, 0)
      BY <1>1
    <3> HIDE DEF h, Upto
    <3> QED BY <2>1, <2>2, <3>1
  <2>3. CASE m # 0
    <3>1. m - 1 \in Nat /\ m \in Nat /\ ~(m <= m - 1)
      BY <2>1, <2>3
    <3>2. PICK f : Upto(f, m - 1)
      BY <2>1, <3>1
    <3> DEFINE h == [b \in done |-> IF Hosts(b) = {} THEN b ELSE f[Best(b)]]
    <3>3. ASSUME NEW b \in done, Rank(b) < m PROVE Right(h, b)
      <4>1. CASE Hosts(b) = {}
        BY <4>1
      <4>2. CASE Hosts(b) # {}
        <5> DEFINE a == Best(b)
        <5>1. a \in done /\ Rank(a) < Rank(b)
          BY <4>2, BestFacts
        <5>2. Rank(a) < m - 1
          <6>1. Rank(a) \in 0..N /\ Rank(b) \in 0..N /\ N \in Nat
            BY <1>1, <5>1
          <6> QED BY <3>1, <3>3, <5>1, <6>1
        <5>3. f[a] = IF Hosts(a) = {} THEN a ELSE f[Best(a)]
          BY <3>2, <5>1, <5>2
        <5>4. h[a] = IF Hosts(a) = {} THEN a ELSE f[Best(a)]
          BY <5>1
        <5>5. h[b] = f[a]
          BY <4>2
        <5> HIDE DEF h
        <5> QED BY <4>2, <5>3, <5>4, <5>5
      <4> QED BY <4>1, <4>2
    <3>4. Upto(h, m)
      <4>1. DOMAIN h = done
        OBVIOUS
      <4> HIDE DEF h, Right
      <4> QED BY <3>3, <4>1
    <3> HIDE DEF h, Upto
    <3> QED BY <2>1, <3>4
  <2> QED BY <2>2, <2>3
<1>3. PICK h : Upto(h, N + 1)
  <2>1. N + 1 \in Nat
    BY AddrFacts
  <2> HIDE DEF Upto
  <2> QED BY <1>2, <2>1
<1> DEFINE r == [b \in done |-> h[b]]
<1>4. Eqn(r)
  <2>1. ASSUME NEW b \in done PROVE r[b] = IF Hosts(b) = {} THEN b ELSE r[Best(b)]
    <3>1. Rank(b) < N + 1
      BY <1>1
    <3>2. h[b] = IF Hosts(b) = {} THEN b ELSE h[Best(b)]
      BY <1>3, <3>1
    <3>3. Hosts(b) # {} => Best(b) \in done
      BY BestFacts
    <3> QED BY <3>2, <3>3
  <2> DEFINE q == [b \in done |-> IF Hosts(b) = {} THEN b ELSE r[Best(b)]]
  <2>2. \A b \in done : r[b] = q[b]
    BY <2>1
  <2>3. r = [b \in done |-> r[b]] /\ q = [b \in done |-> q[b]]
    OBVIOUS
  <2>4. r = q
    <3> HIDE DEF r, q
    <3> QED BY <2>2, <2>3
  <2> QED BY <2>4
<1> HIDE DEF r
<1>5. Root = CHOOSE f : Eqn(f)
  BY DEF Root, Best
<1>6. Eqn(Root)
  BY <1>4, <1>5
<1> QED BY <1>6

\* A function is folded into one that is not folded and has all its blocks.
LEMMA RootFacts ==
    ASSUME Listed, NEW b \in done
    PROVE  /\ Root[b] \in done /\ Root[Root[b]] = Root[b]
           /\ \/ Root[b] = b
              \/ /\ ctx.blocksOf[b] \subseteq ctx.blocksOf[Root[b]]
                 /\ Cardinality(ctx.blocksOf[Root[b]]) > 1
<1> DEFINE Fine(a) == /\ Root[a] \in done /\ Root[Root[a]] = Root[a]
                      /\ \/ Root[a] = a
                         \/ /\ ctx.blocksOf[a] \subseteq ctx.blocksOf[Root[a]]
                            /\ Cardinality(ctx.blocksOf[Root[a]]) > 1
           T == {n \in Nat : \E a \in done : ~Fine(a) /\ n = Rank(a)}
<1>1. SUFFICES ASSUME T # {} PROVE FALSE
  <2>1. Rank(b) \in Nat
    BY BetterFacts
  <2> HIDE DEF Fine
  <2>2. Fine(b)
    BY <1>1, <2>1
  <2> QED BY <2>2 DEF Fine
<1>2. PICK m \in T : \A k \in T : m <= k
  <2>1. T \in SUBSET Nat
    OBVIOUS
  <2> HIDE DEF T
  <2> QED BY <1>1, <2>1, LeastNumber
<1>3. PICK a \in done : ~Fine(a) /\ m = Rank(a)
  <2> HIDE DEF Fine
  <2> QED BY <1>2
<1>4. Root[a] = IF Hosts(a) = {} THEN a ELSE Root[Best(a)]
  BY RootIs
<1>5. CASE Hosts(a) = {}
  BY <1>3, <1>4, <1>5
<1>6. CASE Hosts(a) # {}
  <2>1. Best(a) \in Hosts(a) /\ Best(a) \in done /\ Rank(Best(a)) < Rank(a)
    BY <1>6, BestFacts
  <2>2. Fine(Best(a))
    <3>1. Rank(Best(a)) \in Nat /\ Rank(a) \in Nat /\ ~(Rank(a) <= Rank(Best(a)))
      BY <2>1, BetterFacts, AddrFacts
    <3> HIDE DEF Fine
    <3> QED BY <1>2, <1>3, <2>1, <3>1
  <2>3. ctx.blocksOf[a] \subseteq ctx.blocksOf[Best(a)] /\ Cardinality(ctx.blocksOf[Best(a)]) > 1
    BY <2>1 DEF Hosts, Holds
  <2>4. Root[a] = Root[Best(a)]
    BY <1>4, <1>6
  <2>5. Fine(a)
    <3>1. Root[a] \in done /\ Root[Root[a]] = Root[a]
      BY <2>2, <2>4
    <3>2. ctx.blocksOf[a] \subseteq ctx.blocksOf[Root[a]] /\ Cardinality(ctx.blocksOf[Root[a]]) > 1
      BY <2>2, <2>3, <2>4
    <3> QED BY <3>1, <3>2
  <2> QED BY <1>3, <2>5
<1> QED BY <1>5, <1>6

-----------------------------------------------------------------------------
\* What the passes make of a context.

\* A context: its fields, and what each of them holds.
Fields(c) ==
    DOMAIN c = {"funcSet", "referenced", "potential", "blocksOf", "order", "entries", "deps"}

\* A block list starts where its function does.
Lists(b) ==
    /\ DOMAIN b \subseteq Addr
    /\ \A f \in DOMAIN b : f \in b[f] /\ b[f] \subseteq Addr

CtxOK(c) ==
    /\ Fields(c) /\ Lists(c.blocksOf)
    /\ c.funcSet \subseteq Addr /\ c.referenced \subseteq Addr /\ c.potential \subseteq Addr
    /\ c.order \in Seq(Addr) /\ Range(c.order) \subseteq DOMAIN c.blocksOf
    /\ c.entries \in Seq(Addr \X SUBSET Addr)
    /\ c.deps \in [Addr -> SUBSET Addr]

\* What a list has after an append.
LEMMA AppendRange ==
    ASSUME NEW S, NEW s \in Seq(S), NEW a \in S
    PROVE  Append(s, a) \in Seq(S) /\ Range(Append(s, a)) = Range(s) \cup {a}
<1>1. /\ Append(s, a) \in Seq(S) /\ DOMAIN Append(s, a) = 1..Len(s) + 1 /\ DOMAIN s = 1..Len(s)
      /\ Append(s, a)[Len(s) + 1] = a /\ Len(s) \in Nat
      /\ \A i \in 1..Len(s) : Append(s, a)[i] = s[i]
  OBVIOUS
<1>2. ASSUME NEW x \in Range(Append(s, a)) PROVE x \in Range(s) \cup {a}
  <2>1. PICK i \in 1..Len(s) + 1 : x = Append(s, a)[i]
    BY <1>1, <1>2 DEF Range
  <2>2. i = Len(s) + 1 \/ i \in 1..Len(s)
    BY <1>1
  <2> QED BY <1>1, <2>1, <2>2 DEF Range
<1>3. ASSUME NEW x \in Range(s) \cup {a} PROVE x \in Range(Append(s, a))
  <2>1. CASE x = a
    <3>1. Len(s) + 1 \in 1..Len(s) + 1
      BY <1>1
    <3> QED BY <1>1, <2>1, <3>1 DEF Range
  <2>2. CASE x \in Range(s)
    <3>1. PICK i \in 1..Len(s) : x = s[i]
      BY <1>1, <2>2 DEF Range
    <3>2. i \in 1..Len(s) + 1 /\ Append(s, a)[i] = x
      BY <1>1, <3>1
    <3> QED BY <1>1, <3>2 DEF Range
  <2> QED BY <1>3, <2>1, <2>2
<1> QED BY <1>1, <1>2, <1>3

\* Discover adds a block list and touches none.
LEMMA DiscoverFacts ==
    ASSUME Program(prog), NEW c, CtxOK(c), NEW a \in Addr
    PROVE  LET r == Discover(c, a)
           IN  /\ CtxOK(r) /\ DOMAIN r.blocksOf = DOMAIN c.blocksOf \cup {a}
               /\ \A x \in DOMAIN c.blocksOf : r.blocksOf[x] = c.blocksOf[x]
               /\ r.funcSet = c.funcSet /\ r.referenced = c.referenced
               /\ r.potential = c.potential /\ r.entries = c.entries /\ r.deps = c.deps
<1>1. CASE a \in DOMAIN c.blocksOf
  BY <1>1 DEF Discover
<1>2. CASE a \notin DOMAIN c.blocksOf
  <2> DEFINE B == [x \in DOMAIN c.blocksOf \cup {a} |->
                     IF x = a THEN Walk(c.funcSet, a) ELSE c.blocksOf[x]]
  <2>1. Lists(B) /\ DOMAIN B = DOMAIN c.blocksOf \cup {a}
        /\ \A x \in DOMAIN c.blocksOf : B[x] = c.blocksOf[x]
    <3>1. Walk(c.funcSet, a) \subseteq Addr /\ a \in Walk(c.funcSet, a)
      BY WalkFacts
    <3>2. Lists(c.blocksOf)
      BY DEF CtxOK
    <3> QED BY <1>2, <3>1, <3>2 DEF Lists
  <2> HIDE DEF B
  <2> DEFINE r == Discover(c, a)
  <2>2. /\ Fields(r) /\ r.funcSet = c.funcSet /\ r.referenced = c.referenced
        /\ r.potential = c.potential /\ r.blocksOf = B /\ r.order = Append(c.order, a)
        /\ r.entries = c.entries /\ r.deps = c.deps
    <3>1. r = [c EXCEPT !.blocksOf = B, !.order = Append(@, a)]
      BY <1>2 DEF Discover, B
    <3>2. Fields(c)
      BY DEF CtxOK
    <3> HIDE DEF r
    <3> QED BY <3>1, <3>2 DEF Fields
  <2> HIDE DEF r
  <2>3. Append(c.order, a) \in Seq(Addr) /\ Range(Append(c.order, a)) \subseteq DOMAIN B
    <3>1. c.order \in Seq(Addr) /\ Range(c.order) \subseteq DOMAIN c.blocksOf
      BY DEF CtxOK
    <3> QED BY <2>1, <3>1, AppendRange
  <2>5. CtxOK(r)
    BY <2>1, <2>2, <2>3 DEF CtxOK
  <2> QED BY <2>1, <2>2, <2>5 DEF r
<1> QED BY <1>1, <1>2

\* call_name adds to the functions, the references and what f declares.
LEMMA CallNameFacts ==
    ASSUME NEW c, CtxOK(c), NEW f \in Addr, NEW D \in SUBSET Addr
    PROVE  LET r == CallName(c, f, D)
           IN  /\ CtxOK(r) /\ r.blocksOf = c.blocksOf /\ r.entries = c.entries
               /\ r.funcSet = c.funcSet \cup D
               /\ r.potential = c.potential
               /\ r.referenced = c.referenced \cup D /\ D \subseteq r.deps[f]
<1> DEFINE d == [c.deps EXCEPT ![f] = @ \cup D]
           r == CallName(c, f, D)
<1>1. c.deps \in [Addr -> SUBSET Addr] /\ Fields(c)
  BY DEF CtxOK
<1>2. d \in [Addr -> SUBSET Addr] /\ D \subseteq d[f]
  BY <1>1
<1>3. /\ Fields(r) /\ r.funcSet = c.funcSet \cup D /\ r.referenced = c.referenced \cup D
      /\ r.potential = c.potential /\ r.blocksOf = c.blocksOf /\ r.order = c.order
      /\ r.entries = c.entries /\ r.deps = d
  BY <1>1 DEF CallName, Fields
<1> HIDE DEF d, r
<1>5. CtxOK(r)
  BY <1>2, <1>3 DEF CtxOK
<1> QED BY <1>2, <1>3, <1>5 DEF r

\* const_addr adds to the references and the plausible targets.
LEMMA ConstAddrFacts ==
    ASSUME NEW c, CtxOK(c), NEW f \in Addr, NEW V, NEW R, V \cap R \subseteq Addr
    PROVE  LET r == ConstAddr(c, f, V, R)
           IN  /\ CtxOK(r) /\ r.blocksOf = c.blocksOf /\ r.entries = c.entries
               /\ r.funcSet = c.funcSet
               /\ c.referenced \subseteq r.referenced
               /\ c.potential \subseteq r.potential
<1> DEFINE p == c.potential \cup {v \in (V \cap R) \ c.funcSet : v >= f}
           r == ConstAddr(c, f, V, R)
<1>1. Fields(c)
  BY DEF CtxOK
<1>2. /\ Fields(r) /\ r.funcSet = c.funcSet
      /\ r.referenced = c.referenced \cup (V \cap c.funcSet)
      /\ r.potential = p /\ r.blocksOf = c.blocksOf /\ r.order = c.order
      /\ r.entries = c.entries /\ r.deps = c.deps
  BY <1>1 DEF ConstAddr, Fields
<1>3. p \subseteq Addr /\ c.potential \subseteq p
  BY DEF CtxOK
<1> HIDE DEF p, r
<1>5. CtxOK(r)
  <2>1. c.referenced \cup (V \cap c.funcSet) \subseteq Addr
    BY DEF CtxOK
  <2> QED BY <1>2, <1>3, <2>1 DEF CtxOK
<1> QED BY <1>2, <1>3, <1>5 DEF r

\* scan_function keeps a context one, its targets and its cases.
LEMMA ScanFacts ==
    ASSUME Program(prog), NEW c, CtxOK(c), NEW f \in Addr
    PROVE  /\ CtxOK(ScanFunction(c, f)) /\ c.potential \subseteq ScanFunction(c, f).potential
           /\ ScanFunction(c, f).entries = c.entries
<1> DEFINE d == Discover(c, f)
           blocks == d.blocksOf[f]
           ends == {EndIn(b, blocks) : b \in blocks}
           taken == UNION {Takes(b, EndIn(b, blocks)) : b \in blocks}
           called == UNION {Calls(e) \cup ((Goes(e) \cup Returns(e)) \ blocks) : e \in ends}
           returned == UNION {Returns(e) : e \in ends}
           k == ConstAddr(d, f, taken \cup returned, taken)
<1>1. /\ CtxOK(d) /\ f \in DOMAIN d.blocksOf
      /\ d.potential = c.potential /\ d.entries = c.entries
  BY DiscoverFacts
<1>2. blocks \subseteq Addr
  BY <1>1 DEF CtxOK, Lists
<1> HIDE DEF d
<1>3. ends \subseteq Addr /\ \A b \in blocks : EndIn(b, blocks) \in Addr
  BY <1>2, EndInFacts
<1>4. taken \subseteq Addr
  <2> HIDE DEF blocks
  <2> QED BY <1>2, <1>3, TakesFacts
<1>5. called \subseteq Addr
  <2> HIDE DEF blocks, ends
  <2> QED BY <1>3, GoesFacts
<1> HIDE DEF taken, called, returned
<1>6. CtxOK(k) /\ d.potential \subseteq k.potential /\ k.entries = d.entries
  BY <1>1, <1>4, ConstAddrFacts
<1>7. ScanFunction(c, f) = CallName(k, f, called)
  BY DEF ScanFunction, d, taken, called, returned
<1> HIDE DEF k
<1> QED BY <1>1, <1>5, <1>6, <1>7, CallNameFacts

\* A goto stays among the blocks and a call leaves what is a block of a function alone.
LEMMA MovesFacts ==
    ASSUME Program(prog), NEW blocks \in SUBSET Addr
    PROVE  /\ Moves(blocks) \subseteq {"goto", "call", "dispatch"} \X Addr
           /\ \A m \in Moves(blocks) :
                 /\ m[1] = "goto" => m[2] \in blocks
                 /\ m[1] = "call" => m[2] \notin owned
<1> DEFINE ends == {EndIn(b, blocks) : b \in blocks}
           Out(d) == <<IF d \in owned THEN "dispatch" ELSE "call", d>>
           Go(d) == IF d \in blocks THEN <<"goto", d>> ELSE Out(d)
<1>1. \A e \in ends : e \in Addr /\ Goes(e) \subseteq Addr /\ Calls(e) \subseteq Addr /\ Returns(e) \subseteq Addr
  BY EndInFacts, GoesFacts
<1>2. Moves(blocks) = UNION {{Go(d) : d \in Goes(e) \cup Returns(e)} \cup {Out(d) : d \in Calls(e)} : e \in ends}
  BY DEF Moves
<1> HIDE DEF ends
<1> SUFFICES ASSUME NEW m \in Moves(blocks)
             PROVE  /\ m \in {"goto", "call", "dispatch"} \X Addr
                    /\ m[1] = "goto" => m[2] \in blocks
                    /\ m[1] = "call" => m[2] \notin owned
  OBVIOUS
<1>3. PICK d \in Addr : m = Go(d) \/ m = Out(d)
  <2> HIDE DEF Go, Out
  <2> QED BY <1>1, <1>2
<1>4. (m = <<"goto", d>> /\ d \in blocks) \/ m = <<"dispatch", d>> \/ (m = <<"call", d>> /\ d \notin owned)
  BY <1>3
<1> QED BY <1>4

\* What emitting f makes of a context, and of the one of the process that does.
Grown(c, f, r) ==
    /\ CtxOK(r) /\ DOMAIN r.blocksOf = DOMAIN c.blocksOf \cup {f}
    /\ \A x \in DOMAIN c.blocksOf \ {f} : r.blocksOf[x] = c.blocksOf[x]
    /\ forced[f] \subseteq r.blocksOf[f]
    /\ r.entries = IF r.blocksOf[f] = {f} THEN c.entries
                   ELSE Append(c.entries, <<f, r.blocksOf[f] \ {f}>>)
    /\ c.referenced \subseteq r.referenced
Emission(c, f, r) ==
    /\ Grown(c, f, r)
    /\ f \in DOMAIN c.blocksOf => c.blocksOf[f] \subseteq r.blocksOf[f]
    /\ \A m \in Moves(r.blocksOf[f]) : m[1] = "call" => m[2] \in r.referenced /\ m[2] \in r.deps[f]

\* That is what emit_function makes of a context.
LEMMA EmissionFacts ==
    ASSUME Program(prog), NEW c, CtxOK(c), NEW f \in Addr,
           forced[f] \subseteq Addr, armOwner[f] \subseteq Addr
    PROVE  Emission(c, f, EmitFunction(c, f))
<1> DEFINE d == Discover(c, f)
           blocks == Blocks(d, f)
           taken == UNION {Takes(b, EndIn(b, blocks)) \cup Returns(EndIn(b, blocks)) : b \in blocks}
           entries == IF blocks = {f} THEN d.entries ELSE Append(d.entries, <<f, blocks \ {f}>>)
           B == [d.blocksOf EXCEPT ![f] = blocks]
           called == {m[2] : m \in {x \in Moves(blocks) : x[1] = "call"}}
           e == [d EXCEPT !.blocksOf[f] = blocks,
                          !.entries = IF blocks = {f} THEN @ ELSE Append(@, <<f, blocks \ {f}>>)]
           k == ConstAddr(e, f, taken, taken)
           r == CallName(k, f, called)
<1>1. /\ CtxOK(d) /\ DOMAIN d.blocksOf = DOMAIN c.blocksOf \cup {f}
      /\ \A x \in DOMAIN c.blocksOf : d.blocksOf[x] = c.blocksOf[x]
      /\ d.referenced = c.referenced /\ d.entries = c.entries
  BY DiscoverFacts
<1>2. EmitFunction(c, f) = r
  BY DEF EmitFunction
<1>3. /\ blocks \subseteq Addr /\ f \in blocks /\ forced[f] \subseteq blocks
      /\ d.blocksOf[f] \subseteq blocks
  <2>1. d.blocksOf[f] \subseteq Addr /\ f \in d.blocksOf[f]
    BY <1>1 DEF CtxOK, Lists
  <2> DEFINE old == d.blocksOf[f]
             returns == UNION {Returns(EndIn(b, old)) : b \in old}
  <2>2. returns \subseteq Addr
    <3>1. \A b \in old : EndIn(b, old) \in Addr
      BY <2>1, EndInFacts
    <3> HIDE DEF old
    <3> QED BY <3>1, GoesFacts
  <2>3. blocks = old \cup {x \in returns : x >= Min(old)} \cup forced[f] \cup armOwner[f]
    BY DEF Blocks
  <2> HIDE DEF blocks, returns
  <2> QED BY <2>1, <2>2, <2>3
<1> HIDE DEF d, blocks
<1>4. taken \subseteq Addr
  <2>1. \A b \in blocks : b \in Addr /\ EndIn(b, blocks) \in Addr
    BY <1>3, EndInFacts
  <2> QED BY <2>1, TakesFacts, GoesFacts
<1>5. called \subseteq Addr
  BY <1>3, MovesFacts
<1>6. Lists(B) /\ DOMAIN B = DOMAIN c.blocksOf \cup {f} /\ B[f] = blocks
      /\ \A x \in DOMAIN c.blocksOf \ {f} : B[x] = c.blocksOf[x]
  <2>1. Lists(d.blocksOf)
    BY <1>1 DEF CtxOK
  <2> QED BY <1>1, <1>3, <2>1 DEF Lists
<1>7. entries \in Seq(Addr \X SUBSET Addr)
  <2>1. <<f, blocks \ {f}>> \in Addr \X SUBSET Addr
    BY <1>3
  <2>2. d.entries \in Seq(Addr \X SUBSET Addr)
    BY <1>1 DEF CtxOK
  <2> QED BY <2>1, <2>2
<1>8. entries = IF blocks = {f} THEN c.entries ELSE Append(c.entries, <<f, blocks \ {f}>>)
  BY <1>1
<1>10. /\ Fields(e) /\ e.funcSet = d.funcSet /\ e.referenced = d.referenced
       /\ e.potential = d.potential /\ e.blocksOf = B /\ e.order = d.order
       /\ e.entries = entries /\ e.deps = d.deps
  <2>1. Fields(d)
    BY <1>1 DEF CtxOK
  <2> QED BY <2>1 DEF Fields
<1> HIDE DEF taken, called, entries, B, e
<1>9. CtxOK(e)
  <2>2. d.order \in Seq(Addr) /\ Range(d.order) \subseteq DOMAIN B
    BY <1>1, <1>6 DEF CtxOK
  <2> QED BY <1>1, <1>6, <1>7, <1>10, <2>2 DEF CtxOK
<1>11. CtxOK(k) /\ k.blocksOf = B /\ k.entries = entries /\ c.referenced \subseteq k.referenced
  BY <1>1, <1>4, <1>9, <1>10, ConstAddrFacts
<1> HIDE DEF k
<1>12. /\ CtxOK(r) /\ r.blocksOf = B /\ r.entries = entries
       /\ r.referenced = k.referenced \cup called /\ called \subseteq r.deps[f]
  BY <1>5, <1>11, CallNameFacts
<1> HIDE DEF r
<1>13. \A m \in Moves(B[f]) : m[1] = "call" => m[2] \in called
  BY <1>6 DEF called
<1>14. f \in DOMAIN c.blocksOf => c.blocksOf[f] \subseteq r.blocksOf[f]
  BY <1>1, <1>3, <1>6, <1>12
<1>15. forced[f] \subseteq r.blocksOf[f] /\ c.referenced \subseteq r.referenced
  BY <1>3, <1>6, <1>11, <1>12
<1>16. r.entries = IF r.blocksOf[f] = {f} THEN c.entries
                   ELSE Append(c.entries, <<f, r.blocksOf[f] \ {f}>>)
  BY <1>6, <1>8, <1>12
<1> QED BY <1>2, <1>6, <1>12, <1>13, <1>14, <1>15, <1>16 DEF Emission, Grown

-----------------------------------------------------------------------------
\* The invariant, one conjunct for each part of main().

\* The false starts that reattach_false_starts folds, and those it does not.
Attached == {a \in prog.false : \E f \in DOMAIN prog.cfg \ prog.false : f < a}
Lost(a) == a \in prog.false /\ \A f \in DOMAIN prog.cfg \ prog.false : a <= f

\* The file of a function, written or a stub.
FileOK(b) ==
    /\ b.labels \subseteq Addr /\ b.moves \subseteq {"goto", "call", "dispatch"} \X Addr
    /\ b.deps \subseteq Addr /\ b.host \in 0..N

\* The values of the variables, in a form a step can be followed through.
Typed ==
    /\ Program(prog) /\ procs \in {{}, Jobs} /\ phase \in Phases
    /\ work \in Seq(Addr) /\ funcs \subseteq Addr /\ seen \subseteq Addr
    /\ todo \subseteq Addr /\ owned \subseteq Addr /\ done \subseteq Addr
    /\ forced \in [Addr -> SUBSET Addr] /\ armOwner \in [Addr -> SUBSET Addr]
    /\ CtxOK(ctx) /\ \A w \in DOMAIN wctx : CtxOK(wctx[w])
    /\ DOMAIN files \subseteq done /\ \A f \in DOMAIN files : FileOK(files[f])
    /\ DOMAIN table \subseteq Addr /\ \A a \in DOMAIN table : table[a] \in [fn : Addr, sel : 0..N]

\* Nothing is emitted yet.
Empty == files = <<>> /\ table = <<>> /\ wctx = <<>> /\ ctx.entries = <<>>

\* While closure runs ctx.funcs are the functions of the cache.
Closing ==
    phase = "closure" =>
        Empty /\ funcs = DOMAIN prog.cfg /\ DOMAIN prog.cfg \subseteq DOMAIN ctx.blocksOf

\* No function is handed its own start.
HandedOn == \A f \in Addr : f \notin forced[f]

\* In pass 1 nothing is scanned twice, every false start with a function before it is
\* forced into one, and what must be translated is in todo or among the targets.
Scanning ==
    phase = "scan" =>
        /\ Empty /\ Queue(work) /\ Range(work) \cap seen = {}
        /\ HandedOn /\ UNION {forced[f] : f \in Addr} = Attached
        /\ funcs = DOMAIN prog.cfg \ Attached
        /\ prog.exports \cup ((DOMAIN prog.cfg \cup prog.relocs) \ prog.false) \subseteq todo
        /\ prog.arms \subseteq ctx.potential

\* What has to be emitted or belongs to a function, when pass 2 starts.
Given ==
    /\ HandedOn /\ owned = UNION {forced[f] : f \in Addr} /\ prog.exports \subseteq done
    /\ \A a \in prog.arms \cup prog.relocs : a \in done \/ a \in owned \/ Lost(a)

\* The cases of the functions emitted so far.
EntriesOK ==
    /\ \A i \in DOMAIN ctx.entries :
         \E f \in DOMAIN files : ctx.entries[i] = <<f, ctx.blocksOf[f] \ {f}>>
    /\ \A f \in DOMAIN files :
         /\ f \in DOMAIN ctx.blocksOf /\ forced[f] \subseteq ctx.blocksOf[f]
         /\ \/ ctx.blocksOf[f] = {f}
            \/ \E i \in DOMAIN ctx.entries : ctx.entries[i] = <<f, ctx.blocksOf[f] \ {f}>>

\* A worker knows of the functions still to emit what the parent does, and of the
\* cases of none of them.
Agrees(w) ==
    /\ \A x \in Addr \ DOMAIN files :
         /\ x \in DOMAIN w.blocksOf <=> x \in DOMAIN ctx.blocksOf
         /\ x \in DOMAIN ctx.blocksOf => w.blocksOf[x] = ctx.blocksOf[x]
    /\ \A i \in DOMAIN w.entries : w.entries[i][1] \in DOMAIN files

\* A file as it was written.
Written(f) ==
    /\ files[f].labels = ctx.blocksOf[f] /\ files[f].host = 0
    /\ \A m \in files[f].moves :
         /\ m[1] = "goto" => m[2] \in files[f].labels
         /\ m[1] = "call" => m[2] \in files[f].deps /\ m[2] \notin owned /\ m[2] \in ctx.referenced

\* In pass 2 what was taken up is written or still to write, once.
Emitting ==
    phase = "emit" =>
        /\ table = <<>> /\ Given /\ EntriesOK /\ Queue(work)
        /\ Range(work) \cap DOMAIN files = {} /\ done = DOMAIN files \cup Range(work)
        /\ DOMAIN wctx = procs /\ \A w \in procs : Agrees(wctx[w])
        /\ \A f \in DOMAIN files : Written(f)

\* After the fold a file has the function's blocks or enters one that has them.
Whole(f) ==
    /\ files[f].labels = ctx.blocksOf[f] /\ files[f].host = 0
    /\ \A m \in files[f].moves :
         /\ m[1] = "goto" => m[2] \in files[f].labels
         /\ m[1] = "call" => m[2] \in files[f].deps /\ m[2] \in DOMAIN files
Stubbed(f) ==
    \E h \in DOMAIN files :
        /\ files[f] = Stub(h) /\ files[h].host = 0 /\ files[h].labels = ctx.blocksOf[h]
        /\ ctx.blocksOf[f] \subseteq ctx.blocksOf[h] /\ Cardinality(ctx.blocksOf[h]) > 1
TreeOK ==
    /\ \A f \in DOMAIN files : f \in DOMAIN ctx.blocksOf /\ (Whole(f) \/ Stubbed(f))
    /\ prog.exports \subseteq DOMAIN files

Folded == phase \in {"dispatch", "prune", "done"} => TreeOK
\* What the dispatch table is made of.
Dispatching ==
    phase = "dispatch" => table = <<>> /\ Given /\ EntriesOK /\ DOMAIN files = done

\* A row names a function that is there and a block of it.
RowOK(a) ==
    /\ table[a].fn \in DOMAIN files
    /\ \/ table[a] = [fn |-> a, sel |-> 0]
       \/ table[a].sel = a /\ a \in ctx.blocksOf[table[a].fn] /\ a # table[a].fn
Rowed ==
    phase \in {"prune", "done"} =>
        /\ \A a \in DOMAIN table : RowOK(a)
        /\ \A a \in prog.arms \cup prog.relocs :
             \/ a \in DOMAIN table
             \/ a \in owned /\ \A f \in done : a \notin forced[f]
             \/ Lost(a)

Inv == Typed /\ Closing /\ Scanning /\ Emitting /\ Folded /\ Dispatching /\ Rowed

\* Nothing is in an empty list.
LEMMA EmptyFacts == <<>> \in Seq(Addr) /\ DOMAIN <<>> = {} /\ Range(<<>>) = {}
BY DEF Range

\* The first context of a build.
LEMMA NewCtxFacts ==
    ASSUME Program(prog)
    PROVE  CtxOK(NewCtx) /\ NewCtx.entries = <<>> /\ NewCtx.blocksOf = prog.cfg
<1> DEFINE s == Sorted(DOMAIN prog.cfg)
<1>1. DOMAIN prog.cfg \subseteq Addr /\ Lists(prog.cfg)
  BY DEF Program, Lists
<1>2. s \in Seq(Addr) /\ Range(s) = DOMAIN prog.cfg
  BY <1>1, SortedFacts DEF Queue
<1>3. NewCtx = [funcSet |-> DOMAIN prog.cfg, referenced |-> {}, potential |-> {},
                blocksOf |-> prog.cfg, order |-> s,
                entries |-> <<>>, deps |-> [a \in Addr |-> {}]]
  BY DEF NewCtx
<1> HIDE DEF s
<1>4. Fields(NewCtx)
  BY <1>3 DEF Fields
<1>5. <<>> \in Seq(Addr \X SUBSET Addr) /\ [a \in Addr |-> {}] \in [Addr -> SUBSET Addr]
  OBVIOUS
<1> QED BY <1>1, <1>2, <1>3, <1>4, <1>5 DEF CtxOK

\* The invariant holds at the start.
LEMMA InitInv == Init => Inv
<1> SUFFICES ASSUME Init PROVE Inv
  OBVIOUS
<1>1. Program(prog) /\ prog.exports \subseteq Addr /\ DOMAIN prog.cfg \subseteq Addr
  <2>1. Program(prog)
    BY Elf2cAssumption DEF Init
  <2> QED BY <2>1 DEF Program
<1>2. CtxOK(ctx) /\ ctx.entries = <<>> /\ ctx.blocksOf = prog.cfg
  BY <1>1, NewCtxFacts DEF Init
<1>3. work \in Seq(Addr)
  BY <1>1, SortedFacts DEF Init, Queue
<1>4. /\ phase = "closure" /\ files = <<>> /\ table = <<>> /\ wctx = <<>>
      /\ procs = {} /\ seen = {} /\ todo = {} /\ owned = {} /\ done = {}
      /\ funcs = DOMAIN prog.cfg
      /\ forced \in [Addr -> SUBSET Addr] /\ armOwner \in [Addr -> SUBSET Addr]
  BY DEF Init
<1>5. Typed
  BY <1>1, <1>2, <1>3, <1>4, EmptyFacts DEF Typed, Phases
<1>6. Closing
  BY <1>2, <1>4 DEF Closing, Empty
<1> QED BY <1>4, <1>5, <1>6 DEF Inv, Scanning, Emitting, Folded, Dispatching, Rowed

\* Lists of addresses one after the other are a list of addresses.
LEMMA FlattenFacts ==
    ASSUME NEW s \in Seq(Seq(Addr)) PROVE FlattenSeq(s) \in Seq(Addr)
<1> DEFINE len == Len(s)
           Next1(h, i) == IF i = 1 THEN s[i] ELSE h[i - 1] \o s[i]
           T == {n \in Nat : n \in 1..len /\ ~ \E h : \A i \in 1..n : h[i] \in Seq(Addr) /\ h[i] = Next1(h, i)}
           Eqn(h) == h = [i \in 1..len |-> Next1(h, i)]
<1>1. len \in Nat /\ \A i \in 1..len : s[i] \in Seq(Addr)
  OBVIOUS
<1>2. CASE len = 0
  BY <1>2 DEF FlattenSeq
<1>4. \A p, q \in Seq(Addr) : p \o q \in Seq(Addr)
  OBVIOUS
<1>3. CASE len # 0
  <2>1. T = {}
    <3> SUFFICES ASSUME T # {} PROVE FALSE
      OBVIOUS
    <3>1. PICK m \in T : \A k \in T : m <= k
      <4>1. T \in SUBSET Nat
        OBVIOUS
      <4> HIDE DEF T
      <4> QED BY <4>1, LeastNumber
    <3>2. CASE m = 1
      <4> DEFINE h == [i \in 1..1 |-> s[1]]
      <4>1. \A i \in 1..1 : h[i] \in Seq(Addr) /\ h[i] = Next1(h, i)
        BY <1>1, <1>3
      <4> QED BY <3>1, <3>2, <4>1
    <3>3. CASE m # 1
      <4>1. m \in Nat /\ m - 1 \in Nat /\ m - 1 \in 1..len /\ ~(m <= m - 1)
        BY <1>1, <3>1, <3>3
      <4>2. PICK f : \A i \in 1..m - 1 : f[i] \in Seq(Addr) /\ f[i] = Next1(f, i)
        BY <3>1, <4>1
      <4> DEFINE x == f[m - 1] \o s[m]
                 h == [i \in 1..m |-> IF i = m THEN x ELSE f[i]]
      <4>3. x \in Seq(Addr)
        <5>1. m - 1 \in 1..m - 1 /\ m \in 1..len
          BY <3>1, <3>3, <4>1
        <5>2. f[m - 1] \in Seq(Addr) /\ s[m] \in Seq(Addr)
          BY <1>1, <4>2, <5>1
        <5> QED BY <1>4, <5>2
      <4>4. h[m] = x /\ \A i \in 1..m - 1 : h[i] = f[i]
        <5> HIDE DEF x
        <5> QED BY <4>1
      <4> HIDE DEF h, x
      <4>5. ASSUME NEW i \in 1..m PROVE h[i] \in Seq(Addr) /\ h[i] = Next1(h, i)
        <5>1. CASE i = m
          <6>1. m - 1 \in 1..m - 1
            BY <3>3, <4>1
          <6> QED BY <3>3, <4>3, <4>4, <5>1, <6>1 DEF x
        <5>2. CASE i # m
          <6>1. i \in 1..m - 1 /\ (i # 1 => i - 1 \in 1..m - 1)
            BY <4>1, <5>2
          <6> QED BY <4>2, <4>4, <6>1
        <5> QED BY <5>1, <5>2
      <4> HIDE DEF Next1
      <4> QED BY <3>1, <4>5
    <3> QED BY <3>2, <3>3
  <2>2. PICK h : \A i \in 1..len : h[i] \in Seq(Addr) /\ h[i] = Next1(h, i)
    <3>1. len \in 1..len
      BY <1>1, <1>3
    <3> HIDE DEF Next1, len
    <3> QED BY <1>1, <2>1, <3>1
  <2> DEFINE g == [i \in 1..len |-> h[i]]
  <2>3. Eqn(g)
    <3>1. \A i \in 1..len : g[i] = Next1(g, i)
      <4> SUFFICES ASSUME NEW i \in 1..len PROVE g[i] = Next1(g, i)
        OBVIOUS
      <4>1. i # 1 => i - 1 \in 1..len
        BY <1>1
      <4> QED BY <2>2, <4>1
    <3> HIDE DEF Next1
    <3> QED BY <3>1
  <2> HIDE DEF g
  <2>4. FlattenSeq(s) = (CHOOSE r : Eqn(r))[len]
    BY <1>3 DEF FlattenSeq
  <2>5. PICK r : Eqn(r) /\ FlattenSeq(s) = r[len]
    BY <2>3, <2>4
  <2> DEFINE U == {i \in 1..len : r[i] \notin Seq(Addr)}
  <2>6. U = {}
    <3> SUFFICES ASSUME U # {} PROVE FALSE
      OBVIOUS
    <3>1. PICK m \in U : \A k \in U : m <= k
      <4>1. U \in SUBSET Nat
        OBVIOUS
      <4> HIDE DEF U
      <4> QED BY <4>1, LeastNumber
    <3>2. r[m] = Next1(r, m)
      <4> HIDE DEF Next1
      <4> QED BY <2>5, <3>1
    <3>3. CASE m = 1
      BY <1>1, <3>1, <3>2, <3>3
    <3>4. CASE m # 1
      <4>1. m - 1 \in 1..len /\ ~(m <= m - 1)
        BY <1>1, <3>1, <3>4
      <4>2. r[m - 1] \in Seq(Addr) /\ s[m] \in Seq(Addr)
        BY <1>1, <3>1, <4>1
      <4>3. r[m - 1] \o s[m] \in Seq(Addr) /\ r[m] = r[m - 1] \o s[m]
        BY <1>4, <3>2, <3>4, <4>2
      <4> QED BY <3>1, <4>3
    <3> QED BY <3>3, <3>4
  <2>7. len \in 1..len
    BY <1>1, <1>3
  <2>8. r[len] \in Seq(Addr)
    <3> HIDE DEF Eqn, len
    <3> QED BY <2>6, <2>7
  <2> QED BY <2>5, <2>8
<1> QED BY <1>2, <1>3

-----------------------------------------------------------------------------
\* Its steps.

\* What closure pushes is a list of addresses.
LEMMA ClosureWork ==
    ASSUME Inv, Closure PROVE work' \in Seq(Addr) /\ seen' \subseteq Addr
<1> DEFINE a == Last(work)
           c == Discover(ctx, a)
           blocks == c.blocksOf[a]
           Outside(d) == IF d \in blocks THEN <<>> ELSE <<d>>
           To(e) == CASE Code(e).op = "call" -> <<Code(e).to>>
                      [] Code(e).op = "branch" -> Outside(e + 1) \o Outside(Code(e).to)
                      [] Code(e).op = "jump" -> Outside(Code(e).to)
                      [] Code(e).op \in {"plain", "takes"} -> Outside(e + 1)
                      [] OTHER -> <<>>
           Pushed(b) == To(EndIn(b, blocks))
           order == Sorted(blocks)
           pushed == [i \in DOMAIN order |-> Pushed(order[i])]
<1>1. Program(prog) /\ CtxOK(ctx) /\ work \in Seq(Addr) /\ work # <<>> /\ seen \subseteq Addr
  BY DEF Inv, Typed, Closure
<1>2. a \in Addr /\ Front(work) \in Seq(Addr)
  BY <1>1 DEF Last, Front
<1>3. blocks \subseteq Addr
  <2>1. CtxOK(c) /\ a \in DOMAIN c.blocksOf
    BY <1>1, <1>2, DiscoverFacts
  <2> QED BY <2>1 DEF CtxOK, Lists
<1> HIDE DEF a, c, blocks
<1>4. \A e \in Addr : To(e) \in Seq(Addr)
  <2> SUFFICES ASSUME NEW e \in Addr PROVE To(e) \in Seq(Addr)
    OBVIOUS
  <2>1. /\ Code(e).op \in {"plain", "takes", "branch", "jump", "call", "switch", "ret"}
        /\ Code(e).op \in {"takes", "branch", "jump", "call"} => Code(e).to \in Addr
        /\ Code(e).op \in {"branch", "plain", "takes", "call"} => e + 1 \in Addr
    BY <1>1, CodeFacts
  <2>2. \A d \in Addr : Outside(d) \in Seq(Addr) /\ <<d>> \in Seq(Addr)
    OBVIOUS
  <2>3. \A p, q \in Seq(Addr) : p \o q \in Seq(Addr)
    OBVIOUS
  <2> HIDE DEF Outside
  <2>4. CASE Code(e).op = "call"
    BY <2>1, <2>2, <2>4
  <2>5. CASE Code(e).op = "branch"
    <3>1. Outside(e + 1) \in Seq(Addr) /\ Outside(Code(e).to) \in Seq(Addr)
      BY <2>1, <2>2, <2>5
    <3>2. To(e) = Outside(e + 1) \o Outside(Code(e).to)
      BY <2>5
    <3> HIDE DEF To
    <3> QED BY <2>3, <3>1, <3>2
  <2>6. CASE Code(e).op = "jump"
    BY <2>1, <2>2, <2>6
  <2>7. CASE Code(e).op \in {"plain", "takes"}
    BY <2>1, <2>2, <2>7
  <2>8. CASE Code(e).op \in {"switch", "ret"}
    BY <2>8
  <2> QED BY <2>1, <2>4, <2>5, <2>6, <2>7, <2>8
<1>5. order \in Seq(Addr) /\ Range(order) = blocks
  BY <1>3, SortedFacts DEF Queue
<1>6. work' = Front(work) \/ work' = Front(work) \o FlattenSeq(pushed)
  BY DEF Closure, a, c, blocks
<1> HIDE DEF To, order
<1>7. pushed \in Seq(Seq(Addr))
  <2>1. \A i \in 1..Len(order) : order[i] \in Addr /\ Pushed(order[i]) \in Seq(Addr)
    <3> SUFFICES ASSUME NEW i \in 1..Len(order)
                 PROVE  order[i] \in Addr /\ Pushed(order[i]) \in Seq(Addr)
      OBVIOUS
    <3>1. order[i] \in Addr
      BY <1>5
    <3> QED BY <1>1, <1>4, <3>1, EndInFacts
  <2>2. pushed \in [1..Len(order) -> Seq(Addr)]
    BY <1>5, <2>1
  <2>3. Len(order) \in Nat
    BY <1>5
  <2> HIDE DEF pushed
  <2>4. \A n \in Nat : \A f \in [1..n -> Seq(Addr)] : f \in Seq(Seq(Addr))
    OBVIOUS
  <2> QED BY <2>2, <2>3, <2>4
<1> HIDE DEF pushed
<1>8. FlattenSeq(pushed) \in Seq(Addr)
  BY <1>7, FlattenFacts
<1>9. work' \in Seq(Addr)
  <2>1. \A p, q \in Seq(Addr) : p \o q \in Seq(Addr)
    OBVIOUS
  <2>2. Front(work) \o FlattenSeq(pushed) \in Seq(Addr)
    BY <1>2, <1>8, <2>1
  <2>3. CASE work' = Front(work)
    BY <1>2, <2>3
  <2>4. CASE work' = Front(work) \o FlattenSeq(pushed)
    BY <2>2, <2>4
  <2> QED BY <1>6, <2>3, <2>4
<1>10. seen' \subseteq Addr
  <2>1. seen' = seen \/ seen' = seen \cup {a}
    BY DEF Closure, a
  <2>2. CASE seen' = seen
    BY <1>1, <2>2
  <2>3. CASE seen' = seen \cup {a}
    BY <1>1, <1>2, <2>3
  <2> QED BY <2>1, <2>2, <2>3
<1> QED BY <1>9, <1>10

\* Every step keeps the invariant.  closure: it adds block lists.
LEMMA ClosureStep == ASSUME Inv, Closure PROVE Inv'
<1>1. /\ phase = "closure" /\ phase' = "closure"
      /\ UNCHANGED <<prog, procs, wctx, funcs, todo, forced, owned, armOwner, done, files, table>>
  BY DEF Closure
<1>2. CtxOK(ctx') /\ ctx'.entries = ctx.entries /\ DOMAIN ctx.blocksOf \subseteq DOMAIN ctx'.blocksOf
  <2>1. ctx' = ctx \/ ctx' = Discover(ctx, Last(work))
    BY DEF Closure
  <2>2. Last(work) \in Addr
    <3>1. work \in Seq(Addr) /\ work # <<>>
      BY DEF Inv, Typed, Closure
    <3> QED BY <3>1 DEF Last
  <2>3. Program(prog) /\ CtxOK(ctx)
    BY DEF Inv, Typed
  <2> QED BY <2>1, <2>2, <2>3, DiscoverFacts
<1>3. Typed'
  BY <1>1, <1>2, ClosureWork DEF Inv, Typed
<1>4. Closing'
  BY <1>1, <1>2 DEF Inv, Closing, Empty
<1> QED BY <1>1, <1>3, <1>4 DEF Inv, Scanning, Emitting, Folded, Dispatching, Rowed

\* The analyses: the attached false starts are those with a function before them, and
\* each goes to another function.
LEMMA AnalyseStep == ASSUME Inv, Analyse PROVE Inv'
<1> DEFINE real == DOMAIN prog.cfg \ prog.false
           below(a) == {f \in real : f < a}
           attached == {a \in prog.false : below(a) # {}}
           folded == [f \in Addr |-> {a \in attached : Max(below(a)) = f}]
           all == (DOMAIN prog.cfg \cup prog.exports \cup prog.relocs \cup seen \cup Missed)
                    \ prog.false
           B == [f \in DOMAIN ctx.blocksOf |-> ctx.blocksOf[f] \cup UNION {ctx.blocksOf[a] : a \in folded[f]}]
<1>1. /\ phase = "closure" /\ phase' = "scan" /\ work = <<>> /\ seen' = {}
      /\ UNCHANGED <<prog, procs, wctx, owned, armOwner, done, files, table>>
      /\ funcs' = funcs \ attached /\ forced' = folded /\ todo' = all /\ work' = Sorted(all)
      /\ ctx' = [ctx EXCEPT !.potential = @ \cup prog.arms, !.blocksOf = B,
                            !.funcSet = (@ \cup all) \ prog.false]
  BY DEF Analyse
<1>2. /\ Typed /\ Empty /\ funcs = DOMAIN prog.cfg /\ DOMAIN prog.cfg \subseteq DOMAIN ctx.blocksOf
  BY <1>1 DEF Inv, Closing
<1>3. /\ prog.arms \subseteq Addr /\ prog.relocs \subseteq Addr /\ DOMAIN prog.cfg \subseteq Addr
      /\ prog.false \subseteq DOMAIN prog.cfg /\ prog.exports \subseteq DOMAIN prog.cfg \ prog.false
      /\ seen \subseteq Addr
  BY <1>2 DEF Typed, Program
<1>4. attached = Attached /\ attached \subseteq prog.false
  BY DEF Attached
<1>5. ASSUME NEW a \in attached
      PROVE  Max(below(a)) \in Addr /\ Max(below(a)) < a
  <2>1. below(a) \in SUBSET Addr /\ below(a) # {}
    BY <1>3, <1>5
  <2>2. Max(below(a)) \in below(a)
    <3> HIDE DEF below
    <3> QED BY <2>1, MaxFacts
  <2> QED BY <1>3, <2>2
<1>6. /\ folded \in [Addr -> SUBSET Addr] /\ UNION {folded[f] : f \in Addr} = attached
      /\ \A f \in Addr : f \notin folded[f] /\ folded[f] \subseteq attached
  <2>1. \A f \in Addr : folded[f] \subseteq attached /\ folded[f] \subseteq Addr
    <3> HIDE DEF below
    <3> QED BY <1>3, <1>4
  <2>2. ASSUME NEW f \in Addr, f \in folded[f] PROVE FALSE
    <3>1. f \in attached /\ Max(below(f)) = f
      BY <2>2
    <3>2. f < f
      <4> HIDE DEF below, attached
      <4> QED BY <1>5, <3>1
    <3> QED BY <3>2, AddrFacts
  <2>3. ASSUME NEW a \in attached PROVE a \in UNION {folded[f] : f \in Addr}
    <3>1. Max(below(a)) \in Addr
      BY <1>5
    <3>2. a \in folded[Max(below(a))]
      <4> HIDE DEF below, attached
      <4> QED BY <3>1
    <3> HIDE DEF folded
    <3> QED BY <3>1, <3>2
  <2>4. folded \in [Addr -> SUBSET Addr]
    BY <2>1
  <2> HIDE DEF folded, attached
  <2> QED BY <2>1, <2>2, <2>3, <2>4
<1> HIDE DEF folded, below
<1>7. all \in SUBSET Addr /\ prog.exports \cup ((DOMAIN prog.cfg \cup prog.relocs) \ prog.false) \subseteq all
  BY <1>3 DEF Missed
<1>8. Queue(Sorted(all)) /\ Sorted(all) \in Seq(Addr)
  <2> HIDE DEF all
  <2> QED BY <1>7, SortedFacts DEF Queue
<1>9. Lists(B) /\ DOMAIN B = DOMAIN ctx.blocksOf
  <2>1. Lists(ctx.blocksOf)
    BY <1>2 DEF Typed, CtxOK
  <2>2. DOMAIN ctx.blocksOf \subseteq Addr
    BY <2>1 DEF Lists
  <2>3. \A f \in DOMAIN ctx.blocksOf : \A a \in folded[f] : a \in DOMAIN ctx.blocksOf
    <3> HIDE DEF attached
    <3> QED BY <1>2, <1>3, <1>4, <1>6, <2>2
  <2> QED BY <2>1, <2>3 DEF Lists
<1> HIDE DEF all, attached, B
<1>10. /\ Fields(ctx') /\ ctx'.potential = ctx.potential \cup prog.arms /\ ctx'.blocksOf = B
       /\ ctx'.funcSet = (ctx.funcSet \cup all) \ prog.false
       /\ ctx'.referenced = ctx.referenced /\ ctx'.order = ctx.order
       /\ ctx'.entries = ctx.entries /\ ctx'.deps = ctx.deps
  <2>1. Fields(ctx)
    BY <1>2 DEF Typed, CtxOK
  <2> QED BY <1>1, <2>1 DEF Fields
<1>11. CtxOK(ctx')
  <2>1. /\ ctx.funcSet \subseteq Addr /\ ctx.referenced \subseteq Addr /\ ctx.potential \subseteq Addr
        /\ ctx.order \in Seq(Addr) /\ Range(ctx.order) \subseteq DOMAIN ctx.blocksOf
        /\ ctx.entries \in Seq(Addr \X SUBSET Addr) /\ ctx.deps \in [Addr -> SUBSET Addr]
    BY <1>2 DEF Typed, CtxOK
  <2>2. ctx'.funcSet \subseteq Addr /\ ctx'.potential \subseteq Addr
    BY <1>3, <1>7, <1>10, <2>1
  <2> QED BY <1>9, <1>10, <2>1, <2>2 DEF CtxOK
<1>12. Typed'
  <2>1. Program(prog)' /\ procs' \in {{}, Jobs} /\ phase' \in Phases
    BY <1>1, <1>2 DEF Typed, Phases, Program
  <2>2. funcs' \subseteq Addr /\ seen' \subseteq Addr /\ todo' \subseteq Addr /\ work' \in Seq(Addr)
    BY <1>1, <1>2, <1>3, <1>7, <1>8
  <2> QED BY <1>1, <1>2, <1>6, <1>11, <2>1, <2>2 DEF Typed
<1>13. Scanning'
  <2>1. Empty'
    BY <1>1, <1>2, <1>10 DEF Empty
  <2>2. Queue(work)' /\ (Range(work) \cap seen)' = {}
    BY <1>1, <1>8 DEF Queue
  <2>3. HandedOn' /\ (UNION {forced[f] : f \in Addr} = Attached)'
    BY <1>1, <1>4, <1>6 DEF HandedOn, Attached
  <2>4. (funcs = DOMAIN prog.cfg \ Attached)'
    BY <1>1, <1>2, <1>4 DEF Attached
  <2>5. (prog.arms \subseteq ctx.potential)'
    BY <1>1, <1>10
  <2> QED BY <1>1, <1>7, <2>1, <2>2, <2>3, <2>4, <2>5 DEF Scanning
<1> QED BY <1>1, <1>12, <1>13 DEF Inv, Closing, Emitting, Folded, Dispatching, Rowed

\* Pass 1: a round is of what was referenced and not scanned.
LEMMA ScanStep == ASSUME Inv, Scan PROVE Inv'
<1> DEFINE a == Head(work)
<1>1. /\ phase = "scan" /\ phase' = "scan" /\ work # <<>> /\ seen' = seen \cup {a}
      /\ UNCHANGED <<prog, procs, wctx, funcs, todo, forced, owned, armOwner, done, files, table>>
      /\ ctx' = ScanFunction(ctx, a)
      /\ work' = IF Tail(work) # <<>> THEN Tail(work) ELSE Sorted(ctx'.referenced \ seen')
  BY DEF Scan
<1>2. Typed /\ Scanning
  BY DEF Inv
<1>3. Queue(work) /\ Range(work) \cap seen = {} /\ Empty
  BY <1>1, <1>2 DEF Scanning
<1>4. /\ Queue(Tail(work)) /\ a \in Addr /\ a \in Range(work)
      /\ Range(Tail(work)) = Range(work) \ {a}
  BY <1>1, <1>3, TailFacts
<1>5. CtxOK(ctx') /\ ctx.potential \subseteq ctx'.potential /\ ctx'.entries = ctx.entries
  <2>1. Program(prog) /\ CtxOK(ctx)
    BY <1>2 DEF Typed
  <2> QED BY <1>1, <1>4, <2>1, ScanFacts
<1>7. Queue(work') /\ Range(work') \cap seen' = {}
  <2>1. CASE Tail(work) # <<>>
    BY <1>1, <1>3, <1>4, <2>1
  <2>2. CASE Tail(work) = <<>>
    <3>1. ctx'.referenced \ seen' \in SUBSET Addr
      BY <1>5 DEF CtxOK
    <3>2. Queue(Sorted(ctx'.referenced \ seen')) /\ Range(Sorted(ctx'.referenced \ seen')) = ctx'.referenced \ seen'
      BY <3>1, SortedFacts
    <3> QED BY <1>1, <2>2, <3>2
  <2> QED BY <2>1, <2>2
<1>8. Typed'
  <2>1. seen' \subseteq Addr /\ work' \in Seq(Addr)
    BY <1>1, <1>2, <1>4, <1>7 DEF Typed, Queue
  <2> QED BY <1>1, <1>2, <1>5, <2>1 DEF Typed
<1>9. Scanning'
  BY <1>1, <1>2, <1>5, <1>7 DEF Scanning, Empty, HandedOn, Attached
<1> QED BY <1>1, <1>8, <1>9 DEF Inv, Closing, Emitting, Folded, Dispatching, Rowed

\* An owner is another function, and an arm in no function's blocks has none.
LEMMA OwnerFacts ==
    ASSUME Typed, NEW a
    PROVE  /\ Owner(a) # 0 => Owner(a) \in Addr /\ Owner(a) # a
           /\ Owner(a) = 0 /\ a \notin funcs => \A f \in funcs : a \notin prog.cfg[f]
<1>1. funcs \subseteq Addr /\ Addr \subseteq Nat /\ 0 \notin Addr
  BY AddrFacts DEF Typed
<1>2. ctx.order \in Seq(Addr)
  BY DEF Typed, CtxOK
<1>3. ContainedIn(a) \in SUBSET Nat /\ Keepers(a) \in SUBSET Nat
  <2>1. DOMAIN ctx.order \subseteq Nat
    BY <1>2
  <2>2. ContainedIn(a) \subseteq funcs
    BY DEF ContainedIn
  <2>3. Keepers(a) \subseteq DOMAIN ctx.order
    BY DEF Keepers
  <2> QED BY <1>1, <2>1, <2>2, <2>3
<1>4. CASE ContainedIn(a) # {}
  <2>1. Min(ContainedIn(a)) \in ContainedIn(a)
    BY <1>3, <1>4, MinFacts
  <2>2. Owner(a) = Min(ContainedIn(a))
    BY <1>4 DEF Owner
  <2> QED BY <1>1, <2>1, <2>2 DEF ContainedIn
<1>5. CASE ContainedIn(a) = {} /\ Keepers(a) # {}
  <2>1. Min(Keepers(a)) \in Keepers(a)
    BY <1>3, <1>5, MinFacts
  <2>2. Owner(a) = ctx.order[Min(Keepers(a))]
    BY <1>5 DEF Owner
  <2>3. Min(Keepers(a)) \in DOMAIN ctx.order /\ ctx.order[Min(Keepers(a))] # a
    BY <2>1 DEF Keepers
  <2>4. ctx.order[Min(Keepers(a))] \in Addr
    <3> HIDE DEF Keepers
    <3> QED BY <1>2, <2>3
  <2> QED BY <1>1, <2>2, <2>3, <2>4
<1>6. CASE ContainedIn(a) = {} /\ Keepers(a) = {}
  <2>1. Owner(a) = 0
    BY <1>6 DEF Owner
  <2> QED BY <1>6, <2>1 DEF ContainedIn
<1> QED BY <1>4, <1>5, <1>6

\* Between the passes: what is not in the batch was handed over, or is a false start
\* that was not attached.
LEMMA HandOverStep == ASSUME Inv, HandOver PROVE Inv'
<1> DEFINE c == [ctx EXCEPT !.potential = @ \cup prog.relocs]
           handed == {a \in (c.potential \cup seen) \ funcs : Owner(a) # 0}
           given == [f \in Addr |-> forced[f] \cup {a \in handed : Owner(a) = f}]
           taken == UNION {given[f] : f \in Addr}
           batch == (todo \cup Orphans \cup c.referenced) \ taken
<1>1. /\ phase = "scan" /\ phase' = "emit" /\ work = <<>>
      /\ ctx' = c /\ forced' = given /\ owned' = taken /\ todo' = batch /\ done' = batch
      /\ work' = Sorted(batch) /\ armOwner' = ArmOwner(c) /\ wctx' = [w \in procs |-> c]
      /\ UNCHANGED <<prog, procs, funcs, seen, files, table, serial>>
  BY DEF HandOver
<1>2. Typed /\ Scanning
  BY DEF Inv
<1>3. /\ Empty /\ HandedOn /\ UNION {forced[f] : f \in Addr} = Attached
      /\ funcs = DOMAIN prog.cfg \ Attached
      /\ prog.exports \cup ((DOMAIN prog.cfg \cup prog.relocs) \ prog.false) \subseteq todo
      /\ prog.arms \subseteq ctx.potential
  BY <1>1, <1>2 DEF Scanning
<1>4. /\ prog.arms \subseteq Addr /\ prog.relocs \subseteq Addr
      /\ prog.false \subseteq DOMAIN prog.cfg /\ prog.exports \subseteq DOMAIN prog.cfg \ prog.false
      /\ seen \subseteq Addr /\ todo \subseteq Addr /\ forced \in [Addr -> SUBSET Addr]
  BY <1>2 DEF Typed, Program
<1>5. /\ c.potential = ctx.potential \cup prog.relocs /\ c.referenced = ctx.referenced
      /\ c.funcSet = ctx.funcSet /\ c.blocksOf = ctx.blocksOf
      /\ c.entries = ctx.entries /\ c.order = ctx.order /\ c.deps = ctx.deps /\ Fields(c)
  <2>1. Fields(ctx)
    BY <1>2 DEF Typed, CtxOK
  <2> QED BY <2>1 DEF Fields
<1> HIDE DEF c
<1>6. CtxOK(c)
  BY <1>2, <1>4, <1>5 DEF Typed, CtxOK
<1>7. /\ c.entries = <<>> /\ c.potential \subseteq Addr /\ c.referenced \subseteq Addr
  BY <1>3, <1>5, <1>6 DEF CtxOK, Empty
<1>8. /\ given \in [Addr -> SUBSET Addr] /\ \A f \in Addr : f \notin given[f]
      /\ \A f \in Addr : forced[f] \subseteq given[f] /\ given[f] \subseteq forced[f] \cup handed
  <2>1. handed \subseteq Addr
    BY <1>4, <1>7
  <2>2. \A f \in Addr : f \notin forced[f]
    BY <1>3 DEF HandedOn
  <2>3. \A a \in handed : Owner(a) # a
    BY <1>2, OwnerFacts
  <2> HIDE DEF handed
  <2> QED BY <1>4, <2>1, <2>2, <2>3
<1>9. \A a \in handed : a \in taken
  <2> SUFFICES ASSUME NEW a \in handed PROVE a \in taken
    OBVIOUS
  <2>1. Owner(a) \in Addr
    BY <1>2, OwnerFacts
  <2>2. a \in given[Owner(a)]
    <3> HIDE DEF handed
    <3> QED BY <2>1
  <2> HIDE DEF given, handed
  <2> QED BY <2>1, <2>2
<1>10. taken \subseteq Attached \cup handed /\ Attached \subseteq taken /\ taken \subseteq Addr
  <2>1. taken \subseteq Attached \cup handed /\ taken \subseteq Addr
    <3> HIDE DEF given, handed
    <3> QED BY <1>3, <1>8
  <2>2. Attached \subseteq taken
    <3> HIDE DEF given, handed
    <3> QED BY <1>3, <1>8
  <2> QED BY <2>1, <2>2
<1>11. \A a \in handed : a \notin funcs
  OBVIOUS
<1>12. \A a \in (c.potential \cup seen) \ funcs : a \in handed \/ Owner(a) = 0
  OBVIOUS
<1> HIDE DEF given, handed, taken
<1>13. batch \in SUBSET Addr
  BY <1>4, <1>7 DEF Orphans
<1>14. /\ prog.exports \subseteq batch
       /\ \A a \in prog.arms \cup prog.relocs : a \in batch \/ a \in taken \/ Lost(a)
  <2>1. \A a \in DOMAIN prog.cfg \ prog.false : a \notin Attached /\ a \in funcs
    BY <1>3, <1>4 DEF Attached
  <2>2. prog.exports \subseteq batch
    BY <1>3, <1>4, <1>10, <1>11, <2>1
  <2>3. ASSUME NEW a \in prog.arms \cup prog.relocs, a \notin taken, a \in prog.false
        PROVE  Lost(a)
    <3>1. a \notin Attached
      BY <1>10, <2>3
    <3>2. \A f \in DOMAIN prog.cfg \ prog.false : ~(f < a)
      BY <2>3, <3>1 DEF Attached
    <3>3. DOMAIN prog.cfg \subseteq Nat /\ a \in Nat
      BY <1>2, <1>4, AddrFacts DEF Typed, Program
    <3> QED BY <2>3, <3>2, <3>3 DEF Lost
  <2>4. ASSUME NEW a \in prog.relocs, a \notin taken, a \notin prog.false PROVE a \in batch
    BY <1>3, <2>4
  <2>5. ASSUME NEW a \in prog.arms, a \notin taken, a \notin prog.false PROVE a \in batch
    <3>1. CASE a \in DOMAIN prog.cfg
      BY <1>3, <2>5, <3>1
    <3>2. CASE a \notin DOMAIN prog.cfg
      <4>1. a \notin funcs /\ a \in c.potential
        BY <1>3, <1>5, <3>2
      <4>2. Owner(a) = 0
        BY <1>9, <1>12, <2>5, <4>1
      <4>3. a \in Orphans
        BY <1>2, <2>5, <4>1, <4>2, OwnerFacts DEF Orphans
      <4> QED BY <2>5, <4>3
    <3> QED BY <3>1, <3>2
  <2> HIDE DEF batch
  <2> QED BY <2>2, <2>3, <2>4, <2>5
<1> HIDE DEF batch
<1>15. Queue(Sorted(batch)) /\ Range(Sorted(batch)) = batch /\ Sorted(batch) \in Seq(Addr)
  BY <1>13, SortedFacts DEF Queue
<1>16. ArmOwner(c) \in [Addr -> SUBSET Addr]
  BY <1>7 DEF ArmOwner
<1>17. DOMAIN files = {} /\ DOMAIN table = {} /\ DOMAIN c.entries = {}
  BY <1>3, <1>7, EmptyFacts DEF Empty
<1>18. DOMAIN wctx' = procs /\ \A w \in procs : wctx'[w] = c
  BY <1>1
<1>19. Typed'
  <2>1. Program(prog)' /\ procs' \in {{}, Jobs} /\ phase' \in Phases
    BY <1>1, <1>2 DEF Typed, Phases, Program
  <2>2. CtxOK(ctx)' /\ (\A w \in DOMAIN wctx : CtxOK(wctx[w]))'
    BY <1>1, <1>6, <1>18
  <2>3. funcs' \subseteq Addr /\ seen' \subseteq Addr
    BY <1>1, <1>2 DEF Typed
  <2> QED BY <1>1, <1>8, <1>10, <1>13, <1>15, <1>16, <1>17, <2>1, <2>2, <2>3 DEF Typed
<1>20. Given'
  <2>1. HandedOn'
    BY <1>1, <1>8 DEF HandedOn
  <2>2. owned' = UNION {forced'[f] : f \in Addr}
    BY <1>1 DEF taken
  <2>3. prog'.exports \subseteq done'
    BY <1>1, <1>14
  <2>4. (\A a \in prog.arms \cup prog.relocs : a \in done \/ a \in owned \/ Lost(a))'
    BY <1>1, <1>14 DEF Lost
  <2> QED BY <2>1, <2>2, <2>3, <2>4 DEF Given
<1>21. EntriesOK'
  BY <1>1, <1>17 DEF EntriesOK
<1>22. (\A w \in procs : Agrees(wctx[w]))'
  BY <1>1, <1>17, <1>18 DEF Agrees
<1>23. Emitting'
  BY <1>1, <1>3, <1>15, <1>17, <1>18, <1>20, <1>21, <1>22 DEF Emitting, Empty
<1> QED BY <1>1, <1>19, <1>23 DEF Inv, Closing, Scanning, Folded, Dispatching, Rowed

\* A round of pass 2 is of what was never taken up.
LEMMA NextRoundStep == ASSUME Inv, NextRound PROVE Inv'
<1>1. /\ phase = "emit" /\ phase' = "emit" /\ work = <<>>
      /\ done' = done \cup Unemitted /\ work' = Sorted(Unemitted)
      /\ UNCHANGED <<prog, procs, ctx, wctx, funcs, seen, todo, forced, owned, armOwner, files, table>>
  BY DEF NextRound
<1>2. Typed /\ Emitting
  BY DEF Inv
<1>3. Unemitted \in SUBSET Addr /\ Unemitted \cap done = {}
  BY <1>2 DEF Unemitted, Typed, CtxOK
<1> HIDE DEF Unemitted
<1>4. Queue(Sorted(Unemitted)) /\ Range(Sorted(Unemitted)) = Unemitted /\ Sorted(Unemitted) \in Seq(Addr)
  BY <1>3, SortedFacts DEF Queue
<1>5. done = DOMAIN files
  BY <1>1, <1>2, EmptyFacts DEF Emitting
<1>6. Typed'
  BY <1>1, <1>2, <1>3, <1>4 DEF Typed, Program
<1>7. Given'
  BY <1>1, <1>2 DEF Emitting, Given, HandedOn, Lost
<1>8. Emitting'
  <2>1. EntriesOK' /\ table' = <<>> /\ DOMAIN wctx' = procs'
    BY <1>1, <1>2 DEF Emitting, EntriesOK
  <2>2. (\A w \in procs : Agrees(wctx[w]))' /\ (\A f \in DOMAIN files : Written(f))'
    BY <1>1, <1>2 DEF Emitting, Agrees, Written
  <2>3. Queue(work)' /\ (Range(work) \cap DOMAIN files = {})' /\ (done = DOMAIN files \cup Range(work))'
    BY <1>1, <1>3, <1>4, <1>5
  <2> QED BY <1>7, <2>1, <2>2, <2>3 DEF Emitting
<1> QED BY <1>1, <1>6, <1>8 DEF Inv, Closing, Scanning, Folded, Dispatching, Rowed

\* What merging the context w of a worker that emitted f makes of c.
Merged(c, w, f, r) ==
    LET fs == {e \in Range(w.entries) : e[1] = f}
    IN  /\ CtxOK(r) /\ DOMAIN r.blocksOf = DOMAIN c.blocksOf \cup {f}
        /\ \A x \in DOMAIN c.blocksOf \ {f} : r.blocksOf[x] = c.blocksOf[x]
        /\ (f \in DOMAIN c.blocksOf => c.blocksOf[f] \subseteq w.blocksOf[f])
              => r.blocksOf[f] = w.blocksOf[f]
        /\ r.referenced = c.referenced \cup w.referenced
        /\ r.entries = IF fs = {} THEN c.entries ELSE Append(c.entries, CHOOSE e \in fs : TRUE)

\* That is what _merge makes of it.
LEMMA MergeFacts ==
    ASSUME NEW c, NEW w, NEW f \in Addr, CtxOK(c), CtxOK(w), f \in DOMAIN w.blocksOf
    PROVE  Merged(c, w, f, Merge(c, w, f))
<1> DEFINE fs == {e \in Range(w.entries) : e[1] = f}
           r == Merge(c, w, f)
           E == IF fs = {} THEN c.entries ELSE Append(c.entries, CHOOSE e \in fs : TRUE)
           B == MergeBlocks(c, w, f)
           K(x) == {k.blocksOf[x] : k \in {y \in {c} \cup (IF x = f THEN {w} ELSE {}) :
                                            x \in DOMAIN y.blocksOf}}
<1>1. /\ Lists(c.blocksOf) /\ Lists(w.blocksOf) /\ Fields(c)
      /\ c.entries \in Seq(Addr \X SUBSET Addr) /\ w.entries \in Seq(Addr \X SUBSET Addr)
      /\ c.order \in Seq(Addr) /\ Range(c.order) \subseteq DOMAIN c.blocksOf
      /\ c.deps \in [Addr -> SUBSET Addr]
  BY DEF CtxOK
<1>2. E \in Seq(Addr \X SUBSET Addr)
  <2>1. \A e \in Range(w.entries) : e \in Addr \X SUBSET Addr
    BY <1>1 DEF Range
  <2>2. CASE fs = {}
    BY <1>1, <2>2
  <2>3. CASE fs # {}
    <3>1. (CHOOSE e \in fs : TRUE) \in fs
      BY <2>3
    <3>2. (CHOOSE e \in fs : TRUE) \in Addr \X SUBSET Addr
      BY <2>1, <3>1
    <3> HIDE DEF fs
    <3> QED BY <1>1, <2>3, <3>2
  <2> QED BY <2>2, <2>3
<1>3. /\ DOMAIN B = DOMAIN c.blocksOf \cup {f}
      /\ \A x \in DOMAIN c.blocksOf \cup {f} : B[x] = UNION K(x)
  BY DEF MergeBlocks
<1>4. ASSUME NEW x \in DOMAIN c.blocksOf, x # f PROVE K(x) = {c.blocksOf[x]}
  BY <1>4
<1>5. K(f) = IF f \in DOMAIN c.blocksOf THEN {c.blocksOf[f], w.blocksOf[f]} ELSE {w.blocksOf[f]}
  <2>1. CASE f \in DOMAIN c.blocksOf
    BY <2>1
  <2>2. CASE f \notin DOMAIN c.blocksOf
    BY <2>2
  <2> QED BY <2>1, <2>2
<1> HIDE DEF B, K
<1>0. (\A S : UNION {S} = S) /\ \A S, T : UNION {S, T} = S \cup T
  OBVIOUS
<1>6. ASSUME NEW x \in DOMAIN c.blocksOf \ {f} PROVE B[x] = c.blocksOf[x]
  BY <1>0, <1>3, <1>4
<1>7. B[f] = IF f \in DOMAIN c.blocksOf THEN c.blocksOf[f] \cup w.blocksOf[f] ELSE w.blocksOf[f]
  <2>1. B[f] = UNION K(f)
    BY <1>3
  <2>2. CASE f \in DOMAIN c.blocksOf
    BY <1>0, <1>5, <2>1, <2>2
  <2>3. CASE f \notin DOMAIN c.blocksOf
    BY <1>0, <1>5, <2>1, <2>3
  <2> QED BY <2>2, <2>3
<1>8. Lists(B)
  BY <1>1, <1>3, <1>6, <1>7 DEF Lists
<1> HIDE DEF E, fs
<1>9. /\ Fields(r) /\ r.funcSet = c.funcSet \cup w.funcSet
      /\ r.referenced = c.referenced \cup w.referenced
      /\ r.potential = c.potential \cup w.potential /\ r.blocksOf = B /\ r.order = c.order
      /\ r.entries = E /\ r.deps = c.deps
  BY <1>1 DEF Merge, Fields, MergeReferenced, E, fs, B
<1> HIDE DEF r
<1>10. CtxOK(r)
  <2>1. /\ r.funcSet \subseteq Addr /\ r.referenced \subseteq Addr /\ r.potential \subseteq Addr
    BY <1>9 DEF CtxOK
  <2>2. r.order \in Seq(Addr) /\ Range(r.order) \subseteq DOMAIN r.blocksOf
    BY <1>1, <1>3, <1>9
  <2>3. Lists(r.blocksOf) /\ r.entries \in Seq(Addr \X SUBSET Addr) /\ r.deps \in [Addr -> SUBSET Addr]
    BY <1>1, <1>2, <1>8, <1>9
  <2> QED BY <1>9, <2>1, <2>2, <2>3 DEF CtxOK
<1>11. (f \in DOMAIN c.blocksOf => c.blocksOf[f] \subseteq w.blocksOf[f]) => B[f] = w.blocksOf[f]
  BY <1>7
<1> QED BY <1>3, <1>6, <1>9, <1>10, <1>11 DEF E, fs, r, Merged

\* What is written of f.
LEMMA BodyFacts ==
    ASSUME Program(prog), NEW c, NEW f \in Addr, NEW r, Emission(c, f, r)
    PROVE  LET b == Body(r, f)
           IN  /\ FileOK(b) /\ b.labels = r.blocksOf[f] /\ b.host = 0
               /\ \A m \in b.moves :
                     /\ m[1] = "goto" => m[2] \in b.labels
                     /\ m[1] = "call" => /\ m[2] \in b.deps /\ m[2] \notin owned
                                         /\ m[2] \in r.referenced
<1> DEFINE b == Body(r, f)
<1>1. /\ b.labels = r.blocksOf[f] /\ b.moves = Moves(r.blocksOf[f]) /\ b.deps = r.deps[f] /\ b.host = 0
  BY DEF Body
<1> HIDE DEF b
<1>2. r.blocksOf[f] \in SUBSET Addr /\ r.deps[f] \subseteq Addr
  BY DEF Emission, Grown, CtxOK, Lists
<1>3. FileOK(b)
  BY <1>1, <1>2, MovesFacts, AddrFacts DEF FileOK
<1>4. \A m \in b.moves :
         /\ m[1] = "goto" => m[2] \in b.labels
         /\ m[1] = "call" => /\ m[2] \in b.deps /\ m[2] \notin owned
                             /\ m[2] \in r.referenced
  BY <1>1, <1>2, MovesFacts DEF Emission
<1> QED BY <1>1, <1>3, <1>4 DEF b

\* Writing the file of the next function keeps the invariant, whoever emitted it.
LEMMA WriteStep ==
    ASSUME Inv, phase = "emit", work # <<>>, NEW b, NEW f, f = Head(work),
           UNCHANGED <<prog, procs, phase, funcs, seen, todo, forced, owned, armOwner, done, table>>,
           work' = Tail(work), files' = Write(f, b), FileOK(b),
           Grown(ctx, f, ctx'), b.labels = ctx'.blocksOf[f], b.host = 0,
           \A m \in b.moves :
              /\ m[1] = "goto" => m[2] \in b.labels
              /\ m[1] = "call" => /\ m[2] \in b.deps /\ m[2] \notin owned
                                  /\ m[2] \in ctx'.referenced,
           DOMAIN wctx' = procs, \A w \in procs : CtxOK(wctx'[w]) /\ Agrees(wctx[w])'
    PROVE  Inv'
<1>1. /\ Typed /\ Given /\ EntriesOK /\ Queue(work) /\ table = <<>>
      /\ Range(work) \cap DOMAIN files = {} /\ done = DOMAIN files \cup Range(work)
      /\ \A x \in DOMAIN files : Written(x)
  BY DEF Inv, Emitting
<1>2. /\ Queue(Tail(work)) /\ f \in Addr /\ f \in Range(work)
      /\ Range(Tail(work)) = Range(work) \ {f}
  BY <1>1, TailFacts
<1>3. f \notin DOMAIN files /\ f \in done
  BY <1>1, <1>2
<1>4. /\ DOMAIN files' = DOMAIN files \cup {f} /\ files'[f] = b
      /\ \A x \in DOMAIN files : files'[x] = files[x]
  BY <1>3 DEF Write
<1>5. /\ CtxOK(ctx') /\ DOMAIN ctx'.blocksOf = DOMAIN ctx.blocksOf \cup {f}
      /\ \A x \in DOMAIN ctx.blocksOf \ {f} : ctx'.blocksOf[x] = ctx.blocksOf[x]
      /\ forced[f] \subseteq ctx'.blocksOf[f]
      /\ ctx'.entries = IF ctx'.blocksOf[f] = {f} THEN ctx.entries
                        ELSE Append(ctx.entries, <<f, ctx'.blocksOf[f] \ {f}>>)
      /\ ctx.referenced \subseteq ctx'.referenced
  BY DEF Grown
<1>6. \A x \in DOMAIN files : x \in DOMAIN ctx.blocksOf \ {f}
  BY <1>1, <1>3 DEF EntriesOK
<1>7. Typed'
  <2>1. Program(prog)' /\ procs' \in {{}, Jobs} /\ phase' \in Phases
    BY <1>1 DEF Typed, Program
  <2>2. work' \in Seq(Addr)
    BY <1>2 DEF Queue
  <2>3. DOMAIN files' \subseteq done' /\ \A x \in DOMAIN files' : FileOK(files'[x])
    BY <1>1, <1>3, <1>4 DEF Typed
  <2>4. CtxOK(ctx') /\ \A w \in DOMAIN wctx' : CtxOK(wctx'[w])
    BY <1>5
  <2> QED BY <1>1, <2>1, <2>2, <2>3, <2>4 DEF Typed
<1>8. Given'
  BY <1>1 DEF Given, HandedOn, Lost
<1>9. EntriesOK'
  <2>0. \A x \in DOMAIN files : ctx'.blocksOf[x] = ctx.blocksOf[x]
    BY <1>5, <1>6
  <2>1. ctx.entries \in Seq(Addr \X SUBSET Addr)
    BY <1>1 DEF Typed, CtxOK
  <2> DEFINE new == <<f, ctx'.blocksOf[f] \ {f}>>
  <2>2. CASE ctx'.blocksOf[f] = {f}
    <3>1. ctx'.entries = ctx.entries
      BY <1>5, <2>2
    <3>2. \A x \in DOMAIN files : x \in DOMAIN ctx'.blocksOf
      BY <1>5, <1>6
    <3> HIDE DEF new
    <3>3. ASSUME NEW i \in DOMAIN ctx'.entries
          PROVE  \E x \in DOMAIN files' : ctx'.entries[i] = <<x, ctx'.blocksOf[x] \ {x}>>
      <4>1. PICK x \in DOMAIN files : ctx.entries[i] = <<x, ctx.blocksOf[x] \ {x}>>
        BY <1>1, <3>1 DEF EntriesOK
      <4>2. x \in DOMAIN files' /\ ctx'.entries[i] = <<x, ctx'.blocksOf[x] \ {x}>>
        BY <1>4, <2>0, <3>1, <4>1
      <4> QED BY <4>2
    <3>4. ASSUME NEW x \in DOMAIN files'
          PROVE  /\ x \in DOMAIN ctx'.blocksOf /\ forced[x] \subseteq ctx'.blocksOf[x]
                 /\ \/ ctx'.blocksOf[x] = {x}
                    \/ \E i \in DOMAIN ctx'.entries : ctx'.entries[i] = <<x, ctx'.blocksOf[x] \ {x}>>
      <4>1. CASE x = f
        BY <1>5, <2>2, <4>1
      <4>2. CASE x \in DOMAIN files
        BY <1>1, <2>0, <3>1, <3>2, <4>2 DEF EntriesOK
      <4> QED BY <1>4, <4>1, <4>2
    <3> QED BY <3>3, <3>4 DEF EntriesOK
  <2>3. CASE ctx'.blocksOf[f] # {f}
    <3>1. ctx'.entries = Append(ctx.entries, new)
      BY <1>5, <2>3
    <3>2. ctx'.entries \in Seq(Addr \X SUBSET Addr)
      BY <1>5 DEF CtxOK
    <3> HIDE DEF new
    <3>3. /\ DOMAIN ctx'.entries = 1..Len(ctx.entries) + 1 /\ DOMAIN ctx.entries = 1..Len(ctx.entries)
          /\ Len(ctx.entries) \in Nat
          /\ ctx'.entries[Len(ctx.entries) + 1] = new
          /\ \A i \in 1..Len(ctx.entries) : ctx'.entries[i] = ctx.entries[i]
      BY <2>1, <3>1
    <3>4. ASSUME NEW i \in DOMAIN ctx'.entries
          PROVE  \E x \in DOMAIN files' : ctx'.entries[i] = <<x, ctx'.blocksOf[x] \ {x}>>
      <4>1. CASE i = Len(ctx.entries) + 1
        BY <1>4, <3>3, <4>1 DEF new
      <4>2. CASE i # Len(ctx.entries) + 1
        <5>1. i \in DOMAIN ctx.entries /\ ctx'.entries[i] = ctx.entries[i]
          BY <3>3, <3>4, <4>2
        <5>2. PICK x \in DOMAIN files : ctx.entries[i] = <<x, ctx.blocksOf[x] \ {x}>>
          BY <1>1, <5>1 DEF EntriesOK
        <5> QED BY <1>4, <2>0, <5>1, <5>2
      <4> QED BY <4>1, <4>2
    <3>5. ASSUME NEW x \in DOMAIN files'
          PROVE  /\ x \in DOMAIN ctx'.blocksOf /\ forced[x] \subseteq ctx'.blocksOf[x]
                 /\ \/ ctx'.blocksOf[x] = {x}
                    \/ \E i \in DOMAIN ctx'.entries : ctx'.entries[i] = <<x, ctx'.blocksOf[x] \ {x}>>
      <4>1. CASE x = f
        <5>1. Len(ctx.entries) + 1 \in DOMAIN ctx'.entries
          BY <3>3
        <5> QED BY <1>5, <3>3, <4>1, <5>1 DEF new
      <4>2. CASE x # f
        <5>1. x \in DOMAIN files
          BY <1>4, <4>2
        <5>2. /\ x \in DOMAIN ctx.blocksOf /\ forced[x] \subseteq ctx.blocksOf[x]
              /\ \/ ctx.blocksOf[x] = {x}
                 \/ \E i \in DOMAIN ctx.entries : ctx.entries[i] = <<x, ctx.blocksOf[x] \ {x}>>
          BY <1>1, <5>1 DEF EntriesOK
        <5>3. DOMAIN ctx.entries \subseteq DOMAIN ctx'.entries
          BY <3>3
        <5> QED BY <1>5, <2>0, <3>3, <5>1, <5>2, <5>3
      <4> QED BY <4>1, <4>2
    <3> QED BY <3>4, <3>5 DEF EntriesOK
  <2> QED BY <2>2, <2>3
<1>10. (\A x \in DOMAIN files : Written(x))'
  <2>1. Written(f)'
    BY <1>4 DEF Written
  <2>2. ASSUME NEW x \in DOMAIN files PROVE Written(x)'
    BY <1>1, <1>4, <1>5, <1>6 DEF Written
  <2> QED BY <1>4, <2>1, <2>2
<1>11. /\ Queue(work') /\ Range(work') \cap DOMAIN files' = {}
       /\ done' = DOMAIN files' \cup Range(work')
  BY <1>1, <1>2, <1>4
<1>12. Emitting'
  BY <1>1, <1>8, <1>9, <1>10, <1>11 DEF Emitting
<1> QED BY <1>7, <1>12 DEF Inv, Closing, Scanning, Folded, Dispatching, Rowed

\* A serial build emits with the parent's context.
LEMMA EmitStep == ASSUME Inv, Emit PROVE Inv'
<1>1. PICK f : f = Head(work)
  OBVIOUS
<1>2. /\ phase = "emit" /\ work # <<>> /\ procs = {}
      /\ ctx' = EmitFunction(ctx, f) /\ files' = Write(f, Body(ctx', f)) /\ work' = Tail(work)
      /\ UNCHANGED <<prog, procs, phase, wctx, funcs, seen, todo, forced, owned, armOwner, done, table>>
  BY <1>1 DEF Emit
<1>3. Typed /\ Queue(work) /\ DOMAIN wctx = procs
  BY <1>2 DEF Inv, Emitting
<1>4. f \in Addr
  BY <1>1, <1>2, <1>3, TailFacts
<1>5. Program(prog) /\ CtxOK(ctx) /\ forced[f] \subseteq Addr /\ armOwner[f] \subseteq Addr
  BY <1>3, <1>4 DEF Typed
<1>6. Emission(ctx, f, ctx')
  BY <1>2, <1>4, <1>5, EmissionFacts
<1> DEFINE b == Body(ctx', f)
<1>7. /\ FileOK(b) /\ b.labels = ctx'.blocksOf[f] /\ b.host = 0
      /\ \A m \in b.moves :
            /\ m[1] = "goto" => m[2] \in b.labels
            /\ m[1] = "call" => m[2] \in b.deps /\ m[2] \notin owned /\ m[2] \in ctx'.referenced
  BY <1>4, <1>5, <1>6, BodyFacts
<1>8. files' = Write(f, b)
  BY <1>2
<1> HIDE DEF b
<1>9. Grown(ctx, f, ctx')
  BY <1>6 DEF Emission
<1>10. DOMAIN wctx' = procs /\ \A w \in procs : CtxOK(wctx'[w]) /\ Agrees(wctx[w])'
  BY <1>2, <1>3
<1> QED BY <1>1, <1>2, <1>7, <1>8, <1>9, <1>10, WriteStep

\* With -j, what the worker emitted f with is what the parent then has of f: before, the
\* two had the same list of f, and the worker no cases of it.
LEMMA EmitOneStep == ASSUME Inv, NEW w \in Jobs, EmitOne(w) PROVE Inv'
<1>1. PICK f : f = Head(work)
  OBVIOUS
<1> DEFINE v == wctx[w]
           u == EmitFunction(v, f)
           new == <<f, u.blocksOf[f] \ {f}>>
           fs == {e \in Range(u.entries) : e[1] = f}
           b == Body(u, f)
<1>2. /\ phase = "emit" /\ work # <<>> /\ w \in procs
      /\ wctx' = [wctx EXCEPT ![w] = u] /\ ctx' = Merge(ctx, wctx'[w], f)
      /\ files' = Write(f, Body(wctx'[w], f)) /\ work' = Tail(work)
      /\ UNCHANGED <<prog, procs, phase, funcs, seen, todo, forced, owned, armOwner, done, table>>
  BY <1>1 DEF EmitOne
<1>3. /\ Typed /\ Queue(work) /\ DOMAIN wctx = procs /\ \A x \in procs : Agrees(wctx[x])
      /\ Range(work) \cap DOMAIN files = {}
  BY <1>2 DEF Inv, Emitting
<1>4. f \in Addr /\ f \notin DOMAIN files
  BY <1>1, <1>2, <1>3, TailFacts
<1>5. /\ Program(prog) /\ CtxOK(ctx) /\ CtxOK(v) /\ Agrees(v)
      /\ forced[f] \subseteq Addr /\ armOwner[f] \subseteq Addr
  BY <1>2, <1>3, <1>4 DEF Typed
<1>6. Emission(v, f, u)
  BY <1>4, <1>5, EmissionFacts
<1>7. /\ DOMAIN wctx' = procs /\ wctx'[w] = u
      /\ \A x \in procs \ {w} : wctx'[x] = wctx[x]
  BY <1>2, <1>3
<1>8. ctx' = Merge(ctx, u, f) /\ files' = Write(f, b)
  BY <1>2, <1>7
<1>9. /\ FileOK(b) /\ b.labels = u.blocksOf[f] /\ b.host = 0
      /\ \A m \in b.moves :
            /\ m[1] = "goto" => m[2] \in b.labels
            /\ m[1] = "call" => m[2] \in b.deps /\ m[2] \notin owned /\ m[2] \in u.referenced
  BY <1>4, <1>5, <1>6, BodyFacts
<1> HIDE DEF b, v, u
<1>10. /\ CtxOK(u) /\ DOMAIN u.blocksOf = DOMAIN v.blocksOf \cup {f}
       /\ \A x \in DOMAIN v.blocksOf \ {f} : u.blocksOf[x] = v.blocksOf[x]
       /\ f \in DOMAIN v.blocksOf => v.blocksOf[f] \subseteq u.blocksOf[f]
       /\ forced[f] \subseteq u.blocksOf[f]
       /\ u.entries = IF u.blocksOf[f] = {f} THEN v.entries ELSE Append(v.entries, new)
  BY <1>6 DEF Emission, Grown
<1>11. /\ CtxOK(ctx') /\ DOMAIN ctx'.blocksOf = DOMAIN ctx.blocksOf \cup {f}
       /\ \A x \in DOMAIN ctx.blocksOf \ {f} : ctx'.blocksOf[x] = ctx.blocksOf[x]
       /\ (f \in DOMAIN ctx.blocksOf => ctx.blocksOf[f] \subseteq u.blocksOf[f])
            => ctx'.blocksOf[f] = u.blocksOf[f]
       /\ ctx'.referenced = ctx.referenced \cup u.referenced
       /\ ctx'.entries = IF fs = {} THEN ctx.entries ELSE Append(ctx.entries, CHOOSE e \in fs : TRUE)
  <2>1. f \in Addr /\ CtxOK(ctx) /\ CtxOK(u) /\ f \in DOMAIN u.blocksOf
    BY <1>4, <1>5, <1>10
  <2>2. Merged(ctx, u, f, ctx')
    BY <1>8, <2>1, MergeFacts
  <2> QED BY <2>2 DEF Merged
<1>12. /\ \A x \in Addr \ DOMAIN files :
            /\ x \in DOMAIN v.blocksOf <=> x \in DOMAIN ctx.blocksOf
            /\ x \in DOMAIN ctx.blocksOf => v.blocksOf[x] = ctx.blocksOf[x]
       /\ \A i \in DOMAIN v.entries : v.entries[i][1] \in DOMAIN files
  BY <1>5 DEF Agrees
<1>13. ctx'.blocksOf[f] = u.blocksOf[f]
  <2>1. CASE f \in DOMAIN ctx.blocksOf
    BY <1>4, <1>10, <1>11, <1>12, <2>1
  <2>2. CASE f \notin DOMAIN ctx.blocksOf
    BY <1>11, <2>2
  <2> QED BY <2>1, <2>2
<1>14. v.entries \in Seq(Addr \X SUBSET Addr) /\ new \in Addr \X SUBSET Addr /\ new[1] = f
  <2>1. u.blocksOf[f] \subseteq Addr
    BY <1>10 DEF CtxOK, Lists
  <2> QED BY <1>4, <1>5, <2>1 DEF CtxOK
<1> HIDE DEF new
<1>15. \A e \in Range(v.entries) : e[1] \in DOMAIN files
  BY <1>12 DEF Range
<1>16. \A e \in Range(u.entries) : e[1] \in DOMAIN files \cup {f}
  <2>1. CASE u.blocksOf[f] = {f}
    BY <1>10, <1>15, <2>1
  <2>2. CASE u.blocksOf[f] # {f}
    <3>1. Range(u.entries) = Range(v.entries) \cup {new}
      BY <1>10, <1>14, <2>2, AppendRange
    <3> QED BY <1>14, <1>15, <3>1
  <2> QED BY <2>1, <2>2
<1>17. ctx'.entries = IF ctx'.blocksOf[f] = {f} THEN ctx.entries
                      ELSE Append(ctx.entries, <<f, ctx'.blocksOf[f] \ {f}>>)
  <2>1. CASE u.blocksOf[f] = {f}
    <3>1. fs = {}
      BY <1>4, <1>10, <1>15, <2>1
    <3> QED BY <1>11, <1>13, <2>1, <3>1
  <2>2. CASE u.blocksOf[f] # {f}
    <3>1. Range(u.entries) = Range(v.entries) \cup {new}
      BY <1>10, <1>14, <2>2, AppendRange
    <3>2. fs = {new}
      BY <1>4, <1>14, <1>15, <3>1
    <3>3. ctx'.entries = Append(ctx.entries, new)
      <4> HIDE DEF fs
      <4>1. fs # {} /\ (CHOOSE e \in fs : TRUE) = new
        BY <3>2
      <4> QED BY <1>11, <4>1
    <3> QED BY <1>13, <2>2, <3>3 DEF new
  <2> QED BY <2>1, <2>2
<1>18. Grown(ctx, f, ctx')
  BY <1>10, <1>11, <1>13, <1>17 DEF Grown
<1>19. DOMAIN files' = DOMAIN files \cup {f}
  BY <1>8 DEF Write
<1>20. ASSUME NEW y \in procs PROVE CtxOK(wctx'[y]) /\ Agrees(wctx[y])'
  <2>1. CASE y = w
    <3>1. \A x \in Addr \ DOMAIN files' :
            /\ x \in DOMAIN u.blocksOf <=> x \in DOMAIN ctx'.blocksOf
            /\ x \in DOMAIN ctx'.blocksOf => u.blocksOf[x] = ctx'.blocksOf[x]
      BY <1>10, <1>11, <1>12, <1>19
    <3>2. \A i \in DOMAIN u.entries : u.entries[i][1] \in DOMAIN files'
      BY <1>16, <1>19 DEF Range
    <3> QED BY <1>7, <1>10, <2>1, <3>1, <3>2 DEF Agrees
  <2>2. CASE y # w
    <3>1. wctx'[y] = wctx[y] /\ CtxOK(wctx[y]) /\ Agrees(wctx[y])
      BY <1>3, <1>7, <2>2 DEF Typed
    <3>2. \A x \in Addr \ DOMAIN files' :
            /\ x \in DOMAIN wctx[y].blocksOf <=> x \in DOMAIN ctx'.blocksOf
            /\ x \in DOMAIN ctx'.blocksOf => wctx[y].blocksOf[x] = ctx'.blocksOf[x]
      BY <1>11, <1>19, <3>1 DEF Agrees
    <3>3. \A i \in DOMAIN wctx[y].entries : wctx[y].entries[i][1] \in DOMAIN files'
      BY <1>19, <3>1 DEF Agrees
    <3> QED BY <3>1, <3>2, <3>3 DEF Agrees
  <2> QED BY <2>1, <2>2
<1>21. \A m \in b.moves :
          /\ m[1] = "goto" => m[2] \in b.labels
          /\ m[1] = "call" => m[2] \in b.deps /\ m[2] \notin owned /\ m[2] \in ctx'.referenced
  BY <1>9, <1>11
<1>22. b.labels = ctx'.blocksOf[f]
  BY <1>9, <1>13
<1> QED BY <1>1, <1>2, <1>7, <1>8, <1>9, <1>18, <1>20, <1>21, <1>22, WriteStep

\* The fold: in the last round every call is of an emitted function, and a root is
\* never a stub.
LEMMA FoldStep == ASSUME Inv, FoldSubsetFunctions PROVE Inv'
<1>1. /\ phase = "emit" /\ phase' = "dispatch" /\ work = <<>> /\ Unemitted = {}
      /\ files' = [f \in DOMAIN files |-> IF Root[f] = f THEN files[f] ELSE Stub(Root[f])]
      /\ UNCHANGED <<prog, procs, work, ctx, wctx, funcs, seen, todo, forced, owned, armOwner,
                     done, table>>
  BY DEF FoldSubsetFunctions
<1>2. Typed /\ Given /\ EntriesOK /\ table = <<>> /\ \A f \in DOMAIN files : Written(f)
  BY <1>1 DEF Inv, Emitting
<1>3. done = DOMAIN files
  BY <1>1, EmptyFacts DEF Inv, Emitting
<1>4. done \subseteq Addr /\ Addr \subseteq 0..N
  BY <1>2, AddrFacts DEF Typed
<1>5. Listed
  <2>1. \A f \in done : f \in DOMAIN ctx.blocksOf
    BY <1>2, <1>3 DEF EntriesOK
  <2> QED BY <1>2, <1>4, <2>1 DEF Listed, Typed, CtxOK, Lists
<1>6. \A f \in done :
         /\ Root[f] \in done /\ Root[Root[f]] = Root[f]
         /\ \/ Root[f] = f
            \/ ctx.blocksOf[f] \subseteq ctx.blocksOf[Root[f]] /\ Cardinality(ctx.blocksOf[Root[f]]) > 1
  BY <1>5, RootFacts
<1>7. DOMAIN files' = DOMAIN files
  BY <1>1
<1>8. \A f \in done : \/ Root[f] = f /\ files'[f] = files[f]
                      \/ Root[f] # f /\ files'[f] = Stub(Root[f])
  BY <1>1, <1>3
<1>9. Typed'
  <2>1. ASSUME NEW h \in Addr PROVE FileOK(Stub(h))
    BY <1>4 DEF FileOK, Stub
  <2>2. \A f \in DOMAIN files' : FileOK(files'[f])
    <3> SUFFICES ASSUME NEW f \in done PROVE FileOK(files'[f])
      BY <1>3, <1>7
    <3>1. FileOK(files[f]) /\ Root[f] \in Addr
      BY <1>2, <1>3, <1>4, <1>6 DEF Typed
    <3>2. CASE files'[f] = files[f]
      BY <3>1, <3>2
    <3>3. CASE files'[f] = Stub(Root[f])
      BY <2>1, <3>1, <3>3
    <3> QED BY <1>8, <3>2, <3>3
  <2> QED BY <1>1, <1>2, <1>7, <2>2 DEF Typed, Program, Phases
<1>10. ASSUME NEW f \in DOMAIN files PROVE f \in DOMAIN ctx'.blocksOf /\ (Whole(f)' \/ Stubbed(f)')
  <2>1. f \in DOMAIN ctx'.blocksOf
    BY <1>1, <1>2 DEF EntriesOK
  <2>2. CASE Root[f] = f
    <3>1. Written(f) /\ files'[f] = files[f]
      BY <1>2, <1>3, <1>8, <2>2
    <3>2. \A m \in files[f].moves : m[1] = "call" => m[2] \in DOMAIN files'
      BY <1>1, <1>3, <1>7, <3>1 DEF Written, Unemitted
    <3> QED BY <1>1, <2>1, <3>1, <3>2 DEF Written, Whole
  <2>3. CASE Root[f] # f
    <3> DEFINE h == Root[f]
    <3>1. /\ h \in DOMAIN files' /\ files'[f] = Stub(h) /\ files'[h] = files[h] /\ Written(h)
          /\ ctx.blocksOf[f] \subseteq ctx.blocksOf[h] /\ Cardinality(ctx.blocksOf[h]) > 1
      BY <1>2, <1>3, <1>6, <1>7, <1>8, <2>3
    <3> HIDE DEF h
    <3>2. /\ files'[h].host = 0 /\ files'[h].labels = ctx'.blocksOf[h]
          /\ ctx'.blocksOf[f] \subseteq ctx'.blocksOf[h] /\ Cardinality(ctx'.blocksOf[h]) > 1
      BY <1>1, <3>1 DEF Written
    <3> QED BY <2>1, <3>1, <3>2 DEF Stubbed, Stub
  <2> QED BY <2>2, <2>3
<1>11. TreeOK'
  <2>1. (prog.exports \subseteq DOMAIN files)'
    BY <1>1, <1>2, <1>3, <1>7 DEF Given
  <2> QED BY <1>7, <1>10, <2>1 DEF TreeOK
<1>12. Given' /\ EntriesOK'
  <2>1. Given'
    BY <1>1, <1>2 DEF Given, HandedOn, Lost
  <2>2. EntriesOK'
    BY <1>1, <1>2, <1>7 DEF EntriesOK
  <2> QED BY <2>1, <2>2
<1> QED BY <1>1, <1>2, <1>3, <1>7, <1>9, <1>11, <1>12
        DEF Inv, Closing, Scanning, Emitting, Folded, Dispatching, Rowed

\* The table: a row names the first function with the case.
LEMMA EmitDispatchStep == ASSUME Inv, EmitDispatch PROVE Inv'
<1>1. /\ phase = "dispatch" /\ phase' = "prune"
      /\ table' = [a \in Rows |->
                     IF Claimants(a) = {} THEN [fn |-> a, sel |-> 0]
                     ELSE [fn |-> ctx.entries[Min(Claimants(a))][1], sel |-> a]]
      /\ UNCHANGED <<prog, procs, work, ctx, wctx, funcs, seen, todo, forced, owned, armOwner,
                     done, files>>
  BY DEF EmitDispatch
<1>2. Typed /\ Given /\ EntriesOK /\ DOMAIN files = done /\ TreeOK
  BY <1>1 DEF Inv, Dispatching, Folded
<1>3. done \subseteq Addr /\ Addr \subseteq 0..N
  BY <1>2, AddrFacts DEF Typed
<1>4. DOMAIN ctx.entries \subseteq Nat
  <2>1. ctx.entries \in Seq(Addr \X SUBSET Addr)
    BY <1>2 DEF Typed, CtxOK
  <2> QED BY <2>1
<1>5. Lists(ctx.blocksOf)
  BY <1>2 DEF Typed, CtxOK
<1>6. ASSUME NEW i \in DOMAIN ctx.entries
      PROVE  \E f \in DOMAIN files : /\ ctx.entries[i] = <<f, ctx.blocksOf[f] \ {f}>>
                                     /\ ctx.blocksOf[f] \subseteq Addr
  BY <1>2, <1>5 DEF EntriesOK, Lists
<1>7. /\ \A a \in Rows : a \in done \/ Claimants(a) # {}
      /\ \A a : Claimants(a) # {} => a \in Rows
  BY DEF Rows, Claimants, Range
<1>8. Rows \subseteq Addr
  <2> SUFFICES ASSUME NEW a \in Rows, a \notin done PROVE a \in Addr
    BY <1>3
  <2>1. PICK i \in DOMAIN ctx.entries : a \in ctx.entries[i][2]
    BY <1>7 DEF Claimants
  <2> QED BY <1>6, <2>1
<1>9. ASSUME NEW a \in Rows, Claimants(a) # {}
      PROVE  \E f \in DOMAIN files :
               table'[a] = [fn |-> f, sel |-> a] /\ a \in ctx.blocksOf[f] /\ a # f
  <2>1. Claimants(a) \in SUBSET Nat
    BY <1>4 DEF Claimants
  <2>2. Min(Claimants(a)) \in Claimants(a)
    BY <1>9, <2>1, MinFacts
  <2>3. PICK i \in DOMAIN ctx.entries : i = Min(Claimants(a)) /\ a \in ctx.entries[i][2]
    BY <2>2 DEF Claimants
  <2>4. PICK f \in DOMAIN files : ctx.entries[i] = <<f, ctx.blocksOf[f] \ {f}>>
    BY <1>6
  <2>5. table'[a] = [fn |-> ctx.entries[i][1], sel |-> a]
    BY <1>1, <1>9, <2>3
  <2> QED BY <2>3, <2>4, <2>5
<1>10. ASSUME NEW a \in Rows, Claimants(a) = {}
       PROVE  a \in DOMAIN files /\ table'[a] = [fn |-> a, sel |-> 0]
  BY <1>1, <1>2, <1>7, <1>10
<1>11. DOMAIN table' = Rows
  BY <1>1
<1>12. ASSUME NEW a \in DOMAIN table' PROVE RowOK(a)' /\ table'[a] \in [fn : Addr, sel : 0..N]
  <2>0. N \in Nat
    BY AddrFacts
  <2>1. a \in Rows /\ a \in Addr /\ 0 \in 0..N
    BY <1>8, <1>11, <1>12, <2>0
  <2>2. CASE Claimants(a) = {}
    <3>1. a \in DOMAIN files /\ table'[a] = [fn |-> a, sel |-> 0]
      BY <1>10, <2>1, <2>2
    <3> QED BY <1>1, <2>1, <3>1 DEF RowOK
  <2>3. CASE Claimants(a) # {}
    <3>1. PICK f \in DOMAIN files :
            table'[a] = [fn |-> f, sel |-> a] /\ a \in ctx.blocksOf[f] /\ a # f
      BY <1>9, <2>1, <2>3
    <3> QED BY <1>1, <1>2, <1>3, <2>1, <3>1 DEF RowOK
  <2> QED BY <2>2, <2>3
<1>13. ASSUME NEW a, NEW f \in done, a \in forced[f] PROVE a \in DOMAIN table'
  <2>1. f \in DOMAIN files /\ f \in Addr /\ a # f
    BY <1>2, <1>3, <1>13 DEF Given, HandedOn
  <2>2. a \in ctx.blocksOf[f]
    BY <1>2, <1>13, <2>1 DEF EntriesOK
  <2>3. PICK i \in DOMAIN ctx.entries : ctx.entries[i] = <<f, ctx.blocksOf[f] \ {f}>>
    BY <1>2, <2>1, <2>2 DEF EntriesOK
  <2>4. i \in Claimants(a)
    BY <2>1, <2>2, <2>3 DEF Claimants
  <2> QED BY <1>7, <1>11, <2>4
<1>14. done \subseteq DOMAIN table'
  BY <1>11 DEF Rows
<1>15. Rowed'
  <2>1. ASSUME NEW a \in prog.arms \cup prog.relocs
        PROVE  \/ a \in DOMAIN table'
               \/ a \in owned' /\ \A f \in done' : a \notin forced'[f]
               \/ Lost(a)'
    <3>1. a \in done \/ a \in owned \/ Lost(a)
      BY <1>2 DEF Given
    <3>2. Lost(a) => Lost(a)'
      BY <1>1 DEF Lost
    <3> QED BY <1>1, <1>13, <1>14, <3>1, <3>2
  <2> QED BY <1>1, <1>12, <2>1 DEF Rowed
<1>16. Typed'
  BY <1>1, <1>2, <1>8, <1>11, <1>12 DEF Typed, Program, Phases
<1>17. TreeOK'
  BY <1>1, <1>2 DEF TreeOK, Whole, Stubbed
<1> QED BY <1>1, <1>15, <1>16, <1>17 DEF Inv, Closing, Scanning, Emitting, Folded, Dispatching

\* The prune: a file that is left declares what it calls and the host it enters.
LEMMA PruneStep == ASSUME Inv, PruneUnreachable PROVE Inv'
<1>1. /\ phase = "prune" /\ phase' = "done" /\ files' = [f \in Live |-> files[f]]
      /\ UNCHANGED <<prog, procs, work, ctx, wctx, funcs, seen, todo, forced, owned, armOwner,
                     done, table>>
  BY DEF PruneUnreachable
<1>2. Typed /\ TreeOK /\ Rowed
  BY <1>1 DEF Inv, Folded
<1>3. /\ Live \subseteq DOMAIN files
      /\ ({table[a].fn : a \in DOMAIN table} \cup prog.exports) \cap DOMAIN files \subseteq Live
      /\ \A f \in Live : files[f].deps \cap DOMAIN files \subseteq Live
  BY <1>2, LiveFacts DEF Typed
<1>4. DOMAIN files' = Live /\ \A f \in Live : files'[f] = files[f]
  BY <1>1
<1>5. Typed'
  BY <1>1, <1>2, <1>3, <1>4 DEF Typed, Program, Phases
<1>6. Rowed'
  <2>1. ASSUME NEW a \in DOMAIN table PROVE RowOK(a)'
    <3>1. RowOK(a)
      BY <1>1, <1>2 DEF Rowed
    <3>2. table[a].fn \in Live
      BY <1>3, <3>1 DEF RowOK
    <3> QED BY <1>1, <1>4, <3>1, <3>2 DEF RowOK
  <2>2. ASSUME NEW a \in prog.arms \cup prog.relocs
        PROVE  \/ a \in DOMAIN table'
               \/ a \in owned' /\ \A f \in done' : a \notin forced'[f]
               \/ Lost(a)'
    <3>1. \/ a \in DOMAIN table
          \/ a \in owned /\ \A f \in done : a \notin forced[f]
          \/ Lost(a)
      BY <1>1, <1>2 DEF Rowed
    <3>2. Lost(a) => Lost(a)'
      BY <1>1 DEF Lost
    <3> QED BY <1>1, <3>1, <3>2
  <2> QED BY <1>1, <2>1, <2>2 DEF Rowed
<1>7. ASSUME NEW f \in Live PROVE f \in DOMAIN ctx'.blocksOf /\ (Whole(f)' \/ Stubbed(f)')
  <2>1. f \in DOMAIN files /\ f \in DOMAIN ctx.blocksOf /\ (Whole(f) \/ Stubbed(f))
    BY <1>2, <1>3 DEF TreeOK
  <2>2. CASE Whole(f)
    <3>1. \A m \in files[f].moves : m[1] = "call" => m[2] \in Live
      BY <1>3, <2>2 DEF Whole
    <3> QED BY <1>1, <1>4, <2>1, <2>2, <3>1 DEF Whole
  <2>3. CASE Stubbed(f)
    <3>1. PICK h \in DOMAIN files :
            /\ files[f] = Stub(h) /\ files[h].host = 0 /\ files[h].labels = ctx.blocksOf[h]
            /\ ctx.blocksOf[f] \subseteq ctx.blocksOf[h] /\ Cardinality(ctx.blocksOf[h]) > 1
      BY <2>3 DEF Stubbed
    <3>2. h \in files[f].deps
      BY <3>1 DEF Stub
    <3>3. h \in Live
      BY <1>3, <3>2
    <3>4. /\ h \in DOMAIN files' /\ files'[f] = Stub(h)
          /\ files'[h].host = 0 /\ files'[h].labels = ctx'.blocksOf[h]
          /\ ctx'.blocksOf[f] \subseteq ctx'.blocksOf[h] /\ Cardinality(ctx'.blocksOf[h]) > 1
      BY <1>1, <1>4, <3>1, <3>3
    <3> QED BY <1>1, <2>1, <3>4 DEF Stubbed, Stub
  <2> QED BY <2>1, <2>2, <2>3
<1>8. TreeOK'
  <2>1. (prog.exports \subseteq DOMAIN files)'
    BY <1>1, <1>2, <1>3, <1>4 DEF TreeOK
  <2> QED BY <1>4, <1>7, <2>1 DEF TreeOK
<1> QED BY <1>1, <1>5, <1>6, <1>8 DEF Inv, Closing, Scanning, Emitting, Folded, Dispatching

\* The second build starts as the first did.
LEMMA RebuildStep == ASSUME Inv, Rebuild PROVE Inv'
<1>1. Typed
  BY DEF Inv
<1>2. Program(prog) /\ prog.exports \subseteq Addr /\ DOMAIN prog.cfg \subseteq Addr
  <2>1. Program(prog)
    BY <1>1 DEF Typed
  <2> QED BY <2>1 DEF Program
<1>3. /\ phase' = "closure" /\ files' = <<>> /\ table' = <<>> /\ wctx' = <<>>
      /\ procs' = Jobs /\ seen' = {} /\ todo' = {} /\ owned' = {} /\ done' = {}
      /\ funcs' = DOMAIN prog.cfg /\ prog' = prog /\ ctx' = NewCtx /\ work' = Sorted(prog.exports)
      /\ forced' \in [Addr -> SUBSET Addr] /\ armOwner' \in [Addr -> SUBSET Addr]
  BY DEF Rebuild
<1>4. CtxOK(ctx') /\ ctx'.entries = <<>> /\ ctx'.blocksOf = prog.cfg
  BY <1>2, <1>3, NewCtxFacts
<1>5. work' \in Seq(Addr)
  BY <1>2, <1>3, SortedFacts DEF Queue
<1>6. Typed'
  <2>1. Program(prog)'
    BY <1>2, <1>3 DEF Program
  <2> QED BY <1>2, <1>3, <1>4, <1>5, <2>1, EmptyFacts DEF Typed, Phases
<1>7. Closing'
  BY <1>3, <1>4 DEF Closing, Empty
<1> QED BY <1>3, <1>6, <1>7 DEF Inv, Scanning, Emitting, Folded, Dispatching, Rowed

\* And no step changes nothing.
LEMMA StutterStep == ASSUME Inv, UNCHANGED vars PROVE Inv'
<1>1. /\ UNCHANGED <<prog, procs, phase, work, ctx, wctx, funcs, seen, todo, forced, owned>>
      /\ UNCHANGED <<armOwner, done, files, table>>
  BY DEF vars
<1>2. Typed'
  BY <1>1 DEF Inv, Typed, Program
<1>3. (Empty <=> Empty') /\ (Given <=> Given') /\ (EntriesOK <=> EntriesOK')
  BY <1>1 DEF Empty, Given, EntriesOK, HandedOn, Lost
<1>4. Closing' /\ Scanning'
  BY <1>1, <1>3 DEF Inv, Closing, Scanning, HandedOn, Attached
<1>5. Emitting'
  <2>1. (\A w \in procs : Agrees(wctx[w])) => (\A w \in procs : Agrees(wctx[w]))'
    BY <1>1 DEF Agrees
  <2>2. (\A f \in DOMAIN files : Written(f)) => (\A f \in DOMAIN files : Written(f))'
    BY <1>1 DEF Written
  <2> QED BY <1>1, <1>3, <2>1, <2>2 DEF Inv, Emitting
<1>6. Folded' /\ Dispatching'
  BY <1>1, <1>3 DEF Inv, Folded, Dispatching, TreeOK, Whole, Stubbed
<1>7. Rowed'
  BY <1>1 DEF Inv, Rowed, RowOK, Lost
<1> QED BY <1>2, <1>4, <1>5, <1>6, <1>7 DEF Inv

\* So every step does.
LEMMA InvInductive == Inv /\ [Next]_vars => Inv'
<1> SUFFICES ASSUME Inv, [Next]_vars PROVE Inv'
  OBVIOUS
<1>1. CASE Closure
  BY <1>1, ClosureStep
<1>2. CASE Analyse
  BY <1>2, AnalyseStep
<1>3. CASE Scan
  BY <1>3, ScanStep
<1>4. CASE HandOver
  BY <1>4, HandOverStep
<1>5. CASE Emit
  BY <1>5, EmitStep
<1>6. ASSUME NEW w \in Jobs, EmitOne(w) PROVE Inv'
  BY <1>6, EmitOneStep
<1>7. CASE NextRound
  BY <1>7, NextRoundStep
<1>8. CASE FoldSubsetFunctions
  BY <1>8, FoldStep
<1>9. CASE EmitDispatch
  BY <1>9, EmitDispatchStep
<1>10. CASE PruneUnreachable
  BY <1>10, PruneStep
<1>11. CASE Rebuild
  BY <1>11, RebuildStep
<1>12. CASE Finished \/ UNCHANGED vars
  BY <1>12, StutterStep DEF Finished
<1> QED BY <1>1, <1>2, <1>3, <1>4, <1>5, <1>6, <1>7, <1>8, <1>9, <1>10, <1>11, <1>12 DEF Next

\* It holds of every run.
LEMMA AlwaysInv == Spec => []Inv
BY InitInv, InvInductive, PTL DEF Spec

\* What follows from the invariant.  Every variable has its values.
LEMMA InvTypes == Inv => TypeOK
<1> SUFFICES ASSUME Inv PROVE TypeOK
  OBVIOUS
<1>1. Typed
  BY DEF Inv
<1>2. ASSUME NEW c, CtxOK(c)
      PROVE  /\ c.funcSet \cup c.referenced \cup c.potential \subseteq Addr
             /\ Range(c.order) \subseteq DOMAIN c.blocksOf /\ DOMAIN c.blocksOf \subseteq Addr
             /\ \A f \in DOMAIN c.blocksOf : f \in c.blocksOf[f] /\ c.blocksOf[f] \subseteq Addr
             /\ \A i \in DOMAIN c.entries : c.entries[i] \in Addr \X SUBSET Addr
             /\ c.deps \in [Addr -> SUBSET Addr]
  BY <1>2 DEF CtxOK, Lists
<1>3. \A c \in {ctx} \cup Range(wctx) : CtxOK(c)
  BY <1>1 DEF Typed, Range
<1>4. {"goto", "call", "dispatch"} \X Addr \subseteq Moving
  BY AddrFacts DEF Moving
<1>5. \A f \in DOMAIN files :
        /\ files[f].labels \subseteq Addr /\ files[f].moves \subseteq Moving
        /\ files[f].deps \subseteq Addr /\ files[f].host \in 0..N
  BY <1>1, <1>4 DEF Typed, FileOK
<1> QED BY <1>1, <1>2, <1>3, <1>5 DEF Typed, TypeOK

\* Where a finished function starts.
LEMMA StartFacts ==
    ASSUME Inv, phase = "done", NEW f \in DOMAIN files
    PROVE  /\ StartsAt(f, 0) = f
           /\ \A a \in ctx.blocksOf[f] : a # f => StartsAt(f, a) = a
<1>1. Typed /\ TreeOK
  BY DEF Inv, Folded
<1>2. f \in Addr /\ 0 \notin Addr /\ Addr \subseteq Nat
  <2>1. N \in Nat /\ Addr = 1..N
    BY AddrFacts
  <2>2. 0 \notin Addr /\ Addr \subseteq Nat
    BY <2>1
  <2>3. f \in Addr
    BY <1>1 DEF Typed
  <2> QED BY <2>2, <2>3
<1>3. /\ f \in DOMAIN ctx.blocksOf /\ f \in ctx.blocksOf[f] /\ ctx.blocksOf[f] \subseteq Addr
      /\ Whole(f) \/ Stubbed(f)
  BY <1>1 DEF TreeOK, Typed, CtxOK, Lists
<1>4. ASSUME NEW a \in ctx.blocksOf[f], a # f PROVE a # 0 /\ Cardinality(ctx.blocksOf[f]) # 1
  <2>1. a # 0
    BY <1>2, <1>3
  <2>2. IsFiniteSet(ctx.blocksOf[f])
    BY <1>3, AddrFacts
  <2>3. ASSUME Cardinality(ctx.blocksOf[f]) = 1 PROVE FALSE
    <3>1. \E x : ctx.blocksOf[f] = {x}
      BY <2>2, <2>3, FS_Singleton
    <3> QED BY <1>3, <1>4, <3>1
  <2> QED BY <2>1, <2>3
<1>5. CASE Whole(f)
  <2>1. files[f].host = 0 /\ files[f].labels = ctx.blocksOf[f]
    BY <1>5 DEF Whole
  <2> QED BY <1>3, <1>4, <2>1 DEF StartsAt
<1>6. CASE Stubbed(f)
  <2>1. PICK h \in DOMAIN files :
          /\ files[f] = Stub(h) /\ files[h].labels = ctx.blocksOf[h]
          /\ ctx.blocksOf[f] \subseteq ctx.blocksOf[h] /\ Cardinality(ctx.blocksOf[h]) > 1
    BY <1>6 DEF Stubbed
  <2>2. h \in Addr /\ h # 0 /\ files[f].host = h
    BY <1>1, <1>2, <2>1 DEF Typed, Stub
  <2>3. h \in DOMAIN ctx.blocksOf
    BY <1>1 DEF TreeOK
  <2>4. Cardinality(ctx.blocksOf[h]) # 1
    <3>1. ctx.blocksOf[h] \in SUBSET Addr
      BY <1>1, <2>3 DEF Typed, CtxOK, Lists
    <3>2. Cardinality(ctx.blocksOf[h]) \in 0..N /\ N \in Nat
      BY <3>1, AddrFacts
    <3> QED BY <2>1, <3>2
  <2> QED BY <1>3, <1>4, <2>1, <2>2, <2>4 DEF StartsAt
<1> QED BY <1>3, <1>5, <1>6

\* A row leads to its block.
LEMMA InvLands == Inv => DispatchLands
<1> SUFFICES ASSUME Inv, phase = "done", NEW a \in DOMAIN table
             PROVE  StartsAt(table[a].fn, table[a].sel) = a
  BY DEF DispatchLands
<1>1. RowOK(a)
  BY DEF Inv, Rowed
<1> QED BY <1>1, StartFacts DEF RowOK

\* A call leads to its function.
LEMMA InvCalls == Inv => CallsLand
<1> SUFFICES ASSUME Inv, phase = "done" PROVE CallsLand
  BY DEF CallsLand
<1>1. TreeOK
  BY DEF Inv, Folded
<1>2. \A f \in prog.exports : StartsAt(f, 0) = f
  BY <1>1, StartFacts DEF TreeOK
<1>3. ASSUME NEW f \in DOMAIN files, NEW m \in files[f].moves
      PROVE  /\ m[1] = "goto" => m[2] \in files[f].labels
             /\ m[1] = "call" => StartsAt(m[2], 0) = m[2]
  <2>1. CASE Whole(f)
    BY <1>3, <2>1, StartFacts DEF Whole
  <2>2. CASE Stubbed(f)
    BY <1>3, <2>2 DEF Stubbed, Stub
  <2> QED BY <1>1, <2>1, <2>2 DEF TreeOK
<1> QED BY <1>2, <1>3 DEF CallsLand

\* A target has a row, or has none for a reason.
LEMMA InvRows == Inv => TargetsHaveRows
BY DEF Inv, Rowed, Lost, TargetsHaveRows

\* The parent has the block lists the files were written with.
LEMMA InvWritten == Inv => FoldSeesWhatWasWritten
BY DEF Inv, Emitting, Written, FoldSeesWhatWasWritten

\* The next function of a pass is one it has not had.
LEMMA OnceStep ==
    Inv /\ [Next]_vars =>
        [/\ phase = "scan" /\ work # <<>> => Head(work) \notin seen
         /\ phase = "emit" /\ work # <<>> => Head(work) \notin DOMAIN files
         /\ phase = "emit" /\ phase' = "emit" /\ work = <<>> => work' # <<>>]_vars
<1> SUFFICES ASSUME Inv, Next, ~UNCHANGED vars
             PROVE  /\ phase = "scan" /\ work # <<>> => Head(work) \notin seen
                    /\ phase = "emit" /\ work # <<>> => Head(work) \notin DOMAIN files
                    /\ phase = "emit" /\ phase' = "emit" /\ work = <<>> => work' # <<>>
  OBVIOUS
<1>1. phase = "scan" /\ work # <<>> => Head(work) \notin seen
  BY TailFacts DEF Inv, Scanning
<1>2. phase = "emit" /\ work # <<>> => Head(work) \notin DOMAIN files
  BY TailFacts DEF Inv, Emitting
<1>3. ASSUME phase = "emit", phase' = "emit", work = <<>> PROVE work' # <<>>
  <2>1. NextRound
    BY <1>3 DEF Next, Closure, Analyse, Scan, HandOver, Emit, EmitOne, FoldSubsetFunctions,
                EmitDispatch, PruneUnreachable, Rebuild, Finished
  <2>2. Unemitted \in SUBSET Addr /\ Unemitted # {} /\ work' = Sorted(Unemitted)
    BY <2>1 DEF NextRound, Unemitted, Inv, Typed, CtxOK
  <2> HIDE DEF Unemitted
  <2> QED BY <2>2, SortedFacts
<1> QED BY <1>1, <1>2, <1>3

\* Every variable of the translation has the values its comment gives it, in the serial
\* build and in the one with workers.
THEOREM Elf2cTypes == Spec => []TypeOK
BY AlwaysInv, InvTypes, PTL

\* For every program, a computed transfer that finds a row of the dispatch table starts
\* executing the block it asked for, through the owner's switch (emit_function), through
\* any fold (fold_subset_functions) and in a file that prune_unreachable left.
THEOREM RowsLand == Spec => []DispatchLands
BY AlwaysInv, InvLands, PTL

\* For every program, every goto of the finished tree names a label of its function, and
\* every call and every exported entry a function the tree defines and that starts there.
THEOREM CallsAreDefined == Spec => []CallsLand
BY AlwaysInv, InvCalls, PTL

\* For every program, every recovered jump-table arm and every code address stored in the
\* writable image has a row, but for what was handed to functions that are not emitted and
\* for a false start that no function begins before.
THEOREM TargetsAreInTheTable == Spec => []TargetsHaveRows
BY AlwaysInv, InvRows, PTL

\* For every program and any number of workers, each with a context of its own, the block
\* lists the fold compares are those the files were written with (_merge).
THEOREM FoldComparesWhatWasWritten == Spec => []FoldSeesWhatWasWritten
BY AlwaysInv, InvWritten, PTL

\* For every program neither pass takes up a function twice, and a round always has new
\* ones, whichever worker finds them (main, emit_all).
THEOREM NothingIsDoneTwice == Spec => EachFunctionOnce
BY AlwaysInv, OnceStep, PTL DEF Spec, EachFunctionOnce
==============================================================================
