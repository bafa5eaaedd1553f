---------------------- MODULE GuestEHImplementsProofs ----------------------
(* That GuestEH implements CxxUnwind: for every exception table, number of     *)
(* exceptions and depth of calls, pads and blocks.                             *)
(*                                                                             *)
(* Most steps of GuestEH stutter, or mark the call site of the function on     *)
(* top, which is what At does to the last frame.  The step that                *)
(* counts is the landing of phase two: CxxUnwind lands in the innermost frame  *)
(* that acts on the exception, GuestEH in the function its walk has come to.   *)
(* Inv and HInv say that no handler is lost, and not that nothing was passed   *)
(* over by then; Walked says that, and is kept by the walks.                   *)
EXTENDS GuestEHImplements, GuestEHProofs

-----------------------------------------------------------------------------
(* The positions of the functions with an exception table.  EhPositions is a   *)
(* recursive function; from here on it is the one list of those positions.     *)

\* p lists them, up to position n.
ListsTo(st, p, n) ==
    /\ p \in Seq(1..n)
    /\ \A x \in 1..Len(p) : st[p[x]].kind = "eh"
    /\ \A x, y \in 1..Len(p) : x < y => p[x] < p[y]
    /\ \A i \in 1..n : st[i].kind = "eh" => \E x \in 1..Len(p) : p[x] = i
Lists(st, p) == ListsTo(st, p, Len(st))

\* What a list of positions is, with the types a proof needs.
LEMMA ListFacts ==
    ASSUME NEW st, NEW n \in Nat, NEW p, ListsTo(st, p, n)
    PROVE  /\ p \in Seq(1..n) /\ Len(p) \in Nat
           /\ \A x \in 1..Len(p) : p[x] \in 1..n /\ p[x] \in Nat /\ st[p[x]].kind = "eh"
           /\ \A x, y \in 1..Len(p) : x < y => p[x] < p[y]
           /\ \A i \in 1..n : st[i].kind = "eh" => \E x \in 1..Len(p) : p[x] = i
<1>1. p \in Seq(1..n)
  BY DEF ListsTo
<1>2. Len(p) \in Nat /\ p \in [1..Len(p) -> 1..n]
  BY <1>1
<1>3. \A x \in 1..Len(p) : p[x] \in 1..n /\ p[x] \in Nat
  BY <1>2
<1> QED BY <1>1, <1>2, <1>3 DEF ListsTo

\* A list of positions is the function of its elements.
LEMMA ListIsFunction ==
    ASSUME NEW st, NEW n, NEW p, ListsTo(st, p, n)
    PROVE  p = [x \in 1..Len(p) |-> p[x]]
<1>1. p \in Seq(1..n)
  BY DEF ListsTo
<1> QED BY <1>1

\* One position more, or less.
LEMMA ListsMore ==
    ASSUME NEW st, NEW n \in Nat, NEW p, ListsTo(st, p, n)
    PROVE  ListsTo(st, IF st[n + 1].kind = "eh" THEN Append(p, n + 1) ELSE p, n + 1)
<1>1. p \in Seq(1..n) /\ p \in Seq(1..n + 1) /\ Len(p) \in Nat /\ n + 1 \in 1..n + 1
  <2>1. p \in Seq(1..n) /\ 1..n \subseteq 1..n + 1
    BY DEF ListsTo
  <2>2. Len(p) \in Nat /\ p \in [1..Len(p) -> 1..n + 1]
    BY <2>1
  <2> QED BY <2>1, <2>2
<1>2. \A x \in 1..Len(p) : p[x] \in 1..n
  BY <1>1
<1>3. CASE st[n + 1].kind = "eh"
  <2> DEFINE q == Append(p, n + 1)
  <2>1. /\ q \in Seq(1..n + 1) /\ Len(q) = Len(p) + 1 /\ q[Len(p) + 1] = n + 1
        /\ \A x \in 1..Len(p) : q[x] = p[x]
    BY <1>1, AppendProperties
  <2> HIDE DEF q
  <2>2. \A x \in 1..Len(q) : x \in 1..Len(p) \/ x = Len(p) + 1
    BY <1>1, <2>1
  <2>3. \A x \in 1..Len(q) : st[q[x]].kind = "eh"
    BY <1>3, <2>1, <2>2 DEF ListsTo
  <2>4. \A x, y \in 1..Len(q) : x < y => q[x] < q[y]
    <3> SUFFICES ASSUME NEW x \in 1..Len(q), NEW y \in 1..Len(q), x < y PROVE q[x] < q[y]
      OBVIOUS
    <3>1. x \in 1..Len(p)
      BY <1>1, <2>1
    <3>2. CASE y \in 1..Len(p)
      BY <2>1, <3>1, <3>2 DEF ListsTo
    <3>3. CASE y = Len(p) + 1
      <4>1. q[x] = p[x] /\ q[y] = n + 1 /\ p[x] \in 1..n
        BY <1>2, <2>1, <3>1, <3>3
      <4> QED BY <4>1
    <3> QED BY <2>2, <3>2, <3>3
  <2>5. ASSUME NEW i \in 1..n + 1, st[i].kind = "eh" PROVE \E x \in 1..Len(q) : q[x] = i
    <3>1. CASE i \in 1..n
      <4>1. PICK x \in 1..Len(p) : p[x] = i
        BY <2>5, <3>1 DEF ListsTo
      <4> QED BY <1>1, <2>1, <4>1
    <3>2. CASE i = n + 1
      BY <1>1, <2>1, <3>2
    <3> QED BY <3>1, <3>2
  <2>6. ListsTo(st, q, n + 1)
    BY <2>1, <2>3, <2>4, <2>5 DEF ListsTo
  <2> QED BY <1>3, <2>6 DEF q
<1>4. CASE st[n + 1].kind # "eh"
  <2>1. \A i \in 1..n + 1 : st[i].kind = "eh" => i \in 1..n
    BY <1>4
  <2>2. ListsTo(st, p, n + 1)
    BY <1>1, <2>1 DEF ListsTo
  <2> QED BY <1>4, <2>2
<1> QED BY <1>3, <1>4

\* The recursion of EhPositions has a solution,
UpTo(st, f, n) ==
    \A i \in 0..n :
        f[i] = IF i = 0 THEN <<>>
               ELSE IF st[i].kind = "eh" THEN Append(f[i - 1], i) ELSE f[i - 1]

\* for every stack and every position.
LEMMA UpToExists ==
    ASSUME NEW st
    PROVE  \A n \in Nat : \E f : f = [i \in 0..n |-> f[i]] /\ UpTo(st, f, n)
<1> DEFINE T == {n \in Nat : ~ \E f : f = [i \in 0..n |-> f[i]] /\ UpTo(st, f, n)}
<1>1. SUFFICES ASSUME T # {} PROVE FALSE
  OBVIOUS
<1>2. PICK m \in T : \A k \in T : m <= k
  <2>1. T \in SUBSET Nat
    OBVIOUS
  <2> HIDE DEF T
  <2> QED BY <1>1, <2>1, LeastNumber
<1>3. CASE m = 0
  <2> DEFINE f == [i \in 0..0 |-> <<>>]
  <2>1. f = [i \in 0..0 |-> f[i]] /\ UpTo(st, f, 0)
    BY DEF UpTo
  <2> QED BY <1>2, <1>3, <2>1
<1>4. CASE m # 0
  <2>1. m - 1 \in Nat /\ m \in Nat /\ m - 1 \notin T
    BY <1>2, <1>4
  <2>2. PICK f : f = [i \in 0..m - 1 |-> f[i]] /\ UpTo(st, f, m - 1)
    BY <2>1
  <2> DEFINE x == IF st[m].kind = "eh" THEN Append(f[m - 1], m) ELSE f[m - 1]
  <2> HIDE DEF x
  <2> DEFINE g == [i \in 0..m |-> IF i = m THEN x ELSE f[i]]
  <2>3. g[m] = x /\ \A i \in 0..m - 1 : g[i] = f[i]
    BY <2>1
  <2>4. g = [i \in 0..m |-> g[i]]
    OBVIOUS
  <2> HIDE DEF g
  <2>5. ASSUME NEW i \in 0..m
        PROVE  g[i] = IF i = 0 THEN <<>>
                      ELSE IF st[i].kind = "eh" THEN Append(g[i - 1], i) ELSE g[i - 1]
    <3>1. CASE i = m
      <4>1. m - 1 \in 0..m - 1 /\ m # 0
        BY <2>1, <1>4
      <4>2. g[m] = x /\ g[m - 1] = f[m - 1]
        BY <2>3, <4>1
      <4> QED BY <3>1, <4>1, <4>2 DEF x
    <3>2. CASE i # m
      <4>1. i \in 0..m - 1 /\ (i # 0 => i - 1 \in 0..m - 1)
        BY <2>1, <3>2
      <4> QED BY <2>2, <2>3, <4>1 DEF UpTo
    <3> QED BY <3>1, <3>2
  <2>6. UpTo(st, g, m)
    BY <2>5 DEF UpTo
  <2> QED BY <1>2, <2>4, <2>6
<1> QED BY <1>3, <1>4

\* and every solution ends in a list of the positions.
LEMMA UpToLists ==
    ASSUME NEW st, NEW n \in Nat, NEW f, UpTo(st, f, n)
    PROVE  \A i \in 0..n : ListsTo(st, f[i], i)
<1> DEFINE T == {i \in 0..n : ~ListsTo(st, f[i], i)}
<1>1. SUFFICES ASSUME T # {} PROVE FALSE
  OBVIOUS
<1>2. PICK m \in T : \A k \in T : m <= k
  <2>1. T \in SUBSET Nat
    OBVIOUS
  <2> HIDE DEF T
  <2> QED BY <1>1, <2>1, LeastNumber
<1>3. CASE m = 0
  <2>1. f[0] = <<>>
    BY DEF UpTo
  <2>2. <<>> \in Seq(1..0) /\ Len(<<>>) = 0
    OBVIOUS
  <2>3. ListsTo(st, <<>>, 0)
    BY <2>2 DEF ListsTo
  <2> QED BY <1>2, <1>3, <2>1, <2>3
<1>4. CASE m # 0
  <2>1. m - 1 \in Nat /\ m - 1 \in 0..n /\ m \in 0..n /\ m - 1 + 1 = m
    BY <1>2, <1>4
  <2>2. ListsTo(st, f[m - 1], m - 1)
    BY <1>2, <2>1
  <2>3. f[m] = IF st[m].kind = "eh" THEN Append(f[m - 1], m) ELSE f[m - 1]
    BY <1>4, <2>1 DEF UpTo
  <2>4. ListsTo(st, IF st[m - 1 + 1].kind = "eh" THEN Append(f[m - 1], m - 1 + 1) ELSE f[m - 1], m - 1 + 1)
    BY <2>1, <2>2, ListsMore
  <2> QED BY <1>2, <2>1, <2>3, <2>4
<1> QED BY <1>3, <1>4

\* EhPositions is the list of the positions of the functions with a table.
LEMMA PositionsList ==
    ASSUME NEW st \in Seq(Activation)
    PROVE  Lists(st, EhPositions(st))
<1> DEFINE U(f) == f = [i \in 0..Len(st) |->
                           IF i = 0 THEN <<>>
                           ELSE IF st[i].kind = "eh" THEN Append(f[i - 1], i) ELSE f[i - 1]]
           g == CHOOSE f : U(f)
<1>1. Len(st) \in Nat
  OBVIOUS
<1>2. PICK f : f = [i \in 0..Len(st) |-> f[i]] /\ UpTo(st, f, Len(st))
  BY <1>1, UpToExists
<1>3. U(f)
  BY <1>2 DEF UpTo
<1>4. U(g)
  BY <1>3
<1>5. EhPositions(st) = g[Len(st)]
  BY DEF EhPositions
<1> HIDE DEF g
<1>6. UpTo(st, g, Len(st))
  BY <1>4 DEF UpTo
<1>7. ListsTo(st, g[Len(st)], Len(st))
  BY <1>1, <1>6, UpToLists
<1> QED BY <1>5, <1>7 DEF Lists

\* There is one list only: two that agree so far go on with the same position,
LEMMA ListsGoOn ==
    ASSUME NEW st, NEW n \in Nat, NEW a, NEW b, ListsTo(st, a, n), ListsTo(st, b, n),
           NEW k \in 1..Len(a), k \in 1..Len(b), \A j \in 1..k - 1 : a[j] = b[j]
    PROVE  a[k] >= b[k]
<1>1. /\ Len(a) \in Nat /\ a[k] \in 1..n /\ a[k] \in Nat /\ st[a[k]].kind = "eh"
      /\ \A x, y \in 1..Len(a) : x < y => a[x] < a[y]
  BY ListFacts
<1>2. /\ Len(b) \in Nat /\ b[k] \in Nat
      /\ \A x, y \in 1..Len(b) : x < y => b[x] < b[y]
      /\ \A i \in 1..n : st[i].kind = "eh" => \E x \in 1..Len(b) : b[x] = i
  BY ListFacts
<1>3. PICK x \in 1..Len(b) : b[x] = a[k]
  BY <1>1, <1>2
<1>4. CASE x < k
  <2>1. x \in 1..k - 1 /\ x \in 1..Len(a)
    BY <1>1, <1>2, <1>4
  <2>2. a[x] < a[k] /\ a[x] = b[x]
    BY <1>1, <1>4, <2>1
  <2> QED BY <1>1, <1>3, <2>2
<1>5. CASE x = k
  BY <1>1, <1>2, <1>3, <1>5
<1>6. CASE x > k
  <2>1. b[k] < b[x]
    BY <1>2, <1>6
  <2> QED BY <1>1, <1>2, <1>3, <2>1
<1> QED BY <1>1, <1>2, <1>4, <1>5, <1>6

\* and none ends before the other.
LEMMA ListsEnd ==
    ASSUME NEW st, NEW n \in Nat, NEW a, NEW b, ListsTo(st, a, n), ListsTo(st, b, n),
           \A k \in Nat : k \in 1..Len(a) /\ k \in 1..Len(b) => a[k] = b[k]
    PROVE  Len(a) <= Len(b)
<1>1. /\ Len(a) \in Nat /\ \A x \in 1..Len(a) : a[x] \in 1..n /\ a[x] \in Nat /\ st[a[x]].kind = "eh"
      /\ \A x, y \in 1..Len(a) : x < y => a[x] < a[y]
  BY ListFacts
<1>2. Len(b) \in Nat /\ \A i \in 1..n : st[i].kind = "eh" => \E x \in 1..Len(b) : b[x] = i
  <2>1. ListsTo(st, b, n)
    OBVIOUS
  <2> QED BY ONLY n \in Nat, <2>1, ListFacts
<1>3. SUFFICES ASSUME Len(b) + 1 \in 1..Len(a) PROVE FALSE
  BY <1>1, <1>2
<1>4. PICK l \in 1..Len(a) : l = Len(b) + 1
  BY <1>3
<1>5. PICK x \in 1..Len(b) : b[x] = a[l]
  BY <1>1, <1>2
<1>6. x \in Nat /\ x \in 1..Len(a) /\ x < l
  BY <1>1, <1>2, <1>4
<1>7. a[x] < a[l] /\ a[x] = b[x]
  BY <1>1, <1>6
<1> QED BY <1>1, <1>5, <1>7

\* So two lists of the same positions are equal.
LEMMA ListsOnce ==
    ASSUME NEW st, NEW n \in Nat, NEW p, NEW q, ListsTo(st, p, n), ListsTo(st, q, n)
    PROVE  p = q
<1>1. /\ Len(p) \in Nat /\ \A x \in 1..Len(p) : p[x] \in Nat
      /\ Len(q) \in Nat /\ \A x \in 1..Len(q) : q[x] \in Nat
  <2>1. Len(p) \in Nat /\ \A x \in 1..Len(p) : p[x] \in Nat
    BY ListFacts
  <2>2. Len(q) \in Nat /\ \A x \in 1..Len(q) : q[x] \in Nat
    BY ListFacts
  <2> QED BY <2>1, <2>2
<1> DEFINE T == {k \in Nat : k \in 1..Len(p) /\ k \in 1..Len(q) /\ p[k] # q[k]}
<1>2. T = {}
  <2>1. SUFFICES ASSUME T # {} PROVE FALSE
    OBVIOUS
  <2>2. PICK m \in T : \A k \in T : m <= k
    <3>1. T \in SUBSET Nat
      OBVIOUS
    <3> HIDE DEF T
    <3> QED BY <2>1, <3>1, LeastNumber
  <2>3. ASSUME NEW j \in 1..m - 1 PROVE p[j] = q[j]
    <3>1. j \in Nat /\ j \in 1..Len(p) /\ j \in 1..Len(q) /\ ~(m <= j)
      BY <1>1, <2>2
    <3> QED BY <2>2, <3>1
  <2>4. p[m] >= q[m] /\ q[m] >= p[m]
    BY <2>2, <2>3, ListsGoOn
  <2>5. p[m] \in Nat /\ q[m] \in Nat
    BY <1>1, <2>2
  <2> QED BY <2>2, <2>4, <2>5
<1>3. \A k \in Nat : k \in 1..Len(p) /\ k \in 1..Len(q) => p[k] = q[k]
  BY <1>2
<1>4. Len(p) = Len(q)
  <2>1. Len(p) <= Len(q) /\ Len(q) <= Len(p)
    BY <1>3, ListsEnd
  <2> HIDE DEF T
  <2> QED BY <1>1, <2>1
<1>5. \A x \in 1..Len(p) : p[x] = q[x]
  BY <1>1, <1>3, <1>4
<1>6. p = [x \in 1..Len(p) |-> p[x]] /\ q = [x \in 1..Len(p) |-> q[x]]
  BY <1>4, ListIsFunction
<1> QED BY <1>5, <1>6

-----------------------------------------------------------------------------
(* Where the walks are.  That a walk has gone past what does not act on the     *)
(* exception is not said by Inv and HInv, which ask only what must not be lost. *)

\* What a walk has gone past is no handler, and in phase two no cleanup either,
\* but for the cleanup it goes on from, which is on top of the stack.
Walked ==
    /\ mode = "search" => \A i \in cursor + 1..N : ~Catches(i, exc[flying].type)
    /\ mode = "unwind" =>
          \A i \in 1..N :
              IF stack[i].obj = flying THEN i = N /\ stack[i].pc = "cleanup"
              ELSE i > cursor => ~Catches(i, exc[flying].type) /\
                                 (stack[i].kind = "eh" => ~Covers(stack[i].site))

\* Phase one goes past a function that does not catch.
LEMMA WalkedSearchNext ==
    ASSUME Inv, Walked, SearchNext
    PROVE  Walked'
<1>1. /\ mode = "search" /\ mode' = mode /\ cursor # 0 /\ cursor' = stack[cursor].prev
      /\ stack' = stack /\ exc' = exc /\ flying' = flying
      /\ FrameAction(cursor, exc[flying].type, TRUE) = "none"
  BY DEF SearchNext, objects
<1>2. cursor \in 1..N /\ N \in Nat /\ stack[cursor].kind = "eh"
  BY <1>1, Fields DEF Inv, TypeOK, Walks
<1>3. ~Catches(cursor, exc[flying].type)
  BY <1>1, <1>2, ActionIsCatch
<1>4. N' = N /\ \A b, t : Catches(b, t)' <=> Catches(b, t)
  BY <1>1, StackSame
<1>5. PICK c \in 0..cursor - 1 : c = cursor' /\ \A i \in 1..cursor - 1 : stack[i].kind = "eh" => i <= c
  BY <1>1, <1>2, PrevIsNext
<1>6. ASSUME NEW i \in c + 1..N, Catches(i, exc[flying].type) PROVE FALSE
  <2>1. i \in 1..N /\ stack[i].kind = "eh" /\ ~(i \in 1..cursor - 1)
    BY <1>2, <1>5, <1>6 DEF Catches
  <2>2. i = cursor \/ i \in cursor + 1..N
    BY <1>2, <2>1
  <2> QED BY <1>1, <1>3, <1>6, <2>2 DEF Walked
<1>7. Walked' <=> \A i \in c + 1..N : ~Catches(i, exc[flying].type)
  BY <1>1, <1>4, <1>5 DEF Walked, Catches
<1> QED BY <1>6, <1>7

\* Phase two goes past a function that neither catches nor cleans up.
LEMMA WalkedUnwindNext ==
    ASSUME Inv, Walked, UnwindNext
    PROVE  Walked'
<1>1. /\ mode = "unwind" /\ mode' = mode /\ cursor # 0 /\ cursor' = stack[cursor].prev
      /\ stack' = stack /\ exc' = exc /\ flying' = flying
      /\ FrameAction(cursor, exc[flying].type, FALSE) = "none"
  BY DEF UnwindNext, objects
<1>2. cursor \in 1..N /\ N \in Nat /\ stack[cursor].kind = "eh"
  BY <1>1, Fields DEF Inv, TypeOK, Walks
<1>3. ~Catches(cursor, exc[flying].type) /\ ~Covers(stack[cursor].site)
  BY <1>1, <1>2, ActionIsCatch
<1>4. N' = N /\ \A b, t : Catches(b, t)' <=> Catches(b, t)
  BY <1>1, StackSame
<1>5. ASSUME NEW i \in 1..N, stack[i].obj # flying, i > cursor'
      PROVE  ~Catches(i, exc[flying].type) /\ (stack[i].kind = "eh" => ~Covers(stack[i].site))
  <2>1. CASE stack[i].kind = "eh"
    <3>1. cursor' \in 0..cursor - 1 /\ ~(i \in 1..cursor - 1)
      BY <1>1, <1>2, <1>5, <2>1, PrevIsNext
    <3>2. i = cursor \/ i > cursor
      BY <1>2, <3>1
    <3> QED BY <1>1, <1>3, <1>5, <3>2 DEF Walked
  <2>2. CASE stack[i].kind # "eh"
    BY <2>2 DEF Catches
  <2> QED BY <2>1, <2>2
<1>6. \A i \in 1..N : stack[i].obj = flying => i = N /\ stack[i].pc = "cleanup"
  BY <1>1 DEF Walked
<1>7. mode' # "search" /\ \A i \in 1..N : (Catches(i, exc[flying].type)' <=> Catches(i, exc[flying].type))
  BY <1>1 DEF Catches
<1> QED BY <1>1, <1>4, <1>5, <1>6, <1>7 DEF Walked

\* Phase two starts at the top: nothing has been gone past.
LEMMA WalkedSearchFound ==
    ASSUME Inv, Walked, SearchFound
    PROVE  Walked'
<1>1. /\ mode = "search" /\ mode' = "unwind" /\ cursor' = ehTop
      /\ stack' = stack /\ flying' = flying
  BY DEF SearchFound
<1>2. N' = N /\ flying \in Exc
  BY <1>1 DEF Inv, TypeOK, N
<1>3. ASSUME NEW i \in 1..N
      PROVE  stack[i].obj # flying /\ (stack[i].kind = "eh" => i <= ehTop) /\ ehTop \in Nat
  <2>1. flying # NoExc
    BY <1>2, Fields DEF Inv
  <2>2. stack[i].obj # flying
    BY <1>1, <2>1 DEF Inv, Walks
  <2> QED BY <2>2, Fields, TopIsFirst DEF Inv
<1>4. ASSUME NEW i \in 1..N, i > ehTop PROVE stack[i].kind # "eh"
  BY <1>3, <1>4
<1>5. \A i \in 1..N : i > ehTop => ~Catches(i, exc[flying].type)'
  BY <1>1, <1>4 DEF Catches
<1> QED BY <1>1, <1>2, <1>3, <1>4, <1>5 DEF Walked

\* Every step keeps Walked.
LEMMA WalkedNext ==
    ASSUME Inv, HInv, Inv', Walked, ~Rethrows, [Next]_vars
    PROVE  Walked'
<1>1. CASE UNCHANGED vars
  <2>1. stack' = stack /\ exc' = exc /\ mode' = mode /\ cursor' = cursor /\ flying' = flying
    BY <1>1 DEF vars
  <2> QED BY <2>1 DEF Walked, Catches, N
<1>2. CASE mode' \notin {"search", "unwind"}
  BY <1>2 DEF Walked
<1>3. CASE Next /\ ~UNCHANGED vars /\ mode' \in {"search", "unwind"}
  <2>1. Effect
    BY <1>3, EffectOf
  <2>2. CASE WalksOn
    <3>1. SearchNext \/ SearchFound \/ UnwindNext \/ WalkEnds
      BY <1>3, <2>2, WalkIs
    <3>2. ~WalkEnds
      BY <1>3 DEF WalkEnds
    <3> QED BY <3>1, <3>2, WalkedSearchNext, WalkedSearchFound, WalkedUnwindNext
  <2>3. CASE \E e \in Exc, t \in Type : Throws(e, t)
    <3>1. PICK e \in Exc, t \in Type : Throws(e, t)
      BY <2>3
    <3>2. mode' = "search" /\ cursor' = ehTop /\ N' = N /\ N \in Nat
      BY <3>1, Fields DEF Throws, Inv
    <3>3. ASSUME NEW i \in 1..N, i > ehTop PROVE stack'[i].kind # "eh"
      <4>1. stack[i].kind # "eh"
        BY <3>2, <3>3, TopIsFirst
      <4>2. i = N \/ i \in 1..N - 1
        BY <3>2
      <4> QED BY <3>1, <4>1, <4>2 DEF Throws, Same, Alike
    <3>4. ehTop \in Nat
      BY <3>2, TopIsFirst
    <3>5. \A i \in cursor' + 1..N' : ~Catches(i, exc[flying].type)'
      BY <3>2, <3>3, <3>4 DEF Catches
    <3> QED BY <3>2, <3>5 DEF Walked
  <2>4. CASE \E e \in Exc : Resumes(e)
    <3>1. PICK e \in Exc : Resumes(e)
      BY <2>4
    <3>2. /\ mode' = "unwind" /\ cursor' = stack[N].prev /\ N' = N /\ N \in 1..N /\ N \in Nat
          /\ flying' = e /\ stack[N].obj = e /\ stack[N].pc = "cleanup"
          /\ \A i \in 1..N : Alike(stack'[i], stack[i])
      BY <3>1, Fields DEF Resumes, Inv
    <3>3. stack[N].kind = "eh" /\ e # NoExc
      BY <3>2, Fields DEF Inv, Pads
    <3>4. ASSUME NEW i \in 1..N, i # N PROVE stack[i].obj # e
      BY <3>2, <3>3, <3>4 DEF Inv, Holders, ObjAlone
    <3>5. ASSUME NEW i \in 1..N, i # N, i > stack[N].prev PROVE stack[i].kind # "eh"
      <4>1. i \in 1..N - 1 /\ stack[N].prev \in Nat
        BY <3>2, <3>5, Fields DEF Inv
      <4> QED BY <3>2, <3>3, <3>5, <4>1, PrevIsNext
    <3>6. ASSUME NEW i \in 1..N
          PROVE  IF stack'[i].obj = e THEN i = N /\ stack'[i].pc = "cleanup"
                 ELSE i > cursor' => stack'[i].kind # "eh"
      <4>1. stack'[i].obj = stack[i].obj /\ stack'[i].pc = stack[i].pc /\ stack'[i].kind = stack[i].kind
        BY <3>2 DEF Alike
      <4> QED BY <3>2, <3>4, <3>5, <4>1
    <3>7. \A i : stack'[i].kind # "eh" => ~Catches(i, exc[flying].type)'
      BY DEF Catches
    <3> QED BY <3>2, <3>6, <3>7 DEF Walked
  <2>5. CASE \/ Calls \/ Returns
             \/ \E e \in Exc : Allocates(e) \/ Frees(e) \/ Leaves(e) \/ Begins(e)
             \/ \E act \in {"catch", "cleanup"} : flying \in Exc /\ Lands(act, flying)
    <3>1. mode' = "run"
      BY <2>5 DEF Calls, Returns, Allocates, Frees, Leaves, Begins, Lands
    <3> QED BY <1>3, <3>1
  <2> QED BY <2>1, <2>2, <2>3, <2>4, <2>5 DEF Effect
<1> QED BY <1>1, <1>2, <1>3

\* So it holds in every state.
LEMMA WalkedStays == ASSUME ~Rethrows PROVE Spec => [](Inv /\ HInv /\ Walked)
<1>1. Init => Walked
  BY DEF Init, Walked
<1>2. Inv /\ HInv /\ Walked /\ [Next]_vars => (Inv /\ HInv /\ Walked)'
  BY InvNext, HInvNext, WalkedNext
<1> QED BY <1>1, <1>2, InvInit, HInvInit, PTL DEF Spec

-----------------------------------------------------------------------------
(* What becomes of the frames when the host stack changes.                     *)

\* What is shown of an activation is a frame of CxxUnwind.
LEMMA ShownTyped ==
    ASSUME NEW ex \in [Exc -> Object], NEW a \in Activation
    PROVE  Shown(ex, a) \in Cxx!Frame
<1>1. a.site \in Site \cup {NoSite} /\ a.pc \in {"run", "cleanup", "catch"} /\ a.obj \in Exc \cup {NoExc}
  BY DEF Activation
<1>2. a.obj # NoExc => ex[a.obj].type \in Type
  <2>1. a.obj # NoExc => ex[a.obj] \in Object
    BY <1>1
  <2> QED BY <2>1 DEF Object
<1> QED BY <1>1, <1>2 DEF Shown, Cxx!Frame

\* The frames are the activations in the list of positions.
LEMMA FramesListed ==
    ASSUME NEW st \in Seq(Activation), NEW ex \in [Exc -> Object]
    PROVE  /\ ListsTo(st, EhPositions(st), Len(st)) /\ Len(st) \in Nat
           /\ FramesOf(st, ex) \in Seq(Cxx!Frame)
           /\ Len(FramesOf(st, ex)) = Len(EhPositions(st)) /\ Len(EhPositions(st)) \in Nat
           /\ \A x \in 1..Len(EhPositions(st)) :
                 /\ EhPositions(st)[x] \in 1..Len(st) /\ st[EhPositions(st)[x]].kind = "eh"
                 /\ FramesOf(st, ex)[x] = Shown(ex, st[EhPositions(st)[x]])
<1>1. PICK p : p = EhPositions(st)
  OBVIOUS
<1>2. ListsTo(st, p, Len(st)) /\ Len(st) \in Nat
  BY <1>1, PositionsList DEF Lists
<1>3. Len(p) \in Nat /\ \A x \in 1..Len(p) : p[x] \in 1..Len(st) /\ st[p[x]].kind = "eh"
  BY <1>2, ListFacts
<1>4. FramesOf(st, ex) = [x \in 1..Len(p) |-> Shown(ex, st[p[x]])]
  BY <1>1 DEF FramesOf
<1>5. \A x \in 1..Len(p) : Shown(ex, st[p[x]]) \in Cxx!Frame
  <2>1. \A x \in 1..Len(p) : st[p[x]] \in Activation
    BY <1>3
  <2> QED BY <2>1, ShownTyped
<1>6. FramesOf(st, ex) \in Seq(Cxx!Frame) /\ Len(FramesOf(st, ex)) = Len(p)
  <2> DEFINE g(x) == Shown(ex, st[p[x]])
  <2>1. \A x \in 1..Len(p) : g(x) \in Cxx!Frame
    BY <1>5
  <2>2. FramesOf(st, ex) = [x \in 1..Len(p) |-> g(x)]
    BY <1>4
  <2> HIDE DEF g
  <2> QED BY <1>3, <2>1, <2>2
<1> QED BY <1>1, <1>2, <1>3, <1>4, <1>6

\* The same functions have a table.
SameEh(st, su) ==
    /\ \A i \in 1..Len(st) : st[i].kind = "eh" => i \in 1..Len(su) /\ su[i].kind = "eh"
    /\ \A i \in 1..Len(su) : su[i].kind = "eh" => i \in 1..Len(st) /\ st[i].kind = "eh"

\* then they are at the same positions.
LEMMA PositionsKept ==
    ASSUME NEW st \in Seq(Activation), NEW su \in Seq(Activation), SameEh(st, su)
    PROVE  EhPositions(su) = EhPositions(st)
<1>1. PICK p : p = EhPositions(st)
  OBVIOUS
<1>2. ListsTo(st, p, Len(st)) /\ Len(st) \in Nat /\ Len(su) \in Nat
  BY <1>1, PositionsList DEF Lists
<1>3. /\ p \in Seq(1..Len(st)) /\ Len(p) \in Nat
      /\ \A x \in 1..Len(p) : p[x] \in 1..Len(st) /\ st[p[x]].kind = "eh"
      /\ \A x, y \in 1..Len(p) : x < y => p[x] < p[y]
      /\ \A i \in 1..Len(st) : st[i].kind = "eh" => \E x \in 1..Len(p) : p[x] = i
  BY <1>2, ListFacts
<1>4. \A x \in 1..Len(p) : p[x] \in 1..Len(su) /\ su[p[x]].kind = "eh"
  BY <1>3 DEF SameEh
<1>5. p \in Seq(1..Len(su))
  <2>1. p = [x \in 1..Len(p) |-> p[x]]
    BY <1>2, ListIsFunction
  <2>2. p \in [1..Len(p) -> 1..Len(su)]
    BY <1>4, <2>1
  <2>3. Len(p) \in Nat
    BY <1>3
  <2> QED BY <2>2, <2>3
<1>6. ListsTo(su, p, Len(su))
  BY <1>3, <1>4, <1>5 DEF ListsTo, SameEh
<1>7. ListsTo(su, EhPositions(su), Len(su))
  BY PositionsList DEF Lists
<1> QED BY <1>1, <1>2, <1>6, <1>7, ListsOnce

\* Nothing changes in the functions with a table: nothing changes in the frames.
LEMMA FramesKept ==
    ASSUME NEW st \in Seq(Activation), NEW su \in Seq(Activation), SameEh(st, su), NEW ex, NEW ey,
           \A i \in 1..Len(st) : st[i].kind = "eh" => Shown(ey, su[i]) = Shown(ex, st[i])
    PROVE  FramesOf(su, ey) = FramesOf(st, ex)
<1>1. PICK p : p = EhPositions(st) /\ p = EhPositions(su)
  BY PositionsKept
<1>2. \A x \in 1..Len(p) : p[x] \in 1..Len(st) /\ st[p[x]].kind = "eh"
  <2>1. ListsTo(st, EhPositions(st), Len(st)) /\ Len(st) \in Nat
    BY PositionsList DEF Lists
  <2>2. \A x \in 1..Len(EhPositions(st)) :
           EhPositions(st)[x] \in 1..Len(st) /\ st[EhPositions(st)[x]].kind = "eh"
    BY ONLY <2>1, ListFacts
  <2> QED BY <1>1, <2>2
<1>3. \A x \in 1..Len(p) : Shown(ey, su[p[x]]) = Shown(ex, st[p[x]])
  BY <1>2
<1> QED BY <1>1, <1>3 DEF FramesOf

\* n is where the innermost one is.
LastEh(st, n) == n \in 1..Len(st) /\ st[n].kind = "eh" /\ \A i \in n + 1..Len(st) : st[i].kind # "eh"

\* The innermost function with a table is the last of the positions.
LEMMA LastPosition ==
    ASSUME NEW st \in Seq(Activation), NEW n, LastEh(st, n)
    PROVE  /\ Len(EhPositions(st)) \in Nat \ {0}
           /\ EhPositions(st)[Len(EhPositions(st))] = n
           /\ \A x \in 1..Len(EhPositions(st)) - 1 : EhPositions(st)[x] \in 1..n - 1
<1>1. PICK p : p = EhPositions(st)
  OBVIOUS
<1>2. ListsTo(st, p, Len(st)) /\ Len(st) \in Nat
  BY <1>1, PositionsList DEF Lists
<1>3. /\ Len(p) \in Nat
      /\ \A x \in 1..Len(p) : p[x] \in 1..Len(st) /\ p[x] \in Nat /\ st[p[x]].kind = "eh"
      /\ \A x, y \in 1..Len(p) : x < y => p[x] < p[y]
      /\ \A i \in 1..Len(st) : st[i].kind = "eh" => \E x \in 1..Len(p) : p[x] = i
  BY <1>2, ListFacts
<1>4. PICK x \in 1..Len(p) : p[x] = n
  BY <1>3 DEF LastEh
<1>5. \A y \in 1..Len(p) : p[y] <= n
  BY <1>2, <1>3 DEF LastEh
<1>6. x = Len(p)
  <2> SUFFICES ASSUME x < Len(p) PROVE FALSE
    BY <1>3, <1>4
  <2>1. Len(p) \in 1..Len(p) /\ p[x] < p[Len(p)] /\ p[Len(p)] <= n
    BY <1>3, <1>4, <1>5
  <2> QED BY <1>3, <1>4, <2>1
<1>7. \A y \in 1..Len(p) - 1 : p[y] \in 1..n - 1
  <2> TAKE y \in 1..Len(p) - 1
  <2>1. y \in 1..Len(p) /\ y < x
    BY <1>3, <1>6
  <2>2. p[y] < n /\ p[y] \in 1..Len(st) /\ n \in Nat
    BY <1>2, <1>3, <1>4, <2>1
  <2> QED BY <2>2
<1> QED BY <1>1, <1>3, <1>4, <1>6, <1>7

\* Only the innermost function with a table changes: only the last frame does.
LEMMA FramesTop ==
    ASSUME NEW st \in Seq(Activation), NEW su \in Seq(Activation), SameEh(st, su), NEW n, LastEh(st, n),
           NEW ex \in [Exc -> Object], NEW ey,
           \A i \in 1..n - 1 : st[i].kind = "eh" => Shown(ey, su[i]) = Shown(ex, st[i])
    PROVE  /\ Len(FramesOf(st, ex)) \in Nat \ {0}
           /\ FramesOf(st, ex)[Len(FramesOf(st, ex))] = Shown(ex, st[n])
           /\ FramesOf(su, ey) = [FramesOf(st, ex) EXCEPT ![Len(FramesOf(st, ex))] = Shown(ey, su[n])]
<1>1. PICK p : p = EhPositions(st) /\ p = EhPositions(su)
  BY PositionsKept
<1>2. PICK d \in Nat \ {0} : d = Len(p)
  BY <1>1, LastPosition
<1>3. p[d] = n /\ \A x \in 1..d - 1 : p[x] \in 1..n - 1
  BY <1>1, <1>2, LastPosition
<1>4. Len(FramesOf(st, ex)) = d /\ \A x \in 1..d : st[p[x]].kind = "eh"
  BY <1>1, <1>2, FramesListed
<1>5. FramesOf(st, ex) = [x \in 1..d |-> Shown(ex, st[p[x]])]
  BY <1>1, <1>2 DEF FramesOf
<1>6. FramesOf(su, ey) = [x \in 1..d |-> Shown(ey, su[p[x]])]
  BY <1>1, <1>2 DEF FramesOf
<1>7. \A x \in 1..d : x # d => Shown(ey, su[p[x]]) = Shown(ex, st[p[x]])
  <2> SUFFICES ASSUME NEW x \in 1..d - 1 PROVE Shown(ey, su[p[x]]) = Shown(ex, st[p[x]])
    BY <1>2
  <2>1. x \in 1..d
    BY <1>2
  <2> QED BY <1>3, <1>4, <2>1
<1>8. PICK f : f = FramesOf(st, ex)
  OBVIOUS
<1>9. d \in 1..d /\ f[d] = Shown(ex, st[n])
  BY <1>2, <1>3, <1>5, <1>8
<1>10. FramesOf(su, ey) = [f EXCEPT ![d] = Shown(ey, su[n])]
  <2>1. \A x \in 1..d : [f EXCEPT ![d] = Shown(ey, su[n])][x] = Shown(ey, su[p[x]])
    BY <1>2, <1>3, <1>5, <1>7, <1>8
  <2>2. [f EXCEPT ![d] = Shown(ey, su[n])] = [x \in 1..d |-> [f EXCEPT ![d] = Shown(ey, su[n])][x]]
    BY <1>5, <1>8
  <2> DEFINE g == [f EXCEPT ![d] = Shown(ey, su[n])]
  <2> HIDE DEF g
  <2>3. g = [x \in 1..d |-> Shown(ey, su[p[x]])]
    BY <2>1, <2>2 DEF g
  <2> QED BY <1>6, <2>3 DEF g
<1> QED BY <1>2, <1>4, <1>8, <1>9, <1>10

\* A function with a table is pushed: a frame is appended.
LEMMA FramesPushed ==
    ASSUME NEW st \in Seq(Activation), NEW su \in Seq(Activation), Len(su) = Len(st) + 1,
           \A i \in 1..Len(st) : su[i] = st[i], su[Len(su)].kind = "eh",
           NEW ex \in [Exc -> Object]
    PROVE  FramesOf(su, ex) = Append(FramesOf(st, ex), Shown(ex, su[Len(su)]))
<1>1. PICK p : p = EhPositions(st)
  OBVIOUS
<1>2. ListsTo(st, p, Len(st)) /\ Len(st) \in Nat /\ p \in Seq(Nat)
  <2>1. ListsTo(st, p, Len(st)) /\ Len(st) \in Nat
    BY <1>1, PositionsList DEF Lists
  <2>2. Len(p) \in Nat /\ \A x \in 1..Len(p) : p[x] \in Nat
    BY <2>1, ListFacts
  <2>3. p \in Seq(1..Len(st))
    BY <2>1, ListFacts
  <2> QED BY <2>1, <2>2, <2>3
<1>3. /\ Len(p) \in Nat
      /\ \A x \in 1..Len(p) : p[x] \in 1..Len(st) /\ st[p[x]].kind = "eh"
      /\ \A i \in 1..Len(st) : st[i].kind = "eh" => \E x \in 1..Len(p) : p[x] = i
      /\ \A x, y \in 1..Len(p) : x < y => p[x] < p[y]
  BY <1>2, ListFacts
<1>4. ListsTo(su, p, Len(st))
  BY <1>2, <1>3 DEF ListsTo
<1> DEFINE q == Append(p, Len(su))
<1>5. ListsTo(su, q, Len(su))
  BY <1>2, <1>4, ListsMore
<1>6. /\ Len(q) = Len(p) + 1 /\ q[Len(p) + 1] = Len(su)
      /\ \A x \in 1..Len(p) : q[x] = p[x]
  <2>1. Len(su) \in Nat
    OBVIOUS
  <2> QED BY <1>2, <2>1, AppendProperties
<1> HIDE DEF q
<1>7. q = EhPositions(su)
  <2>1. ListsTo(su, EhPositions(su), Len(su)) /\ Len(su) \in Nat
    BY PositionsList DEF Lists
  <2> QED BY <1>5, <2>1, ListsOnce
<1>8. PICK d \in Nat : d = Len(p)
  BY <1>3
<1>9. FramesOf(su, ex) = [x \in 1..d + 1 |-> Shown(ex, su[q[x]])]
  BY <1>6, <1>7, <1>8 DEF FramesOf
<1>10. PICK f \in Seq(Cxx!Frame) : f = FramesOf(st, ex) /\ Len(f) = d /\ \A x \in 1..d : f[x] = Shown(ex, st[p[x]])
  BY <1>1, <1>8, FramesListed
<1>11. PICK a \in Cxx!Frame : a = Shown(ex, su[Len(su)])
  <2>1. su[Len(su)] \in Activation
    OBVIOUS
  <2> QED BY <2>1, ShownTyped
<1>12. /\ Append(f, a) \in Seq(Cxx!Frame) /\ Len(Append(f, a)) = d + 1
       /\ Append(f, a)[d + 1] = a /\ \A x \in 1..d : Append(f, a)[x] = f[x]
  BY <1>10, AppendProperties
<1>13. \A x \in 1..d + 1 : Append(f, a)[x] = Shown(ex, su[q[x]])
  <2> TAKE x \in 1..d + 1
  <2>1. CASE x = d + 1
    BY <1>6, <1>8, <1>11, <1>12, <2>1
  <2>2. CASE x \in 1..d
    <3>1. q[x] = p[x] /\ su[p[x]] = st[p[x]]
      BY <1>3, <1>6, <1>8, <2>2
    <3> QED BY <1>10, <1>12, <2>2, <3>1
  <2>3. x = d + 1 \/ x \in 1..d
    BY <1>8
  <2> QED BY <2>1, <2>2, <2>3
<1>14. Append(f, a) = [x \in 1..d + 1 |-> Append(f, a)[x]]
  <2> DEFINE g == Append(f, a)
  <2>1. g \in Seq(Cxx!Frame) /\ Len(g) = d + 1
    BY <1>12
  <2> HIDE DEF g
  <2>2. g = [x \in 1..d + 1 |-> g[x]]
    BY <1>8, <2>1
  <2> QED BY <2>2 DEF g
<1> QED BY <1>9, <1>10, <1>11, <1>13, <1>14

\* A function on 1..k is a sequence of length k.
LEMMA IsSeq ==
    ASSUME NEW S, NEW k \in Nat, NEW q \in [1..k -> S]
    PROVE  q \in Seq(S) /\ Len(q) = k
OBVIOUS

\* What SubSeq from the first element returns.
LEMMA Prefix ==
    ASSUME NEW S, NEW s \in Seq(S), NEW d \in 0..Len(s)
    PROVE  /\ SubSeq(s, 1, d) \in Seq(S) /\ Len(SubSeq(s, 1, d)) = d
           /\ \A x \in 1..d : x \in 1..Len(s) /\ SubSeq(s, 1, d)[x] = s[x]
           /\ SubSeq(s, 1, d) = [x \in 1..d |-> s[x]]
<1>1. d \in Nat /\ Len(s) \in Nat /\ \A i \in 1..d : i \in 1..Len(s) /\ s[i] \in S
  OBVIOUS
<1>2. /\ SubSeq(s, 1, d) \in Seq(S)
      /\ Len(SubSeq(s, 1, d)) = IF 1 <= d THEN d - 1 + 1 ELSE 0
      /\ \A i \in 1..d - 1 + 1 : SubSeq(s, 1, d)[i] = s[1 + i - 1]
  BY <1>1, SubSeqProperties
<1> DEFINE g == SubSeq(s, 1, d)
<1> HIDE DEF g
<1>3. \A i \in 1..d : i \in 1..d - 1 + 1 /\ 1 + i - 1 = i
  OBVIOUS
<1>4. g \in Seq(S) /\ Len(g) = d
  BY <1>1, <1>2 DEF g
<1>5. \A i \in 1..d : g[i] = s[i]
  BY <1>2, <1>3 DEF g
<1>6. g = [x \in 1..d |-> s[x]]
  <2>1. g = [x \in 1..d |-> g[x]]
    BY <1>4
  <2> QED BY <1>5, <2>1
<1> QED BY <1>1, <1>4, <1>5, <1>6 DEF g

\* The host stack is cut: so are the frames.
LEMMA FramesCut ==
    ASSUME NEW st \in Seq(Activation), NEW n \in 0..Len(st), NEW su \in Seq(Activation), Len(su) = n,
           \A i \in 1..n : su[i] = st[i], NEW ex \in [Exc -> Object]
    PROVE  \E d \in 0..Len(EhPositions(st)) :
              /\ FramesOf(su, ex) = SubSeq(FramesOf(st, ex), 1, d)
              /\ \A x \in 1..Len(EhPositions(st)) : x <= d <=> EhPositions(st)[x] <= n
<1>1. PICK p : p = EhPositions(st)
  OBVIOUS
<1>2. ListsTo(st, EhPositions(st), Len(st)) /\ Len(st) \in Nat
  BY PositionsList DEF Lists
<1>3. /\ p \in Seq(1..Len(st)) /\ Len(p) \in Nat
      /\ \A x \in 1..Len(p) : p[x] \in 1..Len(st) /\ p[x] \in Nat /\ st[p[x]].kind = "eh"
      /\ \A x, y \in 1..Len(p) : x < y => p[x] < p[y]
      /\ \A i \in 1..Len(st) : st[i].kind = "eh" => \E x \in 1..Len(p) : p[x] = i
  <2>1. ListsTo(st, p, Len(st)) /\ Len(st) \in Nat
    BY <1>1, <1>2
  <2> QED BY ONLY <2>1, ListFacts
<1>4. PICK d \in 0..Len(p) : \A x \in 1..Len(p) : x <= d <=> p[x] <= n
  <2> DEFINE T == {k \in 0..Len(p) : \A x \in 1..Len(p) : p[x] <= n => x <= k}
  <2>1. Len(p) \in T /\ T \in SUBSET Nat
    BY <1>3
  <2>2. PICK m \in T : \A k \in T : m <= k
    <3> HIDE DEF T
    <3> QED BY <2>1, LeastNumber
  <2>3. m # 0 => p[m] <= n
    <3> SUFFICES ASSUME m # 0, ~(p[m] <= n) PROVE FALSE
      OBVIOUS
    <3>1. m \in 1..Len(p) /\ m - 1 \in 0..Len(p) /\ ~(m <= m - 1)
      BY <1>3, <2>2
    <3>2. \A x \in 1..Len(p) : p[x] <= n => x <= m - 1
      BY <1>3, <2>2, <3>1
    <3> QED BY <2>2, <3>1, <3>2
  <2>4. ASSUME NEW x \in 1..Len(p), x <= m PROVE p[x] <= n
    <3>1. m \in 1..Len(p) /\ p[m] <= n /\ m \in Nat
      BY <1>3, <2>2, <2>3, <2>4
    <3>2. x = m \/ x < m
      BY <2>4, <3>1
    <3>3. x < m => p[x] < p[m]
      BY <1>3, <3>1
    <3> QED BY <1>3, <3>1, <3>2, <3>3
  <2> QED BY <2>2, <2>4
<1>5. PICK q \in Seq(1..Len(st)) : /\ q = SubSeq(p, 1, d) /\ Len(q) = d
                                   /\ \A x \in 1..d : x \in 1..Len(p) /\ q[x] = p[x]
  <2>1. p \in Seq(1..Len(st)) /\ d \in 0..Len(p)
    BY <1>3
  <2>2. /\ SubSeq(p, 1, d) \in Seq(1..Len(st)) /\ Len(SubSeq(p, 1, d)) = d
        /\ \A x \in 1..d : x \in 1..Len(p) /\ SubSeq(p, 1, d)[x] = p[x]
    BY ONLY <2>1, Prefix
  <2> QED BY ONLY <2>2
<1>6. ListsTo(su, q, n)
  <2>1. \A x \in 1..d : q[x] \in 1..n /\ su[q[x]].kind = "eh"
    <3> TAKE x \in 1..d
    <3>1. x \in 1..Len(p) /\ x <= d /\ q[x] = p[x]
      BY <1>5
    <3>2. p[x] <= n /\ p[x] \in Nat /\ p[x] >= 1 /\ st[p[x]].kind = "eh"
      BY <1>3, <1>4, <3>1
    <3>3. p[x] \in 1..n
      BY <3>2
    <3> QED BY <3>1, <3>2, <3>3
  <2>2. q \in Seq(1..n)
    <3>1. q = [x \in 1..d |-> q[x]]
      BY <1>5
    <3>2. q \in [1..d -> 1..n] /\ d \in Nat
      BY <2>1, <3>1
    <3> QED BY <3>2, IsSeq
  <2>3. \A x, y \in 1..d : x < y => q[x] < q[y]
    BY <1>3, <1>5
  <2>4. ASSUME NEW i \in 1..n, su[i].kind = "eh" PROVE \E x \in 1..d : q[x] = i
    <3>1. i \in 1..Len(st) /\ st[i].kind = "eh"
      BY <1>2, <2>4
    <3>2. PICK x \in 1..Len(p) : p[x] = i
      BY <1>3, <3>1
    <3>3. x \in 1..d
      BY <1>3, <1>4, <3>2
    <3> QED BY <1>5, <3>2, <3>3
  <2> QED BY <1>5, <2>1, <2>2, <2>3, <2>4 DEF ListsTo
<1>7. q = EhPositions(su)
  <2>1. ListsTo(su, EhPositions(su), n) /\ n \in Nat
    BY PositionsList DEF Lists
  <2> QED BY <1>6, <2>1, ListsOnce
<1>8. FramesOf(su, ex) = [x \in 1..d |-> Shown(ex, su[q[x]])]
  BY <1>5, <1>7 DEF FramesOf
<1>9. PICK f \in Seq(Cxx!Frame) :
         f = FramesOf(st, ex) /\ Len(f) = Len(p) /\ \A x \in 1..Len(p) : f[x] = Shown(ex, st[p[x]])
  BY <1>1, FramesListed
<1>10. SubSeq(f, 1, d) = [x \in 1..d |-> f[x]]
  BY <1>9, Prefix
<1>11. \A x \in 1..d : f[x] = Shown(ex, su[q[x]])
  <2> TAKE x \in 1..d
  <2>1. x \in 1..Len(p) /\ q[x] = p[x] /\ x <= d
    BY <1>5
  <2>2. p[x] \in 1..n
    BY <1>3, <1>4, <2>1
  <2> QED BY <1>9, <2>1, <2>2
<1>12. FramesOf(su, ex) = SubSeq(FramesOf(st, ex), 1, d)
  BY <1>8, <1>9, <1>10, <1>11
<1> QED BY <1>1, <1>4, <1>12

-----------------------------------------------------------------------------
(* Each step of GuestEH is a step of CxxUnwind, or none.                        *)

\* The frames of this state and of the next one.
LEMMA FramesNow == Frames = FramesOf(stack, exc) /\ Frames' = FramesOf(stack', exc')
BY DEF Frames

\* Of what is shown of two activations.
LEMMA ShownSame ==
    ASSUME NEW ex, NEW ey, NEW a, NEW b, b.site = a.site, b.pc = a.pc, b.obj = a.obj,
           a.obj # NoExc => ey[a.obj].type = ex[a.obj].type
    PROVE  Shown(ey, b) = Shown(ex, a)
BY DEF Shown

\* Another call site in an activation is another call site in its frame.
LEMMA ShownAt ==
    ASSUME NEW ex, NEW ey, NEW a, NEW b, NEW s, b.site = s, b.pc = a.pc, b.obj = a.obj,
           a.obj # NoExc => ey[a.obj].type = ex[a.obj].type
    PROVE  Shown(ey, b) = [Shown(ex, a) EXCEPT !.site = s]
BY DEF Shown

\* What an object that no function with a table holds becomes is not seen.
TypesKept ==
    \A i \in 1..N : stack[i].kind = "eh" /\ stack[i].obj # NoExc =>
        exc'[stack[i].obj].type = exc[stack[i].obj].type

\* The function on top marks a call site, and nothing else of it is seen; what it
\* calls has no table.
Marks(s) ==
    /\ N \in 1..N /\ N' >= N
    /\ \A i \in 1..N - 1 : Same(stack'[i], stack[i])
    /\ stack'[N].kind = stack[N].kind /\ stack'[N].pc = stack[N].pc /\ stack'[N].obj = stack[N].obj
    /\ stack[N].kind = "eh" => stack'[N].site = s
    /\ \A i \in N + 1..N' : stack'[i].kind # "eh"
    /\ TypesKept

\* A step that marks leaves the functions with a table where they are.
LEMMA MarksSameEh ==
    ASSUME Inv, TypeOK', NEW s, Marks(s)
    PROVE  SameEh(stack, stack') /\ stack \in Seq(Activation) /\ stack' \in Seq(Activation)
           /\ Len(stack) = N /\ Len(stack') = N' /\ N \in Nat /\ N' \in Nat
<1>1. /\ stack \in Seq(Activation) /\ stack' \in Seq(Activation)
      /\ Len(stack) = N /\ Len(stack') = N' /\ N \in Nat /\ N' \in Nat
  BY DEF Inv, TypeOK, N
<1>2. \A i \in 1..N : stack'[i].kind = stack[i].kind
  <2> TAKE i \in 1..N
  <2>1. i = N \/ i \in 1..N - 1
    BY <1>1
  <2> QED BY <2>1 DEF Marks, Same, Alike
<1>3. \A i \in 1..N' : i \in 1..N \/ i \in N + 1..N'
  BY <1>1
<1>4. \A i \in 1..N : i \in 1..N'
  BY <1>1 DEF Marks
<1> QED BY <1>1, <1>2, <1>3, <1>4 DEF SameEh, Marks

\* What a step that marks does to the frames: the last one is at another site.
LEMMA MarksIt ==
    ASSUME Inv, TypeOK', NEW s, Marks(s)
    PROVE  IF stack[N].kind = "eh"
           THEN /\ Len(Frames) \in Nat \ {0}
                /\ Frames[Len(Frames)] = Shown(exc, stack[N])
                /\ Frames' = [Frames EXCEPT ![Len(Frames)].site = s]
           ELSE Frames' = Frames
<1>1. /\ SameEh(stack, stack') /\ stack \in Seq(Activation) /\ stack' \in Seq(Activation)
      /\ Len(stack) = N /\ N \in Nat /\ exc \in [Exc -> Object]
  BY MarksSameEh DEF Inv, TypeOK
<1>2. \A i \in 1..N - 1 : stack[i].kind = "eh" => Shown(exc', stack'[i]) = Shown(exc, stack[i])
  <2> SUFFICES ASSUME NEW i \in 1..N - 1, stack[i].kind = "eh"
               PROVE  Shown(exc', stack'[i]) = Shown(exc, stack[i])
    OBVIOUS
  <2>1. i \in 1..N
    BY <1>1
  <2>2. /\ stack'[i].site = stack[i].site /\ stack'[i].pc = stack[i].pc /\ stack'[i].obj = stack[i].obj
        /\ stack[i].obj # NoExc => exc'[stack[i].obj].type = exc[stack[i].obj].type
    BY <2>1 DEF Marks, Same, Alike, TypesKept
  <2> QED BY <2>2, ShownSame
<1>3. CASE stack[N].kind = "eh"
  <2>1. LastEh(stack, N)
    BY <1>1, <1>3 DEF LastEh, Marks
  <2>2. /\ Len(FramesOf(stack, exc)) \in Nat \ {0}
        /\ FramesOf(stack, exc)[Len(FramesOf(stack, exc))] = Shown(exc, stack[N])
        /\ FramesOf(stack', exc') =
              [FramesOf(stack, exc) EXCEPT ![Len(FramesOf(stack, exc))] = Shown(exc', stack'[N])]
    <3>1. PICK st, su, ex, ey, n : st = stack /\ su = stack' /\ ex = exc /\ ey = exc' /\ n = N
      OBVIOUS
    <3>2. /\ st \in Seq(Activation) /\ su \in Seq(Activation) /\ SameEh(st, su) /\ LastEh(st, n)
          /\ ex \in [Exc -> Object]
          /\ \A i \in 1..n - 1 : st[i].kind = "eh" => Shown(ey, su[i]) = Shown(ex, st[i])
      BY <1>1, <1>2, <2>1, <3>1
    <3>3. /\ Len(FramesOf(st, ex)) \in Nat \ {0}
          /\ FramesOf(st, ex)[Len(FramesOf(st, ex))] = Shown(ex, st[n])
          /\ FramesOf(su, ey) = [FramesOf(st, ex) EXCEPT ![Len(FramesOf(st, ex))] = Shown(ey, su[n])]
      BY ONLY <3>2, FramesTop
    <3> QED BY <3>1, <3>3
  <2>3. Shown(exc', stack'[N]) = [Shown(exc, stack[N]) EXCEPT !.site = s]
    <3>1. /\ stack'[N].site = s /\ stack'[N].pc = stack[N].pc /\ stack'[N].obj = stack[N].obj
          /\ stack[N].obj # NoExc => exc'[stack[N].obj].type = exc[stack[N].obj].type
      BY <1>3 DEF Marks, TypesKept
    <3> QED BY <3>1, ShownAt
  <2>4. PICK F, d : F = FramesOf(stack, exc) /\ d = Len(F)
    OBVIOUS
  <2>5. F[d] = Shown(exc, stack[N]) /\ FramesOf(stack', exc') = [F EXCEPT ![d] = [F[d] EXCEPT !.site = s]]
    BY <2>2, <2>3, <2>4
  <2>6. FramesOf(stack', exc') = [F EXCEPT ![d].site = s]
    BY <2>5
  <2> QED BY <1>3, <2>2, <2>4, <2>5, <2>6, FramesNow
<1>4. CASE stack[N].kind # "eh"
  <2>1. \A i \in 1..N : stack[i].kind = "eh" => Shown(exc', stack'[i]) = Shown(exc, stack[i])
    <3> SUFFICES ASSUME NEW i \in 1..N, stack[i].kind = "eh"
                 PROVE  Shown(exc', stack'[i]) = Shown(exc, stack[i])
      OBVIOUS
    <3>1. i \in 1..N - 1
      BY <1>1, <1>4
    <3> QED BY <1>2, <3>1
  <2>2. FramesOf(stack', exc') = FramesOf(stack, exc)
    BY <1>1, <2>1, FramesKept
  <2> QED BY <1>4, <2>2, FramesNow
<1> QED BY <1>3, <1>4

\* So it is a call of the function, if it has a table.
LEMMA AtIt ==
    ASSUME Inv, TypeOK', NEW s \in Site, Marks(s), mode \notin Stopped, mode' \notin Stopped
    PROVE  Cxx!Next \/ UNCHANGED Cxx!vars
<1>1. CASE stack[N].kind = "eh"
  <2>1. Len(Frames) \in Nat \ {0} /\ Frames' = [Frames EXCEPT ![Len(Frames)].site = s]
    BY <1>1, MarksIt
  <2>2. Cxx!At(s)
    BY <2>1 DEF Cxx!At, Cxx!D
  <2> QED BY <2>2 DEF Cxx!Next
<1>2. CASE stack[N].kind # "eh"
  <2>1. Frames' = Frames
    BY <1>2, MarksIt
  <2> QED BY <2>1 DEF Cxx!vars
<1> QED BY <1>1, <1>2

\* What a function is about to throw is not its call site.
LEMMA SiteBeside ==
    ASSUME NEW st \in Seq(Activation), NEW n \in 1..Len(st), NEW e
    PROVE  [st EXCEPT ![n].fresh = e][n].site = st[n].site
<1>1. PICK m \in Activation : m = st[n]
  OBVIOUS
<1>2. [st EXCEPT ![n].fresh = e][n] = [m EXCEPT !.fresh = e]
  BY <1>1
<1>3. [m EXCEPT !.fresh = e].site = m.site
  BY DEF Activation
<1> QED BY <1>1, <1>2, <1>3

\* The mark is on the function on top.
LEMMA MarkOnTop ==
    ASSUME Inv, NEW s \in Site, N > 0
    PROVE  /\ Marked(s) \in Seq(Activation) /\ N \in 1..Len(Marked(s)) /\ N \in 1..N /\ N \in Nat
           /\ Len(Marked(s)) = N
           /\ stack[N].kind = "eh" => Marked(s)[N].site = s
<1>1. N \in 1..N /\ N \in Nat
  BY Fields DEF Inv
<1> QED BY <1>1, MarkedTyped, MarkedSite DEF Inv, Me

\* __cxa_allocate_exception is called: the function on top is at a quiet site.
LEMMA AllocateMarks ==
    ASSUME Inv, NEW e \in Exc, AllocateException(e)
    PROVE  Marks(Quiet)
<1>1. /\ Allocates(e) /\ N > 0 /\ Quiet \in Site
      /\ stack' = [Marked(Quiet) EXCEPT ![N].fresh = e]
  BY AllocatesIt, GuestEHAssumption DEF AllocateException, Running
<1>2. stack[N].kind = "eh" => stack'[N].site = Quiet
  <2>1. PICK st \in Seq(Activation) : st = Marked(Quiet) /\ N \in 1..Len(st)
    BY <1>1, MarkOnTop
  <2>2. stack'[N].site = Marked(Quiet)[N].site
    BY <1>1, <2>1, SiteBeside
  <2> QED BY <1>1, <2>2, MarkOnTop
<1>3. TypesKept
  <2> SUFFICES ASSUME NEW i \in 1..N, stack[i].obj # NoExc
               PROVE  exc'[stack[i].obj].type = exc[stack[i].obj].type
    BY DEF TypesKept
  <2>1. stack[i].obj \in Exc /\ exc[stack[i].obj].live
    BY Fields DEF Inv, Holders, HeldIsLive
  <2> QED BY <1>1, <2>1 DEF Allocates
<1> QED BY <1>1, <1>2, <1>3, MarkOnTop DEF Allocates, Marks

\* __cxa_free_exception is called from a landing pad.
LEMMA FreeMarks ==
    ASSUME Inv, PadFreeException
    PROVE  Marks(Quiet)
<1>1. PICK e \in Exc : Frees(e)
  BY FreesIt
<1>2. N > 0 /\ Quiet \in Site /\ stack' = [Marked(Quiet) EXCEPT ![N].fresh = NoExc]
  BY GuestEHAssumption DEF PadFreeException
<1>3. stack[N].kind = "eh" => stack'[N].site = Quiet
  <2>1. PICK st \in Seq(Activation) : st = Marked(Quiet) /\ N \in 1..Len(st)
    BY <1>2, MarkOnTop
  <2>2. stack'[N].site = Marked(Quiet)[N].site
    BY <1>2, <2>1, SiteBeside
  <2> QED BY <1>2, <2>2, MarkOnTop
<1>4. TypesKept
  <2> SUFFICES ASSUME NEW i \in 1..N, stack[i].obj # NoExc
               PROVE  exc'[stack[i].obj].type = exc[stack[i].obj].type
    BY DEF TypesKept
  <2>1. stack[i].obj \in Exc /\ stack[N].fresh = e /\ e # NoExc /\ N \in 1..N
    BY <1>1, Fields DEF Inv, Frees
  <2>2. stack[i].obj # e
    BY <2>1 DEF Inv, Holders, FreshAlone
  <2> QED BY <1>1, <2>1, <2>2 DEF Frees
<1> QED BY <1>1, <1>2, <1>3, <1>4, MarkOnTop DEF Frees, Marks

\* __cxa_throw is called: the function on top is at the site of the throw.
LEMMA ThrowMarks ==
    ASSUME Inv, NEW t \in Type, NEW s \in Site, Throw(t, s)
    PROVE  Marks(s)
<1>1. PICK e \in Exc : Throws(e, t)
  BY ThrowsIt
<1>2. N > 0 /\ stack' = [Marked(s) EXCEPT ![N].fresh = NoExc]
  BY DEF Throw, Running
<1>3. stack[N].kind = "eh" => stack'[N].site = s
  <2>1. PICK st \in Seq(Activation) : st = Marked(s) /\ N \in 1..Len(st)
    BY <1>2, MarkOnTop
  <2>2. stack'[N].site = Marked(s)[N].site
    BY <1>2, <2>1, SiteBeside
  <2> QED BY <1>2, <2>2, MarkOnTop
<1>4. TypesKept
  <2> SUFFICES ASSUME NEW i \in 1..N, stack[i].obj # NoExc
               PROVE  exc'[stack[i].obj].type = exc[stack[i].obj].type
    BY DEF TypesKept
  <2>1. stack[i].obj \in Exc /\ stack[N].fresh = e /\ e # NoExc /\ N \in 1..N
    BY <1>1, Fields DEF Inv, Throws
  <2>2. stack[i].obj # e
    BY <2>1 DEF Inv, Holders, FreshAlone
  <2> QED BY <1>1, <2>1, <2>2 DEF Throws
<1> QED BY <1>1, <1>2, <1>3, <1>4, MarkOnTop DEF Throws, Marks

\* _Unwind_Resume is called at the end of a cleanup, and phase two goes on.
LEMMA ResumeMarks ==
    ASSUME Inv, Inv', Resume
    PROVE  Marks(Quiet) /\ mode' = "unwind"
<1>1. PICK e \in Exc : Resumes(e)
  BY ResumesIt
<1>2. N > 0 /\ Quiet \in Site /\ stack' = Marked(Quiet)
  BY <1>1, GuestEHAssumption DEF Resumes, Resume, PadDone, Inv, NoUseAfterFree
<1>3. stack[N].kind = "eh" => stack'[N].site = Quiet
  BY <1>2, MarkOnTop
<1>4. TypesKept
  BY <1>1 DEF TypesKept, Resumes
<1> QED BY <1>1, <1>2, <1>3, <1>4, MarkOnTop DEF Resumes, Marks, Alike

\* __cxa_end_catch is called, by the catch block or by its landing pad.
LEMMA LeaveMarks ==
    ASSUME Inv, HInv, EndCatch \/ PadEndCatch
    PROVE  Marks(Quiet)
<1>1. PICK e \in Exc : Leaves(e)
  BY LeavesIt DEF HInv
<1>2. N > 0 /\ Quiet \in Site
  BY GuestEHAssumption DEF EndCatch, PadEndCatch, Running
<1>3. PICK m \in Activation : m = Marked(Quiet)[N] /\ (stack[N].kind = "eh" => m.site = Quiet)
                              /\ m.hs = stack[N].hs /\ m.todo = stack[N].todo
  BY <1>2, MarkOnTop, MarkedTyped DEF Inv
<1>4. PICK a \in Activation : EndCatchOn([Marked(Quiet) EXCEPT ![N] = a]) /\ a.site = m.site
  <2>1. CASE EndCatch
    <3>1. EndCatchOn([Marked(Quiet) EXCEPT ![N] = Leaving(m)]) /\ m.hs # <<>>
      BY <1>2, <1>3, <2>1 DEF EndCatch, Leaving, Me
    <3> QED BY <3>1, ActivationLeaving, LeavingFields
  <2>2. CASE PadEndCatch
    <3>1. EndCatchOn([Marked(Quiet) EXCEPT ![N] = PadLeaving(m)]) /\ m.hs # <<>> /\ m.todo > 0
      BY <1>2, <1>3, <2>2 DEF PadEndCatch, PadLeaving, Me
    <3> QED BY <3>1, ActivationPadLeaving, LeavingFields
  <2> QED BY <2>1, <2>2
<1>5. PICK st \in Seq(Activation) :
         EndCatchOn(st) /\ Len(st) = N /\ (stack[N].kind = "eh" => st[N].site = Quiet)
  <2>1. PICK so \in Seq(Activation) : so = Marked(Quiet) /\ Len(so) = N /\ N \in 1..Len(so)
    BY <1>2, MarkOnTop
  <2>2. [so EXCEPT ![N] = a] \in Seq(Activation) /\ Len([so EXCEPT ![N] = a]) = N
        /\ [so EXCEPT ![N] = a][N] = a
    BY <2>1, ExceptTyped
  <2> QED BY <1>3, <1>4, <2>1, <2>2
<1>6. stack' = st \/ stack' = Push(st, "dtor", Head(caught))
  BY <1>5 DEF EndCatchOn
<1>7. stack'[N] = st[N]
  <2>1. CASE stack' = st
    BY <2>1
  <2>2. CASE stack' = Push(st, "dtor", Head(caught))
    <3>1. Head(caught) \in Exc
      BY <1>1 DEF Leaves
    <3> QED BY <1>2, <1>5, <2>2, <3>1, PushStep, MarkOnTop
  <2> QED BY <1>6, <2>1, <2>2
<1>8. TypesKept
  <2> SUFFICES ASSUME NEW i \in 1..N, stack[i].obj # NoExc
               PROVE  exc'[stack[i].obj].type = exc[stack[i].obj].type
    BY DEF TypesKept
  <2>1. stack[i].obj \in Exc /\ caught # <<>> /\ e = Head(caught)
    BY <1>1, Fields DEF Inv, Leaves
  <2>2. stack[i].obj # e
    BY <2>1, HeldApart
  <2> QED BY <1>1, <2>1, <2>2 DEF Leaves
<1>9. \A i \in N + 1..N' : stack'[i].kind # "eh"
  <2>1. N' = N \/ (N' = N + 1 /\ stack'[N + 1].kind = "dtor")
    BY <1>1 DEF Leaves
  <2>2. N \in Nat
    BY <1>2, MarkOnTop
  <2>3. \A i \in N + 1..N' : N' = N + 1 /\ i = N + 1
    BY <2>1, <2>2
  <2> QED BY <2>1, <2>3
<1>10. N' >= N /\ N \in 1..N
  BY <1>1, <1>2, MarkOnTop DEF Leaves
<1> QED BY <1>1, <1>5, <1>7, <1>8, <1>9, <1>10 DEF Leaves, Marks

\* A call marks the caller, and pushes what is called.
LEMMA CallMarks ==
    ASSUME Inv, NEW k \in {"eh", "plain"}, NEW s \in Site, Call(k, s)
    PROVE  /\ N \in 1..N /\ N \in Nat /\ N' = N + 1
           /\ \A i \in 1..N - 1 : Same(stack'[i], stack[i])
           /\ Alike(stack'[N], stack[N]) /\ (stack[N].kind = "eh" => stack'[N].site = s)
           /\ exc' = exc /\ mode = "run" /\ mode' = "run"
           /\ \E st \in Seq(Activation) : Len(st) = N /\ stack' = Push(st, k, NoExc)
<1>1. /\ stack' = Push(Marked(s), k, NoExc) /\ N > 0 /\ exc' = exc /\ mode = "run" /\ mode' = "run"
  BY DEF Call, Running, objects, unwinder
<1>2. /\ Marked(s) \in Seq(Activation) /\ Len(Marked(s)) = N /\ N \in 1..N /\ N \in Nat
      /\ NoExc \in Exc \cup {NoExc} /\ k \in {"eh", "plain", "dtor"}
  BY <1>1, MarkOnTop
<1>3. N' = N + 1 /\ \A i \in 1..N : stack'[i] = Marked(s)[i]
  BY <1>1, <1>2, PushStep
<1>4. \A i \in 1..N :
         /\ Alike(stack'[i], stack[i])
         /\ stack'[i].site = IF i = N /\ Me.kind = "eh" THEN s ELSE stack[i].site
  BY <1>1, <1>3, MarkedSite DEF Inv
<1>5. \A i \in 1..N - 1 : Same(stack'[i], stack[i])
  BY <1>2, <1>4 DEF Same
<1> QED BY <1>1, <1>2, <1>3, <1>4, <1>5 DEF Me

\* The frame of a function that has just been called.
Fresh == [site |-> NoSite, pc |-> "run", obj |-> NoExc]

\* The frames of the stack with a mark.
LEMMA MarkedFrames ==
    ASSUME Inv, NEW s \in Site, N > 0
    PROVE  IF stack[N].kind = "eh"
           THEN /\ Len(Frames) \in Nat \ {0}
                /\ FramesOf(Marked(s), exc) = [Frames EXCEPT ![Len(Frames)].site = s]
           ELSE FramesOf(Marked(s), exc) = Frames
<1>1. /\ stack \in Seq(Activation) /\ Len(stack) = N /\ N \in Nat /\ exc \in [Exc -> Object]
      /\ Marked(s) \in Seq(Activation) /\ Len(Marked(s)) = N /\ N \in 1..N
      /\ \A i \in 1..N : Alike(Marked(s)[i], stack[i])
      /\ \A i \in 1..N : Marked(s)[i].site = IF i = N /\ stack[N].kind = "eh" THEN s ELSE stack[i].site
  BY MarkOnTop, MarkedSite DEF Inv, TypeOK, N, Me
<1>2. PICK st, su, ex, ey, n : st = stack /\ su = Marked(s) /\ ex = exc /\ ey = exc /\ n = N
  OBVIOUS
<1>3. /\ st \in Seq(Activation) /\ su \in Seq(Activation) /\ ex \in [Exc -> Object]
      /\ SameEh(st, su) /\ Len(st) = n /\ n \in Nat /\ n \in 1..n
  BY <1>1, <1>2 DEF SameEh, Alike
<1>4. \A i \in 1..n : (i # n \/ stack[n].kind # "eh") => Shown(ey, su[i]) = Shown(ex, st[i])
  <2> TAKE i \in 1..n
  <2>1. su[i].pc = st[i].pc /\ su[i].obj = st[i].obj
        /\ ((i # n \/ stack[n].kind # "eh") => su[i].site = st[i].site)
    BY <1>1, <1>2 DEF Alike
  <2> QED BY <1>2, <2>1, ShownSame
<1>5. CASE stack[N].kind = "eh"
  <2>1. LastEh(st, n) /\ \A i \in 1..n - 1 : st[i].kind = "eh" => Shown(ey, su[i]) = Shown(ex, st[i])
    <3>1. \A i \in 1..n - 1 : i \in 1..n /\ i # n
      BY <1>3
    <3> QED BY <1>2, <1>3, <1>4, <1>5, <3>1 DEF LastEh
  <2>2. PICK F, d : F = FramesOf(st, ex) /\ d = Len(F)
    OBVIOUS
  <2>3. /\ d \in Nat \ {0} /\ F[d] = Shown(ex, st[n])
        /\ FramesOf(su, ey) = [F EXCEPT ![d] = Shown(ey, su[n])]
    <3>1. /\ Len(FramesOf(st, ex)) \in Nat \ {0}
          /\ FramesOf(st, ex)[Len(FramesOf(st, ex))] = Shown(ex, st[n])
          /\ FramesOf(su, ey) = [FramesOf(st, ex) EXCEPT ![Len(FramesOf(st, ex))] = Shown(ey, su[n])]
      <4>1. /\ st \in Seq(Activation) /\ su \in Seq(Activation) /\ SameEh(st, su) /\ LastEh(st, n)
            /\ ex \in [Exc -> Object]
            /\ \A i \in 1..n - 1 : st[i].kind = "eh" => Shown(ey, su[i]) = Shown(ex, st[i])
        BY <1>3, <2>1
      <4> QED BY ONLY <4>1, FramesTop
    <3> QED BY <2>2, <3>1
  <2>4. Shown(ey, su[n]) = [F[d] EXCEPT !.site = s]
    <3>1. su[n].site = s /\ su[n].pc = st[n].pc /\ su[n].obj = st[n].obj
      BY <1>1, <1>2, <1>5 DEF Alike
    <3> QED BY <1>2, <2>3, <3>1, ShownAt
  <2>5. FramesOf(su, ey) = [F EXCEPT ![d].site = s]
    BY <2>3, <2>4
  <2> QED BY <1>2, <1>5, <2>2, <2>3, <2>5, FramesNow
<1>6. CASE stack[N].kind # "eh"
  <2>1. \A i \in 1..Len(st) : st[i].kind = "eh" => Shown(ey, su[i]) = Shown(ex, st[i])
    BY <1>2, <1>3, <1>4, <1>6
  <2>2. FramesOf(su, ey) = FramesOf(st, ex)
    <3>1. /\ st \in Seq(Activation) /\ su \in Seq(Activation) /\ SameEh(st, su)
          /\ \A i \in 1..Len(st) : st[i].kind = "eh" => Shown(ey, su[i]) = Shown(ex, st[i])
      BY <1>3, <2>1
    <3> QED BY ONLY <3>1, FramesKept
  <2> QED BY <1>2, <1>6, <2>2, FramesNow
<1> QED BY <1>5, <1>6

\* A function with a table that is pushed is a new frame.
LEMMA PushIsBegin ==
    ASSUME Inv, TypeOK', NEW st \in Seq(Activation), stack' = Push(st, "eh", NoExc), exc' = exc
    PROVE  Frames' = Append(FramesOf(st, exc), Fresh)
<1>1. /\ ehTop \in Nat /\ NoExc \in Exc \cup {NoExc} /\ exc \in [Exc -> Object] /\ stack' \in Seq(Activation)
  BY DEF Inv, TypeOK, N
<1>2. NewActivation("eh", NoExc) \in Activation
  BY <1>1 DEF NewActivation, Activation
<1>3. /\ Len(stack') = Len(st) + 1 /\ \A i \in 1..Len(st) : stack'[i] = st[i]
      /\ stack'[Len(stack')] = NewActivation("eh", NoExc)
  BY <1>2, AppendProperties DEF Push
<1>4. /\ stack'[Len(stack')].kind = "eh" /\ stack'[Len(stack')].site = NoSite
      /\ stack'[Len(stack')].pc = "run" /\ stack'[Len(stack')].obj = NoExc
  BY <1>3 DEF NewActivation
<1>5. PICK su, ex : su = stack' /\ ex = exc
  OBVIOUS
<1>6. /\ su \in Seq(Activation) /\ Len(su) = Len(st) + 1 /\ \A i \in 1..Len(st) : su[i] = st[i]
      /\ su[Len(su)].kind = "eh" /\ ex \in [Exc -> Object] /\ st \in Seq(Activation)
  BY <1>1, <1>3, <1>4, <1>5
<1>7. FramesOf(su, ex) = Append(FramesOf(st, ex), Shown(ex, su[Len(su)]))
  BY ONLY <1>6, FramesPushed
<1>8. Shown(ex, su[Len(su)]) = Fresh
  BY <1>4, <1>5 DEF Shown, Fresh
<1> QED BY <1>5, <1>7, <1>8, FramesNow

\* The guest is entered: its first function begins.
LEMMA EnterIt ==
    ASSUME Inv, TypeOK', NEW k \in {"eh", "plain"}, Enter(k)
    PROVE  Cxx!Next \/ UNCHANGED Cxx!vars
<1>1. /\ mode = "run" /\ mode' = "run" /\ exc' = exc /\ stack' = Push(stack, k, NoExc) /\ stack = <<>>
      /\ stack \in Seq(Activation)
  BY DEF Enter, objects, unwinder, Inv, TypeOK
<1>2. CASE k = "eh"
  <2>1. Frames' = Append(Frames, Fresh)
    BY <1>1, <1>2, PushIsBegin, FramesNow
  <2>2. Cxx!Begin
    BY <1>1, <2>1 DEF Cxx!Begin, Fresh, Stopped
  <2> QED BY <2>2 DEF Cxx!Next
<1>3. CASE k = "plain"
  <2>1. Len(stack) = N /\ N = 0 /\ k \in {"eh", "plain", "dtor"} /\ NoExc \in Exc \cup {NoExc}
    BY <1>1 DEF N
  <2>2. N' = 1 /\ stack'[1].kind = "plain"
    <3>1. N' = N + 1 /\ stack'[N + 1].kind = k
      BY <1>1, <2>1, PushStep
    <3> QED BY <1>3, <2>1, <3>1
  <2>3. SameEh(stack, stack')
    <3>1. Len(stack') = 1 /\ Len(stack) = 0
      BY <2>1, <2>2 DEF N
    <3> QED BY <2>2, <3>1 DEF SameEh
  <2>4. FramesOf(stack', exc') = FramesOf(stack, exc)
    <3>1. PICK st, su, ex, ey : st = stack /\ su = stack' /\ ex = exc /\ ey = exc'
      OBVIOUS
    <3>2. st \in Seq(Activation) /\ su \in Seq(Activation) /\ SameEh(st, su) /\ Len(st) = 0
      BY <1>1, <2>1, <2>3, <3>1 DEF TypeOK
    <3>3. /\ st \in Seq(Activation) /\ su \in Seq(Activation) /\ SameEh(st, su)
          /\ \A i \in 1..Len(st) : st[i].kind = "eh" => Shown(ey, su[i]) = Shown(ex, st[i])
      BY <3>2
    <3>4. FramesOf(su, ey) = FramesOf(st, ex)
      BY ONLY <3>3, FramesKept
    <3> QED BY <1>1, <3>1, <3>4
  <2> QED BY <1>1, <2>4, FramesNow DEF Cxx!vars
<1> QED BY <1>2, <1>3

\* A call: the caller is at its site, and the function called begins, if it has a table.
LEMMA CallIt ==
    ASSUME Inv, TypeOK', NEW k \in {"eh", "plain"}, NEW s \in Site, Call(k, s)
    PROVE  Cxx!Next \/ UNCHANGED Cxx!vars
<1>1. /\ stack' = Push(Marked(s), k, NoExc) /\ N > 0 /\ exc' = exc /\ mode = "run" /\ mode' = "run"
  BY DEF Call, Running, objects, unwinder
<1>2. CASE k = "eh"
  <2>1. Frames' = Append(FramesOf(Marked(s), exc), Fresh)
    BY <1>1, <1>2, PushIsBegin, MarkOnTop
  <2>2. CASE stack[N].kind = "eh"
    <3>1. Frames' = Append([Frames EXCEPT ![Len(Frames)].site = s], Fresh) /\ Len(Frames) > 0
      BY <1>1, <2>1, <2>2, MarkedFrames
    <3>2. Cxx!BeginAt(s)
      BY <1>1, <3>1 DEF Cxx!BeginAt, Cxx!D, Fresh, Stopped
    <3> QED BY <3>2 DEF Cxx!Next
  <2>3. CASE stack[N].kind # "eh"
    <3>1. Frames' = Append(Frames, Fresh)
      BY <1>1, <2>1, <2>3, MarkedFrames
    <3>2. Cxx!Begin
      BY <1>1, <3>1 DEF Cxx!Begin, Fresh, Stopped
    <3> QED BY <3>2 DEF Cxx!Next
  <2> QED BY <2>2, <2>3
<1>3. CASE k = "plain"
  <2>1. /\ N \in 1..N /\ N \in Nat /\ N' = N + 1
        /\ \A i \in 1..N - 1 : Same(stack'[i], stack[i])
        /\ Alike(stack'[N], stack[N]) /\ (stack[N].kind = "eh" => stack'[N].site = s)
    BY CallMarks
  <2>2. stack'[N + 1].kind = "plain"
    <3>1. k \in {"eh", "plain", "dtor"} /\ NoExc \in Exc \cup {NoExc}
      OBVIOUS
    <3> QED BY <1>1, <1>3, <3>1, PushStep, MarkOnTop
  <2>3. \A i \in N + 1..N' : stack'[i].kind # "eh"
    BY <2>1, <2>2
  <2>4. Marks(s)
    BY <1>1, <2>1, <2>3 DEF Marks, Alike, TypesKept
  <2> QED BY <1>1, <2>4, AtIt DEF Stopped
<1> QED BY <1>2, <1>3

\* A return: the last frame ends, or, without a table, no frame changes.
LEMMA ReturnIt ==
    ASSUME Inv, TypeOK', Return
    PROVE  Cxx!Next \/ UNCHANGED Cxx!vars
<1>1. /\ mode = "run" /\ mode' = "run" /\ N > 0 /\ stack[N].pc = "run"
      /\ exc' = IF stack[N].kind = "dtor" THEN [exc EXCEPT ![stack[N].obj] = Dead] ELSE exc
  BY DEF Return, unwinder, Me, Freed
<1>2. /\ Returns /\ stack \in Seq(Activation) /\ stack' \in Seq(Activation) /\ Len(stack) = N
      /\ Len(stack') = N - 1 /\ N \in Nat /\ N \in 1..N /\ exc \in [Exc -> Object]
  BY <1>1, ReturnsIt DEF Inv, TypeOK, N, Returns
<1>3. stack' = SubSeq(stack, 1, N - 1) /\ \A i \in 1..N - 1 : stack'[i] = stack[i]
  <2>1. N - 1 \in 0..N
    BY <1>2
  <2> QED BY <2>1, CutTyped DEF Inv, Return
<1>4. CASE stack[N].kind = "eh"
  <2>1. LastEh(stack, N) /\ exc' = exc
    BY <1>1, <1>2, <1>4 DEF LastEh
  <2>2. PICK st, su, ex, n : st = stack /\ su = stack' /\ ex = exc /\ n = N
    OBVIOUS
  <2>3. /\ st \in Seq(Activation) /\ su \in Seq(Activation) /\ ex \in [Exc -> Object]
        /\ n - 1 \in 0..Len(st) /\ Len(su) = n - 1 /\ \A i \in 1..n - 1 : su[i] = st[i]
    BY <1>2, <1>3, <2>2
  <2>4. PICK d \in 0..Len(EhPositions(st)) :
           /\ FramesOf(su, ex) = SubSeq(FramesOf(st, ex), 1, d)
           /\ \A x \in 1..Len(EhPositions(st)) : x <= d <=> EhPositions(st)[x] <= n - 1
    BY ONLY <2>3, FramesCut
  <2>5. LastEh(st, n) /\ n \in Nat
    BY <1>2, <2>1, <2>2
  <2>6. /\ Len(EhPositions(st)) \in Nat \ {0} /\ EhPositions(st)[Len(EhPositions(st))] = n
        /\ \A x \in 1..Len(EhPositions(st)) - 1 : EhPositions(st)[x] \in 1..n - 1
    BY ONLY <2>3, <2>5, LastPosition
  <2>7. d = Len(EhPositions(st)) - 1
    <3>1. ~(Len(EhPositions(st)) <= d)
      BY <2>4, <2>5, <2>6
    <3>2. Len(EhPositions(st)) - 1 # 0 => Len(EhPositions(st)) - 1 <= d
      <4> SUFFICES ASSUME Len(EhPositions(st)) - 1 # 0 PROVE Len(EhPositions(st)) - 1 <= d
        OBVIOUS
      <4>1. PICK c \in Nat : c = Len(EhPositions(st)) - 1
        BY <2>6
      <4>2. c \in 1..Len(EhPositions(st)) /\ c \in 1..Len(EhPositions(st)) - 1
        BY <2>6, <4>1
      <4>3. EhPositions(st)[c] <= n - 1
        BY <2>5, <2>6, <4>2
      <4> QED BY <2>4, <4>1, <4>2, <4>3
    <3> QED BY <2>4, <2>6, <3>1, <3>2
  <2>8. /\ Len(FramesOf(st, ex)) = Len(EhPositions(st))
        /\ FramesOf(st, ex)[Len(EhPositions(st))] = Shown(ex, st[n])
    BY <2>3, <2>6, FramesListed
  <2>9. /\ Frames' = SubSeq(Frames, 1, Len(Frames) - 1) /\ Len(Frames) > 0
        /\ Frames[Len(Frames)].pc = "run"
    BY <1>1, <2>1, <2>2, <2>4, <2>6, <2>7, <2>8, FramesNow DEF Shown
  <2>10. Cxx!Return
    BY <1>1, <2>9 DEF Cxx!Return, Cxx!D, Cxx!Top, Stopped
  <2> QED BY <2>10 DEF Cxx!Next
<1>5. CASE stack[N].kind # "eh"
  <2>1. SameEh(stack, stack')
    <3>1. \A i \in 1..N : i # N => i \in 1..N - 1
      BY <1>2
    <3>2. \A i \in 1..N - 1 : i \in 1..N
      BY <1>2
    <3> QED BY <1>2, <1>3, <1>5, <3>1, <3>2 DEF SameEh
  <2>2. ASSUME NEW i \in 1..N, stack[i].kind = "eh" PROVE Shown(exc', stack'[i]) = Shown(exc, stack[i])
    <3>1. i # N /\ stack'[i] = stack[i]
      BY <1>2, <1>3, <1>5, <2>2
    <3>2. stack[i].obj # NoExc => stack[i].obj \in Exc /\ stack[i].obj # stack[N].obj
      BY <1>2, <3>1, Fields DEF Inv, Holders, ObjAlone
    <3>3. stack[i].obj # NoExc => exc'[stack[i].obj].type = exc[stack[i].obj].type
      BY <1>2, <3>2 DEF Returns
    <3> QED BY <3>1, <3>3, ShownSame
  <2>3. FramesOf(stack', exc') = FramesOf(stack, exc)
    <3>1. PICK st, su, ex, ey : st = stack /\ su = stack' /\ ex = exc /\ ey = exc'
      OBVIOUS
    <3>2. /\ st \in Seq(Activation) /\ su \in Seq(Activation) /\ SameEh(st, su)
          /\ \A i \in 1..Len(st) : st[i].kind = "eh" => Shown(ey, su[i]) = Shown(ex, st[i])
      BY <1>2, <2>1, <2>2, <3>1
    <3>3. FramesOf(su, ey) = FramesOf(st, ex)
      BY ONLY <3>2, FramesKept
    <3> QED BY <3>1, <3>3
  <2> QED BY <1>1, <2>3, FramesNow DEF Cxx!vars
<1> QED BY <1>4, <1>5

\* The frames, their positions, and what they do with an exception.
LEMMA FramesAre ==
    ASSUME Inv
    PROVE  LET p == EhPositions(stack) IN
           /\ Len(Frames) = Len(p) /\ Len(p) \in Nat
           /\ p \in Seq(1..N)
           /\ \A x \in 1..Len(p) : /\ p[x] \in 1..N /\ p[x] \in Nat /\ stack[p[x]].kind = "eh"
                                   /\ Frames[x] = Shown(exc, stack[p[x]])
           /\ \A x, y \in 1..Len(p) : x < y => p[x] < p[y]
           /\ \A i \in 1..N : stack[i].kind = "eh" => \E x \in 1..Len(p) : p[x] = i
<1>1. stack \in Seq(Activation) /\ exc \in [Exc -> Object] /\ Len(stack) = N /\ N \in Nat
  BY DEF Inv, TypeOK, N
<1>2. PICK st, ex, p, n : st = stack /\ ex = exc /\ p = EhPositions(st) /\ n = N
  OBVIOUS
<1>3. /\ ListsTo(st, p, n) /\ n \in Nat
      /\ Len(FramesOf(st, ex)) = Len(p)
      /\ \A x \in 1..Len(p) : FramesOf(st, ex)[x] = Shown(ex, st[p[x]])
  BY <1>1, <1>2, FramesListed
<1>4. /\ p \in Seq(1..n) /\ Len(p) \in Nat
      /\ \A x \in 1..Len(p) : p[x] \in 1..n /\ p[x] \in Nat /\ st[p[x]].kind = "eh"
      /\ \A x, y \in 1..Len(p) : x < y => p[x] < p[y]
      /\ \A i \in 1..n : st[i].kind = "eh" => \E x \in 1..Len(p) : p[x] = i
  <2>1. ListsTo(st, p, n) /\ n \in Nat
    BY <1>3
  <2> QED BY ONLY <2>1, ListFacts
<1> QED BY <1>2, <1>3, <1>4, FramesNow

\* A frame handles, or cleans up, as its function does in the walk.
LEMMA FramesAct ==
    ASSUME Inv, NEW x \in 1..Len(EhPositions(stack)), NEW t
    PROVE  /\ Cxx!Handles(Frames[x], t) <=> Catches(EhPositions(stack)[x], t)
           /\ Cxx!Cleans(Frames[x], t) <=>
                 ~Catches(EhPositions(stack)[x], t) /\ Covers(stack[EhPositions(stack)[x]].site)
<1>1. PICK i \in 1..N : i = EhPositions(stack)[x] /\ stack[i].kind = "eh" /\ Frames[x] = Shown(exc, stack[i])
  BY FramesAre
<1>2. Frames[x].site = stack[i].site
  BY <1>1 DEF Shown
<1> QED BY <1>1, <1>2 DEF Cxx!Handles, Cxx!Cleans, Catches, Covers

\* A catch block begins: only on top is anything seen.
LEMMA BeginCatchIt ==
    ASSUME Inv, Inv', BeginCatch
    PROVE  Cxx!Next \/ UNCHANGED Cxx!vars
<1>1. PICK e \in Exc : Begins(e)
  BY BeginsIt
<1>2. /\ mode = "run" /\ mode' = "run" /\ N > 0 /\ Quiet \in Site /\ N \in 1..N /\ N \in Nat
      /\ stack \in Seq(Activation) /\ stack' \in Seq(Activation)
      /\ Len(stack) = N /\ Len(stack') = N /\ exc \in [Exc -> Object]
  BY <1>1, GuestEHAssumption DEF Begins, Inv, TypeOK, N
<1>3. stack[N].pc = "catch" /\ stack[N].obj = e /\ stack[N].kind = "eh" /\ e # NoExc
  BY <1>1, <1>2, GuestEHAssumption DEF Begins, Inv, Pads
<1>4. CatchBegins(e)
  BY <1>1, <1>2, <1>3 DEF BeginCatch, Me, Inv, NoUseAfterFree
<1>5. stack'[N].site = Quiet
  <2>1. PICK m \in Activation : m = Marked(Quiet)[N] /\ m.site = Quiet
    BY <1>2, <1>3, MarkOnTop
  <2>2. stack' = [Marked(Quiet) EXCEPT ![N] = Entering(m, e)]
    BY <1>4, <2>1 DEF CatchBegins, Entering
  <2>3. stack'[N] = Entering(m, e)
    BY <1>2, <2>2, MarkOnTop
  <2> QED BY <2>1, <2>3, EnteringFields
<1>6. stack'[N].pc = "run" /\ stack'[N].obj = NoExc /\ stack'[N].kind = "eh"
  BY <1>1, <1>3 DEF Begins
<1>7. \A i \in 1..N : stack'[i].kind = stack[i].kind
  <2> TAKE i \in 1..N
  <2>1. i = N \/ i \in 1..N - 1
    BY <1>2
  <2> QED BY <1>1, <2>1 DEF Begins, Same, Alike
<1>8. ASSUME NEW i \in 1..N - 1 PROVE Shown(exc', stack'[i]) = Shown(exc, stack[i])
  <2>1. i \in 1..N /\ i # N /\ Same(stack'[i], stack[i])
    BY <1>1, <1>2 DEF Begins
  <2>2. stack[i].obj # NoExc => stack[i].obj \in Exc /\ stack[i].obj # e
    BY <1>3, <2>1, Fields DEF Inv, Holders, ObjAlone
  <2>3. stack[i].obj # NoExc => exc'[stack[i].obj].type = exc[stack[i].obj].type
    BY <1>1, <2>2 DEF Begins
  <2> QED BY <2>1, <2>3, ShownSame DEF Same, Alike
<1>9. PICK st, su, ex, ey, n : st = stack /\ su = stack' /\ ex = exc /\ ey = exc' /\ n = N
  OBVIOUS
<1>10. /\ st \in Seq(Activation) /\ su \in Seq(Activation) /\ SameEh(st, su) /\ LastEh(st, n)
       /\ ex \in [Exc -> Object]
       /\ \A i \in 1..n - 1 : st[i].kind = "eh" => Shown(ey, su[i]) = Shown(ex, st[i])
  BY <1>2, <1>3, <1>7, <1>8, <1>9 DEF SameEh, LastEh
<1>11. PICK F, d : F = FramesOf(st, ex) /\ d = Len(F)
  OBVIOUS
<1>12. /\ d \in Nat \ {0} /\ F[d] = Shown(ex, st[n])
       /\ FramesOf(su, ey) = [F EXCEPT ![d] = Shown(ey, su[n])]
  <2>1. /\ Len(FramesOf(st, ex)) \in Nat \ {0}
        /\ FramesOf(st, ex)[Len(FramesOf(st, ex))] = Shown(ex, st[n])
        /\ FramesOf(su, ey) = [FramesOf(st, ex) EXCEPT ![Len(FramesOf(st, ex))] = Shown(ey, su[n])]
    BY ONLY <1>10, FramesTop
  <2> QED BY <1>11, <2>1
<1>13. F[d].pc = "catch"
  BY <1>3, <1>9, <1>12 DEF Shown
<1>14. PICK G, u, v, w : G = FramesOf(su, ey) /\ u = "run" /\ v = NoExc /\ w = Quiet
  OBVIOUS
<1>15. G = [F EXCEPT ![d].pc = u, ![d].obj = v, ![d].site = w]
  <2>1. su[n].site = w /\ su[n].pc = u /\ su[n].obj = NoExc
    BY <1>5, <1>6, <1>9, <1>14
  <2>2. Shown(ey, su[n]) = [site |-> w, pc |-> u, obj |-> v]
    BY <1>14, <2>1 DEF Shown
  <2>3. PICK x, y, z : F[d] = [site |-> x, pc |-> y, obj |-> z]
    BY <1>12 DEF Shown
  <2>4. Shown(ey, su[n]) = [F[d] EXCEPT !.pc = u, !.obj = v, !.site = w]
    <3>1. PICK r, r1 : r = F[d] /\ r1 = [r EXCEPT !.pc = u]
      OBVIOUS
    <3>2. r1 = [site |-> x, pc |-> u, obj |-> z]
      BY ONLY <2>3, <3>1
    <3>3. PICK r2 : r2 = [r1 EXCEPT !.obj = v]
      OBVIOUS
    <3>4. r2 = [site |-> x, pc |-> u, obj |-> v]
      BY ONLY <3>2, <3>3
    <3>5. [r2 EXCEPT !.site = w] = [site |-> w, pc |-> u, obj |-> v]
      BY ONLY <3>4
    <3>6. [r EXCEPT !.pc = u, !.obj = v, !.site = w] = [r2 EXCEPT !.site = w]
      BY ONLY <3>1, <3>3
    <3> QED BY <2>2, <3>1, <3>5, <3>6
  <2>5. G = [F EXCEPT ![d] = [F[d] EXCEPT !.pc = u, !.obj = v, !.site = w]]
    BY <1>12, <1>14, <2>4
  <2> QED BY ONLY <2>5
<1>16. Cxx!Catch(Quiet)
  <2>1. Frames = F /\ Frames' = G /\ Len(Frames) = d
    BY <1>9, <1>11, <1>14, FramesNow
  <2>2. Frames' = [Frames EXCEPT ![Len(Frames)].pc = "run", ![Len(Frames)].obj = NoExc,
                                 ![Len(Frames)].site = Quiet]
    BY ONLY <1>14, <1>15, <2>1
  <2>3. Len(Frames) > 0 /\ Frames[Len(Frames)].pc = "catch"
    BY <1>12, <1>13, <2>1
  <2>4. mode \notin Stopped /\ mode' \notin Stopped
    BY <1>2 DEF Stopped
  <2> QED BY <2>2, <2>3, <2>4 DEF Cxx!Catch, Cxx!D, Cxx!Top
<1> QED BY <1>2, <1>16 DEF Cxx!Next

\* A walk that ends has found nobody: the program ends with every frame in place.
LEMMA WalkEndsIt ==
    ASSUME Inv, HInv, Walked, WalkEnds
    PROVE  Cxx!Next \/ UNCHANGED Cxx!vars
<1>1. mode = "search"
  <2> SUFFICES ASSUME mode = "unwind" PROVE FALSE
    BY DEF WalkEnds
  <2>1. exc[flying].goal \in 1..cursor
    BY BarriersBelow DEF HInv
  <2> QED BY <2>1 DEF WalkEnds
<1>2. /\ cursor = 0 /\ mode' = "uncaught" /\ stack' = stack /\ exc' = exc /\ N \in Nat
      /\ flying \in Exc
  BY <1>1, Fields DEF WalkEnds, objects, Inv, TypeOK
<1>3. PICK t \in Type : t = exc[flying].type
  <2>1. exc[flying] \in Object
    BY <1>2, Fields DEF Inv
  <2> QED BY <2>1 DEF Object
<1>4. \A i \in 1..N : ~Catches(i, t)
  BY <1>1, <1>2, <1>3 DEF Walked
<1>5. ASSUME NEW i \in 1..N PROVE stack[i].pc = "run"
  <2> SUFFICES ASSUME Barrier(i) PROVE FALSE
    BY DEF Barrier
  <2>1. PICK j \in i + 1..cursor : TRUE
    BY <1>1 DEF HInv, Ahead, PhaseOne
  <2> QED BY <1>2, <2>1
<1>6. PICK p : p = EhPositions(stack)
  OBVIOUS
<1>7. /\ Len(Frames) = Len(p) /\ Len(p) \in Nat
      /\ \A x \in 1..Len(p) : p[x] \in 1..N /\ Frames[x] = Shown(exc, stack[p[x]])
  BY <1>6, FramesAre
<1>8. Len(Frames) > 0 => Frames[Len(Frames)].pc = "run"
  <2> SUFFICES ASSUME Len(p) > 0 PROVE Frames[Len(p)].pc = "run"
    BY <1>7
  <2>1. Len(p) \in 1..Len(p)
    BY <1>7
  <2>2. PICK i \in 1..N : i = p[Len(p)]
    BY <1>7, <2>1
  <2>3. Frames[Len(p)] = Shown(exc, stack[i]) /\ stack[i].pc = "run"
    BY <1>5, <1>7, <2>1, <2>2
  <2> QED BY <2>3 DEF Shown
<1>9. \A x \in 1..Len(Frames) : ~Cxx!Handles(Frames[x], t)
  BY <1>4, <1>6, <1>7, FramesAct
<1>10. Frames' = Frames
  BY <1>2, FramesNow
<1>11. Cxx!Terminate(t)
  BY <1>1, <1>2, <1>8, <1>9, <1>10 DEF Cxx!Terminate, Cxx!D, Cxx!Top, Stopped
<1> QED BY <1>11 DEF Cxx!Next

\* The landing of phase two is the landing of CxxUnwind, in the function at the cursor.
LEMMA LandsAsLand ==
    ASSUME Inv, HInv, TypeOK', UnwindLands
    PROVE  \E d \in 1..Len(EhPositions(stack)) :
              /\ EhPositions(stack)[d] = cursor
              /\ flying \in Exc /\ exc[flying].type \in Type
              /\ Cxx!Land(flying, exc[flying].type, d)
<1>1. /\ mode = "unwind" /\ cursor \in 1..N /\ stack[cursor].kind = "eh" /\ flying \in Exc
  BY BarriersBelow DEF UnwindLands, HInv
<1>2. PICK c, e, t : c = cursor /\ e = flying /\ t = exc[flying].type
  OBVIOUS
<1>3. c \in 1..N /\ e \in Exc /\ t \in Type /\ N \in Nat /\ e # NoExc
  <2>1. exc[flying] \in Object /\ N \in Nat /\ NoExc \notin Exc
    BY <1>1, Fields DEF Inv
  <2> QED BY <1>1, <1>2, <2>1 DEF Object
<1>4. FrameAction(c, t, FALSE) = (IF Catches(c, t) THEN "catch" ELSE "cleanup")
  <2>1. FrameAction(c, t, FALSE) # "none" /\ stack[c].kind = "eh"
    BY <1>1, <1>2 DEF UnwindLands
  <2> QED BY <2>1 DEF FrameAction, Catches
<1>5. PICK act \in {"catch", "cleanup"} : act = FrameAction(c, t, FALSE)
  BY <1>4
<1>6. Lands(act, e)
  <2>1. PICK ac \in {"catch", "cleanup"} : Lands(ac, e)
    BY <1>2, LandsIt
  <2>2. stack'[c].pc = ac /\ stack[c].hs \in Seq(Exc)
    BY <1>2, <1>3, <2>1, Fields DEF Lands, Inv
  <2>3. PICK leaves \in 0..Len(stack[c].hs) : LandAt(act, leaves)
    BY <1>2, <1>5 DEF UnwindLands
  <2>4. leaves \in Nat
    BY <2>2
  <2>5. PICK st \in Seq(Activation) : st = SubSeq(stack, 1, c) /\ Len(st) = c /\ c \in 1..Len(st)
    <3>1. c \in 0..N /\ c \in Nat
      BY <1>3
    <3>2. TypeOK
      BY DEF Inv
    <3>3. SubSeq(stack, 1, c) \in Seq(Activation) /\ Len(SubSeq(stack, 1, c)) = c
      BY <3>1, <3>2, CutTyped
    <3>4. c \in 1..c
      BY <1>3, <3>1
    <3> QED BY <3>3, <3>4
  <2>6. PICK m \in Activation : m = st[c]
    BY <2>5
  <2>7. stack' = [st EXCEPT ![c] = LandedIn(m, act, e, leaves)]
    BY <1>2, <2>3, <2>5, <2>6 DEF LandAt, LandedIn
  <2>8. LandedIn(m, act, e, leaves).pc = act
    BY DEF LandedIn, Activation
  <2>9. stack'[c].pc = act
    BY <2>5, <2>7, <2>8
  <2> QED BY <2>1, <2>2, <2>9
<1>7. /\ N' = c /\ mode' = "run" /\ stack'[c].site = stack[c].site /\ stack'[c].pc = act
      /\ stack'[c].obj = e /\ stack'[c].kind = "eh" /\ stack[c].kind = "eh"
      /\ \A i \in 1..c - 1 : Same(stack'[i], stack[i])
      /\ \A y \in Exc : exc'[y].type = exc[y].type
  BY <1>1, <1>2, <1>6 DEF Lands
\* The stack is cut.
<1>8. PICK st, sc, su, ex, ey, p :
         st = stack /\ sc = SubSeq(stack, 1, c) /\ su = stack' /\ ex = exc /\ ey = exc' /\ p = EhPositions(st)
  OBVIOUS
<1>9. /\ st \in Seq(Activation) /\ sc \in Seq(Activation) /\ su \in Seq(Activation)
      /\ c \in 0..Len(st) /\ Len(sc) = c /\ Len(su) = c /\ \A i \in 1..c : sc[i] = st[i]
      /\ ex \in [Exc -> Object] /\ c \in Nat /\ c \in 1..c
  <2>1. c \in 0..N
    BY <1>3
  <2>2. sc \in Seq(Activation) /\ Len(sc) = c /\ \A i \in 1..c : sc[i] = st[i]
    BY <1>8, <2>1, CutTyped DEF Inv
  <2> QED BY <1>3, <1>7, <1>8, <2>1, <2>2 DEF Inv, TypeOK, N
<1>10. PICK d \in 0..Len(p) : /\ FramesOf(sc, ex) = SubSeq(FramesOf(st, ex), 1, d)
                              /\ \A x \in 1..Len(p) : x <= d <=> p[x] <= c
  <2>1. /\ st \in Seq(Activation) /\ sc \in Seq(Activation) /\ ex \in [Exc -> Object]
        /\ c \in 0..Len(st) /\ Len(sc) = c /\ \A i \in 1..c : sc[i] = st[i]
    BY <1>9
  <2>2. \E d \in 0..Len(EhPositions(st)) :
           /\ FramesOf(sc, ex) = SubSeq(FramesOf(st, ex), 1, d)
           /\ \A x \in 1..Len(EhPositions(st)) : x <= d <=> EhPositions(st)[x] <= c
    BY ONLY <2>1, FramesCut
  <2> QED BY <1>8, <2>2
<1>11. /\ Len(Frames) = Len(p) /\ Len(p) \in Nat /\ Frames = FramesOf(st, ex)
       /\ \A x \in 1..Len(p) : /\ p[x] \in 1..N /\ p[x] \in Nat
                               /\ Frames[x] = Shown(exc, stack[p[x]])
       /\ \A x, y \in 1..Len(p) : x < y => p[x] < p[y]
       /\ \A i \in 1..N : stack[i].kind = "eh" => \E x \in 1..Len(p) : p[x] = i
  BY <1>8, FramesAre, FramesNow
<1>12. d \in 1..Len(p) /\ p[d] = c
  <2>1. PICK x \in 1..Len(p) : p[x] = c
    BY <1>3, <1>7, <1>11
  <2>2. x <= d /\ d \in 1..Len(p)
    BY <1>3, <1>10, <1>11, <2>1
  <2>3. p[d] <= c /\ p[d] \in Nat
    BY <1>10, <1>11, <2>2
  <2>4. ~(x < d)
    <3>1. x < d => p[x] < p[d]
      BY <1>11, <2>1, <2>2
    <3> QED BY <1>3, <2>1, <2>3, <3>1
  <2>5. x = d
    BY <1>11, <2>2, <2>4
  <2> QED BY <2>1, <2>5
\* Then the function at the cursor lands.
<1>13. SameEh(sc, su) /\ LastEh(sc, c)
  <2>1. \A i \in 1..c : sc[i].kind = su[i].kind
    <3> TAKE i \in 1..c
    <3>1. i = c \/ i \in 1..c - 1
      BY <1>9
    <3> QED BY <1>7, <1>8, <1>9, <3>1 DEF Same, Alike
  <2> QED BY <1>7, <1>8, <1>9, <2>1 DEF SameEh, LastEh
<1>14. ASSUME NEW i \in 1..c - 1 PROVE Shown(ey, su[i]) = Shown(ex, sc[i])
  <2>1. i \in 1..c /\ i \in 1..N
    BY <1>3
  <2>2. /\ su[i].site = st[i].site /\ su[i].pc = st[i].pc /\ su[i].obj = st[i].obj /\ sc[i] = st[i]
        /\ st[i].obj # NoExc => ey[st[i].obj].type = ex[st[i].obj].type
    BY <1>7, <1>8, <1>9, <2>1, Fields DEF Same, Alike, Inv
  <2> QED BY <2>2, ShownSame
<1>15. PICK F, G, k : F = FramesOf(sc, ex) /\ G = FramesOf(su, ey) /\ k = Len(F)
  OBVIOUS
<1>16. k \in Nat \ {0} /\ F[k] = Shown(ex, sc[c]) /\ G = [F EXCEPT ![k] = Shown(ey, su[c])]
  <2>1. /\ sc \in Seq(Activation) /\ su \in Seq(Activation) /\ SameEh(sc, su) /\ LastEh(sc, c)
        /\ ex \in [Exc -> Object]
        /\ \A i \in 1..c - 1 : sc[i].kind = "eh" => Shown(ey, su[i]) = Shown(ex, sc[i])
    BY <1>9, <1>13, <1>14
  <2>2. /\ Len(FramesOf(sc, ex)) \in Nat \ {0}
        /\ FramesOf(sc, ex)[Len(FramesOf(sc, ex))] = Shown(ex, sc[c])
        /\ FramesOf(su, ey) = [FramesOf(sc, ex) EXCEPT ![Len(FramesOf(sc, ex))] = Shown(ey, su[c])]
    BY ONLY <2>1, FramesTop
  <2> QED BY <1>15, <2>2
<1>17. k = d
  <2>1. FramesOf(st, ex) \in Seq(Cxx!Frame) /\ d \in 0..Len(FramesOf(st, ex))
    BY <1>8, <1>9, <1>11, <1>12, FramesListed
  <2>2. Len(SubSeq(FramesOf(st, ex), 1, d)) = d
    BY ONLY <2>1, Prefix
  <2> QED BY <1>10, <1>15, <2>2
<1>18. PICK u, v : u = act /\ v = <<e, t>>
  OBVIOUS
<1>19. G = [F EXCEPT ![d].pc = u, ![d].obj = v]
  <2>1. PICK x, y, z : F[d] = [site |-> x, pc |-> y, obj |-> z] /\ x = sc[c].site
    BY <1>16, <1>17 DEF Shown
  <2>2. Shown(ey, su[c]) = [site |-> x, pc |-> u, obj |-> v]
    <3>1. su[c].site = x /\ su[c].pc = u /\ su[c].obj = e /\ ey[e].type = t
      BY <1>2, <1>3, <1>7, <1>8, <1>9, <1>18, <2>1
    <3> QED BY <1>3, <1>18, <3>1 DEF Shown
  <2>3. F[d] = [site |-> x, pc |-> y, obj |-> z] /\ G = [F EXCEPT ![d] = [site |-> x, pc |-> u, obj |-> v]]
    BY <1>16, <1>17, <2>1, <2>2
  <2>4. PICK r, r1 : r = F[d] /\ r1 = [r EXCEPT !.pc = u]
    OBVIOUS
  <2>5. r1 = [site |-> x, pc |-> u, obj |-> z]
    BY ONLY <2>3, <2>4
  <2>6. [r1 EXCEPT !.obj = v] = [site |-> x, pc |-> u, obj |-> v]
    BY ONLY <2>5
  <2>7. [r EXCEPT !.pc = u, !.obj = v] = [r1 EXCEPT !.obj = v]
    BY ONLY <2>4
  <2>8. G = [F EXCEPT ![d] = [F[d] EXCEPT !.pc = u, !.obj = v]]
    BY <2>3, <2>4, <2>6, <2>7
  <2> QED BY ONLY <2>8
<1>20. u = (IF Cxx!Handles(Frames[d], t) THEN "catch" ELSE "cleanup")
  <2>1. Cxx!Handles(Frames[d], t) <=> Catches(c, t)
    BY <1>8, <1>12, FramesAct
  <2> QED BY <1>4, <1>5, <1>18, <2>1
<1>21. Frames' = G /\ F = SubSeq(Frames, 1, d)
  BY <1>8, <1>10, <1>11, <1>15, FramesNow
<1>22. Frames' = [SubSeq(Frames, 1, d) EXCEPT
                     ![d].pc = IF Cxx!Handles(Frames[d], t) THEN "catch" ELSE "cleanup",
                     ![d].obj = <<e, t>>]
  BY ONLY <1>18, <1>19, <1>20, <1>21
<1>23. UNCHANGED (mode \in Stopped)
  BY <1>1, <1>7 DEF Stopped
<1>24. Cxx!Land(e, t, d)
  BY <1>22, <1>23 DEF Cxx!Land
<1> QED BY <1>2, <1>3, <1>8, <1>12, <1>24

\* A landing of phase two is where the throw goes, or where a cleanup goes on to.
LEMMA UnwindLandsIt ==
    ASSUME Inv, HInv, Walked, TypeOK', UnwindLands
    PROVE  Cxx!Next \/ UNCHANGED Cxx!vars
<1>1. PICK p, e, t : p = EhPositions(stack) /\ e = flying /\ t = exc[flying].type
  OBVIOUS
<1>2. PICK d \in 1..Len(p) : p[d] = cursor /\ e \in Exc /\ t \in Type /\ Cxx!Land(e, t, d)
  BY <1>1, LandsAsLand
<1>3. /\ mode = "unwind" /\ e # NoExc /\ N \in Nat
      /\ exc[e].goal \in 1..cursor /\ Catches(exc[e].goal, t)
      /\ cursor \in 1..N /\ stack[cursor].kind = "eh"
      /\ FrameAction(cursor, t, FALSE) # "none"
  BY <1>1, <1>2, BarriersBelow, Fields DEF UnwindLands, HInv, Inv
<1>4. /\ Len(Frames) = Len(p) /\ Len(p) \in Nat
      /\ \A x \in 1..Len(p) : /\ p[x] \in 1..N /\ p[x] \in Nat /\ stack[p[x]].kind = "eh"
                              /\ Frames[x] = Shown(exc, stack[p[x]])
      /\ \A x, y \in 1..Len(p) : x < y => p[x] < p[y]
      /\ \A i \in 1..N : stack[i].kind = "eh" => \E x \in 1..Len(p) : p[x] = i
  BY <1>1, FramesAre
<1>5. \A x \in 1..Len(p) : /\ Cxx!Handles(Frames[x], t) <=> Catches(p[x], t)
                           /\ Cxx!Cleans(Frames[x], t) <=> ~Catches(p[x], t) /\ Covers(stack[p[x]].site)
  BY <1>1, FramesAct
<1>6. Cxx!Handles(Frames[d], t) \/ Cxx!Cleans(Frames[d], t)
  <2>1. Catches(cursor, t) \/ Covers(stack[cursor].site)
    BY <1>3, ActionIsCatch
  <2> QED BY <1>2, <1>5, <2>1
<1>7. ASSUME NEW x \in d + 1..Len(p), stack[p[x]].obj # e
      PROVE  ~Cxx!Handles(Frames[x], t) /\ ~Cxx!Cleans(Frames[x], t)
  <2>1. x \in 1..Len(p) /\ d < x
    BY <1>4
  <2>2. p[x] \in 1..N /\ p[x] > cursor /\ stack[p[x]].kind = "eh"
    BY <1>2, <1>3, <1>4, <2>1
  <2>3. ~Catches(p[x], t) /\ ~Covers(stack[p[x]].site)
    BY <1>1, <1>3, <1>7, <2>2 DEF Walked
  <2> QED BY <1>5, <2>1, <2>3
<1>8. Len(p) \in 1..Len(p) /\ d \in Nat
  BY <1>4
<1>9. PICK n \in 1..N : n = p[Len(p)] /\ stack[n].kind = "eh" /\ Frames[Len(p)] = Shown(exc, stack[n])
                        /\ n \in Nat /\ n >= cursor
  <2>1. p[Len(p)] \in 1..N /\ stack[p[Len(p)]].kind = "eh" /\ Frames[Len(p)] = Shown(exc, stack[p[Len(p)]])
        /\ p[Len(p)] \in Nat
    BY <1>4, <1>8
  <2>2. p[Len(p)] >= cursor
    <3>1. d = Len(p) \/ d < Len(p)
      BY <1>4
    <3>2. d < Len(p) => p[d] < p[Len(p)]
      BY <1>4, <1>8
    <3> QED BY <1>2, <1>3, <2>1, <3>1, <3>2
  <2> QED BY <2>1, <2>2
<1>10. mode \notin Stopped
  BY <1>3 DEF Stopped
<1>11. CASE \A i \in 1..N : stack[i].obj # e
  <2>1. Frames[Len(p)].pc = "run"
    <3>1. ~Barrier(n)
      <4>1. Barrier(n) => n < exc[e].goal
        BY <1>1, <1>3, <1>11 DEF HInv, Ahead, PhaseTwo
      <4> QED BY <1>3, <1>9, <4>1
    <3> QED BY <1>9, <3>1 DEF Barrier, Shown
  <2>2. \E x \in 1..Len(p) : Cxx!Handles(Frames[x], t)
    <3>1. exc[e].goal \in 1..N /\ stack[exc[e].goal].kind = "eh"
      BY <1>3 DEF Catches
    <3>2. PICK x \in 1..Len(p) : p[x] = exc[e].goal
      BY <1>4, <3>1
    <3> QED BY <1>3, <1>5, <3>2
  <2>3. \A x \in d + 1..Len(p) : ~Cxx!Handles(Frames[x], t) /\ ~Cxx!Cleans(Frames[x], t)
    <3>1. \A x \in d + 1..Len(p) : stack[p[x]].obj # e
      <4> TAKE x \in d + 1..Len(p)
      <4>1. p[x] \in 1..N
        BY <1>4, <1>8
      <4> QED BY <1>11, <4>1
    <3> QED BY <1>7, <3>1
  <2>4. Cxx!Innermost(Len(p), t, d)
    BY <1>6, <2>3 DEF Cxx!Innermost
  <2>5. Cxx!Throw(e, t)
    BY <1>2, <1>4, <1>8, <1>10, <2>1, <2>2, <2>4 DEF Cxx!Throw, Cxx!D, Cxx!Top
  <2> QED BY <1>2, <2>5 DEF Cxx!Next
<1>12. CASE \E i \in 1..N : stack[i].obj = e
  <2>1. /\ N \in 1..N /\ stack[N].obj = e /\ stack[N].pc = "cleanup"
        /\ \A i \in 1..N : stack[i].obj = e => i = N
    BY <1>1, <1>3, <1>12 DEF Walked
  <2>2. stack[N].kind = "eh" /\ cursor < N
    BY <1>1, <1>3, <2>1 DEF Inv, Pads, Walks
  <2>3. n = N
    <3>1. PICK x \in 1..Len(p) : p[x] = N
      BY <1>4, <2>1, <2>2
    <3>2. x = Len(p) \/ x < Len(p)
      BY <1>4
    <3>3. x < Len(p) => p[x] < p[Len(p)]
      BY <1>4, <1>8
    <3> QED BY <1>3, <1>9, <3>1, <3>2, <3>3
  <2>4. d \in 1..Len(p) - 1
    <3>1. ASSUME d = Len(p) PROVE FALSE
      <4>1. p[Len(p)] = cursor
        BY <1>2, <3>1
      <4>2. p[Len(p)] = N
        BY <1>9, <2>3
      <4>3. cursor < cursor /\ cursor \in Int
        BY <1>3, <2>2, <4>1, <4>2
      <4> QED BY <4>3
    <3> QED BY <1>4, <3>1
  <2>5. /\ Frames[Len(p)].pc = "cleanup" /\ Frames[Len(p)].obj = <<e, t>>
    BY <1>1, <1>3, <1>9, <2>1, <2>3 DEF Shown
  <2>6. \A x \in d + 1..Len(p) - 1 : ~Cxx!Handles(Frames[x], t) /\ ~Cxx!Cleans(Frames[x], t)
    <3> TAKE x \in d + 1..Len(p) - 1
    <3>1. x \in d + 1..Len(p) /\ x \in 1..Len(p) /\ x < Len(p)
      BY <1>4, <1>8
    <3>2. p[x] \in 1..N /\ p[x] < p[Len(p)]
      BY <1>4, <1>8, <3>1
    <3>3. stack[p[x]].obj # e
      BY <1>3, <1>9, <2>1, <2>3, <3>2
    <3> QED BY <1>7, <3>1, <3>3
  <2>7. Cxx!Innermost(Len(p) - 1, t, d)
    BY <1>6, <2>4, <2>6 DEF Cxx!Innermost
  <2>8. <<e, t>>[1] = e /\ <<e, t>>[2] = t
    OBVIOUS
  <2>9. Cxx!GoOn
    BY <1>2, <1>4, <1>8, <1>10, <2>4, <2>5, <2>7, <2>8 DEF Cxx!GoOn, Cxx!D, Cxx!Top
  <2> QED BY <2>9 DEF Cxx!Next
<1> QED BY <1>11, <1>12

\* The walks change nothing that is seen.
LEMMA WalksIt ==
    ASSUME Inv, SearchNext \/ SearchFound \/ UnwindNext
    PROVE  UNCHANGED Cxx!vars
<1>1. /\ stack' = stack /\ mode \notin Stopped /\ mode' \notin Stopped
      /\ \A e \in Exc : exc'[e].type = exc[e].type
  <2>1. CASE SearchNext \/ UnwindNext
    BY <2>1 DEF SearchNext, UnwindNext, objects, Stopped
  <2>2. CASE SearchFound
    <3>1. /\ stack' = stack /\ exc' = [exc EXCEPT ![flying].goal = cursor] /\ cursor \in Nat
          /\ mode = "search" /\ mode' = "unwind" /\ exc \in [Exc -> Object] /\ flying \in Exc
      BY <2>2, Fields DEF SearchFound, Inv, TypeOK
    <3>2. PICK o \in Object : o = exc[flying]
      BY <3>1
    <3>3. exc' = [exc EXCEPT ![flying] = [o EXCEPT !.goal = cursor]]
      BY <3>1, <3>2
    <3>4. [o EXCEPT !.goal = cursor].type = o.type
      BY <3>1, GoalFields
    <3>5. \A e \in Exc : exc'[e].type = exc[e].type
      BY <3>1, <3>2, <3>3, <3>4
    <3> QED BY <3>1, <3>5 DEF Stopped
  <2> QED BY <2>1, <2>2
<1>2. FramesOf(stack', exc') = FramesOf(stack, exc)
  <2>1. PICK st, ex, ey : st = stack /\ ex = exc /\ ey = exc'
    OBVIOUS
  <2>2. st \in Seq(Activation) /\ SameEh(st, st)
    BY <2>1 DEF Inv, TypeOK, SameEh
  <2>3. \A i \in 1..Len(st) : st[i].kind = "eh" => Shown(ey, st[i]) = Shown(ex, st[i])
    <3> TAKE i \in 1..Len(st)
    <3>1. st[i].obj # NoExc => ey[st[i].obj].type = ex[st[i].obj].type
      BY <1>1, <2>1, Fields DEF Inv, N
    <3> QED BY <3>1, ShownSame
  <2>4. FramesOf(st, ey) = FramesOf(st, ex)
    BY ONLY <2>2, <2>3, FramesKept
  <2> QED BY <1>1, <2>1, <2>4
<1> QED BY <1>1, <1>2, FramesNow DEF Cxx!vars

\* Every step of GuestEH is a step of CxxUnwind, or changes nothing it sees.
LEMMA StepIt ==
    ASSUME Inv, HInv, Walked, Inv', ~Rethrows, ~TailCalls, [Next]_vars
    PROVE  Cxx!Next \/ UNCHANGED Cxx!vars
<1>1. TypeOK'
  BY DEF Inv
<1>2. CASE UNCHANGED vars
  <2>1. stack' = stack /\ exc' = exc /\ mode' = mode
    BY <1>2 DEF vars
  <2> QED BY <2>1, FramesNow DEF Cxx!vars
<1>3. ASSUME NEW k \in {"eh", "plain"}, Enter(k) \/ TailCall(k) PROVE Cxx!Next \/ UNCHANGED Cxx!vars
  BY <1>1, <1>3, EnterIt DEF TailCall
<1>4. ASSUME NEW k \in {"eh", "plain"}, NEW s \in Site, Call(k, s) PROVE Cxx!Next \/ UNCHANGED Cxx!vars
  BY <1>1, <1>4, CallIt
<1>5. CASE Return
  BY <1>1, <1>5, ReturnIt
<1>6. Quiet \in Site
  BY GuestEHAssumption
<1>7. ASSUME NEW e \in Exc, AllocateException(e) PROVE Cxx!Next \/ UNCHANGED Cxx!vars
  <2>1. Marks(Quiet) /\ mode \notin Stopped /\ mode' \notin Stopped
    BY <1>7, AllocateMarks DEF AllocateException, Running, unwinder, Stopped
  <2> QED BY <1>1, <1>6, <2>1, AtIt
<1>8. ASSUME NEW t \in Type, NEW s \in Site, Throw(t, s) PROVE Cxx!Next \/ UNCHANGED Cxx!vars
  <2>1. Marks(s) /\ mode \notin Stopped /\ mode' \notin Stopped
    BY <1>8, ThrowMarks DEF Throw, Running, Stopped
  <2> QED BY <1>1, <2>1, AtIt
<1>9. ASSUME NEW s \in Site, Rethrow(s) PROVE Cxx!Next \/ UNCHANGED Cxx!vars
  BY <1>9 DEF Rethrow
<1>10. CASE EndCatch \/ PadEndCatch
  <2>1. Marks(Quiet) /\ mode \notin Stopped /\ mode' \notin Stopped
    BY <1>10, LeaveMarks DEF EndCatch, PadEndCatch, Running, unwinder, Stopped
  <2> QED BY <1>1, <1>6, <2>1, AtIt
<1>11. CASE PadFreeException
  <2>1. Marks(Quiet) /\ mode \notin Stopped /\ mode' \notin Stopped
    BY <1>11, FreeMarks DEF PadFreeException, unwinder, Stopped
  <2> QED BY <1>1, <1>6, <2>1, AtIt
<1>12. CASE BeginCatch
  BY <1>12, BeginCatchIt
<1>13. CASE Resume
  <2>1. Marks(Quiet) /\ mode \notin Stopped /\ mode' \notin Stopped
    BY <1>13, ResumeMarks DEF Resume, PadDone, Stopped
  <2> QED BY <1>1, <1>6, <2>1, AtIt
<1>14. CASE SearchNext \/ SearchFound \/ UnwindNext
  BY <1>14, WalksIt
<1>15. CASE UnwindLands
  BY <1>1, <1>15, UnwindLandsIt
<1>16. CASE WalkEnds
  BY <1>16, WalkEndsIt
<1>17. CASE Halted
  BY <1>2, <1>17 DEF Halted
<1> QED BY <1>2, <1>3, <1>4, <1>5, <1>7, <1>8, <1>9, <1>10, <1>11, <1>12, <1>13, <1>14, <1>15, <1>16, <1>17
    DEF Next, Guest, Unwinding

\* The initial states are initial states of CxxUnwind.
LEMMA InitIt ==
    ASSUME Init
    PROVE  Cxx!Init
<1>1. stack = <<>> /\ mode = "run" /\ Len(stack) = 0
  BY DEF Init
<1>2. Len(EhPositions(stack)) = 0
  <2>1. stack \in Seq(Activation)
    BY <1>1
  <2>2. PICK st, p, n : st = stack /\ p = EhPositions(st) /\ n = Len(st)
    OBVIOUS
  <2>3. ListsTo(st, p, n) /\ n = 0
    BY <1>1, <2>1, <2>2, PositionsList DEF Lists
  <2>4. p \in Seq(1..0)
    BY <2>3, ListFacts
  <2>5. Len(p) = 0
    <3>1. Len(p) \in Nat /\ p \in [1..Len(p) -> 1..0]
      BY <2>4
    <3>2. ~(1 \in 1..Len(p))
      BY <3>1
    <3> QED BY <3>1, <3>2
  <2> QED BY <2>2, <2>5
<1>3. Frames = <<>>
  <2>1. Frames = [x \in 1..0 |-> Shown(exc, stack[EhPositions(stack)[x]])]
    BY <1>2 DEF Frames, FramesOf
  <2> QED BY <2>1
<1> QED BY <1>1, <1>3 DEF Cxx!Init, Stopped

\* ImplementsCxx: where the guest neither rethrows nor runs a destructor in a tail
\* call, the two walks of guest_raise and host_resume, interrupted by the cleanups,
\* amount to what C++ says of a throw: one jump to the innermost function that acts
\* on the exception, its cleanups on the way from the inside out, once each.
THEOREM UnwindingIsOneJump == ASSUME ~Rethrows, ~TailCalls PROVE Spec => ImplementsCxx
<1>1. Init => Cxx!Init
  BY InitIt
<1>2. Inv /\ HInv /\ Walked /\ (Inv /\ HInv /\ Walked)' /\ [Next]_vars => [Cxx!Next]_(Cxx!vars)
  BY StepIt
<1>3. Spec => [](Inv /\ HInv /\ Walked)
  BY WalkedStays
<1> QED BY <1>1, <1>2, <1>3, PTL DEF Spec, ImplementsCxx, Cxx!Spec
=============================================================================
