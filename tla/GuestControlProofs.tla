------------------------- MODULE GuestControlProofs --------------------------
(* What is proved of GuestControl, for every number of jmp_bufs, of sorts and   *)
(* of comparators, and every depth of nesting of calls, sorts and exceptions.  *)
(*                                                                             *)
(* That a sort uses its own comparator needs nothing of the rest: it follows   *)
(* from what qsort saves and puts back, and from a jump cutting the host stack *)
(* from the top.  That a slot restores the shadow stack needs the invariant of *)
(* GuestEHProofs carried through longjmp and the comparisons, and so, like it, *)
(* a guest without `throw;`.                                                   *)
EXTENDS GuestControl, GuestEHProofs

\* Of some of the positions of a sequence and 0, Max takes the last.
LEMMA LastOf ==
    ASSUME NEW L \in Nat, NEW S \in SUBSET (1..L)
    PROVE  /\ Max({0} \cup S) \in 0..L /\ Max({0} \cup S) \in {0} \cup S
           /\ \A i \in S : i <= Max({0} \cup S)
<1> DEFINE T == {k \in 0..L : \A i \in S : i <= k}
<1>1. T \in SUBSET Nat /\ L \in T
  OBVIOUS
<1>2. PICK m \in T : \A k \in T : m <= k
  <2> HIDE DEF T
  <2> QED BY <1>1, LeastNumber
<1>3. m \in {0} \cup S
  <2> SUFFICES ASSUME m # 0, m \notin S PROVE FALSE
    OBVIOUS
  <2>1. m - 1 \in 0..L /\ \A i \in S : i <= m - 1
    OBVIOUS
  <2>2. m - 1 \in T
    BY <2>1
  <2> QED BY <1>2, <2>2
<1>4. \A y \in {0} \cup S : m >= y
  OBVIOUS
<1> DEFINE c == CHOOSE x \in {0} \cup S : \A y \in {0} \cup S : x >= y
<1>5. c \in {0} \cup S /\ \A y \in {0} \cup S : c >= y
  BY <1>3, <1>4
<1>6. Max({0} \cup S) = c
  BY DEF Max
<1> HIDE DEF c
<1> QED BY <1>5, <1>6

-----------------------------------------------------------------------------
(* Sorts.                                                                      *)

\* Sorts whatever their activations and frames are: the comparators of a sort do
\* not depend on them.
SortOver(S) == [at : S, by : Cmp, outer : Cmp \cup {NoCmp}, eh : S, cut : BOOLEAN]

Stopping(q, c) == [q EXCEPT !.cut = @ \/ c]

\* Cutting a sort short changes nothing else of it.
LEMMA SortStopped ==
    ASSUME NEW S, NEW q \in SortOver(S), NEW c \in BOOLEAN
    PROVE  /\ Stopping(q, c) \in SortOver(S)
           /\ Stopping(q, c).at = q.at /\ Stopping(q, c).by = q.by
           /\ Stopping(q, c).outer = q.outer /\ Stopping(q, c).eh = q.eh
           /\ Stopping(q, c).cut <=> q.cut \/ c
BY DEF SortOver, Stopping

\* A jump keeps the first of the sorts, all of those below where it goes, as they
\* are; but when it cuts some, the last of those it keeps is marked.
LEMMA SortsCut ==
    ASSUME NEW S, sorts \in Seq(SortOver(S)), NEW n
    PROVE  \E k \in 0..Len(sorts) :
              /\ SortsBelow(n) \in Seq(SortOver(S)) /\ Len(SortsBelow(n)) = k
              /\ \A i \in 1..k :
                    /\ SortsBelow(n)[i].at = sorts[i].at /\ SortsBelow(n)[i].by = sorts[i].by
                    /\ SortsBelow(n)[i].outer = sorts[i].outer
                    /\ SortsBelow(n)[i].eh = sorts[i].eh
                    /\ SortsBelow(n)[i].cut <=> sorts[i].cut \/ (i = k /\ k < Len(sorts))
              /\ k # 0 => sorts[k].at < n
              /\ \A i \in 1..Len(sorts) : sorts[i].at < n => i <= k
<1> DEFINE k == Max({0} \cup {i \in 1..Len(sorts) : sorts[i].at < n})
<1>1. Len(sorts) \in Nat
  OBVIOUS
<1>2. /\ k \in 0..Len(sorts)
      /\ k # 0 => sorts[k].at < n
      /\ \A i \in 1..Len(sorts) : sorts[i].at < n => i <= k
  <2> DEFINE T == {i \in 1..Len(sorts) : sorts[i].at < n}
  <2>1. T \in SUBSET (1..Len(sorts))
    OBVIOUS
  <2>2. /\ Max({0} \cup T) \in 0..Len(sorts) /\ Max({0} \cup T) \in {0} \cup T
        /\ \A i \in T : i <= Max({0} \cup T)
    <3> HIDE DEF T
    <3> QED BY <1>1, <2>1, LastOf
  <2> QED BY <2>2
<1>3. SortsBelow(n) = [i \in 1..k |-> Stopping(sorts[i], i = k /\ k < Len(sorts))]
  BY DEF SortsBelow, Stopping
<1> HIDE DEF k
<1>4. \A i \in 1..k : sorts[i] \in SortOver(S)
  BY <1>2
<1>5. \A i \in 1..k : SortsBelow(n)[i] = Stopping(sorts[i], i = k /\ k < Len(sorts))
  BY <1>3
<1>6. ASSUME NEW i \in 1..k
      PROVE  /\ SortsBelow(n)[i] \in SortOver(S)
             /\ SortsBelow(n)[i].at = sorts[i].at /\ SortsBelow(n)[i].by = sorts[i].by
             /\ SortsBelow(n)[i].outer = sorts[i].outer /\ SortsBelow(n)[i].eh = sorts[i].eh
             /\ SortsBelow(n)[i].cut <=> sorts[i].cut \/ (i = k /\ k < Len(sorts))
  <2>1. PICK c \in BOOLEAN : c = (i = k /\ k < Len(sorts))
    OBVIOUS
  <2>2. sorts[i] \in SortOver(S) /\ SortsBelow(n)[i] = Stopping(sorts[i], c)
    BY <1>4, <1>5, <2>1
  <2>3. /\ Stopping(sorts[i], c) \in SortOver(S)
        /\ Stopping(sorts[i], c).at = sorts[i].at /\ Stopping(sorts[i], c).by = sorts[i].by
        /\ Stopping(sorts[i], c).outer = sorts[i].outer
        /\ Stopping(sorts[i], c).eh = sorts[i].eh
        /\ Stopping(sorts[i], c).cut <=> sorts[i].cut \/ c
    BY <2>2, SortStopped
  <2> QED BY <2>1, <2>2, <2>3
<1>7. SortsBelow(n) \in Seq(SortOver(S)) /\ Len(SortsBelow(n)) = k
  BY <1>2, <1>3, <1>6
<1> QED BY <1>2, <1>6, <1>7

\* What a sort restores is the comparator of the sort it is nested in, until a
\* jump cuts that one short; and the sort in progress has its own.
Comparators ==
    /\ \E S : sorts \in Seq(SortOver(S))
    /\ cmp \in Cmp \cup {NoCmp}
    /\ InnermostHasItsOwn
    /\ OthersGetTheirsBack

\* Every step keeps that: qsort saves the comparator it replaces, and a sort that
\* goes on below one that was cut short is marked.
LEMMA ComparatorsNext ==
    ASSUME Comparators, [CNext]_cvars
    PROVE  Comparators'
<1>1. PICK S : sorts \in Seq(SortOver(S))
  BY DEF Comparators, OthersGetTheirsBack
<1>2. Len(sorts) \in Nat /\ \A i \in 1..Len(sorts) : sorts[i] \in SortOver(S)
  BY <1>1
<1>3. CASE UNCHANGED <<sorts, cmp>>
  BY <1>3 DEF Comparators, OthersGetTheirsBack, InnermostHasItsOwn, Last
<1>4. ASSUME NEW n, sorts' = SortsBelow(n), cmp' = cmp PROVE Comparators'
  <2>1. PICK k \in 0..Len(sorts) :
              /\ SortsBelow(n) \in Seq(SortOver(S)) /\ Len(SortsBelow(n)) = k
              /\ \A i \in 1..k :
                    /\ SortsBelow(n)[i].at = sorts[i].at /\ SortsBelow(n)[i].by = sorts[i].by
                    /\ SortsBelow(n)[i].outer = sorts[i].outer
                    /\ SortsBelow(n)[i].eh = sorts[i].eh
                    /\ SortsBelow(n)[i].cut <=> sorts[i].cut \/ (i = k /\ k < Len(sorts))
    BY <1>1, SortsCut
  <2>2. /\ sorts' \in Seq(SortOver(S)) /\ Len(sorts') = k
        /\ \A i \in 1..k :
                    /\ sorts'[i].by = sorts[i].by /\ sorts'[i].outer = sorts[i].outer
                    /\ sorts'[i].cut <=> sorts[i].cut \/ (i = k /\ k < Len(sorts))
    BY <1>4, <2>1
  <2>3. InnermostHasItsOwn'
    <3> SUFFICES ASSUME sorts' # <<>>, ~sorts'[k].cut PROVE cmp' = sorts'[k].by
      BY <2>2 DEF InnermostHasItsOwn, Last
    <3>1. k \in 1..Len(sorts) /\ k = Len(sorts) /\ ~sorts[k].cut
      BY <2>2, <1>2
    <3> QED BY <1>4, <2>2, <3>1 DEF Comparators, OthersGetTheirsBack, InnermostHasItsOwn, Last
  <2>4. ASSUME NEW i \in 1..Len(sorts') - 1, ~sorts'[i].cut PROVE sorts'[i + 1].outer = sorts'[i].by
    <3>1. i \in 1..k /\ i + 1 \in 1..k /\ i \in 1..Len(sorts) - 1 /\ ~sorts[i].cut
      BY <1>2, <2>2, <2>4
    <3> QED BY <2>2, <3>1 DEF Comparators, OthersGetTheirsBack
  <2> QED BY <1>4, <2>2, <2>3, <2>4 DEF Comparators, OthersGetTheirsBack
<1>5. CASE EHStep
  BY <1>3, <1>4, <1>5 DEF EHStep
<1>6. ASSUME NEW k \in Key, Setjmp(k) PROVE Comparators'
  BY <1>3, <1>6 DEF Setjmp
<1>7. ASSUME NEW k \in Key, Longjmp(k) PROVE Comparators'
  BY <1>3, <1>4, <1>7 DEF Longjmp
<1>8. ASSUME NEW c \in Cmp, NEW s \in Site, BeginSort(c, s) PROVE Comparators'
  <2> DEFINE q == [at |-> N, by |-> c, outer |-> cmp, eh |-> 0, cut |-> FALSE]
             T == S \cup {N, 0}
  <2>1. sorts' = Append(sorts, q) /\ cmp' = c
    BY <1>8 DEF BeginSort
  <2>2. sorts \in Seq(SortOver(T)) /\ q \in SortOver(T)
    <3>1. \A i \in 1..Len(sorts) : sorts[i] \in SortOver(T)
      BY <1>2 DEF SortOver
    <3>2. q \in SortOver(T)
      BY DEF Comparators, OthersGetTheirsBack, SortOver
    <3> HIDE DEF T, q
    <3> QED BY <1>1, <3>1, <3>2
  <2>3. q.cut = FALSE /\ q.by = c /\ q.outer = cmp
    OBVIOUS
  <2> HIDE DEF T, q
  <2>4. /\ sorts' \in Seq(SortOver(T)) /\ Len(sorts') = Len(sorts) + 1
        /\ \A i \in 1..Len(sorts) : sorts'[i] = sorts[i]
        /\ sorts'[Len(sorts) + 1] = q
    BY <2>1, <2>2, AppendProperties
  <2>5. InnermostHasItsOwn'
    BY <2>1, <2>3, <2>4 DEF InnermostHasItsOwn, Last
  <2>6. ASSUME NEW i \in 1..Len(sorts') - 1, ~sorts'[i].cut PROVE sorts'[i + 1].outer = sorts'[i].by
    <3>1. i \in 1..Len(sorts) /\ ~sorts[i].cut /\ sorts'[i] = sorts[i]
      BY <1>2, <2>4, <2>6
    <3>2. CASE i = Len(sorts)
      <4>1. cmp = sorts[i].by
        BY <1>2, <3>1, <3>2 DEF Comparators, OthersGetTheirsBack, InnermostHasItsOwn, Last
      <4> QED BY <2>3, <2>4, <3>1, <3>2, <4>1
    <3>3. CASE i # Len(sorts)
      <4>1. i \in 1..Len(sorts) - 1 /\ i + 1 \in 1..Len(sorts)
        BY <1>2, <3>1, <3>3
      <4> QED BY <2>4, <3>1, <4>1 DEF Comparators, OthersGetTheirsBack
    <3> QED BY <3>2, <3>3
  <2> QED BY <2>1, <2>4, <2>5, <2>6 DEF Comparators, OthersGetTheirsBack
<1>9. ASSUME NEW k \in {"eh", "plain"}, Compare(k) PROVE Comparators'
  <2> DEFINE n == Len(sorts)
             q == [sorts[n] EXCEPT !.eh = ehTop]
             T == S \cup {ehTop}
  <2>1. sorts' = [sorts EXCEPT ![n] = q] /\ cmp' = cmp /\ sorts # <<>>
    BY <1>9 DEF Compare, InSort
  <2>2. n \in 1..Len(sorts)
    BY <1>1, <2>1
  <2>3. /\ q \in SortOver(T) /\ q.cut = sorts[n].cut /\ q.by = sorts[n].by
        /\ q.outer = sorts[n].outer
    BY <1>2, <2>2 DEF SortOver
  <2>4. sorts \in Seq(SortOver(T))
    <3>1. \A i \in 1..Len(sorts) : sorts[i] \in SortOver(T)
      BY <1>2 DEF SortOver
    <3> HIDE DEF T
    <3> QED BY <1>1, <3>1
  <2> HIDE DEF T, q
  <2>5. /\ sorts' \in Seq(SortOver(T)) /\ Len(sorts') = n
        /\ \A i \in 1..n : sorts'[i] = IF i = n THEN q ELSE sorts[i]
    BY <2>1, <2>2, <2>3, <2>4, ExceptSeq
  <2>6. \A i \in 1..n : /\ sorts'[i].cut = sorts[i].cut /\ sorts'[i].by = sorts[i].by
                        /\ sorts'[i].outer = sorts[i].outer
    BY <2>3, <2>5
  <2>7. InnermostHasItsOwn'
    BY <2>1, <2>2, <2>5, <2>6 DEF Comparators, OthersGetTheirsBack, InnermostHasItsOwn, Last
  <2>8. \A i \in 1..Len(sorts') - 1 : ~sorts'[i].cut => sorts'[i + 1].outer = sorts'[i].by
    BY <1>2, <2>5, <2>6 DEF Comparators, OthersGetTheirsBack
  <2> QED BY <2>1, <2>5, <2>7, <2>8 DEF Comparators, OthersGetTheirsBack
<1>10. CASE CompareEnds
  BY <1>3, <1>10 DEF CompareEnds
<1>11. CASE EndSort
  <2> DEFINE n == Len(sorts) - 1
  <2>1. sorts' = SubSeq(sorts, 1, n) /\ cmp' = sorts[n + 1].outer /\ sorts # <<>>
    BY <1>2, <1>11 DEF EndSort, InSort, Front, Last
  <2>2. n \in Nat /\ n + 1 \in 1..Len(sorts)
    BY <1>1, <2>1
  <2>3. /\ sorts' \in Seq(SortOver(S)) /\ Len(sorts') = n
        /\ \A i \in 1..n : sorts'[i] = sorts[i]
    <3>1. \A i \in 1..n : sorts[i] \in SortOver(S)
      BY <1>2, <2>2
    <3>2. /\ sorts' \in Seq(SortOver(S))
          /\ Len(sorts') = IF 1 <= n THEN n - 1 + 1 ELSE 0
          /\ \A i \in 1..n - 1 + 1 : sorts'[i] = sorts[1 + i - 1]
      BY <2>1, <2>2, <3>1, SubSeqProperties
    <3> HIDE DEF n
    <3> QED BY <2>2, <3>2
  <2>4. InnermostHasItsOwn'
    <3> SUFFICES ASSUME sorts' # <<>>, ~sorts'[n].cut PROVE cmp' = sorts'[n].by
      BY <2>3 DEF InnermostHasItsOwn, Last
    <3>1. n \in 1..Len(sorts) - 1
      BY <2>2, <2>3
    <3> QED BY <2>1, <2>3, <3>1 DEF Comparators, OthersGetTheirsBack
  <2>5. \A i \in 1..Len(sorts') - 1 : ~sorts'[i].cut => sorts'[i + 1].outer = sorts'[i].by
    BY <2>2, <2>3 DEF Comparators, OthersGetTheirsBack
  <2>6. cmp' \in Cmp \cup {NoCmp}
    BY <1>2, <2>1, <2>2 DEF SortOver
  <2> QED BY <2>3, <2>4, <2>5, <2>6 DEF Comparators, OthersGetTheirsBack
<1>12. CASE UNCHANGED cvars
  BY <1>3, <1>12 DEF cvars
<1> QED BY <1>5, <1>6, <1>7, <1>8, <1>9, <1>10, <1>11, <1>12 DEF CNext

\* With any guest, `throw;` and tail calls included: a sort has its own comparator in
\* g_qsort_cmp, unless a sort nested in it was cut short by an exception or a longjmp,
\* and then the sorts further out still have theirs when they go on.
THEOREM ComparatorIsTheSorts == CSpec => []SortUsesItsComparator
<1>1. CInit => Comparators
  <2> SUFFICES ASSUME CInit PROVE Comparators
    OBVIOUS
  <2>1. sorts = <<>> /\ cmp = NoCmp
    BY DEF CInit
  <2>2. sorts \in Seq(SortOver({})) /\ Len(sorts) = 0
    BY <2>1
  <2> QED BY <2>1, <2>2 DEF Comparators, InnermostHasItsOwn, OthersGetTheirsBack
<1>2. Comparators => SortUsesItsComparator
  BY DEF Comparators, SortUsesItsComparator
<1> QED BY <1>1, <1>2, ComparatorsNext, PTL DEF CSpec

-----------------------------------------------------------------------------
(* The shadow stack.                                                           *)

\* Inv without the last of its parts: undefined behaviour is where a longjmp to
\* the body of a function that has caught an exception ends.
EHInv == TypeOK /\ ShadowStack /\ Pads /\ Walks /\ Holders

\* What is nearest below a position stays so while the activations below it do.
LEMMA NearestKept ==
    ASSUME NEW i \in Nat, NEW p, NearestFrame(stack, p, i),
           \A j \in 1..i - 1 : stack'[j].kind = stack[j].kind
    PROVE  NearestFrame(stack', p, i)
BY DEF NearestFrame

\* A step of the running program that cuts the host stack back, or marks it, and
\* moves the head of the shadow stack to the innermost frame of what is left.
LEMMA CutKeeps ==
    ASSUME EHInv, mode = "run", NEW n \in 0..N, stack' \in Seq(Activation), N' = n,
           \A i \in 1..n : Alike(stack'[i], stack[i]),
           NearestFrame(stack, ehTop', n + 1),
           UNCHANGED <<exc, caught, uncaught, inFlight, cursor, flying>>,
           mode' \in {"run", "abort", "ub"}
    PROVE  EHInv'
<1> USE DEF EHInv
<1>1. N \in Nat /\ flying = NoExc /\ cursor = 0 /\ NoExc \notin Exc
  BY Fields DEF Walks
<1>2. \A i \in 1..n : /\ stack'[i].kind = stack[i].kind /\ stack'[i].prev = stack[i].prev
                      /\ stack'[i].pc = stack[i].pc /\ stack'[i].obj = stack[i].obj
                      /\ stack'[i].fresh = stack[i].fresh
  BY DEF Alike
<1>3. TypeOK'
  <2>1. ehTop' \in 0..n
    BY <1>1 DEF NearestFrame
  <2> QED BY <1>1, <2>1 DEF TypeOK, Mode, Stopped
<1>4. ShadowStack'
  BY <1>2, CutShape
<1>5. Pads' /\ Walks'
  BY <1>1, <1>2 DEF Pads, Walks
<1>6. HeldIsLive'
  BY <1>1, <1>2 DEF Holders, HeldIsLive
<1>7. Holders'
  BY <1>1, <1>2, <1>6, HoldersKept
<1> QED BY <1>3, <1>4, <1>5, <1>7

\* A step that changes nothing of the exceptions.
LEMMA StutterKeeps ==
    ASSUME EHInv, UNCHANGED vars
    PROVE  EHInv'
<1>1. /\ stack' = stack /\ ehTop' = ehTop /\ exc' = exc /\ caught' = caught /\ mode' = mode
      /\ uncaught' = uncaught /\ inFlight' = inFlight /\ cursor' = cursor /\ flying' = flying
  BY DEF vars
<1>2. N' = N
  BY <1>1 DEF N
<1>3. TypeOK'
  BY <1>1, <1>2 DEF EHInv, TypeOK
<1>4. ShadowStack'
  BY <1>1, <1>2 DEF EHInv, ShadowStack, NearestFrame
<1>5. Pads' /\ Walks'
  BY <1>1, <1>2 DEF EHInv, Pads, Walks
<1>6. Holders'
  BY <1>1, <1>2 DEF EHInv, Holders, HeldIsLive, FreshAlone, ObjAlone, CaughtAlone
<1> QED BY <1>3, <1>4, <1>5, <1>6 DEF EHInv

\* Once behaviour is undefined nothing is known to happen.
LEMMA UndefinedStops ==
    ASSUME mode = "ub", Next
    PROVE  UNCHANGED vars
BY DEF Next, Guest, Unwinding, Enter, TailCall, Call, Return, AllocateException, Throw, Rethrow,
       EndCatch, PadEndCatch, PadFreeException, PadDone, BeginCatch, Resume, SearchNext,
       SearchFound, UnwindNext, UnwindLands, WalkEnds, Halted, Running

\* What GuestEHProofs proves of a step, without its last part.
LEMMA TranslatedKeeps ==
    ASSUME EHInv, ~Rethrows, Next
    PROVE  EHInv'
<1>1. CASE mode = "ub"
  BY <1>1, UndefinedStops, StutterKeeps
<1>2. CASE mode # "ub"
  <2>1. Inv
    BY <1>2 DEF Inv, EHInv, NoUseAfterFree
  <2>2. Inv'
    BY <2>1, InvNext
  <2> QED BY <2>2 DEF Inv, EHInv
<1> QED BY <1>1, <1>2

-----------------------------------------------------------------------------
(* What a step of the translated code does to the host stack: it adds to it,   *)
(* takes one activation off, or cuts it where an exception lands.              *)
Shape ==
    /\ \A i \in 1..N : i <= N' => stack'[i].kind = stack[i].kind
    /\ \/ N' >= N /\ LandedAt = 0 /\ (N' > N => mode = "run")
       \/ N' = N - 1 /\ mode = "run" /\ LandedAt = 0
       \/ N' \in 1..N /\ LandedAt = N'

\* A step that pushes an activation or none.
LEMMA ShapeTop ==
    ASSUME EHInv, mode = "run", NEW st \in Seq(Activation), Len(st) = N,
           \A i \in 1..N : st[i].kind = stack[i].kind,
           \/ stack' = st
           \/ \E k \in {"eh", "plain", "dtor"}, e \in Exc \cup {NoExc} : stack' = Push(st, k, e)
    PROVE  Shape
<1>1. N \in Nat /\ ehTop \in Nat
  BY Fields DEF EHInv, TypeOK
<1>2. LandedAt = 0
  BY DEF LandedAt
<1>3. CASE stack' = st
  BY <1>1, <1>2, <1>3 DEF Shape, N
<1>4. ASSUME NEW k \in {"eh", "plain", "dtor"}, NEW e \in Exc \cup {NoExc}, stack' = Push(st, k, e)
      PROVE  Shape
  <2>1. NewActivation(k, e) \in Activation
    BY <1>1 DEF NewActivation, Activation
  <2>2. N' = N + 1 /\ \A i \in 1..N : stack'[i] = st[i]
    BY <1>1, <1>4, <2>1, AppendProperties DEF Push, N
  <2> QED BY <1>1, <1>2, <2>2 DEF Shape
<1> QED BY <1>3, <1>4

\* Every action of the translated code has one of the three shapes.
LEMMA ShapeOf ==
    ASSUME EHInv, ~Rethrows, Next
    PROVE  Shape
<1> USE DEF EHInv
<1>1. /\ N \in Nat /\ NoExc \in Exc \cup {NoExc} /\ Quiet \in Site /\ stack \in Seq(Activation)
      /\ N = Len(stack) /\ \A i \in 1..N : stack[i] \in Activation
  BY Fields, GuestEHAssumption DEF TypeOK, N
<1>2. CASE UNCHANGED stack /\ ~(mode = "unwind" /\ mode' = "run")
  BY <1>1, <1>2 DEF Shape, N, LandedAt
<1>3. ASSUME NEW k \in {"eh", "plain"}, Enter(k) PROVE Shape
  <2>1. mode = "run" /\ stack' = Push(stack, k, NoExc)
    BY <1>3 DEF Enter
  <2> QED BY <1>1, <2>1, ShapeTop
<1>4. ASSUME NEW k \in {"eh", "plain"}, TailCall(k) PROVE Shape
  <2> DEFINE a == [stack[N] EXCEPT !.left = TRUE]
             st == [stack EXCEPT ![N] = a]
  <2>1. mode = "run" /\ N \in 1..N /\ stack' = Push(st, k, NoExc)
    BY <1>1, <1>4 DEF TailCall, Running
  <2>2. a \in Activation /\ a.kind = stack[N].kind
    <3>1. PICK b \in Activation : b = stack[N]
      BY <1>1, <2>1
    <3>2. [b EXCEPT !.left = TRUE] \in Activation /\ [b EXCEPT !.left = TRUE].kind = b.kind
      BY DEF Activation
    <3> QED BY <3>1, <3>2
  <2> HIDE DEF a
  <2>3. /\ st \in Seq(Activation) /\ Len(st) = N
        /\ \A i \in 1..N : st[i].kind = stack[i].kind
    BY <1>1, <2>1, <2>2, ExceptTyped
  <2> HIDE DEF st
  <2> QED BY <1>1, <2>1, <2>3, ShapeTop
<1>5. ASSUME NEW k \in {"eh", "plain"}, NEW s \in Site, Call(k, s) PROVE Shape
  <2>1. mode = "run" /\ N > 0 /\ stack' = Push(Marked(s), k, NoExc)
    BY <1>5 DEF Call, Running
  <2> QED BY <1>1, <2>1, MarkedTyped, ShapeTop
<1>6. CASE Return
  <2>1. mode = "run" /\ N > 0 /\ stack' = SubSeq(stack, 1, N - 1) /\ N - 1 \in 0..N
    BY <1>1, <1>6 DEF Return
  <2>2. N' = N - 1 /\ \A i \in 1..N - 1 : stack'[i] = stack[i]
    BY <2>1, CutTyped DEF N
  <2> QED BY <1>1, <2>1, <2>2 DEF Shape, LandedAt
<1>7. ASSUME NEW s \in Site, NEW e \in Exc \cup {NoExc}, mode = "run", N > 0,
             stack' = [Marked(s) EXCEPT ![N].fresh = e]
      PROVE  Shape
  <2>1. /\ Marked(s) \in Seq(Activation) /\ Len(Marked(s)) = N /\ N \in 1..N
        /\ \A i \in 1..N : Marked(s)[i] \in Activation /\ Marked(s)[i].kind = stack[i].kind
    BY <1>1, <1>7, MarkedTyped
  <2>2. PICK m \in Activation : m = Marked(s)[N]
    BY <2>1
  <2> DEFINE a == [m EXCEPT !.fresh = e]
  <2>3. a \in Activation /\ a.kind = stack[N].kind
    BY <2>1, <2>2 DEF Activation
  <2>4. stack' = [Marked(s) EXCEPT ![N] = a]
    BY <1>7, <2>1, <2>2
  <2> HIDE DEF a
  <2>5. stack' \in Seq(Activation) /\ N' = N /\ \A i \in 1..N : stack'[i].kind = stack[i].kind
    BY <2>1, <2>3, <2>4, ExceptTyped DEF N
  <2> QED BY <1>1, <1>7, <2>5 DEF Shape, LandedAt
<1>8. ASSUME NEW e \in Exc, AllocateException(e) PROVE Shape
  BY <1>1, <1>7, <1>8 DEF AllocateException, Running
<1>9. ASSUME NEW t \in Type, NEW s \in Site, Throw(t, s) PROVE Shape
  BY <1>1, <1>7, <1>9 DEF Throw, Running
<1>10. CASE PadFreeException
  BY <1>1, <1>7, <1>10 DEF PadFreeException
<1>11. ASSUME NEW a, mode = "run", N > 0, Me.hs # <<>>,
              a = Leaving(Marked(Quiet)[N]) \/ (a = PadLeaving(Marked(Quiet)[N]) /\ Me.todo > 0),
              EndCatchOn([Marked(Quiet) EXCEPT ![N] = a])
       PROVE  Shape
  <2> DEFINE st == [Marked(Quiet) EXCEPT ![N] = a]
  <2>1. /\ Marked(Quiet) \in Seq(Activation) /\ Len(Marked(Quiet)) = N /\ N \in 1..N
        /\ \A i \in 1..N : Marked(Quiet)[i] \in Activation /\ Marked(Quiet)[i].kind = stack[i].kind
        /\ Marked(Quiet)[N].hs # <<>> /\ Marked(Quiet)[N].todo = Me.todo
    BY <1>1, <1>11, MarkedTyped DEF Me
  <2>2. a \in Activation /\ a.kind = stack[N].kind
    BY <1>11, <2>1, ActivationLeaving, ActivationPadLeaving
  <2>3. /\ st \in Seq(Activation) /\ Len(st) = N
        /\ \A i \in 1..N : st[i].kind = stack[i].kind
    BY <1>1, <2>1, <2>2, ExceptTyped
  <2>4. EndCatchOn(st)
    BY <1>11
  <2> HIDE DEF st
  <2>5. stack' = st \/ (caught # <<>> /\ stack' = Push(st, "dtor", Head(caught)))
    BY <2>4 DEF EndCatchOn
  <2>6. caught # <<>> => Head(caught) \in Exc \cup {NoExc}
    BY HeadTailProperties DEF TypeOK
  <2> QED BY <1>1, <1>11, <2>3, <2>5, <2>6, ShapeTop
<1>12. CASE EndCatch \/ PadEndCatch
  <2>1. mode = "run" /\ N > 0 /\ Me.hs # <<>>
    BY <1>12 DEF EndCatch, PadEndCatch, Running
  <2>2. /\ Marked(Quiet) \in Seq(Activation) /\ Len(Marked(Quiet)) = N /\ N \in 1..N
        /\ Marked(Quiet)[N] \in Activation
    BY <1>1, <2>1, MarkedTyped
  <2>3. CASE EndCatch
    <3>1. [Marked(Quiet) EXCEPT ![N].hs = Tail(@)] = [Marked(Quiet) EXCEPT ![N] = Leaving(@)]
      BY <2>2 DEF Leaving
    <3> QED BY <1>11, <2>1, <2>3, <3>1 DEF EndCatch
  <2>4. CASE PadEndCatch
    <3>1. [Marked(Quiet) EXCEPT ![N].hs = Tail(@), ![N].todo = @ - 1]
            = [Marked(Quiet) EXCEPT ![N] = PadLeaving(@)]
      BY <2>2 DEF PadLeaving
    <3> QED BY <1>11, <2>1, <2>4, <3>1 DEF PadEndCatch
  <2> QED BY <1>12, <2>3, <2>4
<1>13. CASE BeginCatch
  <2>1. mode = "run" /\ N > 0
    BY <1>13 DEF BeginCatch, PadDone
  <2>2. /\ Marked(Quiet) \in Seq(Activation) /\ Len(Marked(Quiet)) = N /\ N \in 1..N
        /\ \A i \in 1..N : Marked(Quiet)[i] \in Activation /\ Marked(Quiet)[i].kind = stack[i].kind
    BY <1>1, <2>1, MarkedTyped
  <2>3. CASE UNCHANGED stack
    BY <1>2, <2>1, <2>3
  <2>4. ASSUME NEW e \in Exc,
               stack' = [Marked(Quiet) EXCEPT ![N].pc = "run", ![N].obj = NoExc,
                                              ![N].hs = <<e>> \o @]
        PROVE  Shape
    <3>1. stack' = [Marked(Quiet) EXCEPT ![N] = Entering(@, e)]
      BY <2>2, <2>4 DEF Entering
    <3> DEFINE a == Entering(Marked(Quiet)[N], e)
    <3>2. a \in Activation /\ a.kind = stack[N].kind
      BY <2>2, ActivationEntering
    <3> HIDE DEF a
    <3>3. stack' = [Marked(Quiet) EXCEPT ![N] = a]
      BY <2>2, <3>1 DEF a
    <3>4. /\ stack' \in Seq(Activation) /\ Len(stack') = N
          /\ \A i \in 1..N : stack'[i].kind = stack[i].kind
      BY <2>2, <3>2, <3>3, ExceptTyped
    <3> QED BY <1>1, <2>1, <3>4, ShapeTop
  <2>5. Me.obj \in Exc
    BY <1>1, <2>1, <1>13 DEF Pads, Me, BeginCatch
  <2> QED BY <1>13, <2>3, <2>4, <2>5 DEF BeginCatch, CatchBegins
<1>14. CASE Resume
  <2>1. mode = "run" /\ N > 0 /\ (stack' = stack \/ stack' = Marked(Quiet))
    BY <1>14 DEF Resume, PadDone
  <2> QED BY <1>1, <2>1, MarkedTyped, ShapeTop
<1>15. CASE SearchNext \/ SearchFound \/ UnwindNext \/ WalkEnds \/ Halted
  BY <1>2, <1>15 DEF SearchNext, SearchFound, UnwindNext, WalkEnds, Halted, vars
<1>16. CASE UnwindLands
  <2>1. cursor \in 1..N /\ mode = "unwind"
    BY <1>1, <1>16 DEF UnwindLands, TypeOK
  <2>2. PICK act, leaves : LandAt(act, leaves)
    BY <1>16 DEF UnwindLands
  <2> DEFINE cut == SubSeq(stack, 1, cursor)
  <2>3. /\ cut \in Seq(Activation) /\ Len(cut) = cursor
        /\ \A i \in 1..cursor : cut[i] = stack[i] /\ cut[i] \in Activation
    BY <1>1, <2>1, CutTyped
  <2>4. /\ mode' = "run"
        /\ stack' = [cut EXCEPT ![cursor] = LandedIn(@, act, flying, leaves)]
    BY <2>1, <2>2, <2>3 DEF LandAt, LandedIn
  <2> HIDE DEF cut
  <2>5. /\ Len(stack') = cursor
        /\ \A i \in 1..cursor : i # cursor => stack'[i] = stack[i]
        /\ stack'[cursor] = LandedIn(cut[cursor], act, flying, leaves)
    BY <2>1, <2>3, <2>4, ExceptSeq
  <2>6. LandedIn(cut[cursor], act, flying, leaves).kind = stack[cursor].kind
    BY <2>1, <2>3 DEF LandedIn, Activation
  <2>7. N' = cursor /\ LandedAt = cursor
    BY <2>1, <2>4, <2>5 DEF N, LandedAt
  <2> QED BY <1>1, <2>1, <2>5, <2>6, <2>7 DEF Shape
<1>17. ASSUME NEW s \in Site, Rethrow(s) PROVE FALSE
  BY <1>17 DEF Rethrow
<1> QED
  BY <1>3, <1>4, <1>5, <1>6, <1>8, <1>9, <1>10, <1>12, <1>13, <1>14, <1>15, <1>16, <1>17
  DEF Next, Guest, Unwinding

-----------------------------------------------------------------------------
(* Slots and sorts.                                                            *)

\* The domains of the slots, the sorts and the comparator.
CTypeOK == jbs \in Seq(Slot) /\ sorts \in Seq(Sort) /\ cmp \in Cmp \cup {NoCmp}

\* A frame kept for the activation at position p is the innermost at or below it.
Fits(st, eh, p) == p \in 1..Len(st) /\ NearestFrame(st, eh, p + 1)

\* What a slot holds fits the activation that called setjmp, while it is there.
SlotsFit == \A i \in 1..Len(jbs) : jbs[i].frame => Fits(stack, jbs[i].eh, jbs[i].at)

\* No two slots have the same key.
KeysApart == \A i, j \in 1..Len(jbs) : jbs[i].key = jbs[j].key => i = j

\* While a comparison is in progress, its sort keeps the frame of the function
\* that called qsort.
SortsFit ==
    \A i \in 1..Len(sorts) :
        /\ sorts[i].at \in 1..N
        /\ sorts[i].at < N => Fits(stack, sorts[i].eh, sorts[i].at)

\* The sorts in progress are those of activations further and further up.
SortsNest == \A i, j \in 1..Len(sorts) : i < j => sorts[i].at < sorts[j].at

\* The inductive invariant.
CInv == EHInv /\ CTypeOK /\ SlotsFit /\ KeysApart /\ SortsFit /\ SortsNest

\* Nothing happened to what is at or below position n.
Untouched(n) == n \in 0..N /\ n <= N' /\ \A i \in 1..n : stack'[i].kind = stack[i].kind

\* Where nothing happened, what fitted fits.
LEMMA FitsStill ==
    ASSUME NEW n, Untouched(n), N \in Nat, N' \in Nat, NEW eh, NEW p, p <= n, Fits(stack, eh, p)
    PROVE  Fits(stack', eh, p)
<1>1. p \in 1..N' /\ p + 1 \in Nat /\ \A j \in 1..p + 1 - 1 : stack'[j].kind = stack[j].kind
  BY DEF Untouched, Fits, N
<1>2. NearestFrame(stack', eh, p + 1)
  BY <1>1, NearestKept DEF Fits
<1> QED BY <1>1, <1>2 DEF Fits, N

Followed(s, b, f) == [s EXCEPT !.body = b, !.frame = f]

\* What becomes of the owner of a slot changes nothing of what it restores.
LEMMA SlotFollowed ==
    ASSUME NEW s \in Slot, NEW b \in BOOLEAN, NEW f \in BOOLEAN
    PROVE  /\ Followed(s, b, f) \in Slot /\ Followed(s, b, f).key = s.key
           /\ Followed(s, b, f).eh = s.eh /\ Followed(s, b, f).at = s.at
           /\ Followed(s, b, f).frame = f
BY DEF Slot, Followed

\* The slots that are followed restore what they did.
LEMMA FollowKeeps ==
    ASSUME CTypeOK, stack' \in Seq(Activation)
    PROVE  /\ Follow(jbs) \in Seq(Slot) /\ Len(Follow(jbs)) = Len(jbs)
           /\ \A i \in 1..Len(jbs) :
                 /\ Follow(jbs)[i].key = jbs[i].key /\ Follow(jbs)[i].eh = jbs[i].eh
                 /\ Follow(jbs)[i].at = jbs[i].at
                 /\ Follow(jbs)[i].frame => jbs[i].frame /\ jbs[i].at <= N'
<1>1. /\ Len(jbs) \in Nat /\ \A i \in 1..Len(jbs) : jbs[i] \in Slot
  BY DEF CTypeOK
<1> DEFINE b(i) == jbs[i].body /\ jbs[i].at <= Len(stack') /\ jbs[i].at # LandedAt
           f(i) == /\ jbs[i].frame /\ jbs[i].at <= Len(stack')
                   /\ jbs[i].at <= Len(stack') => ~stack'[jbs[i].at].left
<1>2. Follow(jbs) = [i \in 1..Len(jbs) |-> Followed(jbs[i], b(i), f(i))]
  BY DEF Follow, Followed
<1>3. \A i \in 1..Len(jbs) : b(i) \in BOOLEAN /\ f(i) \in BOOLEAN
  OBVIOUS
<1>4. \A i \in 1..Len(jbs) : f(i) => jbs[i].frame /\ jbs[i].at <= N'
  BY DEF N
<1> HIDE DEF b, f
<1>5. ASSUME NEW i \in 1..Len(jbs)
      PROVE  /\ Follow(jbs)[i] \in Slot /\ Follow(jbs)[i].key = jbs[i].key
             /\ Follow(jbs)[i].eh = jbs[i].eh /\ Follow(jbs)[i].at = jbs[i].at
             /\ Follow(jbs)[i].frame = f(i)
  BY <1>1, <1>2, <1>3, SlotFollowed
<1>6. Follow(jbs) \in Seq(Slot) /\ Len(Follow(jbs)) = Len(jbs)
  BY <1>1, <1>2, <1>5
<1> QED BY <1>4, <1>5, <1>6

\* The slots after a step that follows them.
LEMMA SlotsFollowed ==
    ASSUME CInv, stack' \in Seq(Activation), jbs' = Follow(jbs),
           \A i \in 1..N : i <= N' => stack'[i].kind = stack[i].kind
    PROVE  jbs' \in Seq(Slot) /\ SlotsFit' /\ KeysApart'
<1>1. /\ jbs' \in Seq(Slot) /\ Len(jbs') = Len(jbs)
      /\ \A i \in 1..Len(jbs) :
            /\ jbs'[i].key = jbs[i].key /\ jbs'[i].eh = jbs[i].eh /\ jbs'[i].at = jbs[i].at
            /\ jbs'[i].frame => jbs[i].frame /\ jbs[i].at <= N'
  BY FollowKeeps DEF CInv
<1>2. N \in Nat /\ N' \in Nat
  BY DEF CInv, EHInv, TypeOK, N
<1>3. ASSUME NEW i \in 1..Len(jbs'), jbs'[i].frame PROVE Fits(stack', jbs'[i].eh, jbs'[i].at)
  <2>1. Fits(stack, jbs[i].eh, jbs[i].at) /\ jbs[i].at \in 1..N /\ jbs[i].at <= N'
    BY <1>1, <1>3 DEF CInv, SlotsFit, Fits, N
  <2>2. Untouched(jbs[i].at)
    BY <1>2, <2>1 DEF Untouched
  <2>3. jbs[i].at <= jbs[i].at
    BY <1>2, <2>1
  <2>4. Fits(stack', jbs[i].eh, jbs[i].at)
    BY <1>2, <2>1, <2>2, <2>3, FitsStill
  <2> QED BY <1>1, <2>4
<1>4. SlotsFit'
  BY <1>3 DEF SlotsFit
<1>5. KeysApart'
  BY <1>1 DEF CInv, KeysApart
<1> QED BY <1>1, <1>4, <1>5

\* The sorts after a jump to position N'.
LEMMA SortsJumped ==
    ASSUME CInv, sorts' = SortsBelow(N'), N' \in 1..N,
           \A i \in 1..N' : stack'[i].kind = stack[i].kind
    PROVE  sorts' \in Seq(Sort) /\ SortsFit' /\ SortsNest'
<1>1. sorts \in Seq(SortOver(Nat)) /\ SortOver(Nat) = Sort
  BY DEF CInv, CTypeOK, SortOver, Sort
<1>2. PICK k \in 0..Len(sorts) :
              /\ SortsBelow(N') \in Seq(SortOver(Nat)) /\ Len(SortsBelow(N')) = k
              /\ \A i \in 1..k :
                    /\ SortsBelow(N')[i].at = sorts[i].at /\ SortsBelow(N')[i].by = sorts[i].by
                    /\ SortsBelow(N')[i].outer = sorts[i].outer
                    /\ SortsBelow(N')[i].eh = sorts[i].eh
                    /\ SortsBelow(N')[i].cut <=> sorts[i].cut \/ (i = k /\ k < Len(sorts))
              /\ k # 0 => sorts[k].at < N'
  BY <1>1, SortsCut
<1>3. /\ sorts' \in Seq(Sort) /\ Len(sorts') = k
      /\ \A i \in 1..k : sorts'[i].at = sorts[i].at /\ sorts'[i].eh = sorts[i].eh
      /\ k # 0 => sorts[k].at < N'
  BY <1>1, <1>2
<1>4. N \in Nat /\ Len(sorts) \in Nat
  BY DEF CInv, EHInv, TypeOK, N, CTypeOK
<1>5. ASSUME NEW i \in 1..k PROVE sorts[i].at \in 1..N' /\ sorts[i].at < N' /\ sorts[i].at < N
  <2>1. sorts[i].at \in 1..N /\ sorts[k].at \in 1..N /\ (i < k => sorts[i].at < sorts[k].at)
    BY <1>4 DEF CInv, SortsFit, SortsNest
  <2> QED BY <1>3, <1>4, <2>1
<1>6. ASSUME NEW i \in 1..k PROVE Fits(stack', sorts[i].eh, sorts[i].at)
  <2>1. Fits(stack, sorts[i].eh, sorts[i].at)
    BY <1>4, <1>5 DEF CInv, SortsFit
  <2>2. Untouched(sorts[i].at) /\ sorts[i].at <= sorts[i].at
    BY <1>4, <1>5 DEF Untouched
  <2> QED BY <1>4, <2>1, <2>2, FitsStill
<1>7. SortsFit'
  BY <1>3, <1>5, <1>6 DEF SortsFit
<1>8. SortsNest'
  BY <1>3, <1>4 DEF CInv, SortsNest
<1> QED BY <1>3, <1>7, <1>8

\* The sorts after a step that leaves them in progress: it does not end the
\* comparison, nor push from the function that waits for the host's qsort.
LEMMA SortsOn ==
    ASSUME CInv, UNCHANGED sorts, stack' \in Seq(Activation),
           \A i \in 1..N : i <= N' => stack'[i].kind = stack[i].kind,
           sorts # <<>> => Last(sorts).at <= N',
           sorts # <<>> /\ Last(sorts).at = N => N' = N
    PROVE  SortsFit' /\ SortsNest'
<1>1. N \in Nat /\ N' \in Nat /\ Len(sorts) \in Nat
  BY DEF CInv, EHInv, TypeOK, N, CTypeOK
<1>2. SortsNest'
  BY DEF CInv, SortsNest
<1>3. ASSUME NEW i \in 1..Len(sorts)
      PROVE  /\ sorts[i].at \in 1..N'
             /\ sorts[i].at < N' => Fits(stack', sorts[i].eh, sorts[i].at)
  <2> DEFINE l == sorts[Len(sorts)].at
  <2>1. /\ sorts[i].at \in 1..N /\ l \in 1..N /\ sorts[i].at <= l
        /\ l <= N' /\ (l = N => N' = N)
    <3>1. sorts # <<>> /\ Len(sorts) \in 1..Len(sorts)
      BY <1>1, <1>3
    <3>2. sorts[i].at \in 1..N /\ l \in 1..N
      BY <3>1 DEF CInv, SortsFit
    <3>3. sorts[i].at <= l
      BY <1>1, <3>1, <3>2 DEF CInv, SortsNest
    <3> QED BY <3>1, <3>2, <3>3 DEF Last
  <2> HIDE DEF l
  <2>2. ASSUME sorts[i].at < N' PROVE Fits(stack', sorts[i].eh, sorts[i].at)
    <3>1. sorts[i].at < N
      BY <1>1, <2>1, <2>2
    <3>2. Fits(stack, sorts[i].eh, sorts[i].at)
      BY <3>1 DEF CInv, SortsFit
    <3>3. Untouched(sorts[i].at) /\ sorts[i].at <= sorts[i].at
      BY <1>1, <2>1 DEF Untouched
    <3> QED BY <1>1, <3>2, <3>3, FitsStill
  <2> QED BY <1>1, <2>1, <2>2
<1>4. SortsFit'
  BY <1>3 DEF SortsFit
<1> QED BY <1>2, <1>4

-----------------------------------------------------------------------------
(* Every step keeps the invariant.                                             *)

\* Marking a call site leaves every activation as it is but for the site.
LEMMA MarkKeeps ==
    ASSUME EHInv, NEW s \in Site, N > 0
    PROVE  /\ Marked(s) \in Seq(Activation) /\ Len(Marked(s)) = N
           /\ \A i \in 1..N : Alike(Marked(s)[i], stack[i])
BY MarkedTyped DEF EHInv, Alike

\* Translated code: its exceptions cut the sorts they land below, and no return
\* of it is that of a comparator.
LEMMA TranslatedStep ==
    ASSUME CInv, ~Rethrows, EHStep
    PROVE  CInv'
<1> USE DEF CInv
<1>1. EHInv' /\ Shape
  BY TranslatedKeeps, ShapeOf DEF EHStep
<1>2. N \in Nat /\ N' \in Nat /\ stack' \in Seq(Activation) /\ cmp' = cmp
  BY <1>1 DEF EHInv, TypeOK, N, EHStep
<1>3. \A i \in 1..N : i <= N' => stack'[i].kind = stack[i].kind
  BY <1>1 DEF Shape
<1>4. jbs' \in Seq(Slot) /\ SlotsFit' /\ KeysApart'
  <2>1. CASE stack' = <<>>
    <3>1. jbs' = <<>>
      BY <2>1 DEF EHStep
    <3> QED BY <3>1 DEF SlotsFit, KeysApart
  <2>2. CASE stack' # <<>>
    BY <1>2, <1>3, <2>2, SlotsFollowed DEF EHStep
  <2> QED BY <2>1, <2>2
<1>5. sorts' \in Seq(Sort) /\ SortsFit' /\ SortsNest'
  <2>1. CASE LandedAt # 0
    <3>1. LandedAt = N' /\ N' \in 1..N /\ sorts' = SortsBelow(N')
      BY <1>1, <2>1 DEF Shape, EHStep
    <3> QED BY <1>2, <1>3, <3>1, SortsJumped
  <2>2. CASE LandedAt = 0
    <3>1. sorts' = sorts /\ sorts' \in Seq(Sort)
      BY <2>2 DEF EHStep, CTypeOK
    <3>2. (N' >= N /\ (N' > N => mode = "run")) \/ (N' = N - 1 /\ mode = "run")
      BY <1>1, <1>2, <2>2 DEF Shape
    <3>3. ASSUME sorts # <<>> PROVE Last(sorts).at \in 1..N
      BY <3>3 DEF CTypeOK, SortsFit, Last
    <3>4. ASSUME sorts # <<>> PROVE Last(sorts).at <= N'
      <4>1. N > Last(sorts).at + 1 \/ ~(N' < N /\ mode = "run")
        BY <3>4 DEF EHStep, N
      <4> QED BY <1>2, <3>2, <3>3, <3>4, <4>1
    <3>5. ASSUME sorts # <<>>, Last(sorts).at = N PROVE N' = N
      <4>1. mode # "run"
        BY <3>5 DEF EHStep, InSort
      <4> QED BY <1>2, <3>2, <4>1
    <3> QED BY <1>2, <1>3, <3>1, <3>4, <3>5, SortsOn
  <2> QED BY <2>1, <2>2
<1> QED BY <1>1, <1>2, <1>4, <1>5 DEF CTypeOK

\* setjmp records the head of the shadow stack, which fits the function on top.
LEMMA SetjmpStep ==
    ASSUME CInv, NEW k \in Key, Setjmp(k)
    PROVE  CInv'
<1> USE DEF CInv
<1>1. /\ mode = "run" /\ N > 0 /\ N \in Nat /\ Quiet \in Site /\ ehTop \in Nat
      /\ stack' = Marked(Quiet)
      /\ UNCHANGED <<ehTop, exc, caught, uncaught, inFlight, cursor, flying, cmp, sorts>>
  BY GuestEHAssumption, Fields DEF Setjmp, Running, EHInv, TypeOK, objects
<1>2. /\ stack' \in Seq(Activation) /\ N' = N /\ N \in 0..N
      /\ \A i \in 1..N : Alike(stack'[i], stack[i]) /\ stack'[i].kind = stack[i].kind
  BY <1>1, MarkKeeps DEF N, Alike
<1>3. EHInv'
  <2>1. NearestFrame(stack, ehTop', N + 1) /\ mode' \in {"run", "abort", "ub"}
    BY <1>1 DEF EHInv, ShadowStack, Setjmp
  <2> QED BY <1>1, <1>2, <2>1, CutKeeps
<1>4. SortsFit' /\ SortsNest'
  <2>1. sorts # <<>> => Last(sorts).at \in 1..N
    BY DEF CTypeOK, SortsFit, Last
  <2> QED BY <1>1, <1>2, <2>1, SortsOn
<1>5. NearestFrame(stack', ehTop, N + 1) /\ N \in 1..N
  BY <1>1, <1>3, <1>2 DEF EHInv, ShadowStack
<1>6. SlotFor(k) \in Slot /\ SlotFor(k).key = k /\ SlotFor(k).eh = ehTop /\ SlotFor(k).at = N
  BY <1>1 DEF SlotFor, Slot
<1>7. \A i \in 1..Len(jbs) : jbs[i] \in Slot
  BY DEF CTypeOK
<1>8. ASSUME NEW i \in 1..Len(jbs), jbs[i].frame PROVE Fits(stack', jbs[i].eh, jbs[i].at)
  <2>1. Fits(stack, jbs[i].eh, jbs[i].at) /\ jbs[i].at \in 1..N
    BY <1>8 DEF SlotsFit, Fits, N
  <2>2. Untouched(N) /\ jbs[i].at <= N
    BY <1>1, <1>2, <2>1 DEF Untouched
  <2> QED BY <1>1, <1>2, <2>1, <2>2, FitsStill
<1>9. Fits(stack', SlotFor(k).eh, SlotFor(k).at)
  BY <1>2, <1>5, <1>6 DEF Fits, N
<1>10. jbs' \in Seq(Slot) /\ SlotsFit' /\ KeysApart'
  <2>1. CASE jbs' = jbs
    BY <1>8, <2>1 DEF CTypeOK, SlotsFit, KeysApart
  <2>2. CASE jbs' = WithSlot(k) /\ \E i \in 1..Len(jbs) : jbs[i].key = k
    <3>1. jbs' = [i \in 1..Len(jbs) |-> IF jbs[i].key = k THEN SlotFor(k) ELSE jbs[i]]
      BY <2>2 DEF WithSlot
    <3>2. jbs' \in Seq(Slot) /\ Len(jbs') = Len(jbs)
      BY <1>6, <1>7, <3>1 DEF CTypeOK
    <3>3. \A i \in 1..Len(jbs) : jbs'[i].key = jbs[i].key /\ jbs'[i] \in {SlotFor(k), jbs[i]}
      BY <1>6, <3>1
    <3>4. SlotsFit'
      BY <1>8, <1>9, <3>2, <3>3 DEF SlotsFit
    <3>5. KeysApart'
      BY <3>2, <3>3 DEF KeysApart
    <3> QED BY <3>2, <3>4, <3>5
  <2>3. CASE jbs' = WithSlot(k) /\ ~(\E i \in 1..Len(jbs) : jbs[i].key = k)
    <3>1. jbs' = Append(jbs, SlotFor(k))
      BY <2>3 DEF WithSlot
    <3> DEFINE s == SlotFor(k)
    <3>2. /\ jbs' \in Seq(Slot) /\ Len(jbs') = Len(jbs) + 1 /\ Len(jbs) \in Nat
          /\ \A i \in 1..Len(jbs) : jbs'[i] = jbs[i]
          /\ jbs'[Len(jbs) + 1] = s
      BY <1>6, <3>1, AppendProperties DEF CTypeOK
    <3>3. \A i \in 1..Len(jbs') : i \in 1..Len(jbs) \/ i = Len(jbs) + 1
      BY <3>2
    <3>4. SlotsFit'
      BY <1>8, <1>9, <3>2, <3>3 DEF SlotsFit
    <3>5. KeysApart'
      BY <1>6, <2>3, <3>2, <3>3 DEF KeysApart
    <3> QED BY <3>2, <3>4, <3>5
  <2> QED BY <2>1, <2>2, <2>3 DEF Setjmp
<1> QED BY <1>1, <1>3, <1>4, <1>10 DEF CTypeOK

\* longjmp cuts the host stack where the slot says, and what the slot restores
\* fits there.
LEMMA LongjmpStep ==
    ASSUME CInv, NEW k \in Key, Longjmp(k)
    PROVE  CInv'
<1> USE DEF CInv
<1>1. /\ mode = "run" /\ N > 0 /\ N \in Nat /\ N \in 0..N /\ Quiet \in Site
      /\ UNCHANGED <<exc, caught, uncaught, inFlight, cursor, flying, cmp>>
  BY GuestEHAssumption, Fields DEF Longjmp, Running, EHInv, TypeOK, objects
<1>2. CASE mode' = "abort" /\ UNCHANGED <<stack, ehTop, sorts, jbs>>
  <2>1. stack' \in Seq(Activation) /\ N' = N /\ \A i \in 1..N : Alike(stack'[i], stack[i])
    BY <1>2 DEF N, Alike, EHInv, TypeOK
  <2>2. NearestFrame(stack, ehTop', N + 1)
    BY <1>2 DEF EHInv, ShadowStack
  <2>3. EHInv'
    BY <1>1, <1>2, <2>1, <2>2, CutKeeps
  <2> QED BY <1>1, <1>2, <2>1, <2>3 DEF CTypeOK, SlotsFit, KeysApart, SortsFit, SortsNest
<1>3. ASSUME NEW i \in 1..Len(jbs), MayJump(jbs[i]),
             stack' = SubSeq(Marked(Quiet), 1, jbs[i].at), ehTop' = TopRestored(jbs[i]),
             sorts' = SortsBelow(jbs[i].at), mode' \in {"run", "ub"}, jbs' = Follow(jbs)
      PROVE  CInv'
  <2> DEFINE n == jbs[i].at
             st == Marked(Quiet)
  <2>1. Fits(stack, jbs[i].eh, n) /\ n \in 1..N
    BY <1>3 DEF MayJump, SlotsFit, Fits, N
  <2>2. NearestFrame(stack, ehTop', n + 1)
    BY <1>3, <2>1 DEF Fits, TopRestored
  <2>3. /\ st \in Seq(Activation) /\ Len(st) = N
        /\ \A j \in 1..N : Alike(st[j], stack[j])
    BY <1>1, MarkKeeps
  <2> HIDE DEF st, n
  <2>4. stack' = SubSeq(st, 1, n)
    BY <1>3 DEF st, n
  <2>5. /\ stack' \in Seq(Activation) /\ Len(stack') = n
        /\ \A j \in 1..n : stack'[j] = st[j]
    <3>1. 1 \in Int /\ n \in Int /\ \A j \in 1..n : st[j] \in Activation
      BY <1>1, <2>1, <2>3
    <3>2. /\ stack' \in Seq(Activation)
          /\ Len(stack') = IF 1 <= n THEN n - 1 + 1 ELSE 0
          /\ \A j \in 1..n - 1 + 1 : stack'[j] = st[1 + j - 1]
      BY <2>4, <3>1, SubSeqProperties
    <3> QED BY SMTT(30), <1>1, <2>1, <3>2
  <2>6. /\ N' = n /\ n \in 0..N
        /\ \A j \in 1..n : Alike(stack'[j], stack[j]) /\ stack'[j].kind = stack[j].kind
    BY <1>1, <2>1, <2>3, <2>5 DEF N, Alike
  <2>7. EHInv'
    BY <1>1, <1>3, <2>2, <2>5, <2>6, CutKeeps
  <2>8. sorts' = SortsBelow(N')
    BY <1>3, <2>6 DEF n
  <2>9. sorts' \in Seq(Sort) /\ SortsFit' /\ SortsNest'
    BY <2>1, <2>6, <2>8, SortsJumped
  <2>10. jbs' \in Seq(Slot) /\ SlotsFit' /\ KeysApart'
    <3>1. \A j \in 1..N : j <= N' => stack'[j].kind = stack[j].kind
      BY <1>1, <2>1, <2>6
    <3> QED BY <1>3, <2>5, <3>1, SlotsFollowed
  <2> QED BY <1>1, <2>7, <2>9, <2>10 DEF CTypeOK
<1> QED BY <1>2, <1>3 DEF Longjmp

\* qsort is called by a function no sort in progress belongs to.
LEMMA BeginSortStep ==
    ASSUME CInv, NEW c \in Cmp, NEW s \in Site, BeginSort(c, s)
    PROVE  CInv'
<1> USE DEF CInv
<1> DEFINE q == [at |-> N, by |-> c, outer |-> cmp, eh |-> 0, cut |-> FALSE]
<1>1. /\ mode = "run" /\ N > 0 /\ N \in Nat /\ N \in 0..N /\ ~InSort /\ stack' = Marked(s)
      /\ sorts' = Append(sorts, q) /\ cmp' = c
      /\ UNCHANGED <<ehTop, exc, caught, uncaught, inFlight, mode, cursor, flying, jbs>>
  BY Fields DEF BeginSort, Running, EHInv, TypeOK, objects, unwinder
<1>2. /\ stack' \in Seq(Activation) /\ N' = N
      /\ \A i \in 1..N : Alike(stack'[i], stack[i]) /\ stack'[i].kind = stack[i].kind
  BY <1>1, MarkKeeps DEF N, Alike
<1>3. EHInv'
  <2>1. NearestFrame(stack, ehTop', N + 1)
    BY <1>1 DEF EHInv, ShadowStack
  <2> QED BY <1>1, <1>2, <2>1, CutKeeps
<1>4. Untouched(N)
  BY <1>1, <1>2 DEF Untouched
<1>5. SlotsFit' /\ KeysApart'
  <2>1. ASSUME NEW i \in 1..Len(jbs), jbs[i].frame PROVE Fits(stack', jbs[i].eh, jbs[i].at)
    <3>1. Fits(stack, jbs[i].eh, jbs[i].at) /\ jbs[i].at <= N
      BY <2>1 DEF SlotsFit, Fits, N
    <3> QED BY <1>1, <1>2, <1>4, <3>1, FitsStill
  <2> QED BY <1>1, <2>1 DEF SlotsFit, KeysApart
<1>6. q \in Sort /\ q.at = N
  BY <1>1 DEF CTypeOK, Sort
<1> HIDE DEF q
<1>7. /\ sorts' \in Seq(Sort) /\ Len(sorts') = Len(sorts) + 1 /\ Len(sorts) \in Nat
      /\ \A i \in 1..Len(sorts) : sorts'[i] = sorts[i]
      /\ sorts'[Len(sorts) + 1] = q
  BY <1>1, <1>6, AppendProperties DEF CTypeOK
<1>8. \A i \in 1..Len(sorts') : i \in 1..Len(sorts) \/ i = Len(sorts) + 1
  BY <1>7
<1>9. ASSUME NEW i \in 1..Len(sorts)
      PROVE  /\ sorts[i].at \in 1..N /\ sorts[i].at < N
             /\ Fits(stack', sorts[i].eh, sorts[i].at)
  <2>1. sorts # <<>> /\ Len(sorts) \in 1..Len(sorts)
    BY <1>7, <1>9
  <2>2. sorts[i].at \in 1..N /\ sorts[Len(sorts)].at \in 1..N
    BY <2>1 DEF SortsFit
  <2>3. sorts[Len(sorts)].at # N
    BY <1>1, <2>1 DEF InSort, Last
  <2>4. sorts[i].at < N
    BY <1>1, <1>7, <2>2, <2>3 DEF SortsNest
  <2>5. Fits(stack, sorts[i].eh, sorts[i].at)
    BY <2>4 DEF SortsFit
  <2>6. Fits(stack', sorts[i].eh, sorts[i].at)
    BY <1>1, <1>2, <1>4, <2>4, <2>2, <2>5, FitsStill
  <2> QED BY <2>2, <2>4, <2>6
<1>10. SortsFit'
  BY <1>1, <1>2, <1>6, <1>7, <1>8, <1>9 DEF SortsFit
<1>11. SortsNest'
  <2> SUFFICES ASSUME NEW i \in 1..Len(sorts'), NEW j \in 1..Len(sorts'), i < j
               PROVE  sorts'[i].at < sorts'[j].at
    BY DEF SortsNest
  <2>1. i \in 1..Len(sorts)
    BY <1>7
  <2> QED BY <1>6, <1>7, <1>8, <1>9, <2>1 DEF SortsNest
<1> QED BY <1>1, <1>3, <1>5, <1>7, <1>10, <1>11 DEF CTypeOK

\* The trampoline saves the head of the shadow stack, which fits the function
\* that called qsort, and pushes the comparator.
LEMMA CompareStep ==
    ASSUME CInv, NEW k \in {"eh", "plain"}, Compare(k)
    PROVE  CInv'
<1> USE DEF CInv
<1> DEFINE l == Len(sorts)
           q == [sorts[l] EXCEPT !.eh = ehTop]
<1>1. /\ mode = "run" /\ sorts # <<>> /\ sorts[l].at = N /\ stack' = Push(stack, k, NoExc)
      /\ ehTop' = TopAfterPush(k) /\ sorts' = [sorts EXCEPT ![l] = q]
      /\ UNCHANGED <<objects, unwinder, jbs, cmp>>
  BY DEF Compare, InSort, Last
<1>2. /\ N \in Nat /\ l \in 1..l /\ N \in 1..N /\ ehTop \in Nat /\ stack \in Seq(Activation)
      /\ Len(stack) = N /\ NoExc \in Exc \cup {NoExc}
  BY SMTT(30), <1>1, Fields DEF EHInv, TypeOK, CTypeOK, SortsFit, N
<1>3. EHInv'
  <2>1. Inv
    BY <1>1 DEF Inv, EHInv, NoUseAfterFree
  <2>2. Inv'
    BY <1>1, <1>2, <2>1, InvPush
  <2> QED BY <2>2 DEF Inv, EHInv
<1>4. /\ stack' \in Seq(Activation) /\ N' = N + 1
      /\ \A i \in 1..N : stack'[i] = stack[i]
  <2>1. NewActivation(k, NoExc) \in Activation
    BY <1>2 DEF NewActivation, Activation
  <2> QED BY <1>1, <1>2, <2>1, AppendProperties DEF Push, N
<1>5. Untouched(N)
  BY <1>2, <1>4 DEF Untouched
<1>6. SlotsFit' /\ KeysApart'
  <2>1. ASSUME NEW i \in 1..Len(jbs), jbs[i].frame PROVE Fits(stack', jbs[i].eh, jbs[i].at)
    <3>1. Fits(stack, jbs[i].eh, jbs[i].at) /\ jbs[i].at <= N
      BY <2>1 DEF SlotsFit, Fits, N
    <3> QED BY <1>2, <1>4, <1>5, <3>1, FitsStill
  <2> QED BY <1>1, <2>1 DEF SlotsFit, KeysApart
<1>7. q \in Sort /\ q.at = N /\ q.eh = ehTop
  <2>1. PICK d \in Sort : d = sorts[l]
    BY <1>2 DEF CTypeOK
  <2>2. q = [d EXCEPT !.eh = ehTop] /\ d.at = N
    BY <1>1, <2>1
  <2> HIDE DEF q
  <2> QED BY <1>2, <2>2 DEF Sort
<1> HIDE DEF q
<1>8. /\ sorts' \in Seq(Sort) /\ Len(sorts') = l
      /\ \A i \in 1..l : sorts'[i] = IF i = l THEN q ELSE sorts[i]
  BY <1>1, <1>2, <1>7, ExceptSeq DEF CTypeOK
<1>9. \A i \in 1..l : sorts'[i].at = sorts[i].at /\ sorts[i].at \in 1..N
  BY <1>1, <1>7, <1>8 DEF SortsFit
<1>10. ASSUME NEW i \in 1..l PROVE Fits(stack', sorts'[i].eh, sorts'[i].at)
  <2>1. CASE i = l
    <3>1. Fits(stack, ehTop, N)
      BY <1>2 DEF Fits, EHInv, ShadowStack
    <3> QED BY <1>2, <1>4, <1>5, <1>7, <1>8, <2>1, <3>1, FitsStill
  <2>2. CASE i # l
    <3>1. sorts[i].at < sorts[l].at
      BY <1>2, <2>2 DEF SortsNest
    <3>2. Fits(stack, sorts[i].eh, sorts[i].at) /\ sorts[i].at <= N
      BY <1>1, <1>9, <3>1 DEF SortsFit
    <3> QED BY <1>2, <1>4, <1>5, <1>8, <1>9, <2>2, <3>2, FitsStill
  <2> QED BY <2>1, <2>2
<1>11. SortsFit'
  BY <1>2, <1>4, <1>8, <1>9, <1>10 DEF SortsFit
<1>12. SortsNest'
  BY <1>8, <1>9 DEF SortsNest
<1> QED BY <1>1, <1>3, <1>6, <1>8, <1>11, <1>12 DEF CTypeOK

\* What the trampoline puts back fits the function that called qsort.
LEMMA CompareEndsStep ==
    ASSUME CInv, CompareEnds
    PROVE  CInv'
<1> USE DEF CInv
<1>1. /\ mode = "run" /\ sorts # <<>> /\ N = Last(sorts).at + 1 /\ stack' = SubSeq(stack, 1, N - 1)
      /\ ehTop' = Last(sorts).eh /\ jbs' = Follow(jbs)
      /\ UNCHANGED <<exc, caught, uncaught, inFlight, mode, cursor, flying, cmp, sorts>>
  BY DEF CompareEnds, objects, unwinder
<1>2. N \in Nat /\ Last(sorts).at \in 1..N /\ N - 1 \in 1..N /\ N - 1 \in 0..N
  BY <1>1 DEF EHInv, TypeOK, CTypeOK, SortsFit, N, Last
<1>3. /\ stack' \in Seq(Activation) /\ N' = N - 1
      /\ \A i \in 1..N - 1 : stack'[i] = stack[i]
  <2>1. TypeOK
    BY DEF EHInv
  <2>2. /\ SubSeq(stack, 1, N - 1) \in Seq(Activation) /\ Len(SubSeq(stack, 1, N - 1)) = N - 1
        /\ \A i \in 1..N - 1 : SubSeq(stack, 1, N - 1)[i] = stack[i]
    BY <1>2, <2>1, CutTyped
  <2> QED BY <1>1, <2>2 DEF N
<1>4. \A i \in 1..N - 1 : Alike(stack'[i], stack[i])
  BY <1>3 DEF Alike
<1>5. NearestFrame(stack, ehTop', N - 1 + 1)
  <2>1. Fits(stack, Last(sorts).eh, Last(sorts).at)
    BY <1>1, <1>2 DEF SortsFit, CTypeOK, Last
  <2> QED BY <1>1, <1>2, <2>1 DEF Fits
<1>6. EHInv'
  BY <1>1, <1>2, <1>3, <1>4, <1>5, CutKeeps
<1>7. \A i \in 1..N : i <= N' => stack'[i].kind = stack[i].kind
  BY <1>2, <1>3
<1>8. jbs' \in Seq(Slot) /\ SlotsFit' /\ KeysApart'
  BY <1>1, <1>3, <1>7, SlotsFollowed
<1>9. SortsFit' /\ SortsNest'
  BY <1>1, <1>2, <1>3, <1>7, SortsOn
<1> QED BY <1>1, <1>6, <1>8, <1>9 DEF CTypeOK

\* The end of a sort touches neither stack.
LEMMA EndSortStep ==
    ASSUME CInv, EndSort
    PROVE  CInv'
<1> USE DEF CInv
<1> DEFINE n == Len(sorts) - 1
<1>1. /\ sorts # <<>> /\ cmp' = sorts[n + 1].outer /\ sorts' = SubSeq(sorts, 1, n)
      /\ UNCHANGED <<vars, jbs>>
  BY DEF EndSort, InSort, Last, Front, vars, objects, unwinder, CTypeOK
<1>2. EHInv'
  BY <1>1, StutterKeeps
<1>3. /\ stack' = stack /\ jbs' = jbs /\ N' = N
  BY <1>1 DEF vars, N
<1>4. /\ n \in Nat /\ n + 1 \in 1..Len(sorts) /\ Len(sorts) \in Nat
      /\ \A i \in 1..Len(sorts) : sorts[i] \in Sort
  BY <1>1 DEF CTypeOK
<1>5. cmp' \in Cmp \cup {NoCmp}
  BY <1>1, <1>4 DEF Sort
<1>6. \A i \in 1..n : i \in 1..Len(sorts)
  BY <1>4
<1> HIDE DEF n
<1>7. /\ sorts' \in Seq(Sort) /\ Len(sorts') = n
      /\ \A i \in 1..n : sorts'[i] = sorts[i]
  <2>1. \A i \in 1..n : sorts[i] \in Sort
    BY <1>4, <1>6
  <2>2. /\ sorts' \in Seq(Sort)
        /\ Len(sorts') = IF 1 <= n THEN n - 1 + 1 ELSE 0
        /\ \A i \in 1..n - 1 + 1 : sorts'[i] = sorts[1 + i - 1]
    BY <1>1, <1>4, <2>1, SubSeqProperties
  <2> QED BY <1>4, <2>2
<1>8. SlotsFit' /\ KeysApart'
  BY <1>3 DEF SlotsFit, KeysApart
<1>9. SortsFit' /\ SortsNest'
  BY <1>3, <1>6, <1>7 DEF SortsFit, SortsNest
<1> QED BY <1>2, <1>3, <1>5, <1>7, <1>8, <1>9 DEF CTypeOK

\* Before the host calls an entry point there is no slot and no sort.
LEMMA CInvInit == CInit => CInv
<1> SUFFICES ASSUME CInit PROVE CInv
  OBVIOUS
<1>1. EHInv
  BY InvInit DEF CInit, Inv, EHInv
<1>2. jbs = <<>> /\ sorts = <<>> /\ cmp = NoCmp
  BY DEF CInit
<1> QED BY <1>1, <1>2 DEF CInv, CTypeOK, SlotsFit, KeysApart, SortsFit, SortsNest

\* Each action keeps the invariant.
LEMMA CInvNext ==
    ASSUME CInv, ~Rethrows, [CNext]_cvars
    PROVE  CInv'
<1>1. CASE UNCHANGED cvars
  <2>1. UNCHANGED vars /\ stack' = stack /\ jbs' = jbs /\ sorts' = sorts /\ cmp' = cmp /\ N' = N
    BY <1>1 DEF cvars, vars, N
  <2>2. EHInv'
    BY <2>1, StutterKeeps DEF CInv
  <2> QED BY <2>1, <2>2 DEF CInv, CTypeOK, SlotsFit, KeysApart, SortsFit, SortsNest
<1>2. CASE EHStep
  BY <1>2, TranslatedStep
<1>3. ASSUME NEW k \in Key, Setjmp(k) \/ Longjmp(k) PROVE CInv'
  BY <1>3, SetjmpStep, LongjmpStep
<1>4. ASSUME NEW c \in Cmp, NEW s \in Site, BeginSort(c, s) PROVE CInv'
  BY <1>4, BeginSortStep
<1>5. ASSUME NEW k \in {"eh", "plain"}, Compare(k) PROVE CInv'
  BY <1>5, CompareStep
<1>6. CASE CompareEnds \/ EndSort
  BY <1>6, CompareEndsStep, EndSortStep
<1> QED BY <1>1, <1>2, <1>3, <1>4, <1>5, <1>6 DEF CNext

-----------------------------------------------------------------------------
\* The inductive invariant holds at every step of every guest without `throw;`:
\* the exception runtime keeps its invariant under longjmps and comparisons, the
\* slots and sorts stand for activations in order, and what each would restore is
\* the innermost exception frame of its activation.
THEOREM ControlInvariance == ASSUME ~Rethrows PROVE CSpec => []CInv
<1>1. CInv /\ [CNext]_cvars => CInv'
  BY CInvNext
<1> QED BY <1>1, CInvInit, PTL DEF CSpec

\* A longjmp to a guest frame that is still there restores the shadow stack that
\* frame had, whatever was called, thrown, caught, sorted or jumped over since
\* setjmp; and guest_longjmp finds one slot for its key.
THEOREM SlotsRestore == ASSUME ~Rethrows PROVE CSpec => []SlotsRestoreTheTop
<1>1. CInv => SlotsRestoreTheTop
  BY DEF CInv, SlotsFit, KeysApart, Fits, SlotsRestoreTheTop
<1> QED BY <1>1, ControlInvariance, PTL

\* The shadow stack is the live functions that have an LSDA also after longjmps
\* over them, and after comparators that exceptions and longjmps leave.
THEOREM JumpsKeepTheShadowStack == ASSUME ~Rethrows PROVE CSpec => []ShadowStack
<1>1. CInv => ShadowStack
  BY DEF CInv, EHInv
<1> QED BY <1>1, ControlInvariance, PTL
=============================================================================
