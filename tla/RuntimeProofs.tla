--------------------------- MODULE RuntimeProofs ----------------------------
(* Four parts of the guest's runtime: the flags are right for words of any size; *)
(* entering and leaving the guest is right for any depth of nesting and any      *)
(* number of stacks; the choice of a catch clause is right for any hierarchy of   *)
(* classes and any chain of action records within the loops' bounds; arguments    *)
(* are read where they are, however many and of whatever kinds.                  *)
EXTENDS Flags, GuestEntry, Matching, Arguments, Integers,
        FiniteSetTheorems, SequenceTheorems, WellFoundedInduction, TLAPS

-----------------------------------------------------------------------------
(* Flags.                                                                     *)

\* The operands are cut to the width of the operation.
LEMMA TruncIsLow ==
    ASSUME NEW t \in Thunk, NEW d \in Words
    PROVE  Trunc(t, d) = d % t.w /\ d % t.w \in 0 .. t.w - 1
  <1>1. \A w \in Nat \ {0} : d % w \in 0 .. w - 1
    BY SMT DEF Words
  <1>2. t.w = W32 \/ t.w = W64
    BY DEF Thunk
  <1>3. \A w \in Nat \ {0} : d < w => d % w = d
    BY SMT DEF Words
  <1>4. W32 \in Nat \ {0} /\ W64 \in Nat \ {0} /\ d < W64
    BY FlagsAssumption DEF Words
  <1>5. CASE t.w = W32
    BY <1>1, <1>4, <1>5 DEF Trunc
  <1>6. CASE t.w = W64
    BY <1>1, <1>3, <1>4, <1>6 DEF Trunc
  <1> QED  BY <1>2, <1>5, <1>6

\* A width is a positive even number of values.
LEMMA Widths ==
    ASSUME NEW w \in {W32, W64}
    PROVE  \E h \in Nat : w = 2 * h /\ w \div 2 = h /\ h > 0
  <1>1. w \in Nat /\ w > 0 /\ w % 2 = 0
    BY FlagsAssumption
  <1>2. w = 2 * (w \div 2) /\ w \div 2 \in Nat /\ w \div 2 > 0
    BY <1>1
  <1> QED  BY <1>1, <1>2

\* The flags guest_rt.c works out of a sum r and of a difference r.
OfASum(w, a, b, k, r) ==
    [n |-> TopBit(w, r), z |-> Is(r = 0), c |-> Is(IF k = 1 THEN r <= a ELSE r < a),
     v |-> Is(TopBit(w, r) # TopBit(w, a) /\ TopBit(w, r) # TopBit(w, b))]
OfADifference(w, a, b, k, r) ==
    [n |-> TopBit(w, r), z |-> Is(r = 0), c |-> Is(IF k = 1 THEN a >= b ELSE a > b),
     v |-> Is(TopBit(w, a) # TopBit(w, b) /\ TopBit(w, a) # TopBit(w, r))]

\* Carry, zero, sign and overflow of a sum are those of the architecture.
LEMMA OfSum ==
    ASSUME NEW w \in {W32, W64}, NEW a \in 0 .. w - 1, NEW b \in 0 .. w - 1, NEW k \in Bit
    PROVE  AddWithCarry(w, a, b, k) = OfASum(w, a, b, k, Wrap(w, a + b + k))
  <1>1. PICK h \in Nat : w = 2 * h /\ w \div 2 = h /\ h > 0
    BY Widths
  <1> DEFINE s == a + b + k
             r == Wrap(w, a + b + k)
  <1>2. r \in 0 .. w - 1 /\ r = (IF s >= w THEN s - w ELSE s)
    BY <1>1 DEF Wrap, Bit
  <1>3. (Signed(w, r) < 0) <=> r >= h
    BY <1>1, <1>2 DEF Signed
  <1>4. (r # s) <=> (IF k = 1 THEN r <= a ELSE r < a)
    BY <1>1, <1>2 DEF Bit
  <1>5. (Signed(w, r) # Signed(w, a) + Signed(w, b) + k) <=>
            (TopBit(w, r) # TopBit(w, a) /\ TopBit(w, r) # TopBit(w, b))
    BY <1>1, <1>2 DEF Signed, TopBit, Bit
  <1> HIDE DEF r
  <1>6. AddWithCarry(w, a, b, k) = OfASum(w, a, b, k, r)
    BY <1>1, <1>2, <1>3, <1>4, <1>5 DEF AddWithCarry, OfASum, TopBit, Is
  <1> QED  BY <1>6 DEF r

\* The same of a difference, which the architecture makes a sum with the complement.
LEMMA OfDifference ==
    ASSUME NEW w \in {W32, W64}, NEW a \in 0 .. w - 1, NEW b \in 0 .. w - 1, NEW k \in Bit
    PROVE  AddWithCarry(w, a, w - 1 - b, k) =
               OfADifference(w, a, b, k, Less(w, a, b + (1 - k)))
  <1>1. PICK h \in Nat : w = 2 * h /\ w \div 2 = h /\ h > 0
    BY Widths
  <1> DEFINE s == a + (w - 1 - b) + k
             r == Less(w, a, b + (1 - k))
  <1>2. r \in 0 .. w - 1 /\ r = (IF s >= w THEN s - w ELSE s)
    BY <1>1 DEF Less, Bit
  <1>3. (Signed(w, r) < 0) <=> r >= h
    BY <1>1, <1>2 DEF Signed
  <1>4. (r # s) <=> (IF k = 1 THEN a >= b ELSE a > b)
    BY <1>1, <1>2 DEF Bit
  <1>5. (Signed(w, r) # Signed(w, a) + Signed(w, w - 1 - b) + k) <=>
            (TopBit(w, a) # TopBit(w, b) /\ TopBit(w, a) # TopBit(w, r))
    BY <1>1, <1>2 DEF Signed, TopBit, Bit
  <1> HIDE DEF r
  <1>6. AddWithCarry(w, a, w - 1 - b, k) = OfADifference(w, a, b, k, r)
    BY <1>1, <1>2, <1>3, <1>4, <1>5 DEF AddWithCarry, OfADifference, TopBit, Is
  <1> QED  BY <1>6 DEF r

\* The flags worked out of one instruction are the architecture's.
LEMMA OfThunk ==
    ASSUME NEW t \in Thunk
    PROVE  /\ Calculate(t) = Architecture(t.op, t.w, t.d1 % t.w, t.d2 % t.w, t.d3)
           /\ Calculate(t) \in Flags
  <1> DEFINE w == t.w  a == t.d1 % t.w  b == t.d2 % t.w
  <1>1. /\ w \in {W32, W64} /\ t.d3 \in Bit /\ t.op \in Kind
        /\ t.d1 \in Words /\ t.d2 \in Words
    BY DEF Thunk
  <1>2. a \in 0 .. w - 1 /\ b \in 0 .. w - 1 /\ Trunc(t, t.d1) = a /\ Trunc(t, t.d2) = b
    BY <1>1, TruncIsLow
  <1>3. PICK h \in Nat : w = 2 * h /\ w \div 2 = h /\ h > 0
    BY <1>1, Widths
  <1>4. 0 \in Bit /\ 1 \in Bit
    BY DEF Bit
  <1>5. a + b + 0 = a + b /\ b + (1 - 1) = b
    BY <1>2, <1>3
  <1>6. t.op # "COPY" /\ w = t.w
    BY <1>1 DEF Kind
  <1>7. Calculate(t) \in Flags
    BY <1>1, <1>6 DEF Calculate, Flags, FlagN, FlagZ, FlagC, FlagV, TopBit, Is, Bit, Kind
  <1> SUFFICES Calculate(t) = Architecture(t.op, w, a, b, t.d3)
    BY <1>7
  <1> HIDE DEF w, a, b
  <1>8. CASE t.op = "ADD"
    <2> DEFINE r == Wrap(w, a + b + 0)
    <2>1. Res(t) = r
      BY <1>2, <1>5, <1>6, <1>8 DEF Res
    <2> HIDE DEF r
    <2>2. Calculate(t) = OfASum(w, a, b, 0, r)
      BY <2>1, <1>2, <1>6, <1>8 DEF Calculate, FlagN, FlagZ, FlagC, FlagV, OfASum
    <2>3. Architecture(t.op, w, a, b, t.d3) = AddWithCarry(w, a, b, 0)
      BY <1>8 DEF Architecture
    <2>4. AddWithCarry(w, a, b, 0) = OfASum(w, a, b, 0, r)
      BY <1>1, <1>2, <1>4, OfSum DEF r
    <2> QED  BY <2>2, <2>3, <2>4
  <1>9. CASE t.op = "ADC"
    <2> DEFINE r == Wrap(w, a + b + t.d3)
    <2>1. Res(t) = r
      BY <1>2, <1>5, <1>6, <1>9 DEF Res
    <2> HIDE DEF r
    <2>2. Calculate(t) = OfASum(w, a, b, t.d3, r)
      BY <2>1, <1>2, <1>6, <1>9 DEF Calculate, FlagN, FlagZ, FlagC, FlagV, OfASum
    <2>3. Architecture(t.op, w, a, b, t.d3) = AddWithCarry(w, a, b, t.d3)
      BY <1>9 DEF Architecture
    <2>4. AddWithCarry(w, a, b, t.d3) = OfASum(w, a, b, t.d3, r)
      BY <1>1, <1>2, <1>4, OfSum DEF r
    <2> QED  BY <2>2, <2>3, <2>4
  <1>10. CASE t.op = "SUB"
    <2> DEFINE r == Less(w, a, b + (1 - 1))
    <2>1. Res(t) = r
      BY <1>2, <1>5, <1>6, <1>10 DEF Res
    <2> HIDE DEF r
    <2>2. Calculate(t) = OfADifference(w, a, b, 1, r)
      BY <2>1, <1>2, <1>6, <1>10 DEF Calculate, FlagN, FlagZ, FlagC, FlagV, OfADifference
    <2>3. Architecture(t.op, w, a, b, t.d3) = AddWithCarry(w, a, w - 1 - b, 1)
      BY <1>10 DEF Architecture
    <2>4. AddWithCarry(w, a, w - 1 - b, 1) = OfADifference(w, a, b, 1, r)
      BY <1>1, <1>2, <1>4, OfDifference DEF r
    <2> QED  BY <2>2, <2>3, <2>4
  <1>11. CASE t.op = "SBC"
    <2> DEFINE r == Less(w, a, b + (1 - t.d3))
    <2>1. Res(t) = r
      BY <1>2, <1>5, <1>6, <1>11 DEF Res
    <2> HIDE DEF r
    <2>2. Calculate(t) = OfADifference(w, a, b, t.d3, r)
      BY <2>1, <1>2, <1>6, <1>11 DEF Calculate, FlagN, FlagZ, FlagC, FlagV, OfADifference
    <2>3. Architecture(t.op, w, a, b, t.d3) = AddWithCarry(w, a, w - 1 - b, t.d3)
      BY <1>11 DEF Architecture
    <2>4. AddWithCarry(w, a, w - 1 - b, t.d3) = OfADifference(w, a, b, t.d3, r)
      BY <1>1, <1>2, <1>4, OfDifference DEF r
    <2> QED  BY <2>2, <2>3, <2>4
  <1>12. CASE t.op = "LOGIC"
    <2>1. Calculate(t) = [n |-> TopBit(w, a), z |-> Is(a = 0), c |-> 0, v |-> 0]
      BY <1>2, <1>6, <1>12 DEF Calculate, FlagN, FlagZ, FlagC, FlagV, Res
    <2>2. TopBit(w, a) = Is(Signed(w, a) < 0)
      BY <1>2, <1>3 DEF TopBit, Is, Signed
    <2>3. Architecture(t.op, w, a, b, t.d3) =
              [n |-> Is(Signed(w, a) < 0), z |-> Is(a = 0), c |-> 0, v |-> 0]
      BY <1>12 DEF Architecture
    <2> QED  BY <2>1, <2>2, <2>3
  <1> QED  BY <1>1, <1>8, <1>9, <1>10, <1>11, <1>12 DEF Kind

-----------------------------------------------------------------------------

\* Every instruction that sets flags leaves the two in agreement.
LEMMA SetsAgrees ==
    ASSUME FlagsTypeOK, FlagsAgree, NEW op \in Kind, NEW w \in {W32, W64}, NEW x \in Words,
           NEW y \in Words, Sets(op, w, x, y)
    PROVE  FlagsTypeOK' /\ FlagsAgree'
  <1>1. Calculate(cc).c \in Bit /\ nzcv.c = Calculate(cc).c
    BY DEF FlagsTypeOK, FlagsAgree, Flags
  <1>2. cc' \in Thunk
    BY <1>1 DEF Sets, Thunk, Bit
  <1>3. /\ Calculate(cc') = Architecture(op, w, x % w, y % w, cc'.d3)
        /\ Calculate(cc') \in Flags
    BY <1>2, OfThunk DEF Sets
  <1>4. Architecture(op, w, x % w, y % w, cc'.d3) =
            Architecture(op, w, x % w, y % w, nzcv.c)
    <2>1. CASE op \in {"ADC", "SBC"}
      BY <2>1, <1>1 DEF Sets
    <2>2. CASE op \notin {"ADC", "SBC"}
      BY <2>2 DEF Architecture, Kind
    <2> QED  BY <2>1, <2>2
  <1>5. nzcv' = Calculate(cc')
    BY <1>3, <1>4 DEF Sets
  <1> QED  BY <1>2, <1>3, <1>5 DEF FlagsTypeOK, FlagsAgree, Calculate

\* So does an instruction that writes them.
LEMMA WritesAgrees ==
    ASSUME NEW f \in Flags, Writes(f)
    PROVE  FlagsTypeOK' /\ FlagsAgree'
  BY DEF Writes, FlagsTypeOK, FlagsAgree, Calculate, Copy

\* For words of any size, a chain of instructions of any length leaves the flags of the
\* architecture in the operation and the operands guest_rt.c works them out of.
THEOREM FlagsAreTheArchitectures == FlagsSpec => [](FlagsTypeOK /\ FlagsAgree)
  <1>1. FlagsInit => FlagsTypeOK /\ FlagsAgree
    BY DEF FlagsInit, FlagsTypeOK, FlagsAgree, Calculate, Copy, Flags, NoFlags, Bit
  <1>2. FlagsTypeOK /\ FlagsAgree /\ [FlagsNext]_flagVars => FlagsTypeOK' /\ FlagsAgree'
    <2> SUFFICES ASSUME FlagsTypeOK, FlagsAgree, [FlagsNext]_flagVars
                 PROVE  FlagsTypeOK' /\ FlagsAgree'
      OBVIOUS
    <2>1. CASE \E op \in Kind, w \in {W32, W64} : \E x, y \in Words : Sets(op, w, x, y)
      BY <2>1, SetsAgrees
    <2>2. CASE \E f \in Flags : Writes(f)
      BY <2>2, WritesAgrees
    <2>3. CASE UNCHANGED flagVars
      BY <2>3 DEF flagVars, FlagsTypeOK, FlagsAgree
    <2> QED  BY <2>1, <2>2, <2>3 DEF FlagsNext
  <1> QED  BY <1>1, <1>2, PTL DEF FlagsSpec

\* In every state where the last instruction compared, the conditions are the order of
\* what it compared, read without signs and with them.
THEOREM ConditionsCompare == FlagsSpec => []ComparesDecide
  <1>1. FlagsTypeOK => ComparesDecide
    <2> SUFFICES ASSUME FlagsTypeOK, cc.op = "SUB"
                 PROVE  ComparesDecide
      BY DEF ComparesDecide
    <2>1. cc \in Thunk
      BY DEF FlagsTypeOK, Copy
    <2> DEFINE w == cc.w  a == Trunc(cc, cc.d1)  b == Trunc(cc, cc.d2)
    <2>2. w \in {W32, W64} /\ cc.d1 \in Words /\ cc.d2 \in Words
      BY <2>1 DEF Thunk
    <2>3. a \in 0 .. w - 1 /\ b \in 0 .. w - 1
      BY <2>1, <2>2, TruncIsLow
    <2>4. PICK h \in Nat : w = 2 * h /\ w \div 2 = h /\ h > 0
      BY <2>2, Widths
    <2> DEFINE r == Less(w, a, b)
    <2>5. /\ Calculate(cc) = [n |-> TopBit(w, r), z |-> Is(r = 0), c |-> Is(a >= b),
                              v |-> Is(TopBit(w, a) # TopBit(w, b) /\ TopBit(w, a) # TopBit(w, r))]
      BY DEF Calculate, FlagN, FlagZ, FlagC, FlagV, Res
    <2> HIDE DEF a, b, w
    <2>6. r \in 0 .. w - 1 /\ (r = 0 <=> a = b)
      BY <2>3, <2>4 DEF Less
    <2>7. (TopBit(w, r) = Is(TopBit(w, a) # TopBit(w, b) /\ TopBit(w, a) # TopBit(w, r))) <=>
              Signed(w, a) >= Signed(w, b)
      BY <2>3, <2>4 DEF Less, TopBit, Is, Signed
    <2>8. (a = b <=> Signed(w, a) = Signed(w, b)) /\ Signed(w, a) \in Int /\ Signed(w, b) \in Int
      BY <2>3, <2>4 DEF Signed
    <2> DEFINE f == Calculate(cc)
    <2>9. /\ (f.z = 1 <=> a = b) /\ (f.z = 0 <=> a # b)
          /\ (f.c = 1 <=> a >= b)
          /\ (f.n = f.v <=> Signed(w, a) >= Signed(w, b))
      BY <2>5, <2>6, <2>7 DEF Is
    <2> HIDE DEF f
    <2>10. /\ Condition("EQ", cc) <=> a = b
           /\ Condition("NE", cc) <=> a # b
           /\ Condition("CS", cc) <=> a >= b
           /\ Condition("CC", cc) <=> a < b
           /\ Condition("HI", cc) <=> a > b
           /\ Condition("LS", cc) <=> a <= b
      BY <2>3, <2>4, <2>9 DEF Condition, Higher, f
    <2>11. /\ Condition("GE", cc) <=> Signed(w, a) >= Signed(w, b)
           /\ Condition("LT", cc) <=> Signed(w, a) < Signed(w, b)
           /\ Condition("GT", cc) <=> Signed(w, a) > Signed(w, b)
           /\ Condition("LE", cc) <=> Signed(w, a) <= Signed(w, b)
      BY <2>8, <2>9 DEF Condition, f
    <2> QED  BY <2>10, <2>11 DEF ComparesDecide, a, b, w
  <1>2. FlagsSpec => []FlagsTypeOK
    BY FlagsAreTheArchitectures, PTL
  <1> QED  BY <1>1, <1>2, PTL

-----------------------------------------------------------------------------
(* GuestEntry, on one thread: g_ctors_done and g_eh_top belong to the process.*)

OneThread == \A t, u \in Thread : t = u

\* What g_eh_top holds: the call whose exception frame it is, or NULL.
Frame == {<<>>} \cup (Thread \X (1..MaxCalls))

EntryTypeOK ==
    /\ calls \in [Thread -> Seq(Entry)]
    /\ \A t \in Thread : Level(t) <= MaxCalls
    /\ depth \in [Thread -> Nat]
    /\ gstack \in [Thread -> Stack \cup {NoStack}]
    /\ ehTop \in Frame
    /\ ctorsDone \in BOOLEAN
    /\ ctorsRun \in [started : Nat, finished : Nat]

\* Until the flag is set there is one call, before the constructors; from then on
\* they have been started once, by the outermost call, and are over when it has
\* gone on.
CtorsInv ==
    /\ ~ctorsDone =>
           /\ ctorsRun.started = 0 /\ ctorsRun.finished = 0
           /\ \A t \in Thread : /\ Level(t) <= 1
                                /\ \A l \in 1..Level(t) : calls[t][l].pc \in {"test", "set"}
    /\ ctorsDone =>
           /\ ctorsRun.started = 1
           /\ \A t \in Thread : \A l \in 1..Level(t) :
                  /\ calls[t][l].pc # "set"
                  /\ calls[t][l].pc = "ctors" => l = 1 /\ ctorsRun.finished = 0
           /\ (\A t \in Thread : \A l \in 1..Level(t) : calls[t][l].pc # "ctors") =>
                  ctorsRun.finished = 1

\* p is the frame of the last of the first n calls of c that has one.
Innermost(t, c, n, p) ==
    \/ p = <<>> /\ \A m \in 1..n : c[m].eh = <<>>
    \/ \E l \in 1..n : /\ p = <<t, l>> /\ c[l].eh # <<>>
                       /\ \A m \in l + 1 .. n : c[m].eh = <<>>

\* g_eh_top is the innermost frame, and what each frame has saved is the one
\* below it; the thread has a stack while it is inside.
FramesInv ==
    \A t \in Thread :
        /\ depth[t] = Level(t)
        /\ gstack[t] # NoStack <=> Level(t) > 0
        /\ Innermost(t, calls[t], Level(t), ehTop)
        /\ \A l \in 1..Level(t) : \A p \in Frame :
               calls[t][l].eh = <<p>> => Innermost(t, calls[t], l - 1, p)

EntryInv == EntryTypeOK /\ CtorsInv /\ FramesInv

-----------------------------------------------------------------------------
(* Lemmas about GuestEntry.                                                    *)

LEMMA InitInv == ASSUME EntryInit PROVE EntryInv
<1>1. \A t \in Thread : calls[t] = <<>> /\ Level(t) = 0
  BY DEF EntryInit, Level
<1>2. calls \in [Thread -> Seq(Entry)]
  <2>1. <<>> \in Seq(Entry)
    BY EmptySeq
  <2> QED BY <2>1 DEF EntryInit
<1>3. EntryTypeOK
  <2>1. \A t \in Thread : Level(t) <= MaxCalls
    BY <1>1, GuestEntryAssumption
  <2>2. depth \in [Thread -> Nat] /\ gstack \in [Thread -> Stack \cup {NoStack}]
    BY DEF EntryInit
  <2>3. ehTop \in Frame /\ ctorsDone \in BOOLEAN /\ ctorsRun \in [started : Nat, finished : Nat]
    BY DEF EntryInit, Frame
  <2> QED BY <1>2, <2>1, <2>2, <2>3 DEF EntryTypeOK
<1>4. CtorsInv
  BY <1>1 DEF EntryInit, CtorsInv
<1>5. FramesInv
  BY <1>1, GuestEntryAssumption DEF EntryInit, FramesInv, Innermost
<1> QED BY <1>3, <1>4, <1>5 DEF EntryInv

\* The innermost call changes, and the others do not.
LEMMA TopChanges ==
    ASSUME EntryTypeOK, NEW t \in Thread, Level(t) > 0, NEW e \in Entry,
           calls' = [calls EXCEPT ![t] = [calls[t] EXCEPT ![Level(t)] = e]]
    PROVE  /\ calls' \in [Thread -> Seq(Entry)]
           /\ \A u \in Thread : Level(u)' = Level(u)
           /\ Level(t) \in 1..Level(t) /\ calls[t][Level(t)] \in Entry
           /\ calls'[t][Level(t)] = e
           /\ \A l \in 1..Level(t) : l # Level(t) => calls'[t][l] = calls[t][l]
<1> DEFINE n == Level(t)
           c == [calls[t] EXCEPT ![n] = e]
<1>1. calls[t] \in Seq(Entry) /\ n \in Nat /\ n \in 1..Len(calls[t])
  BY DEF EntryTypeOK, Level
<1>2. /\ c \in Seq(Entry) /\ Len(c) = Len(calls[t])
      /\ \A j \in 1..Len(calls[t]) : c[j] = IF j = n THEN e ELSE calls[t][j]
  BY <1>1, ExceptSeq
<1>3. calls'[t] = c /\ \A u \in Thread : u # t => calls'[u] = calls[u]
  BY DEF EntryTypeOK
<1>4. calls[t][n] \in Entry
  BY <1>1
<1>5. calls' \in [Thread -> Seq(Entry)]
  BY <1>2 DEF EntryTypeOK
<1> QED BY <1>1, <1>2, <1>3, <1>4, <1>5 DEF Level

\* What the stacks and frames are depends on the frames of the calls only.
LEMMA SameFrames ==
    ASSUME EntryTypeOK, FramesInv, \A u \in Thread : Level(u)' = Level(u),
           \A u \in Thread : \A l \in 1..Level(u) : calls'[u][l].eh = calls[u][l].eh,
           UNCHANGED <<depth, gstack, ehTop>>
    PROVE  FramesInv'
<1>1. \A u \in Thread : Level(u) \in Nat
  BY DEF EntryTypeOK, Level
<1>2. ASSUME NEW u \in Thread, NEW n \in 0..Level(u), NEW p, Innermost(u, calls[u], n, p)
      PROVE  Innermost(u, calls'[u], n, p)
  BY <1>1, <1>2 DEF Innermost
<1>3. ASSUME NEW u \in Thread
      PROVE  /\ Innermost(u, calls'[u], Level(u)', ehTop')
             /\ \A l \in 1..Level(u)' : \A p \in Frame :
                    calls'[u][l].eh = <<p>> => Innermost(u, calls'[u], l - 1, p)
  BY <1>1, <1>2 DEF FramesInv
<1> QED BY <1>3 DEF FramesInv, Frame

\* Where the first k calls are the same, so is the frame of the last of them.
LEMMA SamePrefix ==
    ASSUME NEW t, NEW c, NEW d, NEW k \in Nat, NEW p, \A m \in 1..k : d[m] = c[m], Innermost(t, c, k, p)
    PROVE  Innermost(t, d, k, p)
<1>1. CASE p = <<>> /\ \A m \in 1..k : c[m].eh = <<>>
  BY <1>1 DEF Innermost
<1>2. CASE \E l \in 1..k : /\ p = <<t, l>> /\ c[l].eh # <<>>
                          /\ \A m \in l + 1 .. k : c[m].eh = <<>>
  <2>1. PICK l \in 1..k : /\ p = <<t, l>> /\ c[l].eh # <<>>
                          /\ \A m \in l + 1 .. k : c[m].eh = <<>>
    BY <1>2
  <2>2. d[l].eh # <<>> /\ \A m \in l + 1 .. k : m \in 1..k /\ d[m].eh = <<>>
    BY <2>1
  <2> QED BY <2>1, <2>2 DEF Innermost
<1> QED BY <1>1, <1>2 DEF Innermost

\* And what the constructors are depends on where the calls are.
LEMMA SameCtors ==
    ASSUME CtorsInv, \A u \in Thread : Level(u)' = Level(u),
           \A u \in Thread : \A l \in 1..Level(u) : calls'[u][l].pc = calls[u][l].pc,
           UNCHANGED <<ctorsDone, ctorsRun>>
    PROVE  CtorsInv'
BY DEF CtorsInv

-----------------------------------------------------------------------------
(* The invariant is kept: one lemma for each action.                           *)

LEMMA KeptByEnter == ASSUME EntryInv, OneThread, NEW t \in Thread, Enter(t) PROVE EntryInv'
<1> DEFINE n == Level(t)
           e == [pc |-> "test", sp |-> 0, eh |-> <<>>]
<1>t. EntryTypeOK /\ CtorsInv /\ FramesInv /\ calls[t] \in Seq(Entry) /\ n \in Nat
  BY DEF EntryInv, EntryTypeOK, Level
<1>e. e \in Entry
  BY GuestEntryAssumption DEF Entry
<1>1. calls' = [calls EXCEPT ![t] = Append(calls[t], e)]
  BY DEF Enter
<1>2. /\ calls'[t] \in Seq(Entry) /\ Level(t)' = n + 1
      /\ \A l \in 1..n : calls'[t][l] = calls[t][l]
      /\ calls'[t][n + 1] = e
  BY <1>1, <1>t, <1>e, AppendProperties DEF EntryTypeOK, Level
<1>3. depth' = [depth EXCEPT ![t] = n + 1] /\ UNCHANGED <<ehTop, ctorsDone, ctorsRun>>
  BY <1>t DEF Enter, FramesInv
<1>4. gstack' \in [Thread -> Stack \cup {NoStack}] /\ gstack'[t] # NoStack
  <2>1. CASE depth[t] = 0
    BY <2>1, <1>t, GuestEntryAssumption DEF Enter, FreeStack, EntryTypeOK
  <2>2. CASE depth[t] # 0
    BY <2>2, <1>t DEF Enter, FramesInv, EntryTypeOK
  <2> QED BY <2>1, <2>2
<1>5. EntryTypeOK'
  <2>1. calls' \in [Thread -> Seq(Entry)]
    BY <1>1, <1>2, <1>t DEF EntryTypeOK
  <2>2. \A u \in Thread : Level(u)' <= MaxCalls
    BY <1>2, <1>t, OneThread, GuestEntryAssumption DEF Enter, OneThread
  <2> QED BY <2>1, <2>2, <1>2, <1>3, <1>4, <1>t DEF EntryTypeOK
<1>6. CtorsInv'
  <2>1. CASE ~ctorsDone
    <3>1. n = 0
      BY <2>1, <1>t DEF Enter, Running, Top, CtorsInv
    <3> QED BY <2>1, <3>1, <1>2, <1>3, <1>t DEF CtorsInv, OneThread
  <2>2. CASE ctorsDone
    <3>1. \A u \in Thread : \A l \in 1..Level(u)' :
              \/ l \in 1..Level(u) /\ calls'[u][l] = calls[u][l]
              \/ l = Level(u) + 1 /\ calls'[u][l].pc = "test"
      BY <1>2, <1>t DEF OneThread
    <3>2. \A u \in Thread : Level(u)' = Level(u) + 1 /\ Level(u) \in Nat
      BY <1>2, <1>t DEF OneThread
    <3>3. \A u \in Thread : \A l \in 1..Level(u) : l \in 1..Level(u)' /\ calls'[u][l] = calls[u][l]
      BY <1>2, <1>t DEF OneThread
    <3> QED BY <2>2, <3>1, <3>2, <3>3, <1>3, <1>t DEF CtorsInv
  <2> QED BY <2>1, <2>2, <1>t DEF EntryTypeOK
<1>7. FramesInv'
  <2>1. ASSUME NEW k \in 0..n, NEW p, Innermost(t, calls[t], k, p)
        PROVE  Innermost(t, calls'[t], k, p)
    <3>1. \A m \in 1..k : calls'[t][m] = calls[t][m]
      BY <1>2, <1>t
    <3>2. k \in Nat
      BY <1>t
    <3> QED BY <2>1, <3>1, <3>2, SamePrefix
  <2>2. Innermost(t, calls'[t], n, ehTop)
    BY <2>1, <1>t DEF FramesInv
  <2>3. Innermost(t, calls'[t], n + 1, ehTop')
    BY <2>2, <1>2, <1>3, <1>t DEF Innermost
  <2>4. \A l \in 1..n + 1 : \A p \in Frame :
            calls'[t][l].eh = <<p>> => Innermost(t, calls'[t], l - 1, p)
    <3>1. \A p : calls'[t][n + 1].eh # <<p>>
      BY <1>2
    <3>2. ASSUME NEW l \in 1..n, NEW p \in Frame, calls'[t][l].eh = <<p>>
          PROVE  Innermost(t, calls'[t], l - 1, p)
      <4>1. Innermost(t, calls[t], l - 1, p)
        BY <3>2, <1>2, <1>t DEF FramesInv
      <4>2. l - 1 \in 0..n
        BY <1>t
      <4> QED BY <4>1, <4>2, <2>1
    <3> QED BY <3>1, <3>2, <1>t
  <2>5. depth'[t] = n + 1 /\ gstack'[t] # NoStack /\ n + 1 > 0
    BY <1>3, <1>4, <1>t DEF EntryTypeOK
  <2> QED BY <2>3, <2>4, <2>5, <1>2 DEF FramesInv, OneThread, Frame
<1> QED BY <1>5, <1>6, <1>7 DEF EntryInv

LEMMA KeptByTestCtors ==
    ASSUME EntryInv, OneThread, NEW t \in Thread, TestCtors(t) PROVE EntryInv'
<1> DEFINE n == Level(t)
           e == [calls[t][n] EXCEPT !.pc = IF ctorsDone THEN "body" ELSE "set"]
<1>t. EntryTypeOK /\ CtorsInv /\ FramesInv /\ n \in 1..n /\ n > 0 /\ calls[t][n] \in Entry
  <2>1. calls[t] \in Seq(Entry) /\ n \in Nat /\ n > 0
    BY DEF EntryInv, EntryTypeOK, Level, TestCtors
  <2> QED BY <2>1 DEF EntryInv, Level
<1>1. calls' = [calls EXCEPT ![t] = [calls[t] EXCEPT ![n] = e]] /\ calls[t][n].pc = "test"
  BY DEF TestCtors, Top
<1>2. e \in Entry /\ e.eh = calls[t][n].eh
  BY <1>t DEF Entry
<1>3. /\ calls' \in [Thread -> Seq(Entry)]
      /\ \A u \in Thread : Level(u)' = Level(u)
      /\ calls'[t][n] = e
      /\ \A l \in 1..n : l # n => calls'[t][l] = calls[t][l]
  BY <1>t, <1>1, <1>2, TopChanges
<1>4. UNCHANGED <<depth, gstack, ehTop, ctorsDone, ctorsRun>>
  BY DEF TestCtors
<1>5. EntryTypeOK'
  BY <1>t, <1>3, <1>4 DEF EntryTypeOK
<1>6. FramesInv'
  <2>1. \A u \in Thread : \A l \in 1..Level(u) : calls'[u][l].eh = calls[u][l].eh
    BY <1>2, <1>3 DEF OneThread
  <2> QED BY <1>t, <1>3, <1>4, <2>1, SameFrames
<1>7. CtorsInv'
  <2>1. e.pc = IF ctorsDone THEN "body" ELSE "set"
    BY <1>t DEF Entry
  <2>2. \A u \in Thread : u = t
    BY DEF OneThread
  <2>3. CASE ~ctorsDone
    BY <2>1, <2>2, <2>3, <1>t, <1>3, <1>4 DEF CtorsInv
  <2>4. CASE ctorsDone
    <3>1. \A l \in 1..n : \/ calls'[t][l] = calls[t][l]
                          \/ calls'[t][l].pc = "body" /\ calls[t][l].pc # "ctors"
      BY <1>1, <1>3, <2>1, <2>4
    <3> QED BY <3>1, <2>2, <2>4, <1>t, <1>3, <1>4 DEF CtorsInv
  <2> QED BY <2>3, <2>4, <1>t DEF EntryTypeOK
<1> QED BY <1>5, <1>6, <1>7 DEF EntryInv

LEMMA KeptByStartCtors ==
    ASSUME EntryInv, OneThread, NEW t \in Thread, StartCtors(t) PROVE EntryInv'
<1> DEFINE n == Level(t)
           e == [calls[t][n] EXCEPT !.pc = "ctors"]
<1>t. EntryTypeOK /\ CtorsInv /\ FramesInv /\ n \in 1..n /\ n > 0 /\ calls[t][n] \in Entry
  <2>1. calls[t] \in Seq(Entry) /\ n \in Nat /\ n > 0
    BY DEF EntryInv, EntryTypeOK, Level, StartCtors
  <2> QED BY <2>1 DEF EntryInv, Level
<1>1. calls' = [calls EXCEPT ![t] = [calls[t] EXCEPT ![n] = e]] /\ calls[t][n].pc = "set"
  BY DEF StartCtors, Top
<1>2. e \in Entry /\ e.eh = calls[t][n].eh /\ e.pc = "ctors"
  BY <1>t DEF Entry
<1>3. /\ calls' \in [Thread -> Seq(Entry)]
      /\ \A u \in Thread : Level(u)' = Level(u)
      /\ calls'[t][n] = e
      /\ \A l \in 1..n : l # n => calls'[t][l] = calls[t][l]
  BY <1>t, <1>1, <1>2, TopChanges
<1>4. /\ UNCHANGED <<depth, gstack, ehTop>> /\ ctorsDone' = TRUE
      /\ ctorsRun' = [ctorsRun EXCEPT !.started = ctorsRun.started + 1]
  BY DEF StartCtors
<1>5. ~ctorsDone /\ n = 1 /\ ctorsRun.started = 0 /\ ctorsRun.finished = 0
  BY <1>t, <1>1 DEF CtorsInv, EntryTypeOK
<1>6. ctorsRun'.started = 1 /\ ctorsRun'.finished = 0
      /\ ctorsRun' \in [started : Nat, finished : Nat]
  <2>1. ctorsRun \in [started : Nat, finished : Nat]
    BY <1>t DEF EntryTypeOK
  <2>2. ctorsRun' = [ctorsRun EXCEPT !.started = 1]
    BY <1>4, <1>5
  <2> QED BY <2>1, <2>2, <1>5
<1>7. EntryTypeOK'
  BY <1>t, <1>3, <1>4, <1>6 DEF EntryTypeOK
<1>8. FramesInv'
  <2>1. \A u \in Thread : \A l \in 1..Level(u) : calls'[u][l].eh = calls[u][l].eh
    BY <1>2, <1>3 DEF OneThread
  <2> QED BY <1>t, <1>3, <1>4, <2>1, SameFrames
<1>9. CtorsInv'
  <2>1. \A u \in Thread : u = t
    BY DEF OneThread
  <2>2. calls'[t][1].pc = "ctors" /\ \A u \in Thread : \A l \in 1..Level(u)' : u = t /\ l = 1
    <3>1. calls'[t][1].pc = "ctors"
      BY <1>2, <1>3, <1>5
    <3>2. Level(t)' = 1
      BY <1>2, <1>3, <1>5
    <3>3. \A l \in 1..Level(t)' : l = 1
      BY <3>2
    <3>4. ASSUME NEW u \in Thread, NEW l \in 1..Level(u)' PROVE u = t /\ l = 1
      <4>1. u = t
        BY <2>1
      <4> QED BY <4>1, <3>3
    <3> QED BY <3>1, <3>4
  <2>3. t \in Thread /\ 1 \in 1..Level(t)'
    BY <1>3, <1>5
  <2> QED BY <2>2, <2>3, <1>4, <1>6 DEF CtorsInv
<1> QED BY <1>7, <1>8, <1>9 DEF EntryInv

LEMMA KeptByEndCtors ==
    ASSUME EntryInv, OneThread, NEW t \in Thread, EndCtors(t) PROVE EntryInv'
<1> DEFINE n == Level(t)
           e == [calls[t][n] EXCEPT !.pc = "body", !.sp = 0]
<1>t. EntryTypeOK /\ CtorsInv /\ FramesInv /\ n \in 1..n /\ n > 0 /\ calls[t][n] \in Entry
  <2>1. calls[t] \in Seq(Entry) /\ n \in Nat /\ n > 0
    BY DEF EntryInv, EntryTypeOK, Level, EndCtors
  <2> QED BY <2>1 DEF EntryInv, Level
<1>1. calls[t][n].pc = "ctors"
  BY DEF EndCtors, Top
<1>2. calls' = [calls EXCEPT ![t] = [calls[t] EXCEPT ![n] = e]]
  BY <1>t DEF EndCtors, EntryTypeOK
<1>3. e \in Entry /\ e.eh = calls[t][n].eh /\ e.pc = "body"
  <2>1. 0 \in 0..MaxWords
    BY GuestEntryAssumption
  <2>2. [calls[t][n] EXCEPT !.pc = "body"] \in Entry
    BY <1>t DEF Entry
  <2> QED BY <1>t, <2>1, <2>2 DEF Entry
<1>4. /\ calls' \in [Thread -> Seq(Entry)]
      /\ \A u \in Thread : Level(u)' = Level(u)
      /\ calls'[t][n] = e
      /\ \A l \in 1..n : l # n => calls'[t][l] = calls[t][l]
  BY <1>t, <1>2, <1>3, TopChanges
<1>5. /\ UNCHANGED <<depth, gstack, ehTop, ctorsDone>>
      /\ ctorsRun' = [ctorsRun EXCEPT !.finished = ctorsRun.finished + 1]
  BY DEF EndCtors
<1>6. ctorsDone /\ n = 1 /\ ctorsRun.started = 1 /\ ctorsRun.finished = 0
  BY <1>t, <1>1 DEF CtorsInv, EntryTypeOK
<1>7. ctorsRun'.started = 1 /\ ctorsRun'.finished = 1
      /\ ctorsRun' \in [started : Nat, finished : Nat]
  <2>1. ctorsRun \in [started : Nat, finished : Nat]
    BY <1>t DEF EntryTypeOK
  <2>2. ctorsRun' = [ctorsRun EXCEPT !.finished = 1]
    BY <1>5, <1>6
  <2> QED BY <2>1, <2>2, <1>6
<1>8. EntryTypeOK'
  BY <1>t, <1>4, <1>5, <1>7 DEF EntryTypeOK
<1>9. FramesInv'
  <2>1. \A u \in Thread : \A l \in 1..Level(u) : calls'[u][l].eh = calls[u][l].eh
    BY <1>3, <1>4 DEF OneThread
  <2> QED BY <1>t, <1>4, <1>5, <2>1, SameFrames
<1>10. CtorsInv'
  <2>1. \A u \in Thread : u = t
    BY DEF OneThread
  <2>2. calls'[t][1].pc = "body" /\ \A u \in Thread : \A l \in 1..Level(u)' : u = t /\ l = 1
    <3>1. calls'[t][1].pc = "body"
      BY <1>3, <1>4, <1>6
    <3>2. Level(t)' = 1
      BY <1>3, <1>4, <1>6
    <3>3. \A l \in 1..Level(t)' : l = 1
      BY <3>2
    <3>4. ASSUME NEW u \in Thread, NEW l \in 1..Level(u)' PROVE u = t /\ l = 1
      <4>1. u = t
        BY <2>1
      <4> QED BY <4>1, <3>3
    <3> QED BY <3>1, <3>4
  <2> QED BY <2>2, <1>5, <1>6, <1>7 DEF CtorsInv
<1> QED BY <1>8, <1>9, <1>10 DEF EntryInv

\* Words pushed and popped concern neither.
LEMMA KeptByWords ==
    ASSUME EntryInv, OneThread, NEW t \in Thread, PushWord(t) \/ PopWord(t) PROVE EntryInv'
<1> DEFINE n == Level(t)
<1>t. EntryTypeOK /\ CtorsInv /\ FramesInv /\ n \in 1..n /\ n > 0 /\ calls[t][n] \in Entry
  <2>1. calls[t] \in Seq(Entry) /\ n \in Nat /\ n > 0
    BY DEF EntryInv, EntryTypeOK, Level, PushWord, PopWord, Running
  <2> QED BY <2>1 DEF EntryInv, Level
<1>1. PICK k \in 0..MaxWords :
          calls' = [calls EXCEPT ![t] = [calls[t] EXCEPT ![n] = [calls[t][n] EXCEPT !.sp = k]]]
  <2>1. calls[t][n].sp \in 0..MaxWords /\ MaxWords \in Nat
    BY <1>t, GuestEntryAssumption DEF Entry
  <2>2. CASE PushWord(t)
    <3>1. calls[t][n].sp + 1 \in 0..MaxWords
      BY <2>1, <2>2 DEF PushWord, Top
    <3> QED BY <3>1, <2>2 DEF PushWord
  <2>3. CASE PopWord(t)
    <3>1. calls[t][n].sp - 1 \in 0..MaxWords
      BY <2>1, <2>3 DEF PopWord, Top
    <3> QED BY <3>1, <2>3 DEF PopWord
  <2> QED BY <2>2, <2>3
<1> DEFINE e == [calls[t][n] EXCEPT !.sp = k]
<1>2. e \in Entry /\ e.eh = calls[t][n].eh /\ e.pc = calls[t][n].pc
  BY <1>t DEF Entry
<1>3. /\ calls' \in [Thread -> Seq(Entry)]
      /\ \A u \in Thread : Level(u)' = Level(u)
      /\ calls'[t][n] = e
      /\ \A l \in 1..n : l # n => calls'[t][l] = calls[t][l]
  BY <1>t, <1>1, <1>2, TopChanges
<1>4. UNCHANGED <<depth, gstack, ehTop, ctorsDone, ctorsRun>>
  BY DEF PushWord, PopWord
<1>5. EntryTypeOK'
  BY <1>t, <1>3, <1>4 DEF EntryTypeOK
<1>6. \A u \in Thread : \A l \in 1..Level(u) :
          calls'[u][l].eh = calls[u][l].eh /\ calls'[u][l].pc = calls[u][l].pc
  BY <1>2, <1>3 DEF OneThread
<1>7. FramesInv'
  BY <1>t, <1>3, <1>4, <1>6, SameFrames
<1>8. CtorsInv'
  BY <1>t, <1>3, <1>4, <1>6, SameCtors
<1> QED BY <1>5, <1>7, <1>8 DEF EntryInv

\* guest_eh_push: what it saves is the innermost frame below.
LEMMA KeptByPushFrame ==
    ASSUME EntryInv, OneThread, NEW t \in Thread, PushFrame(t) PROVE EntryInv'
<1> DEFINE n == Level(t)
           e == [calls[t][n] EXCEPT !.eh = <<ehTop>>]
<1>t. EntryTypeOK /\ CtorsInv /\ FramesInv /\ n \in 1..n /\ n > 0 /\ calls[t][n] \in Entry
  <2>1. calls[t] \in Seq(Entry) /\ n \in Nat /\ n > 0
    BY DEF EntryInv, EntryTypeOK, Level, PushFrame, Running
  <2> QED BY <2>1 DEF EntryInv, Level
<1>1. /\ calls' = [calls EXCEPT ![t] = [calls[t] EXCEPT ![n] = e]]
      /\ calls[t][n].eh = <<>> /\ ehTop' = <<t, n>>
      /\ UNCHANGED <<depth, gstack, ctorsDone, ctorsRun>>
  BY DEF PushFrame, Top
<1>2. e \in Entry /\ e.eh = <<ehTop>> /\ e.pc = calls[t][n].pc
  <2>1. ehTop \in {<<>>} \cup (Thread \X (1..MaxCalls))
    BY <1>t DEF EntryTypeOK, Frame
  <2>2. <<ehTop>> \in {<<p>> : p \in {<<>>} \cup (Thread \X (1..MaxCalls))}
    BY <2>1
  <2> QED BY <1>t, <2>2 DEF Entry
<1>3. /\ calls' \in [Thread -> Seq(Entry)]
      /\ \A u \in Thread : Level(u)' = Level(u)
      /\ calls'[t][n] = e
      /\ \A l \in 1..n : l # n => calls'[t][l] = calls[t][l]
  BY <1>t, <1>1, <1>2, TopChanges
<1>4. EntryTypeOK'
  <2>1. <<t, n>> \in Frame
    BY <1>t, GuestEntryAssumption DEF EntryTypeOK, Frame
  <2> QED BY <2>1, <1>t, <1>1, <1>3 DEF EntryTypeOK
<1>5. CtorsInv'
  <2>1. \A u \in Thread : \A l \in 1..Level(u) : calls'[u][l].pc = calls[u][l].pc
    BY <1>2, <1>3 DEF OneThread
  <2> QED BY <2>1, <1>t, <1>1, <1>3, SameCtors
<1>6. FramesInv'
  <2>1. ASSUME NEW k \in 0..n - 1, NEW p, Innermost(t, calls[t], k, p)
        PROVE  Innermost(t, calls'[t], k, p)
    <3>1. \A m \in 1..k : calls'[t][m] = calls[t][m]
      BY <1>3, <1>t
    <3>2. k \in Nat
      BY <1>t
    <3> QED BY <2>1, <3>1, <3>2, SamePrefix
  <2>2. Innermost(t, calls'[t], n, ehTop')
    <3>1. calls'[t][n].eh # <<>> /\ \A m \in n + 1 .. n : FALSE
      BY <1>2, <1>3, <1>t
    <3> QED BY <3>1, <1>1, <1>t DEF Innermost
  <2>3. Innermost(t, calls'[t], n - 1, ehTop)
    <3>1. Innermost(t, calls[t], n, ehTop)
      BY <1>t DEF FramesInv
    <3>2. Innermost(t, calls[t], n - 1, ehTop)
      BY <3>1, <1>1, <1>t DEF Innermost
    <3> QED BY <3>2, <2>1, <1>t
  <2>4. ASSUME NEW l \in 1..n, NEW p \in Frame, calls'[t][l].eh = <<p>>
        PROVE  Innermost(t, calls'[t], l - 1, p)
    <3>1. CASE l = n
      <4>1. p = ehTop
        BY <3>1, <2>4, <1>2, <1>3
      <4> QED BY <4>1, <3>1, <2>3
    <3>2. CASE l # n
      <4>1. Innermost(t, calls[t], l - 1, p)
        BY <3>2, <2>4, <1>3, <1>t DEF FramesInv
      <4>2. l - 1 \in 0..n - 1
        BY <1>t
      <4> QED BY <4>1, <4>2, <2>1
    <3> QED BY <3>1, <3>2
  <2>5. depth'[t] = n /\ (gstack'[t] # NoStack <=> n > 0)
    BY <1>1, <1>t DEF FramesInv
  <2> QED BY <2>2, <2>4, <2>5, <1>3 DEF FramesInv, OneThread, Frame
<1> QED BY <1>4, <1>5, <1>6 DEF EntryInv

\* guest_eh_pop: what it puts back is right again.
LEMMA KeptByPopFrame ==
    ASSUME EntryInv, OneThread, NEW t \in Thread, PopFrame(t) PROVE EntryInv'
<1> DEFINE n == Level(t)
           e == [calls[t][n] EXCEPT !.eh = <<>>]
<1>t. EntryTypeOK /\ CtorsInv /\ FramesInv /\ n \in 1..n /\ n > 0 /\ calls[t][n] \in Entry
  <2>1. calls[t] \in Seq(Entry) /\ n \in Nat /\ n > 0
    BY DEF EntryInv, EntryTypeOK, Level, PopFrame, Running
  <2> QED BY <2>1 DEF EntryInv, Level
<1>1. /\ calls' = [calls EXCEPT ![t] = [calls[t] EXCEPT ![n] = e]]
      /\ calls[t][n].eh # <<>> /\ ehTop' = Head(calls[t][n].eh)
      /\ UNCHANGED <<depth, gstack, ctorsDone, ctorsRun>>
  BY DEF PopFrame, Top
<1>2. e \in Entry /\ e.eh = <<>> /\ e.pc = calls[t][n].pc
  BY <1>t DEF Entry
<1>3. /\ calls' \in [Thread -> Seq(Entry)]
      /\ \A u \in Thread : Level(u)' = Level(u)
      /\ calls'[t][n] = e
      /\ \A l \in 1..n : l # n => calls'[t][l] = calls[t][l]
  BY <1>t, <1>1, <1>2, TopChanges
<1>4. PICK p \in Frame : calls[t][n].eh = <<p>>
  BY <1>t, <1>1 DEF Entry, Frame
<1>5. ehTop' = p
  BY <1>1, <1>4
<1>6. EntryTypeOK'
  BY <1>t, <1>1, <1>3, <1>4, <1>5 DEF EntryTypeOK, Frame
<1>7. CtorsInv'
  <2>1. \A u \in Thread : \A l \in 1..Level(u) : calls'[u][l].pc = calls[u][l].pc
    BY <1>2, <1>3 DEF OneThread
  <2> QED BY <2>1, <1>t, <1>1, <1>3, SameCtors
<1>8. FramesInv'
  <2>1. ASSUME NEW k \in 0..n - 1, NEW q, Innermost(t, calls[t], k, q)
        PROVE  Innermost(t, calls'[t], k, q)
    <3>1. \A m \in 1..k : calls'[t][m] = calls[t][m]
      BY <1>3, <1>t
    <3>2. k \in Nat
      BY <1>t
    <3> QED BY <2>1, <3>1, <3>2, SamePrefix
  <2>2. Innermost(t, calls'[t], n - 1, p)
    <3>1. Innermost(t, calls[t], n - 1, p)
      BY <1>t, <1>4 DEF FramesInv
    <3> QED BY <3>1, <2>1, <1>t
  <2>3. Innermost(t, calls'[t], n, p)
    <3>1. calls'[t][n].eh = <<>>
      BY <1>2, <1>3
    <3> QED BY <3>1, <2>2, <1>t DEF Innermost
  <2>4. ASSUME NEW l \in 1..n, NEW q \in Frame, calls'[t][l].eh = <<q>>
        PROVE  Innermost(t, calls'[t], l - 1, q)
    <3>1. l # n
      <4>1. calls'[t][n].eh = <<>> /\ <<q>> # <<>>
        BY <1>2, <1>3
      <4> QED BY <4>1, <2>4
    <3>2. Innermost(t, calls[t], l - 1, q)
      BY <3>1, <2>4, <1>3, <1>t DEF FramesInv
    <3>3. l - 1 \in 0..n - 1
      BY <1>t
    <3> QED BY <3>2, <3>3, <2>1
  <2>5. depth'[t] = n /\ (gstack'[t] # NoStack <=> n > 0)
    BY <1>1, <1>t DEF FramesInv
  <2> QED BY <2>3, <2>4, <2>5, <1>3, <1>5 DEF FramesInv, OneThread, Frame
<1> QED BY <1>6, <1>7, <1>8 DEF EntryInv

\* guest_fini.  The outermost call has no frame left to lose.
LEMMA KeptByLeave ==
    ASSUME EntryInv, OneThread, NEW t \in Thread, Leave(t) PROVE EntryInv'
<1> DEFINE n == Level(t)
           c == SubSeq(calls[t], 1, n - 1)
<1>t. EntryTypeOK /\ CtorsInv /\ FramesInv /\ calls[t] \in Seq(Entry) /\ n \in Nat /\ n > 0
      /\ n = Len(calls[t])
  BY DEF EntryInv, EntryTypeOK, Level, Leave
<1>1. /\ calls[t][n].pc = "body" /\ calls[t][n].eh = <<>>
      /\ calls' = [calls EXCEPT ![t] = c]
      /\ UNCHANGED <<ctorsDone, ctorsRun>>
  BY DEF Leave, Top
<1>2. /\ c \in Seq(Entry) /\ Len(c) = n - 1
      /\ \A l \in 1..n - 1 : c[l] = calls[t][l]
  <2>1. \A l \in 1 .. n - 1 : calls[t][l] \in Entry
    BY <1>t
  <2>2. /\ c \in Seq(Entry) /\ Len(c) = IF 1 <= n - 1 THEN n - 1 - 1 + 1 ELSE 0
        /\ \A l \in 1 .. n - 1 - 1 + 1 : c[l] = calls[t][1 + l - 1]
    BY <2>1, <1>t, SubSeqProperties
  <2> QED BY <2>2, <1>t
<1>3. /\ calls' \in [Thread -> Seq(Entry)] /\ Level(t)' = n - 1
      /\ \A l \in 1..n - 1 : calls'[t][l] = calls[t][l]
  BY <1>1, <1>2, <1>t DEF EntryTypeOK, Level
<1>u. \A u \in Thread : u = t
  BY DEF OneThread
<1>4. depth[t] = n /\ Innermost(t, calls[t], n, ehTop) /\ gstack[t] # NoStack
  BY <1>t DEF FramesInv
<1>5. depth' \in [Thread -> Nat] /\ depth'[t] = n - 1
  BY <1>t, <1>4, <1>u DEF Leave, LevelDown, EntryTypeOK
<1>6. /\ n = 1 => ehTop' = <<>> /\ gstack' = [gstack EXCEPT ![t] = NoStack]
      /\ n # 1 => UNCHANGED <<ehTop, gstack>>
  BY <1>4 DEF Leave, Outermost
<1>7. gstack' \in [Thread -> Stack \cup {NoStack}] /\ (gstack'[t] # NoStack <=> n - 1 > 0)
  <2>1. CASE n = 1
    <3>1. gstack' = [gstack EXCEPT ![t] = NoStack] /\ ~(n - 1 > 0)
      BY <2>1, <1>6
    <3>2. gstack \in [Thread -> Stack \cup {NoStack}]
      BY <1>t DEF EntryTypeOK
    <3> QED BY <3>1, <3>2
  <2>2. CASE n # 1
    BY <2>2, <1>4, <1>6, <1>t DEF EntryTypeOK
  <2> QED BY <2>1, <2>2
<1>8. EntryTypeOK'
  <2>1. \A u \in Thread : Level(u)' <= MaxCalls
    BY <1>3, <1>t, <1>u, GuestEntryAssumption DEF EntryTypeOK
  <2>2. ehTop' \in Frame
    BY <1>6, <1>t DEF EntryTypeOK, Frame
  <2> QED BY <2>1, <2>2, <1>1, <1>3, <1>5, <1>7, <1>t DEF EntryTypeOK
<1>9. CtorsInv'
  <2>1. ctorsDone
    <3>1. n \in 1..Level(t)
      BY <1>t
    <3> QED BY <3>1, <1>1, <1>t DEF CtorsInv
  <2>2. \A l \in 1..n - 1 : l \in 1..n /\ calls'[t][l] = calls[t][l]
    BY <1>3, <1>t
  <2>3. ASSUME \A l \in 1..n - 1 : calls'[t][l].pc # "ctors" PROVE ctorsRun.finished = 1
    <3>1. \A l \in 1..n : calls[t][l].pc # "ctors"
      BY <2>2, <2>3, <1>1, <1>t
    <3> QED BY <3>1, <2>1, <1>t, <1>u DEF CtorsInv
  <2>4. /\ ctorsRun.started = 1
        /\ \A l \in 1..n - 1 : /\ calls'[t][l].pc # "set"
                               /\ calls'[t][l].pc = "ctors" => l = 1 /\ ctorsRun.finished = 0
    BY <2>1, <2>2, <1>t DEF CtorsInv
  <2>5. UNCHANGED <<ctorsDone, ctorsRun>> /\ Level(t)' = n - 1
    BY <1>1, <1>3
  <2> QED BY <2>1, <2>3, <2>4, <2>5, <1>u DEF CtorsInv
<1>10. FramesInv'
  <2>1. ASSUME NEW k \in 0..n - 1, NEW q, Innermost(t, calls[t], k, q)
        PROVE  Innermost(t, calls'[t], k, q)
    <3>1. \A m \in 1..k : calls'[t][m] = calls[t][m]
      BY <1>3, <1>t
    <3>2. k \in Nat
      BY <1>t
    <3> QED BY <2>1, <3>1, <3>2, SamePrefix
  <2>2. Innermost(t, calls[t], n - 1, ehTop)
    BY <1>4, <1>1, <1>t DEF Innermost
  <2>3. Innermost(t, calls'[t], n - 1, ehTop')
    <3>1. CASE n = 1
      BY <3>1, <1>6 DEF Innermost
    <3>2. CASE n # 1
      BY <3>2, <1>6, <2>1, <2>2, <1>t
    <3> QED BY <3>1, <3>2
  <2>4. ASSUME NEW l \in 1..n - 1, NEW q \in Frame, calls'[t][l].eh = <<q>>
        PROVE  Innermost(t, calls'[t], l - 1, q)
    <3>1. l \in 1..Level(t) /\ l - 1 \in 0..n - 1
      BY <1>t
    <3>2. calls[t][l].eh = <<q>>
      BY <2>4, <1>3
    <3>3. Innermost(t, calls[t], l - 1, q)
      BY <3>1, <3>2, <1>t DEF FramesInv
    <3> QED BY <3>1, <3>3, <2>1
  <2> QED BY <2>3, <2>4, <1>3, <1>5, <1>7, <1>u DEF FramesInv, Frame
<1> QED BY <1>8, <1>9, <1>10 DEF EntryInv

LEMMA InvKept == ASSUME EntryInv, OneThread, [EntryNext]_entryVars PROVE EntryInv'
<1>1. ASSUME NEW t \in Thread, Enter(t) PROVE EntryInv'
  BY <1>1, KeptByEnter
<1>2. ASSUME NEW t \in Thread, TestCtors(t) PROVE EntryInv'
  BY <1>2, KeptByTestCtors
<1>3. ASSUME NEW t \in Thread, StartCtors(t) PROVE EntryInv'
  BY <1>3, KeptByStartCtors
<1>4. ASSUME NEW t \in Thread, EndCtors(t) PROVE EntryInv'
  BY <1>4, KeptByEndCtors
<1>5. ASSUME NEW t \in Thread, PushWord(t) \/ PopWord(t) PROVE EntryInv'
  BY <1>5, KeptByWords
<1>6. ASSUME NEW t \in Thread, PushFrame(t) PROVE EntryInv'
  BY <1>6, KeptByPushFrame
<1>7. ASSUME NEW t \in Thread, PopFrame(t) PROVE EntryInv'
  BY <1>7, KeptByPopFrame
<1>8. ASSUME NEW t \in Thread, Leave(t) PROVE EntryInv'
  BY <1>8, KeptByLeave
<1>9. CASE UNCHANGED entryVars
  <2>1. EntryTypeOK'
    BY <1>9 DEF EntryInv, entryVars, EntryTypeOK, Level
  <2>2. CtorsInv'
    BY <1>9 DEF EntryInv, entryVars, CtorsInv, Level
  <2>3. FramesInv'
    BY <1>9 DEF EntryInv, entryVars, FramesInv, Innermost, Level
  <2> QED BY <2>1, <2>2, <2>3 DEF EntryInv
<1> QED
  BY <1>1, <1>2, <1>3, <1>4, <1>5, <1>6, <1>7, <1>8, <1>9 DEF EntryNext

LEMMA EntryInvariance == ASSUME OneThread PROVE EntrySpec => []EntryInv
<1>1. EntryInv /\ [EntryNext]_entryVars => EntryInv'
  BY InvKept
<1> QED BY <1>1, InitInv, PTL DEF EntrySpec

-----------------------------------------------------------------------------
(* The theorems about GuestEntry.                                              *)

\* In a process with one thread guest_init runs the constructors once, and no call
\* runs guest code that is not theirs before they have returned, however deep the
\* entries are nested and wherever in a constructor they are made.
THEOREM ConstructorsComeFirst == ASSUME OneThread PROVE EntrySpec => []CtorsOnceAndFirst
<1>1. ASSUME EntryInv PROVE CtorsOnceAndFirst
  <2>1. CtorsInv /\ ctorsDone \in BOOLEAN
    BY <1>1 DEF EntryInv, EntryTypeOK
  <2>2. ctorsRun.started <= 1
    BY <2>1 DEF CtorsInv
  <2>3. ASSUME NEW t \in Thread, NEW l \in 1..Level(t), calls[t][l].pc = "body",
               \A m \in 1..l : calls[t][m].pc # "ctors"
        PROVE  ctorsRun.finished = 1
    <3>1. ctorsDone
      BY <2>1, <2>3 DEF CtorsInv
    <3>2. \A u \in Thread : \A m \in 1..Level(u) : calls[u][m].pc # "ctors"
      <4>1. SUFFICES ASSUME NEW m \in 1..Level(t), calls[t][m].pc = "ctors" PROVE FALSE
        BY DEF OneThread
      <4>2. m = 1
        BY <2>1, <3>1, <4>1 DEF CtorsInv
      <4> QED BY <4>1, <4>2, <2>3
    <3> QED BY <2>1, <3>1, <3>2 DEF CtorsInv
  <2> QED BY <2>2, <2>3 DEF CtorsOnceAndFirst
<1> QED BY <1>1, EntryInvariance, PTL

\* In a process with one thread guest_fini gives the caller its depth and its
\* stack back, and g_eh_top is at every moment the exception frame of the innermost
\* entry that has one.
THEOREM EntriesRestore == ASSUME OneThread PROVE EntrySpec => []NestedEntriesRestore
<1>1. ASSUME EntryInv, NEW t \in Thread
      PROVE  LET framed == {l \in 1..Level(t) : calls[t][l].eh # <<>>}
             IN  IF framed = {} THEN ehTop = <<>>
                 ELSE \E l \in framed : ehTop = <<t, l>> /\ \A m \in framed : m <= l
  <2> DEFINE n == Level(t)
             framed == {l \in 1..n : calls[t][l].eh # <<>>}
  <2>1. Innermost(t, calls[t], n, ehTop) /\ n \in Nat
    BY <1>1 DEF EntryInv, FramesInv, EntryTypeOK, Level
  <2>2. CASE ehTop = <<>> /\ \A m \in 1..n : calls[t][m].eh = <<>>
    BY <2>2
  <2>3. ASSUME NEW l \in 1..n, ehTop = <<t, l>>, calls[t][l].eh # <<>>,
               \A m \in l + 1 .. n : calls[t][m].eh = <<>>
        PROVE  l \in framed /\ ehTop = <<t, l>> /\ \A m \in framed : m <= l
    BY <2>1, <2>3
  <2> QED BY <2>1, <2>2, <2>3 DEF Innermost
<1>2. ASSUME EntryInv PROVE NestedEntriesRestore
  BY <1>1, <1>2 DEF NestedEntriesRestore, EntryInv, FramesInv
<1> QED BY <1>2, EntryInvariance, PTL

-----------------------------------------------------------------------------
(* Matching.                                                                  *)

\* Of a set of natural numbers that is not empty, one is the least.
LEMMA LeastNumber ==
    ASSUME NEW T \in SUBSET Nat, T # {}
    PROVE  \E m \in T : \A k \in T : m <= k
<1> DEFINE F == {0..x : x \in T}
<1>1. F \subseteq FiniteSubsetsOf(Nat)
  <2>1. \A x \in T : IsFiniteSet(0..x) /\ 0..x \in SUBSET Nat
    BY FS_Interval
  <2> QED BY <2>1 DEF FiniteSubsetsOf
<1>2. IsWellFoundedOn(StrictSubsetOrdering(Nat), FiniteSubsetsOf(Nat))
  BY FS_StrictSubsetOrderingWellFounded
<1>3. F # {}
  OBVIOUS
<1> HIDE DEF F
<1>4. PICK s \in F : \A u \in F : <<u, s>> \notin StrictSubsetOrdering(Nat)
  BY <1>1, <1>2, <1>3, WFMin
<1>5. PICK m \in T : s = 0..m
  BY DEF F
<1>6. ASSUME NEW k \in T, k < m PROVE FALSE
  <2>1. 0..k \in F /\ 0..k # 0..m /\ 0..k \subseteq 0..m /\ 0..m \subseteq Nat
    BY <1>6 DEF F
  <2> QED BY <1>4, <1>5, <2>1 DEF StrictSubsetOrdering
<1> QED BY <1>6

-----------------------------------------------------------------------------
(* The search through the bases.  Row d of it says of each class whether the    *)
(* one wanted is found from there, at depth d.                                 *)

\* What the search finds in class c at depth d, by the rows below.
FindsAt(caught, f, d, c) ==
    \/ c = caught
    \/ /\ d <= MaxDepth
       /\ Len(bases[c]) <= MaxBases
       /\ \E i \in 1..Len(bases[c]) :
             Reachable(bases[c][i]) /\ f[d + 1][bases[c][i].class]

\* f has the rows of the search from depth n on.
RowsFrom(caught, f, n) ==
    /\ f = [d \in n .. MaxDepth + 1 |-> f[d]]
    /\ \A d \in n .. MaxDepth + 1 : f[d] = [c \in Class |-> FindsAt(caught, f, d, c)]

\* The rows can be found from the deepest up.
LEMMA RowsExist ==
    ASSUME NEW caught
    PROVE  \E f : RowsFrom(caught, f, 0)
<1>1. MaxDepth \in Nat
  BY MatchingAssumption
<1> DEFINE T == {k \in Nat : k <= MaxDepth + 1 /\ ~ \E f : RowsFrom(caught, f, MaxDepth + 1 - k)}
<1>2. ASSUME T # {} PROVE FALSE
  <2>1. PICK m \in T : \A k \in T : m <= k
    <3>1. T \in SUBSET Nat
      OBVIOUS
    <3> HIDE DEF T
    <3> QED BY <1>2, <3>1, LeastNumber
  <2>2. m \in Nat /\ m <= MaxDepth + 1 /\ ~ \E f : RowsFrom(caught, f, MaxDepth + 1 - m)
    BY <2>1
  <2>3. PICK n \in Nat : n = MaxDepth + 1 - m
    BY <1>1, <2>2
  <2>4. \E f : f = [d \in n + 1 .. MaxDepth + 1 |-> f[d]] /\
              \A d \in n + 1 .. MaxDepth + 1 : f[d] = [c \in Class |-> FindsAt(caught, f, d, c)]
    <3>1. CASE m = 0
      <4>1. n + 1 .. MaxDepth + 1 = {}
        BY <1>1, <2>3, <3>1
      <4> DEFINE f == [d \in {} |-> 0]
      <4>2. f = [d \in {} |-> f[d]]
        OBVIOUS
      <4> QED BY <4>1, <4>2
    <3>2. CASE m # 0
      <4>1. m - 1 \in Nat /\ m - 1 <= MaxDepth + 1 /\ ~(m <= m - 1) /\ MaxDepth + 1 - (m - 1) = n + 1
        BY <1>1, <2>2, <2>3, <3>2
      <4>2. m - 1 \notin T
        BY <2>1, <4>1
      <4>3. \E f : RowsFrom(caught, f, n + 1)
        BY <4>1, <4>2
      <4> HIDE DEF T
      <4> QED BY <4>3 DEF RowsFrom
    <3> QED BY <3>1, <3>2
  <2> HIDE DEF T
  <2>5. PICK f : /\ f = [d \in n + 1 .. MaxDepth + 1 |-> f[d]]
                 /\ \A d \in n + 1 .. MaxDepth + 1 : f[d] = [c \in Class |-> FindsAt(caught, f, d, c)]
    BY <2>4
  <2> DEFINE x == [c \in Class |-> FindsAt(caught, f, n, c)]
  <2> HIDE DEF x
  <2> DEFINE g == [d \in n .. MaxDepth + 1 |-> IF d = n THEN x ELSE f[d]]
  <2>6. /\ g = [d \in n .. MaxDepth + 1 |-> g[d]]
        /\ g[n] = x /\ \A d \in n + 1 .. MaxDepth + 1 : g[d] = f[d]
    BY <1>1, <2>2, <2>3
  <2> HIDE DEF g
  <2>7. ASSUME NEW d \in n .. MaxDepth + 1, NEW c \in Class
        PROVE  FindsAt(caught, g, d, c) = FindsAt(caught, f, d, c)
    <3>1. d <= MaxDepth => d + 1 \in n + 1 .. MaxDepth + 1
      BY <1>1
    <3>2. d <= MaxDepth => g[d + 1] = f[d + 1]
      BY <2>6, <3>1
    <3> QED BY <3>2 DEF FindsAt
  <2>8. ASSUME NEW d \in n .. MaxDepth + 1
        PROVE  g[d] = [c \in Class |-> FindsAt(caught, g, d, c)]
    <3>1. [c \in Class |-> FindsAt(caught, g, d, c)] = [c \in Class |-> FindsAt(caught, f, d, c)]
      BY <2>7
    <3>2. CASE d = n
      BY <2>6, <3>1, <3>2 DEF x
    <3>3. CASE d # n
      <4>1. d \in n + 1 .. MaxDepth + 1
        BY <1>1, <3>3
      <4> QED BY <2>5, <2>6, <3>1, <4>1
    <3> QED BY <3>2, <3>3
  <2>9. RowsFrom(caught, g, n)
    BY <2>6, <2>8 DEF RowsFrom
  <2> QED BY <2>2, <2>3, <2>9
<1>3. MaxDepth + 1 \notin T /\ MaxDepth + 1 \in Nat /\ MaxDepth + 1 - (MaxDepth + 1) = 0
  BY <1>1, <1>2
<1> QED BY <1>1, <1>3

\* Matches is such a search.
LEMMA MatchesBySearch ==
    ASSUME NEW caught
    PROVE  \E f : RowsFrom(caught, f, 0) /\ (Matches(caught) <=> caught = CatchAll \/ f[0][thrown])
<1> DEFINE U(f) == f = [d \in 0 .. MaxDepth + 1 |-> [c \in Class |->
                          \/ c = caught
                          \/ /\ d <= MaxDepth
                             /\ Len(bases[c]) <= MaxBases
                             /\ \E i \in 1..Len(bases[c]) :
                                   Reachable(bases[c][i]) /\ f[d + 1][bases[c][i].class]]]
           g == CHOOSE f : U(f)
<1>1. PICK f : RowsFrom(caught, f, 0)
  BY RowsExist
<1>2. U(f)
  <2>1. /\ f = [d \in 0 .. MaxDepth + 1 |-> f[d]]
        /\ \A d \in 0 .. MaxDepth + 1 : f[d] = [c \in Class |-> FindsAt(caught, f, d, c)]
    BY <1>1 DEF RowsFrom
  <2> QED BY <2>1 DEF FindsAt
<1>3. U(g)
  BY <1>2
<1>4. Matches(caught) <=> caught = CatchAll \/ g[0][thrown]
  BY DEF Matches
<1> HIDE DEF g
<1>5. RowsFrom(caught, g, 0)
  BY <1>3 DEF RowsFrom, FindsAt
<1> QED BY <1>4, <1>5

-----------------------------------------------------------------------------
(* The search finds a class just when it is derived from the one wanted.  The   *)
(* bases of a class are smaller than it, so no path through them is as long as  *)
(* the number of classes, and the depth suffices.                              *)

\* The bases of every class come before it.
Hierarchy ==
    \A c \in Class :
        /\ Len(bases[c]) \in Nat /\ Len(bases[c]) <= MaxBases
        /\ \A i \in 1..Len(bases[c]) :
              bases[c][i].class \in Class /\ bases[c][i].class < c

\* A class is derived from itself, and from what one of its public bases is derived from;
LEMMA DerivedGoesUp ==
    ASSUME Hierarchy, NEW caught \in Class, NEW c \in Class
    PROVE  /\ caught \in Derived(caught)
           /\ \A i \in 1..Len(bases[c]) :
                 Reachable(bases[c][i]) /\ bases[c][i].class \in Derived(caught) => c \in Derived(caught)
<1>1. caught \in Derived(caught)
  BY DEF Derived
<1>2. ASSUME NEW i \in 1..Len(bases[c]), Reachable(bases[c][i]), bases[c][i].class \in Derived(caught)
      PROVE  c \in Derived(caught)
  <2> SUFFICES ASSUME NEW cs \in SUBSET Class, caught \in cs, Closed(cs) PROVE c \in cs
    BY DEF Derived
  <2>1. bases[c][i].class \in cs
    BY <1>2 DEF Derived
  <2> QED BY <1>2, <2>1 DEF Closed, Reachable
<1> QED BY <1>1, <1>2

\* and from nothing else.
LEMMA DerivedComesFrom ==
    ASSUME Hierarchy, NEW caught \in Class, NEW c \in Derived(caught), c # caught
    PROVE  \E i \in 1..Len(bases[c]) : Reachable(bases[c][i]) /\ bases[c][i].class \in Derived(caught)
<1> SUFFICES ASSUME ~ \E i \in 1..Len(bases[c]) :
                         Reachable(bases[c][i]) /\ bases[c][i].class \in Derived(caught)
             PROVE  FALSE
  OBVIOUS
<1>1. PICK cs \in SUBSET Class : cs = Derived(caught) \ {c}
  BY DEF Derived
<1>2. caught \in cs
  BY <1>1, DerivedGoesUp
<1>3. Closed(cs)
  <2> SUFFICES ASSUME NEW d \in Class, NEW i \in 1..Len(bases[d]), bases[d][i].public,
                      bases[d][i].class \in cs
               PROVE  d \in cs
    BY DEF Closed
  <2>1. Reachable(bases[d][i])
    BY DEF Reachable
  <2>2. d \in Derived(caught)
    BY <1>1, <2>1, DerivedGoesUp
  <2>3. d # c
    BY <1>1, <2>1
  <2> QED BY <1>1, <2>2, <2>3
<1> QED BY <1>1, <1>2, <1>3 DEF Derived

\* At a depth that leaves a step for each smaller class, the search is right.
LEMMA DeepEnough ==
    ASSUME Hierarchy, NEW caught \in Class, NEW f, RowsFrom(caught, f, 0)
    PROVE  \A c \in Class : \A d \in 0 .. MaxDepth + 1 :
              d + c <= MaxDepth + 2 => (f[d][c] <=> c \in Derived(caught))
<1>1. MaxDepth \in Nat /\ \A c \in Class : c \in Nat /\ c >= 1
  BY MatchingAssumption DEF Class
<1> DEFINE Right(c) == \A d \in 0 .. MaxDepth + 1 :
                         d + c <= MaxDepth + 2 => (f[d][c] <=> c \in Derived(caught))
           T == {c \in Class : ~Right(c)}
<1>2. ASSUME T # {} PROVE FALSE
  <2>1. PICK c \in T : \A b \in T : c <= b
    <3>1. T \in SUBSET Nat
      BY <1>1
    <3> HIDE DEF T
    <3> QED BY <1>2, <3>1, LeastNumber
  <2>2. c \in Class /\ ~Right(c)
    BY <2>1
  <2>3. PICK d \in 0 .. MaxDepth + 1 : d + c <= MaxDepth + 2 /\ ~(f[d][c] <=> c \in Derived(caught))
    BY <2>2
  <2>4. f[d][c] <=> FindsAt(caught, f, d, c)
    <3>1. f[d] = [b \in Class |-> FindsAt(caught, f, d, b)]
      BY <2>3 DEF RowsFrom
    <3>2. f[d][c] = FindsAt(caught, f, d, c)
      BY <2>2, <3>1
    <3> QED BY <3>2 DEF FindsAt
  <2>5. ASSUME d <= MaxDepth, NEW i \in 1..Len(bases[c])
        PROVE  f[d + 1][bases[c][i].class] <=> bases[c][i].class \in Derived(caught)
    <3>1. PICK b \in Class : b = bases[c][i].class /\ b < c
      BY <2>2 DEF Hierarchy
    <3>6. ~(c <= b)
      BY <1>1, <2>2, <3>1
    <3>2. b \notin T
      BY <2>1, <3>6
    <3>3. Right(b)
      BY <3>2
    <3>4. d + 1 \in 0 .. MaxDepth + 1 /\ d + 1 + b <= MaxDepth + 2
      BY <1>1, <2>2, <2>3, <2>5, <3>1
    <3>5. f[d + 1][b] <=> b \in Derived(caught)
      BY <3>3, <3>4
    <3> QED BY <3>1, <3>5
  <2> HIDE DEF T, Right
  <2>6. CASE c = caught
    BY <2>2, <2>3, <2>4, <2>6, DerivedGoesUp DEF FindsAt
  <2>7. CASE c # caught /\ d <= MaxDepth
    <3>1. f[d][c] <=> \E i \in 1..Len(bases[c]) : Reachable(bases[c][i]) /\ f[d + 1][bases[c][i].class]
      BY <2>2, <2>4, <2>7 DEF FindsAt, Hierarchy
    <3>2. f[d][c] <=> \E i \in 1..Len(bases[c]) : Reachable(bases[c][i]) /\ bases[c][i].class \in Derived(caught)
      BY <2>5, <2>7, <3>1
    <3>3. c \in Derived(caught) =>
             \E i \in 1..Len(bases[c]) : Reachable(bases[c][i]) /\ bases[c][i].class \in Derived(caught)
      BY <2>7, DerivedComesFrom
    <3>4. (\E i \in 1..Len(bases[c]) : Reachable(bases[c][i]) /\ bases[c][i].class \in Derived(caught))
             => c \in Derived(caught)
      BY <2>2, DerivedGoesUp
    <3> QED BY <2>3, <3>2, <3>3, <3>4
  <2>8. CASE c # caught /\ ~(d <= MaxDepth)
    <3>1. c = 1
      BY <1>1, <2>2, <2>3, <2>8
    <3>2. c \notin Derived(caught)
      <4>1. ASSUME NEW i \in 1..Len(bases[c]) PROVE FALSE
        <5>1. bases[c][i].class \in Class /\ bases[c][i].class < c
          BY <2>2 DEF Hierarchy
        <5> QED BY <1>1, <3>1, <5>1
      <4> QED BY <2>8, <4>1, DerivedComesFrom
    <3> QED BY <2>3, <2>4, <2>8, <3>2 DEF FindsAt
  <2> QED BY <2>6, <2>7, <2>8
<1> HIDE DEF Right
<1>3. \A c \in Class : Right(c)
  BY <1>2
<1> QED BY <1>3 DEF Right

\* What a record takes is what Matches says it takes.
LEMMA MatchesIsDerived ==
    ASSUME Hierarchy, thrown \in Class, NEW r \in Record
    PROVE  r.kind = "catch" /\ Matches(r.class) <=> thrown \in Catches(r)
<1>1. CASE r.kind # "catch"
  BY <1>1 DEF Catches
<1>2. CASE r.kind = "catch"
  <2>1. r.class \in {CatchAll} \cup Class /\ CatchAll \notin Class
    BY <1>2 DEF Record, CatchAll, Class
  <2>2. PICK f : RowsFrom(r.class, f, 0) /\ (Matches(r.class) <=> r.class = CatchAll \/ f[0][thrown])
    BY MatchesBySearch
  <2>3. CASE r.class = CatchAll
    BY <1>2, <2>2, <2>3 DEF Catches
  <2>4. CASE r.class \in Class
    <3>1. 0 \in 0 .. MaxDepth + 1 /\ 0 + thrown <= MaxDepth + 2
      BY MatchingAssumption DEF Class
    <3>2. f[0][thrown] <=> thrown \in Derived(r.class)
      BY <2>2, <2>4, <3>1, DeepEnough
    <3> QED BY <1>2, <2>1, <2>2, <2>4, <3>2 DEF Catches
  <2> QED BY <2>1, <2>3, <2>4
<1> QED BY <1>1, <1>2

-----------------------------------------------------------------------------
(* The loop over the records.                                                  *)

MatchTypeOK ==
    /\ Hierarchy /\ thrown \in Class /\ wantHandler \in BOOLEAN
    /\ records \in Seq(Record) /\ Len(records) <= MaxRecords
    /\ sawCleanup \in BOOLEAN

\* guard records were looked at, and the others are left.
Leaves ==
    /\ left \in Seq(Record) /\ guard \in 0 .. Len(records) /\ Len(left) = Len(records) - guard
    /\ \A i \in 1..Len(left) : left[i] = records[guard + i]

\* None of those looked at takes the exception; whether one was a cleanup is kept.
LookedAt ==
    result = Pending =>
        /\ \A i \in 1..guard : thrown \notin Catches(records[i])
        /\ sawCleanup <=> \E i \in 1..guard : records[i].kind = "cleanup"

MatchInv == MatchTypeOK /\ Leaves /\ LookedAt /\ LookupIsTheSite

\* The lookup starts with every record left.
LEMMA MatchInitInv ==
    ASSUME MatchInit
    PROVE  MatchInv
<1>1. Classes \in Nat /\ Chain \in Nat /\ MaxRecords \in Nat /\ Chain <= MaxRecords
  BY MatchingAssumption
<1>2. Hierarchy
  <2> SUFFICES ASSUME NEW c \in Class
               PROVE  /\ Len(bases[c]) \in Nat /\ Len(bases[c]) <= MaxBases
                      /\ \A i \in 1..Len(bases[c]) :
                            bases[c][i].class \in Class /\ bases[c][i].class < c
    BY DEF Hierarchy
  <2>1. bases[c] \in BasesOf(c)
    BY DEF MatchInit
  <2>2. PICK n \in 0..Width : bases[c] \in [1..n -> {b \in Base : b.class < c}]
    BY <2>1 DEF BasesOf
  <2>3. Len(bases[c]) = n /\ n \in Nat /\ n <= MaxBases
    BY <2>2, MatchingAssumption
  <2>4. \A i \in 1..n : bases[c][i] \in Base /\ bases[c][i].class < c
    BY <2>2
  <2> QED BY <2>3, <2>4 DEF Base
<1>3. records \in Seq(Record) /\ Len(records) <= MaxRecords
  <2>1. PICK n \in 0..Chain : records \in [1..n -> Record]
    BY DEF MatchInit
  <2> QED BY <1>1, <2>1
<1>4. thrown \in Class /\ wantHandler \in BOOLEAN /\ left = records /\ guard = 0 /\ sawCleanup = FALSE
      /\ result = Pending
  BY DEF MatchInit
<1>5. MatchTypeOK
  <2>1. sawCleanup \in BOOLEAN
    BY <1>4
  <2> QED BY <1>2, <1>3, <1>4, <2>1 DEF MatchTypeOK
<1>6. Leaves
  BY <1>3, <1>4 DEF Leaves
<1>7. LookedAt
  BY <1>4 DEF LookedAt
<1>8. LookupIsTheSite
  BY <1>4 DEF LookupIsTheSite
<1> QED BY <1>5, <1>6, <1>7, <1>8 DEF MatchInv

\* The classes of a site do not change.
LEMMA SiteStays ==
    ASSUME UNCHANGED <<bases, records, thrown, wantHandler>>
    PROVE  /\ bases' = bases /\ records' = records /\ thrown' = thrown /\ wantHandler' = wantHandler
           /\ Hierarchy' <=> Hierarchy
           /\ \A r : Catches(r)' = Catches(r)
<1>1. bases' = bases /\ records' = records /\ thrown' = thrown /\ wantHandler' = wantHandler
  OBVIOUS
<1>2. \A cs : Closed(cs)' <=> Closed(cs)
  BY <1>1 DEF Closed
<1>3. \A c : Derived(c)' = Derived(c)
  BY <1>2 DEF Derived
<1>4. \A r : Catches(r)' = Catches(r)
  BY <1>3 DEF Catches
<1> QED BY <1>1, <1>4 DEF Hierarchy

\* A record is looked at.
LEMMA LookAtKeeps ==
    ASSUME MatchInv, LookAt
    PROVE  MatchInv'
<1>1. /\ result = Pending /\ left # <<>> /\ guard' = guard + 1 /\ left' = Tail(left)
      /\ sawCleanup' = (sawCleanup \/ Head(left).kind = "cleanup")
      /\ UNCHANGED <<bases, records, thrown, wantHandler>>
  BY DEF LookAt
<1>2. /\ Hierarchy /\ thrown \in Class /\ wantHandler \in BOOLEAN
      /\ records \in Seq(Record) /\ Len(records) \in Nat /\ Len(records) <= MaxRecords
      /\ left \in Seq(Record) /\ Len(left) \in Nat /\ guard \in 0 .. Len(records)
      /\ Len(left) = Len(records) - guard
      /\ \A i \in 1..Len(left) : left[i] = records[guard + i]
  BY DEF MatchInv, MatchTypeOK, Leaves
<1>3. PICK n \in 1..Len(records) : n = guard + 1 /\ Head(left) = records[n] /\ n = Current
  <2>1. Len(left) # 0
    BY <1>1, <1>2
  <2>2. guard + 1 \in 1..Len(records) /\ Head(left) = left[1] /\ 1 \in 1..Len(left)
    BY <1>1, <1>2, <2>1
  <2>3. guard + 1 = Current
    BY <1>2 DEF Current
  <2> QED BY <1>2, <2>2, <2>3
<1>4. PICK r \in Record : r = records[n]
  BY <1>2
<1>5. result' = IF thrown \in Catches(r) THEN [found |-> "catch", record |-> n] ELSE Pending
  <2>1. result' = IF r.kind = "catch" /\ Matches(r.class) THEN [found |-> "catch", record |-> n] ELSE Pending
    BY <1>3, <1>4 DEF LookAt
  <2> QED BY <1>2, <2>1, MatchesIsDerived
<1>6. MatchTypeOK'
  BY <1>1, <1>2, SiteStays DEF MatchInv, MatchTypeOK
<1>7. Leaves'
  <2>1. /\ left' \in Seq(Record) /\ Len(left') = Len(left) - 1
        /\ \A i \in 1..Len(left') : left'[i] = left[i + 1] /\ i + 1 \in 1..Len(left)
    <3>1. Len(Tail(left)) = Len(left) - 1 /\ Tail(left) \in Seq(Record)
          /\ \A i \in 1..Len(left) - 1 : Tail(left)[i] = left[i + 1]
      BY <1>1, <1>2
    <3> QED BY <1>1, <1>2, <3>1
  <2>2. records' = records /\ guard' \in 0..Len(records) /\ Len(left') = Len(records) - guard'
    BY <1>1, <1>2, <1>3, <2>1
  <2>3. ASSUME NEW i \in 1..Len(left') PROVE left'[i] = records[guard' + i]
    <3>1. left'[i] = records[guard + (i + 1)]
      BY <1>2, <2>1
    <3>2. guard + (i + 1) = guard' + i
      BY <1>1, <1>2, <2>1
    <3> QED BY <3>1, <3>2
  <2> QED BY <2>1, <2>2, <2>3 DEF Leaves
<1>8. \A i \in 1..guard' : i \in 1..guard \/ i = n
  BY <1>1, <1>2, <1>3
<1>9. /\ \A i \in 1..guard : thrown \notin Catches(records[i])
      /\ sawCleanup <=> \E i \in 1..guard : records[i].kind = "cleanup"
  BY <1>1 DEF MatchInv, LookedAt
<1>10. sawCleanup' <=> \E i \in 1..guard' : records[i].kind = "cleanup"
  <2>1. sawCleanup' <=> sawCleanup \/ records[n].kind = "cleanup"
    BY <1>1, <1>3
  <2>2. n \in 1..guard' /\ \A i \in 1..guard : i \in 1..guard'
    BY <1>1, <1>2, <1>3
  <2> QED BY <1>8, <1>9, <2>1, <2>2
<1>11. CASE thrown \in Catches(r)
  <2>1. result' = [found |-> "catch", record |-> n]
    BY <1>5, <1>11
  <2>2. result' # Pending
    BY <2>1 DEF Pending
  <2>3. PICK takes : takes = {i \in 1..Len(records) : thrown \in Catches(records[i])}
    OBVIOUS
  <2>4. n \in takes
    BY <1>4, <1>11, <2>3
  <2>5. ASSUME NEW i \in takes PROVE n <= i
    <3>1. i \in 1..Len(records) /\ i \notin 1..guard
      BY <1>9, <2>3
    <3> QED BY <1>2, <1>3, <3>1
  <2>6. takes = {i \in 1..Len(records) : thrown \in Catches(records[i])}'
    BY <1>1, <2>3, SiteStays
  <2>7. LookupIsTheSite'
    BY <2>1, <2>4, <2>5, <2>6 DEF LookupIsTheSite
  <2>8. LookedAt'
    BY <2>2 DEF LookedAt
  <2> QED BY <1>6, <1>7, <2>7, <2>8 DEF MatchInv
<1>12. CASE thrown \notin Catches(r)
  <2>1. result' = Pending
    BY <1>5, <1>12
  <2>2. \A i \in 1..guard' : thrown \notin Catches(records[i])
    BY <1>4, <1>8, <1>9, <1>12
  <2>3. LookedAt'
    BY <1>1, <1>10, <2>2, SiteStays DEF LookedAt
  <2>4. LookupIsTheSite'
    BY <2>1 DEF LookupIsTheSite
  <2> QED BY <1>6, <1>7, <2>3, <2>4 DEF MatchInv
<1> QED BY <1>11, <1>12

\* Every record was looked at, or there are none.
LEMMA LookupEndsKeeps ==
    ASSUME MatchInv, PureCleanup \/ ChainEnds
    PROVE  MatchInv'
<1>1. /\ result = Pending /\ UNCHANGED <<bases, records, thrown, wantHandler>>
      /\ left' = left /\ guard' = guard /\ sawCleanup' = sawCleanup
  BY DEF PureCleanup, ChainEnds
<1>2. /\ records \in Seq(Record) /\ Len(records) \in Nat /\ Len(records) <= MaxRecords /\ MaxRecords \in Nat
      /\ left \in Seq(Record) /\ Len(left) \in Nat /\ guard \in 0 .. Len(records)
      /\ Len(left) = Len(records) - guard /\ wantHandler \in BOOLEAN
  BY MatchingAssumption DEF MatchInv, MatchTypeOK, Leaves
<1>3. guard = Len(records)
  <2>1. CASE PureCleanup
    BY <1>2, <2>1 DEF PureCleanup
  <2>2. CASE ChainEnds
    <3>1. left = <<>> => Len(left) = 0
      OBVIOUS
    <3> QED BY <1>2, <2>2, <3>1 DEF ChainEnds
  <2> QED BY <2>1, <2>2
<1>4. PICK takes : takes = {i \in 1..Len(records) : thrown \in Catches(records[i])}
  OBVIOUS
<1>5. takes = {} /\ (sawCleanup <=> \E i \in 1..Len(records) : records[i].kind = "cleanup")
  BY <1>1, <1>3, <1>4 DEF MatchInv, LookedAt
<1>6. PICK cleanup \in BOOLEAN :
          cleanup <=> records = <<>> \/ \E i \in 1..Len(records) : records[i].kind = "cleanup"
  OBVIOUS
<1>7. result' = IF cleanup /\ ~wantHandler THEN [found |-> "cleanup", record |-> 0] ELSE Nothing
  <2>1. CASE PureCleanup
    BY <1>6, <2>1 DEF PureCleanup
  <2>2. CASE ChainEnds
    BY <1>5, <1>6, <2>2 DEF ChainEnds
  <2> QED BY <2>1, <2>2
<1>8. result' # Pending /\ result'.found = IF cleanup /\ ~wantHandler THEN "cleanup" ELSE "none"
  BY <1>7 DEF Pending, Nothing
<1>9. takes = {i \in 1..Len(records) : thrown \in Catches(records[i])}'
  BY <1>1, <1>4, SiteStays
<1>10. LookupIsTheSite'
  <2>1. records' = records /\ wantHandler' = wantHandler
    BY <1>1
  <2> QED BY <1>5, <1>6, <1>8, <1>9, <2>1 DEF LookupIsTheSite
<1>11. MatchTypeOK' /\ Leaves' /\ LookedAt'
  BY <1>1, <1>8, SiteStays DEF MatchInv, MatchTypeOK, Leaves, LookedAt
<1> QED BY <1>10, <1>11 DEF MatchInv

\* LookupIsTheSite: whatever the hierarchy of classes, of which there are at most two
\* more than the search is deep, and whatever the chain of records, if it is no longer
\* than the loop, lsda_lookup gives the first record that takes the exception by public
\* inheritance, else the cleanup if the walk runs cleanups, else nothing.
THEOREM LookupIsRight == MatchSpec => []LookupIsTheSite
<1>1. ASSUME MatchInv, [MatchNext]_matchVars PROVE MatchInv'
  <2>1. CASE UNCHANGED matchVars
    <3>1. /\ UNCHANGED <<bases, records, thrown, wantHandler>>
          /\ left' = left /\ guard' = guard /\ sawCleanup' = sawCleanup /\ result' = result
      BY <2>1 DEF matchVars
    <3>2. \A r : Catches(r)' = Catches(r)
      BY <3>1, SiteStays
    <3>3. LookupIsTheSite' <=> LookupIsTheSite
      BY <3>1, <3>2 DEF LookupIsTheSite
    <3>4. LookedAt' <=> LookedAt
      BY <3>1, <3>2 DEF LookedAt
    <3> QED BY <1>1, <3>1, <3>3, <3>4, SiteStays DEF MatchInv, MatchTypeOK, Leaves
  <2>2. CASE LookAt
    BY <1>1, <2>2, LookAtKeeps
  <2>3. CASE PureCleanup \/ ChainEnds
    BY <1>1, <2>3, LookupEndsKeeps
  <2> QED BY <1>1, <2>1, <2>2, <2>3 DEF MatchNext, Decided
<1>2. MatchSpec => []MatchInv
  BY <1>1, MatchInitInv, PTL DEF MatchSpec
<1>3. MatchInv => LookupIsTheSite
  BY DEF MatchInv
<1> QED BY <1>2, <1>3, PTL

-----------------------------------------------------------------------------
(* Arguments: where the caller puts them.  f[n] is what is where after the      *)
(* first n of the arguments cs.                                                *)

PlacesTo(cs, f, n) ==
    f = [i \in 0..n |-> IF i = 0 THEN NonePlaced ELSE Put(f[i - 1], cs[i], i)]

Places(cs, f) == PlacesTo(cs, f, Len(cs))

\* One argument after another finds its place.
LEMMA PlacesExist ==
    ASSUME NEW cs, NEW n \in Nat
    PROVE  \E f : PlacesTo(cs, f, n)
<1> DEFINE T == {k \in Nat : ~ \E f : PlacesTo(cs, f, k)}
<1>1. ASSUME T # {} PROVE FALSE
  <2>1. PICK m \in T : \A k \in T : m <= k
    <3>1. T \in SUBSET Nat
      OBVIOUS
    <3> HIDE DEF T
    <3> QED BY <1>1, <3>1, LeastNumber
  <2>2. m \in Nat /\ ~ \E f : PlacesTo(cs, f, m)
    BY <2>1
  <2>3. CASE m = 0
    <3> DEFINE f == [i \in 0..0 |-> NonePlaced]
    <3>1. f = [i \in 0..0 |-> IF i = 0 THEN NonePlaced ELSE Put(f[i - 1], cs[i], i)]
      <4>1. \A i \in 0..0 : i = 0
        OBVIOUS
      <4> QED BY <4>1
    <3>2. PlacesTo(cs, f, 0)
      BY <3>1 DEF PlacesTo
    <3> QED BY <2>2, <2>3, <3>2
  <2>4. CASE m # 0
    <3>1. m - 1 \in Nat /\ ~(m <= m - 1)
      BY <2>2, <2>4
    <3>2. m - 1 \notin T
      BY <2>1, <3>1
    <3>3. PICK f : PlacesTo(cs, f, m - 1)
      BY <3>1, <3>2
    <3> HIDE DEF T
    <3> DEFINE x == Put(f[m - 1], cs[m], m)
    <3> HIDE DEF x
    <3> DEFINE g == [i \in 0..m |-> IF i = m THEN x ELSE f[i]]
    <3>4. /\ g = [i \in 0..m |-> g[i]] /\ g[m] = x
          /\ \A i \in 0..m - 1 : g[i] = f[i]
      BY <2>2
    <3> HIDE DEF g
    <3>5. \A i \in 0..m - 1 : f[i] = IF i = 0 THEN NonePlaced ELSE Put(f[i - 1], cs[i], i)
      BY <3>3 DEF PlacesTo
    <3>6. ASSUME NEW i \in 0..m
          PROVE  g[i] = IF i = 0 THEN NonePlaced ELSE Put(g[i - 1], cs[i], i)
      <4>1. i # 0 => g[i - 1] = f[i - 1]
        <5>1. i # 0 => i - 1 \in 0..m - 1
          BY <2>2
        <5> QED BY <3>4, <5>1
      <4>2. CASE i = m
        BY <2>4, <3>4, <4>1, <4>2 DEF x
      <4>3. CASE i # m
        <5>1. i \in 0..m - 1
          BY <2>2, <4>3
        <5> QED BY <3>4, <3>5, <4>1, <5>1
      <4> QED BY <4>2, <4>3
    <3>7. PlacesTo(cs, g, m)
      BY <3>4, <3>6 DEF PlacesTo
    <3> QED BY <2>2, <3>7
  <2> QED BY <2>3, <2>4
<1> QED BY <1>1

\* Placed is where all of them are.
LEMMA PlacedIsLast ==
    ASSUME args \in Seq(ArgClass)
    PROVE  \E f : Places(args, f) /\ Placed = f[Len(args)]
<1> DEFINE U(f) == f = [n \in 0..Len(args) |->
                          IF n = 0 THEN NonePlaced ELSE Put(f[n - 1], args[n], n)]
           g == CHOOSE f : U(f)
<1>1. Len(args) \in Nat
  OBVIOUS
<1>2. PICK f : PlacesTo(args, f, Len(args))
  BY <1>1, PlacesExist
<1>3. U(f)
  BY <1>2 DEF PlacesTo
<1>4. U(g)
  BY <1>3
<1>5. Placed = g[Len(args)]
  BY DEF Placed
<1> HIDE DEF g
<1>6. Places(args, g)
  BY <1>4 DEF Places, PlacesTo
<1> QED BY <1>5, <1>6

\* A half of an argument.
Half == Nat \X {"low", "high"}

PlaceTypeOK(p) ==
    /\ p \in [x : Seq(Half), q : Seq(Nat), stack : Seq(Half)]
    /\ Len(p.x) <= GpRegs /\ Len(p.q) <= FpRegs

\* t begins with s.
Begins(s, t) == Len(s) <= Len(t) /\ \A j \in 1..Len(s) : t[j] = s[j]

\* What there is stays where it is.
Keeps(p, r) == Begins(p.x, r.x) /\ Begins(p.q, r.q) /\ Begins(p.stack, r.stack)

LEMMA KeepsOn ==
    ASSUME NEW p, NEW r, NEW t, PlaceTypeOK(p), PlaceTypeOK(r), PlaceTypeOK(t), Keeps(p, r), Keeps(r, t)
    PROVE  Keeps(p, t)
<1>1. /\ Len(p.x) \in Nat /\ Len(r.x) \in Nat /\ Len(t.x) \in Nat
      /\ Len(p.q) \in Nat /\ Len(r.q) \in Nat /\ Len(t.q) \in Nat
      /\ Len(p.stack) \in Nat /\ Len(r.stack) \in Nat /\ Len(t.stack) \in Nat
  BY DEF PlaceTypeOK
<1>2. Begins(p.x, t.x)
  BY <1>1 DEF Keeps, Begins
<1>3. Begins(p.q, t.q)
  BY <1>1 DEF Keeps, Begins
<1>4. Begins(p.stack, t.stack)
  BY <1>1 DEF Keeps, Begins
<1> QED BY <1>2, <1>3, <1>4 DEF Keeps

\* A long double begins at an even word.
LEMMA EvenRounds ==
    ASSUME NEW s \in Seq(Half)
    PROVE  /\ Even(s) \in Seq(Half) /\ Len(Even(s)) = Aligned(Len(s))
           /\ \A j \in 1..Len(s) : Even(s)[j] = s[j]
<1>1. Stale \in Half
  BY DEF Stale, Low, Half
<1>2. Len(s) \in Nat
  OBVIOUS
<1>3. Len(s) % 2 = 0 \/ Len(s) % 2 = 1
  BY <1>2
<1>4. CASE Len(s) % 2 = 0
  BY <1>2, <1>4 DEF Even, Aligned
<1>5. CASE Len(s) % 2 = 1
  <2>1. Even(s) = Append(s, Stale)
    BY <1>5 DEF Even
  <2> QED BY <1>1, <1>2, <1>5, <2>1 DEF Aligned
<1> QED BY <1>3, <1>4, <1>5

\* Putting an argument somewhere, by kind of place.
LEMMA PutPlaces ==
    ASSUME NEW p, PlaceTypeOK(p), NEW c \in ArgClass, NEW i \in Nat
    PROVE  /\ PlaceTypeOK(Put(p, c, i)) /\ Keeps(p, Put(p, c, i))
           /\ c = "gp" /\ Len(p.x) < GpRegs =>
                 Put(p, c, i) = [x |-> Append(p.x, Low(i)), q |-> p.q, stack |-> p.stack]
           /\ c # "gp" /\ Len(p.q) < FpRegs =>
                 Put(p, c, i) = [x |-> p.x, q |-> Append(p.q, i), stack |-> p.stack]
           /\ c = "ld" /\ ~(Len(p.q) < FpRegs) =>
                 Put(p, c, i) = [x |-> p.x, q |-> p.q, stack |-> Even(p.stack) \o <<Low(i), High(i)>>]
           /\ (c = "gp" /\ ~(Len(p.x) < GpRegs)) \/ (c = "fp" /\ ~(Len(p.q) < FpRegs)) =>
                 Put(p, c, i) = [x |-> p.x, q |-> p.q, stack |-> Append(p.stack, Low(i))]
<1>1. GpRegs \in Nat /\ FpRegs \in Nat
  BY ArgumentsAssumption
<1>2. PICK x \in Seq(Half), q \in Seq(Nat), st \in Seq(Half) : p = [x |-> x, q |-> q, stack |-> st]
  BY DEF PlaceTypeOK
<1>3. /\ p.x = x /\ p.q = q /\ p.stack = st
      /\ Len(x) \in Nat /\ Len(q) \in Nat /\ Len(st) \in Nat
      /\ Len(x) <= GpRegs /\ Len(q) <= FpRegs
  BY <1>2 DEF PlaceTypeOK
<1>4. Low(i) \in Half /\ High(i) \in Half
  BY DEF Low, High, Half
<1>5. c \in {"gp", "fp", "ld"}
  BY DEF ArgClass
<1>6. CASE c = "gp" /\ Len(x) < GpRegs
  <2>1. Put(p, c, i) = [p EXCEPT !.x = Append(x, Low(i))]
    BY <1>3, <1>6 DEF Put
  <2>2. PICK y : y = Append(x, Low(i))
    OBVIOUS
  <2>3. Put(p, c, i) = [x |-> y, q |-> q, stack |-> st]
    BY <1>2, <2>1, <2>2
  <2>4. y \in Seq(Half) /\ Len(y) = Len(x) + 1 /\ \A j \in 1..Len(x) : y[j] = x[j]
    BY <1>3, <1>4, <2>2
  <2>5. PlaceTypeOK(Put(p, c, i))
    BY <1>1, <1>3, <1>6, <2>3, <2>4 DEF PlaceTypeOK
  <2>6. Keeps(p, Put(p, c, i))
    BY <1>3, <2>3, <2>4 DEF Keeps, Begins
  <2> QED BY <1>3, <1>6, <2>2, <2>3, <2>5, <2>6
<1>7. CASE c # "gp" /\ Len(q) < FpRegs
  <2>1. Put(p, c, i) = [p EXCEPT !.q = Append(q, i)]
    BY <1>3, <1>7 DEF Put
  <2>2. PICK y : y = Append(q, i)
    OBVIOUS
  <2>3. Put(p, c, i) = [x |-> x, q |-> y, stack |-> st]
    BY <1>2, <2>1, <2>2
  <2>4. y \in Seq(Nat) /\ Len(y) = Len(q) + 1 /\ \A j \in 1..Len(q) : y[j] = q[j]
    BY <1>3, <2>2
  <2>5. PlaceTypeOK(Put(p, c, i))
    BY <1>1, <1>3, <1>7, <2>3, <2>4 DEF PlaceTypeOK
  <2>6. Keeps(p, Put(p, c, i))
    BY <1>3, <2>3, <2>4 DEF Keeps, Begins
  <2> QED BY <1>3, <1>7, <2>2, <2>3, <2>5, <2>6
<1>8. CASE c = "ld" /\ ~(Len(q) < FpRegs)
  <2>1. Len(q) = FpRegs
    BY <1>1, <1>3, <1>8
  <2>2. Put(p, c, i) = [p EXCEPT !.stack = Even(st) \o <<Low(i), High(i)>>]
    BY <1>3, <1>8, <2>1 DEF Put
  <2>3. PICK y : y = Even(st) \o <<Low(i), High(i)>>
    OBVIOUS
  <2>4. Put(p, c, i) = [x |-> x, q |-> q, stack |-> y]
    BY <1>2, <2>2, <2>3
  <2>5. y \in Seq(Half) /\ Len(st) <= Len(y) /\ \A j \in 1..Len(st) : y[j] = st[j]
    <3>1. /\ Even(st) \in Seq(Half) /\ Len(Even(st)) = Aligned(Len(st))
          /\ \A j \in 1..Len(st) : Even(st)[j] = st[j]
      BY EvenRounds
    <3>2. Aligned(Len(st)) \in Nat /\ Len(st) <= Aligned(Len(st))
      BY <1>3 DEF Aligned
    <3>3. PICK ev \in Seq(Half) : ev = Even(st)
      BY <3>1
    <3>4. <<Low(i), High(i)>> \in Seq(Half)
      BY <1>4
    <3>5. /\ Len(y) = Len(ev) + 2 /\ y \in Seq(Half)
          /\ \A j \in 1..Len(ev) : y[j] = ev[j]
      BY <2>3, <3>3, <3>4
    <3>6. Len(ev) = Aligned(Len(st)) /\ \A j \in 1..Len(st) : ev[j] = st[j] /\ j \in 1..Len(ev)
      BY <1>3, <3>1, <3>2, <3>3
    <3> QED BY <1>3, <3>2, <3>5, <3>6
  <2>6. PlaceTypeOK(Put(p, c, i))
    BY <1>3, <2>4, <2>5 DEF PlaceTypeOK
  <2>7. Keeps(p, Put(p, c, i))
    BY <1>3, <2>4, <2>5 DEF Keeps, Begins
  <2> QED BY <1>3, <1>8, <2>3, <2>4, <2>6, <2>7
<1>9. CASE (c = "gp" /\ ~(Len(x) < GpRegs)) \/ (c = "fp" /\ ~(Len(q) < FpRegs))
  <2>1. Put(p, c, i) = [p EXCEPT !.stack = Append(st, Low(i))]
    BY <1>3, <1>9 DEF Put
  <2>2. PICK y : y = Append(st, Low(i))
    OBVIOUS
  <2>3. Put(p, c, i) = [x |-> x, q |-> q, stack |-> y]
    BY <1>2, <2>1, <2>2
  <2>4. y \in Seq(Half) /\ Len(y) = Len(st) + 1 /\ \A j \in 1..Len(st) : y[j] = st[j]
    BY <1>3, <1>4, <2>2
  <2>5. PlaceTypeOK(Put(p, c, i))
    BY <1>3, <2>3, <2>4 DEF PlaceTypeOK
  <2>6. Keeps(p, Put(p, c, i))
    BY <1>3, <2>3, <2>4 DEF Keeps, Begins
  <2> QED BY <1>3, <1>9, <2>2, <2>3, <2>5, <2>6
<1> QED BY <1>3, <1>5, <1>6, <1>7, <1>8, <1>9

\* The places are what they should be at every argument;
LEMMA PlacesOK ==
    ASSUME NEW cs \in Seq(ArgClass), NEW f, Places(cs, f)
    PROVE  /\ f[0] = NonePlaced
           /\ \A n \in 1..Len(cs) : f[n] = Put(f[n - 1], cs[n], n)
           /\ \A n \in 0..Len(cs) : PlaceTypeOK(f[n])
<1>1. /\ f[0] = NonePlaced
      /\ \A n \in 1..Len(cs) : f[n] = Put(f[n - 1], cs[n], n)
  BY DEF Places, PlacesTo
<1> DEFINE T == {k \in 0..Len(cs) : ~PlaceTypeOK(f[k])}
<1>2. ASSUME T # {} PROVE FALSE
  <2>1. PICK m \in T : \A k \in T : m <= k
    <3>1. T \in SUBSET Nat
      OBVIOUS
    <3> HIDE DEF T
    <3> QED BY <1>2, <3>1, LeastNumber
  <2>2. m \in 0..Len(cs) /\ ~PlaceTypeOK(f[m])
    BY <2>1
  <2>3. CASE m = 0
    <3>1. PlaceTypeOK(NonePlaced)
      BY ArgumentsAssumption DEF PlaceTypeOK, NonePlaced
    <3> QED BY <1>1, <2>2, <2>3, <3>1
  <2>4. CASE m # 0
    <3>1. m - 1 \in 0..Len(cs) /\ ~(m <= m - 1) /\ m \in 1..Len(cs) /\ m \in Nat
      BY <2>2, <2>4
    <3>2. m - 1 \notin T
      BY <2>1, <3>1
    <3>3. PlaceTypeOK(f[m - 1])
      BY <3>1, <3>2
    <3>4. cs[m] \in ArgClass
      BY <3>1
    <3> HIDE DEF T
    <3> QED BY <1>1, <2>2, <3>1, <3>3, <3>4, PutPlaces
  <2> QED BY <2>3, <2>4
<1> QED BY <1>1, <1>2

\* and what is placed once stays where it is.
LEMMA PlacesKeep ==
    ASSUME NEW cs \in Seq(ArgClass), NEW f, Places(cs, f), NEW n \in 0..Len(cs)
    PROVE  Keeps(f[n], f[Len(cs)])
<1> DEFINE T == {k \in Nat : k <= Len(cs) /\ k >= n /\ ~Keeps(f[n], f[k])}
<1>1. Len(cs) \in Nat
  OBVIOUS
<1>2. ASSUME T # {} PROVE FALSE
  <2>1. PICK m \in T : \A k \in T : m <= k
    <3>1. T \in SUBSET Nat
      OBVIOUS
    <3> HIDE DEF T
    <3> QED BY <1>2, <3>1, LeastNumber
  <2>2. m \in Nat /\ m <= Len(cs) /\ m >= n /\ ~Keeps(f[n], f[m])
    BY <2>1
  <2>3. m # n
    <3>1. Keeps(f[n], f[n])
      <4>1. PlaceTypeOK(f[n])
        BY PlacesOK
      <4> QED BY <4>1 DEF PlaceTypeOK, Keeps, Begins
    <3> QED BY <2>2, <3>1
  <2>4. m - 1 \in Nat /\ m - 1 <= Len(cs) /\ m - 1 >= n /\ ~(m <= m - 1) /\ m \in 1..Len(cs)
    BY <1>1, <2>2, <2>3
  <2>5. m - 1 \notin T
    BY <2>1, <2>4
  <2>6. Keeps(f[n], f[m - 1])
    BY <2>4, <2>5
  <2> HIDE DEF T
  <2>7. Keeps(f[m - 1], f[m])
    <3>1. PlaceTypeOK(f[m - 1]) /\ f[m] = Put(f[m - 1], cs[m], m)
      BY <1>1, <2>4, PlacesOK
    <3>2. cs[m] \in ArgClass
      BY <2>4
    <3> QED BY <2>2, <3>1, <3>2, PutPlaces
  <2>8. PlaceTypeOK(f[n]) /\ PlaceTypeOK(f[m - 1]) /\ PlaceTypeOK(f[m])
    BY <1>1, <2>4, PlacesOK
  <2>9. Keeps(f[n], f[m])
    BY <2>6, <2>7, <2>8, KeepsOn
  <2> QED BY <2>2, <2>9
<1>3. Len(cs) \notin T
  BY <1>2
<1> QED BY <1>1, <1>3

-----------------------------------------------------------------------------
(* Reading: a position that has the first i - 1 of the arguments cs behind it.  *)

At(pos, p) == pos = [gp |-> Len(p.x), fp |-> Len(p.q), stack |-> Len(p.stack)]

ReadsNext(cs, pos, i) ==
    /\ i \in 1..Len(cs) + 1
    /\ \A f : Places(cs, f) => At(pos, f[i - 1])

\* What is kept is read as it was.
LEMMA NthKept ==
    ASSUME NEW s, NEW t, Len(s) \in Nat, Len(t) \in Nat, Begins(s, t), NEW n \in Nat, n < Len(s)
    PROVE  Nth(t, n) = s[n + 1]
BY DEF Begins, Nth

\* At the place of an argument it is what is fetched, in whichever order others follow,
LEMMA FetchedIsThere ==
    ASSUME NEW p, PlaceTypeOK(p), NEW c \in ArgClass, NEW i \in Nat, NEW pos, At(pos, p),
           PlaceTypeOK(Placed), Keeps(Put(p, c, i), Placed)
    PROVE  Fetched(pos, c) = IF c = "ld" THEN <<Low(i), High(i)>> ELSE <<Low(i)>>
<1>1. PICK x \in Seq(Half), q \in Seq(Nat), st \in Seq(Half) : p = [x |-> x, q |-> q, stack |-> st]
  BY DEF PlaceTypeOK
<1>2. /\ p.x = x /\ p.q = q /\ p.stack = st
      /\ pos.gp = Len(x) /\ pos.fp = Len(q) /\ pos.stack = Len(st)
      /\ Len(x) \in Nat /\ Len(q) \in Nat /\ Len(st) \in Nat
      /\ Len(x) <= GpRegs /\ Len(q) <= FpRegs /\ GpRegs \in Nat /\ FpRegs \in Nat
  BY <1>1, ArgumentsAssumption DEF At, PlaceTypeOK
<1>3. PICK X \in Seq(Half), Q \in Seq(Nat), S \in Seq(Half) : Placed = [x |-> X, q |-> Q, stack |-> S]
  BY DEF PlaceTypeOK
<1>4. /\ Placed.x = X /\ Placed.q = Q /\ Placed.stack = S
      /\ Len(X) \in Nat /\ Len(Q) \in Nat /\ Len(S) \in Nat
  BY <1>3
<1>5. PICK r : r = Put(p, c, i)
  OBVIOUS
<1>6. Begins(r.x, X) /\ Begins(r.q, Q) /\ Begins(r.stack, S)
  BY <1>4, <1>5 DEF Keeps
<1>7. CASE c = "gp" /\ Len(x) < GpRegs
  <2>0. r = [x |-> Append(x, Low(i)), q |-> q, stack |-> st]
    BY <1>2, <1>5, <1>7, PutPlaces
  <2>1. r.x = Append(x, Low(i))
    BY <2>0
  <2>2. Len(r.x) = Len(x) + 1 /\ r.x[Len(x) + 1] = Low(i)
    BY <1>2, <2>1
  <2>3. Nth(X, Len(x)) = Low(i)
    <3>1. PICK n \in Nat : n = Len(x)
      BY <1>2
    <3>2. n < Len(r.x) /\ Len(r.x) \in Nat
      BY <2>2, <3>1
    <3>3. Nth(X, n) = r.x[n + 1]
      BY <1>4, <1>6, <3>2, NthKept
    <3> QED BY <2>2, <3>1, <3>3
  <2> QED BY <1>2, <1>4, <1>7, <2>3 DEF Fetched, InRegister
<1>8. CASE c # "gp" /\ Len(q) < FpRegs
  <2>0. r = [x |-> x, q |-> Append(q, i), stack |-> st]
    BY <1>2, <1>5, <1>8, PutPlaces
  <2>1. r.q = Append(q, i)
    BY <2>0
  <2>2. Len(r.q) = Len(q) + 1 /\ r.q[Len(q) + 1] = i
    BY <1>2, <2>1
  <2>3. Nth(Q, Len(q)) = i
    <3>1. PICK n \in Nat : n = Len(q)
      BY <1>2
    <3>2. n < Len(r.q) /\ Len(r.q) \in Nat
      BY <2>2, <3>1
    <3>3. Nth(Q, n) = r.q[n + 1]
      BY <1>4, <1>6, <3>2, NthKept
    <3> QED BY <2>2, <3>1, <3>3
  <2>4. CASE c = "ld"
    BY <1>2, <1>4, <1>8, <2>3, <2>4 DEF Fetched, InRegister
  <2>5. CASE c = "fp"
    BY <1>2, <1>4, <1>8, <2>3, <2>5 DEF Fetched, InRegister
  <2> QED BY <1>8, <2>4, <2>5 DEF ArgClass
<1>9. CASE c = "ld" /\ ~(Len(q) < FpRegs)
  <2>0. r = [x |-> x, q |-> q, stack |-> Even(st) \o <<Low(i), High(i)>>]
    BY <1>2, <1>5, <1>9, PutPlaces
  <2>1. r.stack = Even(st) \o <<Low(i), High(i)>>
    BY <2>0
  <2>2. PICK a \in Nat : a = Aligned(Len(st))
    BY <1>2 DEF Aligned
  <2>3. Len(r.stack) = a + 2 /\ r.stack[a + 1] = Low(i) /\ r.stack[a + 2] = High(i)
    <3>1. PICK ev \in Seq(Half) : ev = Even(st) /\ Len(ev) = a
      BY <2>2, EvenRounds
    <3> QED BY <2>1, <3>1
  <2>4. Nth(S, a) = Low(i) /\ Nth(S, a + 1) = High(i)
    <3>0. a + 2 \in Nat /\ a < a + 2 /\ a + 1 < a + 2 /\ a + 1 \in Nat /\ (a + 1) + 1 = a + 2
      OBVIOUS
    <3>1. a < Len(r.stack) /\ a + 1 < Len(r.stack) /\ a + 1 \in Nat /\ Len(r.stack) \in Nat
          /\ (a + 1) + 1 = a + 2
      BY ONLY <2>3, <3>0
    <3>2. Nth(S, a) = r.stack[a + 1]
      BY <1>4, <1>6, <3>1, NthKept
    <3>3. Nth(S, a + 1) = r.stack[(a + 1) + 1]
      BY <1>4, <1>6, <3>1, NthKept
    <3> QED BY <2>3, <3>1, <3>2, <3>3
  <2> QED BY <1>2, <1>4, <1>9, <2>2, <2>4 DEF Fetched, InRegister
<1>10. CASE (c = "gp" /\ ~(Len(x) < GpRegs)) \/ (c = "fp" /\ ~(Len(q) < FpRegs))
  <2>0. r = [x |-> x, q |-> q, stack |-> Append(st, Low(i))]
    BY <1>2, <1>5, <1>10, PutPlaces
  <2>1. r.stack = Append(st, Low(i))
    BY <2>0
  <2>2. Len(r.stack) = Len(st) + 1 /\ r.stack[Len(st) + 1] = Low(i)
    BY <1>2, <2>1
  <2>3. Nth(S, Len(st)) = Low(i)
    <3>1. PICK n \in Nat : n = Len(st)
      BY <1>2
    <3>2. n < Len(r.stack) /\ Len(r.stack) \in Nat
      BY <2>2, <3>1
    <3>3. Nth(S, n) = r.stack[n + 1]
      BY <1>4, <1>6, <3>2, NthKept
    <3> QED BY <2>2, <3>1, <3>3
  <2> QED BY <1>2, <1>4, <1>10, <2>3 DEF Fetched, InRegister
<1> QED BY <1>7, <1>8, <1>9, <1>10 DEF ArgClass

\* and past it comes the place of the next.
LEMMA PastGoesOn ==
    ASSUME NEW p, PlaceTypeOK(p), NEW c \in ArgClass, NEW i \in Nat, NEW pos, At(pos, p)
    PROVE  At(Past(pos, c), Put(p, c, i))
<1>1. PICK x \in Seq(Half), q \in Seq(Nat), st \in Seq(Half) : p = [x |-> x, q |-> q, stack |-> st]
  BY DEF PlaceTypeOK
<1>2. /\ p.x = x /\ p.q = q /\ p.stack = st
      /\ pos = [gp |-> Len(x), fp |-> Len(q), stack |-> Len(st)]
      /\ Len(x) \in Nat /\ Len(q) \in Nat /\ Len(st) \in Nat
  BY <1>1 DEF At
<1>3. PICK r : r = Put(p, c, i)
  OBVIOUS
<1>4. CASE c = "gp" /\ Len(x) < GpRegs
  <2>1. r = [x |-> Append(x, Low(i)), q |-> q, stack |-> st]
    BY <1>2, <1>3, <1>4, PutPlaces
  <2>2. Len(Append(x, Low(i))) = Len(x) + 1
    BY <1>2
  <2>3. Past(pos, c) = [gp |-> Len(x) + 1, fp |-> Len(q), stack |-> Len(st)]
    BY <1>2, <1>4 DEF Past, InRegister
  <2> QED BY <1>3, <2>1, <2>2, <2>3 DEF At
<1>5. CASE c # "gp" /\ Len(q) < FpRegs
  <2>1. r = [x |-> x, q |-> Append(q, i), stack |-> st]
    BY <1>2, <1>3, <1>5, PutPlaces
  <2>2. Len(Append(q, i)) = Len(q) + 1
    BY <1>2
  <2>3. Past(pos, c) = [gp |-> Len(x), fp |-> Len(q) + 1, stack |-> Len(st)]
    BY <1>2, <1>5 DEF Past, InRegister
  <2> QED BY <1>3, <2>1, <2>2, <2>3 DEF At
<1>6. CASE c = "ld" /\ ~(Len(q) < FpRegs)
  <2>1. r = [x |-> x, q |-> q, stack |-> Even(st) \o <<Low(i), High(i)>>]
    BY <1>2, <1>3, <1>6, PutPlaces
  <2>2. Len(Even(st) \o <<Low(i), High(i)>>) = Aligned(Len(st)) + 2
    <3>1. PICK ev \in Seq(Half) : ev = Even(st) /\ Len(ev) = Aligned(Len(st))
      BY EvenRounds
    <3> QED BY <3>1
  <2>3. Past(pos, c) = [gp |-> Len(x), fp |-> Len(q), stack |-> Aligned(Len(st)) + 2]
    BY <1>2, <1>6 DEF Past, InRegister
  <2> QED BY <1>3, <2>1, <2>2, <2>3 DEF At
<1>7. CASE (c = "gp" /\ ~(Len(x) < GpRegs)) \/ (c = "fp" /\ ~(Len(q) < FpRegs))
  <2>1. r = [x |-> x, q |-> q, stack |-> Append(st, Low(i))]
    BY <1>2, <1>3, <1>7, PutPlaces
  <2>2. Len(Append(st, Low(i))) = Len(st) + 1
    BY <1>2
  <2>3. Past(pos, c) = [gp |-> Len(x), fp |-> Len(q), stack |-> Len(st) + 1]
    BY <1>2, <1>7 DEF Past, InRegister
  <2> QED BY <1>3, <2>1, <2>2, <2>3 DEF At
<1> QED BY <1>4, <1>5, <1>6, <1>7 DEF ArgClass

\* A reader that is at an argument gets it, and is at the next one after it.
LEMMA ReadsArgument ==
    ASSUME args \in Seq(ArgClass), NEW pos, NEW i \in 1..Len(args), ReadsNext(args, pos, i)
    PROVE  /\ Fetched(pos, args[i]) = Bytes(i)
           /\ ReadsNext(args, Past(pos, args[i]), i + 1)
<1>1. Len(args) \in Nat /\ args[i] \in ArgClass /\ i \in Nat /\ i - 1 \in 0..Len(args) /\ i \in 0..Len(args)
  OBVIOUS
<1>2. ASSUME NEW f, Places(args, f)
      PROVE  /\ PlaceTypeOK(f[i - 1]) /\ At(pos, f[i - 1])
             /\ f[i] = Put(f[i - 1], args[i], i)
  BY <1>1, <1>2, PlacesOK DEF ReadsNext
<1>3. PICK f : Places(args, f) /\ Placed = f[Len(args)]
  BY PlacedIsLast
<1>4. PlaceTypeOK(Placed) /\ Keeps(Put(f[i - 1], args[i], i), Placed)
  <2>1. Keeps(f[i], f[Len(args)])
    BY <1>1, <1>3, PlacesKeep
  <2>2. Len(args) \in 0..Len(args)
    BY <1>1
  <2>3. PlaceTypeOK(f[Len(args)])
    BY <1>3, <2>2, PlacesOK
  <2> QED BY <1>2, <1>3, <2>1, <2>3
<1>5. Fetched(pos, args[i]) = Bytes(i)
  <2>1. Fetched(pos, args[i]) = IF args[i] = "ld" THEN <<Low(i), High(i)>> ELSE <<Low(i)>>
    BY <1>1, <1>2, <1>3, <1>4, FetchedIsThere
  <2> QED BY <2>1 DEF Bytes
<1>6. ReadsNext(args, Past(pos, args[i]), i + 1)
  <2>1. i + 1 \in 1..Len(args) + 1 /\ (i + 1) - 1 = i
    BY <1>1
  <2>2. ASSUME NEW g, Places(args, g) PROVE At(Past(pos, args[i]), g[i])
    BY <1>1, <1>2, <2>2, PastGoesOn
  <2> QED BY <2>1, <2>2 DEF ReadsNext
<1> QED BY <1>5, <1>6

\* Past pointers only, the reader is at the argument after them.
LEMMA PastPointersGoOn ==
    ASSUME args \in Seq(ArgClass), NEW pos, NEW i \in 1..Len(args) + 1, ReadsNext(args, pos, i),
           NEW k \in Nat, i + k \in 1..Len(args) + 1, \A j \in i .. i + k - 1 : args[j] = "gp"
    PROVE  ReadsNext(args, PastPointers(pos, k), i + k)
<1>1. Len(args) \in Nat /\ i \in Nat /\ k \in Nat
  OBVIOUS
<1> DEFINE T == {m \in Nat : ~ \E p : p = [j \in 0..m |-> IF j = 0 THEN pos ELSE Past(p[j - 1], "gp")]}
<1>2. ASSUME T # {} PROVE FALSE
  <2>1. PICK m \in T : \A l \in T : m <= l
    <3>1. T \in SUBSET Nat
      OBVIOUS
    <3> HIDE DEF T
    <3> QED BY <1>2, <3>1, LeastNumber
  <2>2. m \in Nat /\ ~ \E p : p = [j \in 0..m |-> IF j = 0 THEN pos ELSE Past(p[j - 1], "gp")]
    BY <2>1
  <2>3. CASE m = 0
    <3> DEFINE p == [j \in 0..0 |-> pos]
    <3>1. p = [j \in 0..0 |-> IF j = 0 THEN pos ELSE Past(p[j - 1], "gp")]
      <4>1. \A j \in 0..0 : j = 0
        OBVIOUS
      <4> QED BY <4>1
    <3> QED BY <2>2, <2>3, <3>1
  <2>4. CASE m # 0
    <3>1. m - 1 \in Nat /\ ~(m <= m - 1)
      BY <2>2, <2>4
    <3>2. m - 1 \notin T
      BY <2>1, <3>1
    <3>3. PICK p : p = [j \in 0..m - 1 |-> IF j = 0 THEN pos ELSE Past(p[j - 1], "gp")]
      BY <3>1, <3>2
    <3> HIDE DEF T
    <3> DEFINE x == Past(p[m - 1], "gp")
    <3> HIDE DEF x
    <3> DEFINE g == [j \in 0..m |-> IF j = m THEN x ELSE p[j]]
    <3>4. /\ g = [j \in 0..m |-> g[j]] /\ g[m] = x
          /\ \A j \in 0..m - 1 : g[j] = p[j]
      BY <2>2
    <3> HIDE DEF g
    <3>5. \A j \in 0..m - 1 : p[j] = IF j = 0 THEN pos ELSE Past(p[j - 1], "gp")
      BY <3>3
    <3>6. ASSUME NEW j \in 0..m
          PROVE  g[j] = IF j = 0 THEN pos ELSE Past(g[j - 1], "gp")
      <4>1. j # 0 => g[j - 1] = p[j - 1]
        <5>1. j # 0 => j - 1 \in 0..m - 1
          BY <2>2
        <5> QED BY <3>4, <5>1
      <4>2. CASE j = m
        BY <2>4, <3>4, <4>1, <4>2 DEF x
      <4>3. CASE j # m
        <5>1. j \in 0..m - 1
          BY <2>2, <4>3
        <5> QED BY <3>4, <3>5, <4>1, <5>1
      <4> QED BY <4>2, <4>3
    <3>7. g = [j \in 0..m |-> IF j = 0 THEN pos ELSE Past(g[j - 1], "gp")]
      BY <3>4, <3>6
    <3> QED BY <2>2, <3>7
  <2> QED BY <2>3, <2>4
<1> DEFINE U(p) == p = [j \in 0..k |-> IF j = 0 THEN pos ELSE Past(p[j - 1], "gp")]
           g == CHOOSE p : U(p)
<1>3. \E p : U(p)
  BY <1>1, <1>2
<1> HIDE DEF T
<1>4. U(g)
  BY <1>3
<1>5. PastPointers(pos, k) = g[k]
  BY DEF PastPointers
<1> HIDE DEF g
<1>6. g[0] = pos /\ \A j \in 1..k : g[j] = Past(g[j - 1], "gp")
  BY <1>1, <1>4
<1> HIDE DEF U
<1> DEFINE B == {j \in Nat : j <= k /\ ~ReadsNext(args, g[j], i + j)}
<1>7. ASSUME B # {} PROVE FALSE
  <2>1. PICK m \in B : \A l \in B : m <= l
    <3>1. B \in SUBSET Nat
      OBVIOUS
    <3> HIDE DEF B
    <3> QED BY <1>7, <3>1, LeastNumber
  <2>2. m \in Nat /\ m <= k /\ ~ReadsNext(args, g[m], i + m)
    BY <2>1
  <2>3. m # 0
    <3>1. i + 0 = i
      BY <1>1
    <3> QED BY <1>6, <2>2, <3>1
  <2>4. m - 1 \in Nat /\ m - 1 <= k /\ ~(m <= m - 1) /\ m \in 1..k
    BY <1>1, <2>2, <2>3
  <2>5. m - 1 \notin B
    BY <2>1, <2>4
  <2>6. ReadsNext(args, g[m - 1], i + (m - 1))
    BY <2>4, <2>5
  <2> HIDE DEF B
  <2>7. PICK n \in 1..Len(args) : n = i + (m - 1) /\ n \in i .. i + k - 1 /\ n + 1 = i + m
    BY <1>1, <2>4
  <2>8. args[n] = "gp"
    BY <2>7
  <2>9. ReadsNext(args, Past(g[m - 1], "gp"), n + 1)
    BY <2>6, <2>7, <2>8, ReadsArgument
  <2> QED BY <1>6, <2>2, <2>4, <2>7, <2>9
<1>8. k \notin B
  BY <1>7
<1> QED BY <1>1, <1>5, <1>8

\* After the named arguments, which are pointers, a reader is at the first of the others.
LEMMA AfterTheNamed ==
    ASSUME NEW n \in Nat \ {0}, NEW more \in Seq(ArgClass),
           NEW cs, cs = [i \in 1..n |-> "gp"] \o more
    PROVE  cs \in Seq(ArgClass) /\ cs # <<>> /\ ReadsNext(cs, After(n), n + 1)
<1>1. PICK named \in Seq(ArgClass) : named = [i \in 1..n |-> "gp"] /\ Len(named) = n
  <2>1. "gp" \in ArgClass
    BY DEF ArgClass
  <2>2. PICK named \in [1..n -> ArgClass] : named = [i \in 1..n |-> "gp"]
    BY <2>1
  <2>3. n \in Nat
    OBVIOUS
  <2>4. ASSUME NEW g \in [1..n -> ArgClass] PROVE g \in Seq(ArgClass) /\ Len(g) = n
    BY <2>3
  <2> QED BY <2>2, <2>4
<1>2. /\ cs \in Seq(ArgClass) /\ Len(cs) = n + Len(more) /\ Len(more) \in Nat
      /\ \A i \in 1..n : cs[i] = "gp"
  BY <1>1
<1>3. cs # <<>>
  BY <1>2
<1>4. GpRegs \in Nat /\ FpRegs \in Nat /\ GpRegs > 3
  BY ArgumentsAssumption
<1>5. ASSUME NEW f, Places(cs, f) PROVE At(After(n), f[n])
  <2> DEFINE T == {k \in Nat : k <= n /\ ~At(After(k), f[k])}
  <2>1. ASSUME T # {} PROVE FALSE
    <3>1. PICK m \in T : \A l \in T : m <= l
      <4>1. T \in SUBSET Nat
        OBVIOUS
      <4> HIDE DEF T
      <4> QED BY <2>1, <4>1, LeastNumber
    <3>2. m \in Nat /\ m <= n /\ ~At(After(m), f[m])
      BY <3>1
    <3>3. m # 0
      <4>1. f[0] = [x |-> <<>>, q |-> <<>>, stack |-> <<>>]
        BY <1>2, <1>5, PlacesOK DEF NonePlaced
      <4>2. After(0) = [gp |-> 0, fp |-> 0, stack |-> 0]
        BY <1>4 DEF After
      <4>3. At(After(0), f[0])
        BY <4>1, <4>2 DEF At
      <4> QED BY <3>2, <4>3
    <3>4. m - 1 \in Nat /\ m - 1 <= n /\ ~(m <= m - 1) /\ m \in 1..n /\ m \in 1..Len(cs)
          /\ m - 1 \in 0..Len(cs)
      BY <1>2, <3>2, <3>3
    <3>5. m - 1 \notin T
      BY <3>1, <3>4
    <3>6. At(After(m - 1), f[m - 1])
      BY <3>4, <3>5
    <3> HIDE DEF T
    <3>7. At(Past(After(m - 1), "gp"), f[m])
      <4>1. PlaceTypeOK(f[m - 1]) /\ f[m] = Put(f[m - 1], cs[m], m) /\ cs[m] = "gp" /\ "gp" \in ArgClass
        BY <1>2, <1>5, <3>4, PlacesOK DEF ArgClass
      <4> QED BY <3>2, <3>6, <4>1, PastGoesOn
    <3>8. Past(After(m - 1), "gp") = After(m)
      <4>1. PICK l \in Nat : l = m - 1 /\ m = l + 1
        BY <3>2, <3>4
      <4>2. CASE l < GpRegs
        <5>1. After(l) = [gp |-> l, fp |-> 0, stack |-> 0]
          BY <4>2 DEF After
        <5>2. Past(After(l), "gp") = [gp |-> l + 1, fp |-> 0, stack |-> 0]
          BY <4>2, <5>1 DEF Past, InRegister
        <5>3. After(l + 1) = [gp |-> l + 1, fp |-> 0, stack |-> 0]
          BY <1>4, <4>1, <4>2 DEF After
        <5> QED BY <4>1, <5>2, <5>3
      <4>3. CASE ~(l < GpRegs)
        <5>1. After(l) = [gp |-> GpRegs, fp |-> 0, stack |-> l - GpRegs]
          BY <4>3 DEF After
        <5>2. Past(After(l), "gp") = [gp |-> GpRegs, fp |-> 0, stack |-> l - GpRegs + 1]
          BY <1>4, <4>3, <5>1 DEF Past, InRegister
        <5>3. After(l + 1) = [gp |-> GpRegs, fp |-> 0, stack |-> l - GpRegs + 1]
          BY <1>4, <4>1, <4>3 DEF After
        <5> QED BY <4>1, <5>2, <5>3
      <4> QED BY <4>2, <4>3
    <3> QED BY <3>2, <3>7, <3>8
  <2>2. n \notin T
    BY <2>1
  <2> QED BY <2>2
<1>6. n + 1 \in 1..Len(cs) + 1 /\ (n + 1) - 1 = n
  BY <1>2
<1> QED BY <1>2, <1>3, <1>5, <1>6 DEF ReadsNext

-----------------------------------------------------------------------------
(* The invariant of the readers.                                              *)

\* Between calls there are no arguments, and nobody reads any.
BetweenCalls ==
    args = <<>> => list = NoList /\ va = NoCtx /\ read = NothingRead

\* Whoever reads is where its next argument is.
ReadersAreThere ==
    /\ list # NoList => ReadsNext(args, list, mine)
    /\ va # NoCtx => ReadsNext(args, Here, next)

\* A cursor over registers is that of a call without a va_list, one over a va_list reads a copy.
Contexts ==
    /\ va # NoCtx /\ ~va.vl => list = NoList
    /\ va # NoCtx /\ va.vl => list # NoList

VaIsOne == va = [scan |-> va.scan, vl |-> va.vl, pos |-> va.pos]

ArgInv ==
    /\ args \in Seq(ArgClass) /\ VaIsOne
    /\ BetweenCalls /\ ReadersAreThere /\ Contexts /\ ArgumentsArrive

\* A call begins.
LEMMA CallKeeps ==
    ASSUME ArgInv, Idle, NEW more \in More,
           (\E callee \in Callee : CallThunk(callee, more)) \/ (\E n \in 1 .. GpRegs + 1 : CallGuest(n, more))
    PROVE  ArgInv'
<1>1. more \in Seq(ArgClass)
  BY ArgumentsAssumption DEF More
<1>2. list = NoList /\ va = NoCtx /\ read = NothingRead
  BY DEF ArgInv, BetweenCalls, Idle
<1>3. CASE \E callee \in Callee : CallThunk(callee, more)
  <2>1. PICK callee \in Callee : CallThunk(callee, more)
    BY <1>3
  <2>2. callee.named \in Nat \ {0}
    <3>1. callee.named \in 1..3 \/ callee.named = 2
      <4>1. CASE callee \in [named : 1..3, scan : {FALSE}]
        BY <4>1
      <4>2. CASE callee = [named |-> 2, scan |-> TRUE]
        BY <4>2
      <4> QED BY <4>1, <4>2 DEF Callee
    <3> QED BY <3>1
  <2>3. PICK n \in Nat \ {0} : n = callee.named
    BY <2>2
  <2>4. /\ args' = [i \in 1..n |-> "gp"] \o more
        /\ va' = [scan |-> callee.scan, vl |-> FALSE, pos |-> After(n)]
        /\ next' = n + 1 /\ list' = list /\ read' = read
    BY <2>1, <2>3 DEF CallThunk, Passed
  <2>5. args' \in Seq(ArgClass) /\ args' # <<>> /\ ReadsNext(args', After(n), n + 1)
    BY <1>1, <2>4, AfterTheNamed
  <2>6. ~va'.vl /\ va'.pos = After(n) /\ Here' = After(n)
    BY <2>4 DEF Here
  <2>7. BetweenCalls' /\ ReadersAreThere' /\ Contexts'
    BY <1>2, <2>4, <2>5, <2>6 DEF BetweenCalls, ReadersAreThere, Contexts
  <2>8. ArgumentsArrive'
    BY <1>2, <2>4 DEF ArgumentsArrive, NothingRead
  <2>9. VaIsOne'
    BY <2>4 DEF VaIsOne
  <2> QED BY <2>5, <2>7, <2>8, <2>9 DEF ArgInv
<1>4. CASE \E n \in 1 .. GpRegs + 1 : CallGuest(n, more)
  <2>1. PICK n \in 1 .. GpRegs + 1 : CallGuest(n, more)
    BY <1>4
  <2>2. n \in Nat \ {0}
    BY ArgumentsAssumption
  <2>3. /\ args' = [i \in 1..n |-> "gp"] \o more
        /\ list' = After(n) /\ mine' = n + 1 /\ va' = va /\ read' = read
    BY <2>1 DEF CallGuest, Passed
  <2>4. args' \in Seq(ArgClass) /\ args' # <<>> /\ ReadsNext(args', After(n), n + 1)
    BY <1>1, <2>2, <2>3, AfterTheNamed
  <2>5. BetweenCalls' /\ ReadersAreThere' /\ Contexts'
    BY <1>2, <2>3, <2>4 DEF BetweenCalls, ReadersAreThere, Contexts
  <2>6. ArgumentsArrive'
    BY <1>2, <2>3 DEF ArgumentsArrive, NothingRead
  <2>7. VaIsOne'
    BY <2>3 DEF ArgInv, VaIsOne
  <2> QED BY <2>4, <2>5, <2>6, <2>7 DEF ArgInv
<1> QED BY <1>3, <1>4

\* The guest reads an argument itself.
LEMMA GuestArgKeeps ==
    ASSUME ArgInv, GuestArg
    PROVE  ArgInv'
<1>1. /\ list # NoList /\ va = NoCtx /\ mine <= Len(args)
      /\ read' = [meant |-> mine, value |-> Fetched(list, args[mine])]
      /\ list' = Past(list, args[mine]) /\ mine' = mine + 1
      /\ args' = args /\ va' = va
  BY DEF GuestArg
<1>2. args \in Seq(ArgClass) /\ ReadsNext(args, list, mine) /\ mine \in 1..Len(args)
  BY <1>1 DEF ArgInv, ReadersAreThere, ReadsNext
<1>3. /\ Fetched(list, args[mine]) = Bytes(mine)
      /\ ReadsNext(args, Past(list, args[mine]), mine + 1)
  BY <1>2, ReadsArgument
<1>4. BetweenCalls'
  <2>1. args # <<>>
    BY <1>1 DEF ArgInv, BetweenCalls
  <2> QED BY <1>1, <2>1 DEF BetweenCalls
<1>5. ReadersAreThere' /\ Contexts'
  BY <1>1, <1>3 DEF ReadersAreThere, Contexts
<1>6. ArgumentsArrive'
  BY <1>1, <1>3 DEF ArgumentsArrive, Bytes
<1> QED BY <1>1, <1>2, <1>4, <1>5, <1>6 DEF ArgInv, VaIsOne

\* A C function is given the va_list.
LEMMA CallVKeeps ==
    ASSUME ArgInv, NEW scan \in BOOLEAN, CallV(scan)
    PROVE  ArgInv'
<1>1. /\ list # NoList /\ va = NoCtx /\ vl' = list /\ next' = mine
      /\ va' = [scan |-> scan, vl |-> TRUE, pos |-> NoList]
      /\ args' = args /\ list' = list /\ mine' = mine /\ read' = read
  BY DEF CallV
<1>2. Here' = list /\ va'.vl
  BY <1>1 DEF Here
<1>3. BetweenCalls'
  BY <1>1 DEF ArgInv, BetweenCalls
<1>4. ReadersAreThere' /\ Contexts'
  BY <1>1, <1>2 DEF ArgInv, ReadersAreThere, Contexts
<1>5. ArgumentsArrive'
  BY <1>1 DEF ArgInv, ArgumentsArrive, Bytes
<1> QED BY <1>1, <1>3, <1>4, <1>5 DEF ArgInv, VaIsOne

\* A directive reads an argument.
LEMMA PopKeeps ==
    ASSUME ArgInv, Pop
    PROVE  ArgInv'
<1>1. /\ va # NoCtx /\ next <= Len(args)
      /\ read' = [meant |-> next, value |-> Fetched(Here, args[next])]
      /\ next' = next + 1 /\ args' = args /\ list' = list /\ mine' = mine
  BY DEF Pop
<1>2. args \in Seq(ArgClass) /\ ReadsNext(args, Here, next) /\ next \in 1..Len(args)
  BY <1>1 DEF ArgInv, ReadersAreThere, ReadsNext
<1>3. /\ Fetched(Here, args[next]) = Bytes(next)
      /\ ReadsNext(args, Past(Here, args[next]), next + 1)
  BY <1>2, ReadsArgument
<1>4. Here' = Past(Here, args[next]) /\ (va'.vl <=> va.vl)
  <2>1. CASE va.vl
    BY <2>1 DEF Pop, Here
  <2>2. CASE ~va.vl
    <3>1. va' = [va EXCEPT !.pos = Past(va.pos, args[next])] /\ Here = va.pos
      BY <2>2 DEF Pop, Here
    <3>2. va = [scan |-> va.scan, vl |-> va.vl, pos |-> va.pos]
      BY DEF ArgInv, VaIsOne
    <3>3. va' = [scan |-> va.scan, vl |-> va.vl, pos |-> Past(va.pos, args[next])]
      BY <3>1, <3>2
    <3> QED BY <2>2, <3>1, <3>3 DEF Here
  <2> QED BY <2>1, <2>2
<1>5. BetweenCalls'
  BY <1>1 DEF ArgInv, BetweenCalls
<1>6. ReadersAreThere' /\ Contexts'
  BY <1>1, <1>3, <1>4 DEF ArgInv, ReadersAreThere, Contexts
<1>7. ArgumentsArrive'
  BY <1>1, <1>3 DEF ArgumentsArrive, Bytes
<1>8. VaIsOne'
  <2>1. va = [scan |-> va.scan, vl |-> va.vl, pos |-> va.pos]
    BY DEF ArgInv, VaIsOne
  <2>2. CASE va.vl
    BY <2>1, <2>2 DEF Pop, VaIsOne
  <2>3. CASE ~va.vl
    <3>1. va' = [va EXCEPT !.pos = Past(va.pos, args[next])]
      BY <2>3 DEF Pop
    <3>2. va' = [scan |-> va.scan, vl |-> va.vl, pos |-> Past(va.pos, args[next])]
      BY <2>1, <3>1
    <3> QED BY <3>2 DEF VaIsOne
  <2> QED BY <2>2, <2>3
<1> QED BY <1>1, <1>2, <1>5, <1>6, <1>7, <1>8 DEF ArgInv

\* A directive reads a numbered argument, counting from where a cursor over registers is.
LEMMA PopNthKeeps ==
    ASSUME ~Positional, ArgInv, NEW k \in 1..MaxArgs, PopNth(k)
    PROVE  ArgInv'
<1>1. /\ va # NoCtx /\ ~va.vl /\ next + k - 1 <= Len(args)
      /\ \A i \in next .. next + k - 1 : args[i] = "gp"
      /\ read' = [meant |-> next + k - 1, value |-> Fetched(PastPointers(Here, k - 1), "gp")]
      /\ args' = args /\ list' = list /\ mine' = mine /\ va' = va /\ next' = next
  BY DEF PopNth
<1>2. vl' = vl
  BY <1>1 DEF PopNth
<1>3. args \in Seq(ArgClass) /\ ReadsNext(args, Here, next) /\ next \in 1..Len(args) + 1
  BY <1>1 DEF ArgInv, ReadersAreThere, ReadsNext
<1>4. k \in Nat /\ k >= 1 /\ k - 1 \in Nat /\ Len(args) \in Nat
  BY <1>3, ArgumentsAssumption
<1>5. PICK n \in 1..Len(args) : n = next + k - 1 /\ n = next + (k - 1) /\ args[n] = "gp"
  BY <1>1, <1>3, <1>4
<1>6. ReadsNext(args, PastPointers(Here, k - 1), n)
  <2>1. n \in 1..Len(args) + 1
    BY <1>4
  <2>2. \A j \in next .. next + (k - 1) - 1 : args[j] = "gp"
    BY <1>1, <1>3, <1>4
  <2> QED BY <1>3, <1>4, <1>5, <2>1, <2>2, PastPointersGoOn
<1>7. Fetched(PastPointers(Here, k - 1), "gp") = Bytes(n)
  BY <1>3, <1>5, <1>6, ReadsArgument
<1>8. BetweenCalls' /\ ReadersAreThere' /\ Contexts'
  <2>1. Here' = Here
    BY <1>1, <1>2 DEF Here
  <2>2. args # <<>>
    BY <1>1 DEF ArgInv, BetweenCalls
  <2> QED BY <1>1, <2>1, <2>2 DEF ArgInv, BetweenCalls, ReadersAreThere, Contexts
<1>9. ArgumentsArrive'
  BY <1>1, <1>5, <1>7 DEF ArgumentsArrive, Bytes
<1> QED BY <1>1, <1>3, <1>8, <1>9 DEF ArgInv, VaIsOne

\* A C function, or the guest's own, returns.
LEMMA ReturnKeeps ==
    ASSUME ArgInv, ThunkReturns \/ GuestReturns
    PROVE  ArgInv'
<1>1. CASE ThunkReturns /\ va.vl
  <2>1. /\ va # NoCtx /\ va' = NoCtx /\ list' = WrittenBack
        /\ mine' = IF va.scan THEN next ELSE mine
        /\ args' = args /\ read' = read
    BY <1>1 DEF ThunkReturns
  <2>2. /\ args \in Seq(ArgClass) /\ list # NoList /\ args # <<>>
        /\ ReadsNext(args, list, mine) /\ ReadsNext(args, vl, next)
    BY <1>1, <2>1 DEF ArgInv, BetweenCalls, ReadersAreThere, Contexts, Here
  <2>3. ReadsNext(args, list', mine')
    BY <2>1, <2>2 DEF WrittenBack
  <2>4. BetweenCalls' /\ ReadersAreThere' /\ Contexts'
    BY <2>1, <2>2, <2>3 DEF BetweenCalls, ReadersAreThere, Contexts
  <2>5. ArgumentsArrive'
    BY <2>1 DEF ArgInv, ArgumentsArrive, Bytes
  <2>6. VaIsOne'
    BY <2>1 DEF VaIsOne, NoCtx
  <2> QED BY <2>1, <2>2, <2>4, <2>5, <2>6 DEF ArgInv
<1>2. CASE (ThunkReturns /\ ~va.vl) \/ GuestReturns
  <2>1. args' = <<>> /\ list' = NoList /\ va' = NoCtx /\ read' = NothingRead
    <3>1. CASE ThunkReturns /\ ~va.vl
      BY <3>1 DEF ThunkReturns, ArgInv, Contexts
    <3>2. CASE GuestReturns
      BY <3>2 DEF GuestReturns
    <3> QED BY <1>2, <3>1, <3>2
  <2>2. args' \in Seq(ArgClass) /\ VaIsOne'
    BY <2>1 DEF VaIsOne, NoCtx
  <2>3. BetweenCalls' /\ ReadersAreThere' /\ Contexts'
    BY <2>1 DEF BetweenCalls, ReadersAreThere, Contexts
  <2>4. ArgumentsArrive'
    BY <2>1 DEF ArgumentsArrive, NothingRead
  <2> QED BY <2>2, <2>3, <2>4 DEF ArgInv
<1> QED BY <1>1, <1>2

\* ArgumentsArrive: whatever arguments a call has, however many and of whatever kinds,
\* and however many registers there are, every one that is asked for is what is read,
\* all of it, if no format with %n$ is given to vsscanf.
THEOREM ArgumentsAreRead == ASSUME ~Positional PROVE ArgSpec => []ArgumentsArrive
<1>1. ArgInit => ArgInv
  BY DEF ArgInit, ArgInv, VaIsOne, NoCtx, BetweenCalls, ReadersAreThere, Contexts, ArgumentsArrive,
         NothingRead
<1>2. ASSUME ArgInv, [ArgNext]_argVars PROVE ArgInv'
  <2>1. CASE UNCHANGED argVars
    <3>1. args' = args /\ list' = list /\ mine' = mine /\ va' = va /\ vl' = vl /\ next' = next /\ read' = read
      BY <2>1 DEF argVars
    <3> QED BY <1>2, <3>1 DEF ArgInv, VaIsOne, BetweenCalls, ReadersAreThere, Contexts, ArgumentsArrive,
                              Here, Bytes
  <2>2. CASE Idle /\ \E more \in More :
                 \/ \E callee \in Callee : CallThunk(callee, more)
                 \/ \E n \in 1 .. GpRegs + 1 : CallGuest(n, more)
    BY <1>2, <2>2, CallKeeps
  <2>3. CASE GuestArg
    BY <1>2, <2>3, GuestArgKeeps
  <2>4. CASE \E scan \in BOOLEAN : CallV(scan)
    BY <1>2, <2>4, CallVKeeps
  <2>5. CASE Pop
    BY <1>2, <2>5, PopKeeps
  <2>6. CASE \E k \in 1..MaxArgs : PopNth(k)
    BY <1>2, <2>6, PopNthKeeps
  <2>7. CASE ThunkReturns \/ GuestReturns
    BY <1>2, <2>7, ReturnKeeps
  <2> QED BY <1>2, <2>1, <2>2, <2>3, <2>4, <2>5, <2>6, <2>7 DEF ArgNext
<1>3. ArgSpec => []ArgInv
  BY <1>1, <1>2, PTL DEF ArgSpec
<1>4. ArgInv => ArgumentsArrive
  BY DEF ArgInv
<1> QED BY <1>3, <1>4, PTL
=============================================================================
