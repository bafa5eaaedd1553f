------------------------------- MODULE Flags --------------------------------
(* The condition flags of the translated program (runtime/guest_rt.c).  An       *)
(* instruction that sets them stores what it did, an operation and its operands, *)
(* and N, Z, C and V are worked out of that when they are asked for.  The        *)
(* processor has four bits instead: nzcv keeps them beside.                      *)
EXTENDS Integers

CONSTANTS
    W32, W64        \* how many values a 32-bit and a 64-bit word has

ASSUME FlagsAssumption ==
    /\ W32 \in Nat /\ W32 > 0 /\ W32 % 2 = 0
    /\ W64 \in Nat /\ W64 > 0 /\ W64 % 2 = 0

VARIABLES
    cc,             \* CC_OP, CC_DEP1, CC_DEP2 and CC_NDEP of the guest state
    nzcv            \* (history) the flags the architecture has

flagVars == <<cc, nzcv>>

Words == 0 .. W64 - 1
Bit   == {0, 1}

\* ARM64G_CC_OP_*: a kind of instruction and a width.  COPY has the flags themselves.
Kind  == {"ADD", "SUB", "ADC", "SBC", "LOGIC"}
Flags == [n : Bit, z : Bit, c : Bit, v : Bit]
Thunk == [op : Kind, w : {W32, W64}, d1 : Words, d2 : Words, d3 : Bit]
Copy  == [op : {"COPY"}, flags : Flags]

TopBit(w, x) == IF x >= w \div 2 THEN 1 ELSE 0
Is(p)     == IF p THEN 1 ELSE 0

-----------------------------------------------------------------------------
(* guest_rt.c.                                                                *)

\* arm64g_trunc32: the operands of a 32-bit operation lose their upper halves.
NotTrunc(t, d) == d                                 \* Slip.
Trunc(t, d) == IF t.w = W32 THEN d % W32 ELSE d

\* A sum or a difference of two words wraps around once at most.
Wrap(w, x) == IF x >= w THEN x - w ELSE x
Less(w, a, b) == IF a >= b THEN a - b ELSE a + w - b

\* The result the flags are of.  The carry into a subtraction is inverted.
Res(t) ==
    LET a == Trunc(t, t.d1)
        b == Trunc(t, t.d2)
    IN  CASE t.op = "ADD"   -> Wrap(t.w, a + b)
          [] t.op = "SUB"   -> Less(t.w, a, b)
          [] t.op = "ADC"   -> Wrap(t.w, a + b + t.d3)
          [] t.op = "SBC"   -> Less(t.w, a, b + (1 - t.d3))
          [] t.op = "LOGIC" -> a

FlagN(t) == TopBit(t.w, Res(t))
FlagZ(t) == Is(Res(t) = 0)

\* A carry shows in the result: it is smaller than an operand, or with a carry in
\* not larger.
FlagC(t) ==
    LET a == Trunc(t, t.d1)
        b == Trunc(t, t.d2)
    IN  CASE t.op = "ADD"   -> Is(Res(t) < a)
          [] t.op = "SUB"   -> Is(a >= b)
          [] t.op = "ADC"   -> Is(IF t.d3 = 1 THEN Res(t) <= a ELSE Res(t) < a)
          [] t.op = "SBC"   -> Is(IF t.d3 = 1 THEN a >= b ELSE a > b)
          [] t.op = "LOGIC" -> 0

\* (res ^ d1) & (res ^ d2), or (d1 ^ d2) & (d1 ^ res), of which the top bit counts.
FlagV(t) ==
    LET a == TopBit(t.w, Trunc(t, t.d1))
        b == TopBit(t.w, Trunc(t, t.d2))
        r == TopBit(t.w, Res(t))
    IN  CASE t.op \in {"ADD", "ADC"} -> Is(r # a /\ r # b)
          [] t.op \in {"SUB", "SBC"} -> Is(a # b /\ a # r)
          [] t.op = "LOGIC"          -> 0

\* arm64g_calculate_flags_nzcv.
Calculate(t) ==
    IF t.op = "COPY" THEN t.flags
    ELSE [n |-> FlagN(t), z |-> FlagZ(t), c |-> FlagC(t), v |-> FlagV(t)]

HigherOrSame(f) == f.c = 1                          \* Slip.
Higher(f) == f.c = 1 /\ f.z = 0

\* arm64g_calculate_condition: the odd conditions are the even ones inverted.
Cond == {"EQ", "NE", "CS", "CC", "MI", "PL", "VS", "VC", "HI", "LS", "GE", "LT", "GT", "LE",
         "AL", "NV"}
Condition(cond, t) ==
    LET f == Calculate(t)
    IN  CASE cond \in {"AL", "NV"} -> TRUE
          [] cond = "EQ" -> f.z = 1             [] cond = "NE" -> f.z # 1
          [] cond = "CS" -> f.c = 1             [] cond = "CC" -> f.c # 1
          [] cond = "MI" -> f.n = 1             [] cond = "PL" -> f.n # 1
          [] cond = "VS" -> f.v = 1             [] cond = "VC" -> f.v # 1
          [] cond = "HI" -> Higher(f)           [] cond = "LS" -> ~Higher(f)
          [] cond = "GE" -> f.n = f.v           [] cond = "LT" -> f.n # f.v
          [] cond = "GT" -> f.z = 0 /\ f.n = f.v
          [] cond = "LE" -> ~(f.z = 0 /\ f.n = f.v)

-----------------------------------------------------------------------------
(* The architecture's AddWithCarry: a carry is a sum the result does not show,    *)
(* an overflow one it does not show when all are read with their signs.           *)

Signed(w, x) == IF x >= w \div 2 THEN x - w ELSE x

AddWithCarry(w, x, y, carry) ==
    LET sum == x + y + carry
        r   == IF sum >= w THEN sum - w ELSE sum
    IN  [n |-> Is(Signed(w, r) < 0), z |-> Is(r = 0), c |-> Is(r # sum),
         v |-> Is(Signed(w, r) # Signed(w, x) + Signed(w, y) + carry)]

\* What an instruction does to the flags; a subtraction adds the complement.
Architecture(op, w, x, y, carry) ==
    CASE op = "ADD"   -> AddWithCarry(w, x, y, 0)
      [] op = "SUB"   -> AddWithCarry(w, x, w - 1 - y, 1)
      [] op = "ADC"   -> AddWithCarry(w, x, y, carry)
      [] op = "SBC"   -> AddWithCarry(w, x, w - 1 - y, carry)
      [] op = "LOGIC" -> [n |-> Is(Signed(w, x) < 0), z |-> Is(x = 0), c |-> 0, v |-> 0]

-----------------------------------------------------------------------------

NoFlags == [n |-> 0, z |-> 0, c |-> 0, v |-> 0]

\* guest_init clears the guest state, and an operation of 0 is COPY.
FlagsInit == cc = [op |-> "COPY", flags |-> NoFlags] /\ nzcv = NoFlags

\* An instruction that sets the flags.  One that uses the carry asks for it first.
Sets(op, w, x, y) ==
    /\ cc' = [op |-> op, w |-> w, d1 |-> x, d2 |-> y,
              d3 |-> IF op \in {"ADC", "SBC"} THEN Calculate(cc).c ELSE 0]
    /\ nzcv' = Architecture(op, w, x % w, y % w, nzcv.c)

\* MSR NZCV, a comparison that writes its immediate, or flags read by MRS before.
Writes(f) ==
    /\ cc' = [op |-> "COPY", flags |-> f]
    /\ nzcv' = f

FlagsNext ==
    \/ \E op \in Kind, w \in {W32, W64} : \E x, y \in Words : Sets(op, w, x, y)
    \/ \E f \in Flags : Writes(f)

FlagsSpec == FlagsInit /\ [][FlagsNext]_flagVars

-----------------------------------------------------------------------------
(* Properties.                                                                *)

FlagsTypeOK == cc \in Thunk \cup Copy /\ nzcv \in Flags

\* The flags worked out of the operands are the four bits of the architecture, at both
\* widths and through chains of additions with carry: cctest.c and ccref.py ask this
\* of samples.
FlagsAgree == Calculate(cc) = nzcv

\* After a comparison the conditions are the order of the operands, as numbers without
\* and with a sign.
ComparesDecide ==
    cc.op = "SUB" =>
        LET a == Trunc(cc, cc.d1)
            b == Trunc(cc, cc.d2)
            sa == Signed(cc.w, a)
            sb == Signed(cc.w, b)
        IN  /\ Condition("EQ", cc) <=> a = b
            /\ Condition("NE", cc) <=> a # b
            /\ Condition("CS", cc) <=> a >= b
            /\ Condition("CC", cc) <=> a < b
            /\ Condition("HI", cc) <=> a > b
            /\ Condition("LS", cc) <=> a <= b
            /\ Condition("GE", cc) <=> sa >= sb
            /\ Condition("LT", cc) <=> sa < sb
            /\ Condition("GT", cc) <=> sa > sb
            /\ Condition("LE", cc) <=> sa <= sb
=============================================================================
