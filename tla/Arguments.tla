------------------------------ MODULE Arguments -------------------------------
(* Variable arguments.  The printf and scanf functions of the runtime read the  *)
(* arguments of a call the guest made, where AAPCS64 places them: through a     *)
(* cursor over the guest's registers, or over a va_list the guest hands on       *)
(* (runtime/guest_va_int.h, guest_va.c, musl/vfscanf.c).                         *)
(*                                                                              *)
(* A position, of a cursor or a va_list, is how many registers of each kind and  *)
(* how many words of the stack are behind it: gr_offs and vr_offs count up to 0  *)
(* from what is ahead.                                                           *)
EXTENDS Integers, Sequences

CONSTANTS
    GpRegs, FpRegs,     \* x0..x7 and q0..q7
    MaxArgs,            \* bound on the variable arguments of a call
    Positional          \* does the guest give vsscanf a format with %n$

ASSUME ArgumentsAssumption ==
    /\ GpRegs \in Nat /\ GpRegs > 3 /\ FpRegs \in Nat /\ MaxArgs \in Nat
    /\ Positional \in BOOLEAN

VARIABLES
    args,       \* the classes of the arguments of the call in progress
    list,       \* the va_list of a function of the guest, or NoList
    mine,       \* (history) the argument that function has to read next
    va,         \* the va_ctx of a C function in progress, or NoCtx
    vl,         \* the copy of a va_list a C function reads
    next,       \* (history) the argument it has to read next
    read        \* (history) the argument last asked for, and what was read

argVars == <<args, list, mine, va, vl, next, read>>

\* Integers and pointers, doubles, and the 128-bit long double.
ArgClass == {"gp", "fp", "ld"}

NoList  == [gp |-> 0, fp |-> 0, stack |-> -1]
NoCtx   == [scan |-> FALSE, vl |-> FALSE, pos |-> NoList]
NothingRead == [meant |-> 0, value |-> <<>>]

-----------------------------------------------------------------------------
(* AAPCS64: where the caller puts the arguments.  A word of the stack or the low *)
(* half of a register holds half of an argument.                                *)

Low(i)  == <<i, "low">>
High(i) == <<i, "high">>
Stale   == <<0, "low">>
Nth(s, i) == IF i < Len(s) THEN s[i + 1] ELSE Stale

Even(s) == IF Len(s) % 2 = 0 THEN s ELSE Append(s, Stale)

\* Argument i, of class c, goes where there is room after those that are placed.
Put(p, c, i) ==
    CASE c = "gp" /\ Len(p.x) < GpRegs -> [p EXCEPT !.x = Append(@, Low(i))]
      [] c # "gp" /\ Len(p.q) < FpRegs -> [p EXCEPT !.q = Append(@, i)]
      [] c = "ld" /\ Len(p.q) = FpRegs -> [p EXCEPT !.stack = Even(@) \o <<Low(i), High(i)>>]
      [] OTHER                         -> [p EXCEPT !.stack = Append(@, Low(i))]
NonePlaced == [x |-> <<>>, q |-> <<>>, stack |-> <<>>]
Placed ==
    LET first[n \in 0..Len(args)] ==
            IF n = 0 THEN NonePlaced ELSE Put(first[n - 1], args[n], n)
    IN  first[Len(args)]

\* The bytes of an argument.
Bytes(i) == IF args[i] = "ld" THEN <<Low(i), High(i)>> ELSE <<Low(i)>>

\* A position after n named arguments, all of them pointers or sizes.
After(n) ==
    [gp |-> IF n < GpRegs THEN n ELSE GpRegs, fp |-> 0,
     stack |-> IF n < GpRegs THEN 0 ELSE n - GpRegs]

-----------------------------------------------------------------------------
(* va_gp, va_fp and va_ld_bits.                                                 *)

InRegister(pos, c) == IF c = "gp" THEN pos.gp < GpRegs ELSE pos.fp < FpRegs

Unaligned(s) == s                                   \* Slip: no (stack + 15) & ~15.
Aligned(s) == s + (s % 2)

Fetched(pos, c) ==
    IF InRegister(pos, c)
    THEN CASE c = "gp" -> <<Nth(Placed.x, pos.gp)>>
           [] c = "fp" -> <<Low(Nth(Placed.q, pos.fp))>>
           [] c = "ld" -> <<Low(Nth(Placed.q, pos.fp)), High(Nth(Placed.q, pos.fp))>>
    ELSE IF c = "ld"
         THEN <<Nth(Placed.stack, Aligned(pos.stack)), Nth(Placed.stack, Aligned(pos.stack) + 1)>>
         ELSE <<Nth(Placed.stack, pos.stack)>>

Past(pos, c) ==
    IF InRegister(pos, c)
    THEN IF c = "gp" THEN [pos EXCEPT !.gp = @ + 1] ELSE [pos EXCEPT !.fp = @ + 1]
    ELSE [pos EXCEPT !.stack = IF c = "ld" THEN Aligned(@) + 2 ELSE @ + 1]

\* Past k pointers.
PastPointers(pos, k) ==
    LET p[i \in 0..k] == IF i = 0 THEN pos ELSE Past(p[i - 1], "gp")
    IN  p[k]

-----------------------------------------------------------------------------

ArgInit ==
    /\ args = <<>> /\ list = NoList /\ mine = 0
    /\ va = NoCtx /\ vl = NoList /\ next = 0
    /\ read = NothingRead

Idle == args = <<>>

\* A call with n named arguments and some more.
Passed(n, more) == args' = [i \in 1..n |-> "gp"] \o more

\* plt_printf, plt_fprintf, plt_sprintf, plt_snprintf and plt_sscanf.
Callee == [named : 1..3, scan : {FALSE}] \cup {[named |-> 2, scan |-> TRUE]}
CallThunk(callee, more) ==
    /\ Passed(callee.named, more)
    /\ va' = [scan |-> callee.scan, vl |-> FALSE, pos |-> After(callee.named)]
    /\ next' = callee.named + 1
    /\ UNCHANGED <<list, mine, vl, read>>

\* A variadic function of the guest, up to its va_start.
CallGuest(n, more) ==
    /\ Passed(n, more)
    /\ list' = After(n)
    /\ mine' = n + 1
    /\ UNCHANGED <<va, vl, next, read>>

\* The guest's own va_arg, which AAPCS64 gives the same steps.
GuestArg ==
    /\ list # NoList /\ va = NoCtx
    /\ mine <= Len(args)
    /\ read' = [meant |-> mine, value |-> Fetched(list, args[mine])]
    /\ list' = Past(list, args[mine])
    /\ mine' = mine + 1
    /\ UNCHANGED <<args, va, vl, next>>

\* format_from_valist and plt_vsscanf: a cursor over a copy of the guest's va_list.
CallV(scan) ==
    /\ list # NoList /\ va = NoCtx
    /\ vl' = list
    /\ va' = [scan |-> scan, vl |-> TRUE, pos |-> NoList]
    /\ next' = mine
    /\ UNCHANGED <<args, list, mine, read>>

Here == IF va.vl THEN vl ELSE va.pos

\* A directive takes the next argument.  Those of scanf are pointers.
Pop ==
    /\ va # NoCtx
    /\ next <= Len(args)
    /\ va.scan => args[next] = "gp"
    /\ read' = [meant |-> next, value |-> Fetched(Here, args[next])]
    /\ next' = next + 1
    /\ IF va.vl
       THEN vl' = Past(vl, args[next]) /\ UNCHANGED va
       ELSE va' = [va EXCEPT !.pos = Past(@, args[next])] /\ UNCHANGED vl
    /\ UNCHANGED <<args, list, mine>>

\* arg_n: "%k$" counts from the arguments already consumed, on a copy of the va_ctx.
\* The copy of a cursor over a va_list points at the same va_list.
PopNth(k) ==
    /\ va # NoCtx /\ va.scan
    /\ va.vl => Positional
    /\ next + k - 1 <= Len(args)
    /\ \A i \in next .. next + k - 1 : args[i] = "gp"
    /\ read' = [meant |-> next + k - 1, value |-> Fetched(PastPointers(Here, k - 1), "gp")]
    /\ vl' = IF va.vl THEN PastPointers(vl, k) ELSE vl
    /\ UNCHANGED <<args, list, mine, va, next>>

\* vsscanf writes the va_list back, the printf functions do not.
WrittenBack == IF va.scan THEN vl ELSE list
ThunkReturns ==
    /\ va # NoCtx
    /\ va' = NoCtx /\ vl' = NoList /\ next' = 0
    /\ IF va.vl
       THEN /\ list' = WrittenBack
            /\ mine' = IF va.scan THEN next ELSE mine
            /\ UNCHANGED <<args, read>>
       ELSE args' = <<>> /\ read' = NothingRead /\ UNCHANGED <<list, mine>>

GuestReturns ==
    /\ list # NoList /\ va = NoCtx
    /\ args' = <<>> /\ list' = NoList /\ mine' = 0 /\ read' = NothingRead
    /\ UNCHANGED <<va, vl, next>>

More == UNION {[1..n -> ArgClass] : n \in 0..MaxArgs}

ArgNext ==
    \/ /\ Idle
       /\ \E more \in More :
          \/ \E callee \in Callee : CallThunk(callee, more)
          \/ \E n \in 1 .. GpRegs + 1 : CallGuest(n, more)
    \/ GuestArg \/ GuestReturns
    \/ \E scan \in BOOLEAN : CallV(scan)
    \/ Pop \/ ThunkReturns
    \/ \E k \in 1..MaxArgs : PopNth(k)

ArgSpec == ArgInit /\ [][ArgNext]_argVars

-----------------------------------------------------------------------------
(* Properties.                                                                 *)

\* Whoever reads an argument reads the one it asks for and all of it: across the end of
\* the registers, past long doubles and their padding, and when the guest, vprintf and
\* vsscanf read from one va_list in turn.  "%1$s" is "the first argument after the ones
\* already consumed".
ArgumentsArrive == read.meant # 0 => read.value = Bytes(read.meant)
=============================================================================
