---------------------------- MODULE GuestControl -----------------------------
(* The ways control leaves a translated function other than by returning, put  *)
(* together: C++ exceptions (GuestEH), setjmp and longjmp (guest_va.c), and    *)
(* qsort, whose host code calls the guest back (guest_rt.c).  Each of the last *)
(* two repairs the shadow stack, and each may jump over frames of the others.  *)
EXTENDS GuestEH

CONSTANTS
    Key,        \* addresses of the guest's jmp_bufs
    JBMax,      \* GUEST_JB_MAX
    Cmp,        \* guest comparators
    NoCmp,      \* g_qsort_cmp = 0
    MaxSorts    \* bound on the nesting of sorts

ASSUME GuestControlAssumption ==
    /\ JBMax \in Nat \ {0}
    /\ NoCmp \notin Cmp
    /\ MaxSorts \in Nat

VARIABLES
    jbs,        \* g_jbs: the slots in use, in table order
    cmp,        \* g_qsort_cmp
    sorts       \* the host's qsort calls in progress, outermost first

cvars == <<vars, jbs, cmp, sorts>>

\* A slot: the guest address it is keyed by, the exception frame to restore, the
\* activation that called setjmp, and (history) whether the activation of the
\* body that did is still there and whether the guest's own frame is.
Slot == [key : Key, eh : Nat, at : Nat, body : BOOLEAN, frame : BOOLEAN]

\* A sort: the activation that called qsort, the comparator it was given, the
\* comparator saved in `outer`, the eh_outer of the comparison in progress, and
\* (history) whether a jump has cut short a sort nested in it.
Sort == [at : Nat, by : Cmp, outer : Cmp \cup {NoCmp}, eh : Nat, cut : BOOLEAN]

CInit == Init /\ jbs = <<>> /\ cmp = NoCmp /\ sorts = <<>>

-----------------------------------------------------------------------------
\* The function on top is waiting for the host's qsort.
InSort == sorts # <<>> /\ Last(sorts).at = N /\ mode = "run"

\* The sorts that survive when a jump cuts the host stack back to position n:
\* those of the activations below it.
SortsBelow(n) ==
    LET kept == Max({0} \cup {i \in 1..Len(sorts) : sorts[i].at < n})
    IN  [i \in 1..kept |->
            [sorts[i] EXCEPT !.cut = @ \/ (i = kept /\ kept < Len(sorts))]]

\* What a step does to the activations that own a slot.  A landing pad re-enters
\* the body of its function in a new activation, inside the same wrapper.
LandedAt == IF mode = "unwind" /\ mode' = "run" THEN Len(stack') ELSE 0
Follow(slots) ==
    [i \in 1..Len(slots) |->
        [slots[i] EXCEPT
            !.body = @ /\ slots[i].at <= Len(stack') /\ slots[i].at # LandedAt,
            !.frame = @ /\ slots[i].at <= Len(stack')
                        /\ (slots[i].at <= Len(stack') => ~stack'[slots[i].at].left)]]

\* Translated code runs, and guest_fini drops the setjmp slots when the
\* outermost call returns.  An exception cuts the sorts it lands below.  The
\* return of a comparator is CompareEnds.
EHStep ==
    /\ Next
    /\ ~InSort
    /\ sorts # <<>> => N > Last(sorts).at + 1 \/ ~(Len(stack') < N /\ mode = "run")
    /\ jbs' = IF stack' = <<>> THEN <<>> ELSE Follow(jbs)
    /\ sorts' = IF LandedAt # 0 THEN SortsBelow(LandedAt) ELSE sorts
    /\ UNCHANGED cmp

-----------------------------------------------------------------------------
(* setjmp and longjmp.                                                         *)

\* Slip: the frame is recorded as if the wrapper had popped already.
SlotFromCaller(k) == [key |-> k, eh |-> IF Me.kind = "eh" THEN Me.prev ELSE ehTop,
                      at |-> N, body |-> TRUE, frame |-> TRUE]

SlotFor(k) == [key |-> k, eh |-> ehTop, at |-> N, body |-> TRUE, frame |-> TRUE]

\* guest_setjmp_slot: the slot that has the key, else the first free one.
WithSlot(k) ==
    IF \E i \in 1..Len(jbs) : jbs[i].key = k
    THEN [i \in 1..Len(jbs) |-> IF jbs[i].key = k THEN SlotFor(k) ELSE jbs[i]]
    ELSE Append(jbs, SlotFor(k))

SlotAvailable(k) ==
    \/ \E i \in 1..Len(jbs) : jbs[i].key = k
    \/ Len(jbs) < JBMax

\* The inline expansion of setjmp: guest_setjmp_slot, then setjmp() itself.
Setjmp(k) ==
    /\ Running
    /\ ~InSort
    /\ Me.pc = "run"
    /\ Me.hs = <<>>
    /\ Me.fresh = NoExc
    /\ stack' = Marked(Quiet)
    /\ \/ SlotAvailable(k) /\ jbs' = WithSlot(k) /\ UNCHANGED mode
       \/ ~SlotAvailable(k) /\ mode' = "abort" /\ UNCHANGED jbs
    /\ UNCHANGED <<ehTop, objects, cursor, flying, cmp, sorts>>

\* C++ leaves a longjmp undefined that jumps over anything to clean up, and C one
\* to a function that has returned.
MayJump(j) ==
    /\ j.frame
    /\ j.at <= N
    /\ \A i \in j.at..N :
          /\ stack[i].kind # "dtor" /\ stack[i].pc = "run"
          /\ stack[i].hs = <<>> /\ stack[i].fresh = NoExc
    /\ \A i \in j.at + 1..N : stack[i].site # NoSite => ~stack[i].site.cleanup

\* The exception frames of the functions jumped over are gone with them.
TopKept(j) == ehTop                             \* Slip: they are left in place.
TopRestored(j) == j.eh

\* guest_longjmp.  A host frame that is gone is undefined behaviour.
Longjmp(k) ==
    /\ Running
    /\ ~InSort
    /\ Me.pc = "run"
    /\ \/ /\ \A i \in 1..Len(jbs) : jbs[i].key # k
          /\ mode' = "abort"
          /\ UNCHANGED <<stack, ehTop, sorts, jbs>>
       \/ \E i \in 1..Len(jbs) :
          /\ jbs[i].key = k
          /\ MayJump(jbs[i])
          /\ stack' = SubSeq(Marked(Quiet), 1, jbs[i].at)
          /\ ehTop' = TopRestored(jbs[i])
          /\ sorts' = SortsBelow(jbs[i].at)
          /\ mode' = IF jbs[i].body THEN "run" ELSE "ub"
          /\ jbs' = Follow(jbs)
    /\ UNCHANGED <<objects, cursor, flying, cmp>>

-----------------------------------------------------------------------------
(* qsort.                                                                      *)

\* guest_qsort, up to the host's qsort.
BeginSort(c, s) ==
    /\ Running
    /\ ~InSort
    /\ Me.pc = "run"
    /\ Len(sorts) < MaxSorts
    /\ CallSiteOK(s, Me.fresh # NoExc \/ Me.hs # <<>>)
    /\ stack' = Marked(s)
    /\ sorts' = Append(sorts, [at |-> N, by |-> c, outer |-> cmp, eh |-> 0,
                             cut |-> FALSE])
    /\ cmp' = c
    /\ UNCHANGED <<ehTop, objects, unwinder, jbs>>

\* The host's qsort compares: guest_qsort_trampoline dispatches to g_qsort_cmp.
Compare(k) ==
    /\ InSort
    /\ N < MaxDepth
    /\ stack' = Push(stack, k, NoExc)
    /\ ehTop' = TopAfterPush(k)
    /\ sorts' = [sorts EXCEPT ![Len(sorts)].eh = ehTop]
    /\ UNCHANGED <<objects, unwinder, jbs, cmp>>

\* The comparator returns to the trampoline, which puts the shadow stack back.
CompareEnds ==
    /\ mode = "run"
    /\ sorts # <<>>
    /\ N = Last(sorts).at + 1
    /\ Me.pc = "run"
    /\ Me.fresh = NoExc
    /\ Me.hs = <<>>
    /\ stack' = SubSeq(stack, 1, N - 1)
    /\ ehTop' = Last(sorts).eh
    /\ jbs' = Follow(jbs)
    /\ UNCHANGED <<objects, unwinder, cmp, sorts>>

\* Slip: the outer comparator is not put back.
EndSortOnly ==
    /\ InSort
    /\ sorts' = Front(sorts)
    /\ UNCHANGED <<stack, ehTop, objects, unwinder, jbs, cmp>>

\* The host's qsort is done, and guest_qsort puts the outer comparator back.
EndSort ==
    /\ InSort
    /\ cmp' = Last(sorts).outer
    /\ sorts' = Front(sorts)
    /\ UNCHANGED <<stack, ehTop, objects, unwinder, jbs>>

CNext ==
    \/ EHStep
    \/ \E k \in Key : Setjmp(k) \/ Longjmp(k)
    \/ \E c \in Cmp, s \in Site : BeginSort(c, s)
    \/ \E k \in {"eh", "plain"} : Compare(k)
    \/ CompareEnds \/ EndSort

CSpec == CInit /\ [][CNext]_cvars

-----------------------------------------------------------------------------
(* Properties.                                                                 *)

\* The innermost sort compares with the function it was given, and one that is nested
\* in another is going to put back the function of that one.
InnermostHasItsOwn == sorts # <<>> /\ ~Last(sorts).cut => cmp = Last(sorts).by
OthersGetTheirsBack ==
    \A i \in 1..Len(sorts) - 1 : ~sorts[i].cut => sorts[i + 1].outer = sorts[i].by

\* A sort compares with its own comparator, nested sorts included, as long as no sort
\* nested in it was cut short by an exception or a longjmp.  One that was (guest_rt.c:
\* 899 is then not reached) upsets the sort just around it and none further out.
SortUsesItsComparator == InnermostHasItsOwn /\ OthersGetTheirsBack

\* A slot whose guest frame is still there would restore the shadow stack that
\* frame had: the innermost exception frame at or below it.  And no other slot has
\* its key: guest_longjmp takes the first it finds.
SlotsRestoreTheTop ==
    /\ \A i \in 1..Len(jbs) : jbs[i].frame /\ jbs[i].at <= N =>
           NearestFrame(stack, jbs[i].eh, jbs[i].at + 1)
    /\ \A i, j \in 1..Len(jbs) : jbs[i].key = jbs[j].key => i = j

\* A longjmp to a guest frame that is still there finds the host frame that
\* called setjmp: it was executed "in THIS function's frame".
JumpsToALiveFrame == mode # "ub"
=============================================================================
