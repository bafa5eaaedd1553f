------------------------------- MODULE GuestEH -------------------------------
(* The C++ exception support of the translated program, runtime/guest_eh.c,   *)
(* together with the wrapper and the marks lib/gen.py generates around it.     *)
(*                                                                             *)
(* One host thread runs translated functions.  `stack` is its host call stack: *)
(* an activation is named by its position, so a position that has been popped  *)
(* and pushed again is the same address with another frame in it, as on the    *)
(* real stack.  Position 0 is NULL.  A function with an LSDA pushes a          *)
(* guest_eh_frame, and these frames form the shadow stack: ehTop and the prev  *)
(* pointers.  The unwinder walks only those.                                   *)
(*                                                                             *)
(* The guest program is external.  It is any program made of calls, returns,   *)
(* throws and the code a C++ compiler emits around a landing pad; what it must *)
(* respect is said where an action is guarded by it.                           *)
EXTENDS Integers, FiniteSets, SequencesExt

CONSTANTS
    Exc,        \* addresses an exception object can be allocated at
    Type,       \* type_info objects
    Destroyed,  \* the types whose exceptions have a destructor
    Site,       \* the call sites of the functions that have an LSDA
    NoExc,      \* the null object
    NoSite,     \* ra = 0, have_save = 0: the frame was never marked
    MaxDepth,   \* bound on the host call stack
    MaxHandlers,\* bound on the catch blocks a function that rethrows is in
    Rethrows,   \* does the guest use `throw;`
    TailCalls   \* do functions with an LSDA end in tail calls

(* What the exception table says of a call site: the types its action chain    *)
(* catches (through ti_matches) and whether it has a cleanup.  A site with     *)
(* neither has no landing pad.                                                 *)
Quiet == [catches |-> {}, cleanup |-> FALSE]

ASSUME GuestEHAssumption ==
    /\ Type # {} /\ Destroyed \subseteq Type
    /\ Site \subseteq [catches : SUBSET Type, cleanup : BOOLEAN]
    /\ Quiet \in Site
    /\ NoExc \notin Exc
    /\ NoSite \notin Site
    /\ MaxDepth \in Nat \ {0}
    /\ MaxHandlers \in Nat
    /\ Rethrows \in BOOLEAN
    /\ TailCalls \in BOOLEAN

VARIABLES
    stack,      \* host activations, outermost first
    ehTop,      \* g_eh_top
    exc,        \* the exception objects
    caught,     \* the list g_caught heads, innermost first
    uncaught,   \* g_uncaught_count
    inFlight,   \* g_in_flight
    mode,       \* running guest code, in one of the two phases, or stopped
    cursor,     \* the loop variable f of find_handler and unwind_from
    flying      \* their parameter e

vars == <<stack, ehTop, exc, caught, uncaught, inFlight, mode, cursor, flying>>
objects == <<exc, caught, uncaught, inFlight>>
unwinder == <<mode, cursor, flying>>

Stopped == {"uncaught", "nohandler", "norethrow", "abort", "ub"}
Mode == {"run", "search", "unwind"} \cup Stopped

-----------------------------------------------------------------------------
(* Records.                                                                    *)

\* An activation.  The last five fields are the guest's own: the exception its
\* landing pad was handed, the one it has allocated and not thrown, the catch
\* blocks it is inside of, how many of them the landing pad has yet to leave.
Activation ==
    [kind : {"eh", "plain", "dtor"}, prev : Nat, site : Site \cup {NoSite},
     left : BOOLEAN, pc : {"run", "cleanup", "catch"}, obj : Exc \cup {NoExc},
     fresh : Exc \cup {NoExc}, hs : Seq(Exc), todo : Nat]

\* guest_exception.  `goal` is a history variable: the frame phase one found.
Object ==
    [live : BOOLEAN, type : Type, count : Int, uncaught : BOOLEAN,
     resume : Nat, goal : Nat]

Dead == [live |-> FALSE, type |-> CHOOSE t \in Type : TRUE, count |-> 0,
         uncaught |-> FALSE, resume |-> 0, goal |-> 0]

N == Len(stack)
Me == stack[N]
Eh(i) == i \in 1..N /\ stack[i].kind = "eh"

\* Slip: the frame is not linked to the one it covers.
UnlinkedActivation(k, e) ==
    [kind |-> k, prev |-> 0, site |-> NoSite, left |-> FALSE, pc |-> "run",
     obj |-> e, fresh |-> NoExc, hs |-> <<>>, todo |-> 0]

\* guest_eh_push, in the wrapper of a function that has an LSDA.
NewActivation(k, e) ==
    [kind |-> k, prev |-> IF k = "eh" THEN ehTop ELSE 0, site |-> NoSite,
     left |-> FALSE, pc |-> "run", obj |-> e, fresh |-> NoExc, hs |-> <<>>,
     todo |-> 0]

Push(st, k, e) == Append(st, NewActivation(k, e))
TopAfterPush(k) == IF k = "eh" THEN N + 1 ELSE ehTop

\* guest_eh_pop in the wrapper, guest_fini after the outermost call.
TopNotPopped == IF N = 1 THEN 0 ELSE ehTop      \* Slip: the wrapper does not pop.
TopAfterPop == IF N = 1 THEN 0 ELSE IF Me.kind = "eh" THEN Me.prev ELSE ehTop

\* __cxa_free_exception.
NotFreed(e) == exc                              \* Slip: free is forgotten.
FreedInFlight(e) ==                             \* Slip: the wrong object is freed.
    [exc EXCEPT ![IF inFlight # NoExc THEN inFlight ELSE e] = Dead]
Freed(e) == [exc EXCEPT ![e] = Dead]

\* guest_eh_mark: the frame it writes is the one on top of the shadow stack,
\* whichever function asked.  Only functions with an LSDA are given the call.
Marked(s) ==
    IF Me.kind = "eh" /\ ehTop # 0 THEN [stack EXCEPT ![ehTop].site = s] ELSE stack

-----------------------------------------------------------------------------
(* frame_action and lsda_lookup: what frame f does with an exception of type   *)
(* t.  Phase one asks for handlers only.                                       *)

\* Slip: phase one stops at cleanups.
FrameActionAnyPhase(f, t, wantHandler) ==
    LET s == stack[f].site
    IN  IF s = NoSite THEN "none" ELSE IF t \in s.catches THEN "catch"
        ELSE IF s.cleanup THEN "cleanup" ELSE "none"

\* Slip: phase two stops at handlers only.
FrameActionHandlers(f, t, wantHandler) ==
    IF stack[f].site # NoSite /\ t \in stack[f].site.catches THEN "catch" ELSE "none"

FrameAction(f, t, wantHandler) ==
    LET s == stack[f].site
    IN  CASE s = NoSite                     -> "none"
          [] s # NoSite /\ t \in s.catches  -> "catch"
          [] s # NoSite /\ t \notin s.catches /\ s.cleanup /\ ~wantHandler -> "cleanup"
          [] OTHER                          -> "none"

-----------------------------------------------------------------------------
(* Rules the compiled guest keeps.                                             *)

Running == mode = "run" /\ N > 0 /\ ~Me.left

\* A call with something to clean up behind it has a landing pad that does it.
\* Functions without an LSDA have nothing to clean up at a call.
CallSiteOK(s, owes) ==
    IF Me.kind = "eh" THEN (owes => s.cleanup) /\ (Me.pc # "run" => s = Quiet)
                      ELSE ~owes /\ s = Quiet

\* No exception leaves a destructor or a cleanup: C++ terminates if one tries,
\* and compiled destructors are noexcept.
MayThrow(st, t) ==
    \A b \in 1..Len(st) :
        st[b].kind = "dtor" \/ st[b].pc # "run" =>
            \E i \in b+1..Len(st) :
                /\ st[i].kind = "eh"
                /\ ~st[i].left
                /\ st[i].site # NoSite
                /\ t \in st[i].site.catches

-----------------------------------------------------------------------------
Init ==
    /\ stack = <<>>
    /\ ehTop = 0
    /\ exc = [e \in Exc |-> Dead]
    /\ caught = <<>>
    /\ uncaught = 0
    /\ inFlight = NoExc
    /\ mode = "run"
    /\ cursor = 0
    /\ flying = NoExc

\* An entry point is called from the host: guest_init, then its function.
Enter(k) ==
    /\ mode = "run"
    /\ stack = <<>>
    /\ stack' = Push(stack, k, NoExc)
    /\ ehTop' = TopAfterPush(k)
    /\ UNCHANGED <<objects, unwinder>>

\* A call to another function, from the body of a function or from a cleanup.
Call(k, s) ==
    /\ Running
    /\ N < MaxDepth
    /\ Me.pc \in {"run", "cleanup"}
    /\ CallSiteOK(s, Me.fresh # NoExc \/ Me.hs # <<>>)
    /\ stack' = Push(Marked(s), k, NoExc)
    /\ ehTop' = TopAfterPush(k)
    /\ UNCHANGED <<objects, unwinder>>

\* goto_or_call: `callee(cpu, 0); return;` with no mark.  The guest frame is
\* gone from here on, the host activation and its exception frame are not.
TailCall(k) ==
    /\ TailCalls
    /\ Running
    /\ N < MaxDepth
    /\ Me.kind = "eh"
    /\ Me.pc = "run"
    /\ Me.fresh = NoExc
    /\ Me.hs = <<>>
    /\ stack' = Push([stack EXCEPT ![N].left = TRUE], k, NoExc)
    /\ ehTop' = TopAfterPush(k)
    /\ UNCHANGED <<objects, unwinder>>

\* A function returns: the wrapper pops its frame, __cxa_end_catch frees the
\* object whose destructor this was, guest_fini clears the shadow stack when
\* the outermost call is over.
Return ==
    /\ mode = "run"
    /\ N > 0
    /\ Me.pc = "run"
    /\ Me.fresh = NoExc
    /\ Me.hs = <<>>
    /\ stack' = SubSeq(stack, 1, N - 1)
    /\ ehTop' = TopAfterPop
    /\ exc' = IF Me.kind = "dtor" THEN Freed(Me.obj) ELSE exc
    /\ UNCHANGED <<caught, uncaught, inFlight, unwinder>>

-----------------------------------------------------------------------------
(* Throwing.                                                                   *)

\* __cxa_allocate_exception.  malloc may hand out any address not in use.  The
\* guest allocates what it is going to throw.
AllocateException(e) ==
    /\ Running
    /\ Me.pc = "run"
    /\ Me.fresh = NoExc
    /\ ~exc[e].live
    /\ \E t \in Type, s \in Site : CallSiteOK(s, Me.hs # <<>>) /\ MayThrow(Marked(s), t)
    /\ exc' = [exc EXCEPT ![e] = [Dead EXCEPT !.live = TRUE]]
    /\ stack' = [Marked(Quiet) EXCEPT ![N].fresh = e]
    /\ UNCHANGED <<ehTop, caught, uncaught, inFlight, unwinder>>

\* __cxa_throw, up to the start of phase one.
Throw(t, s) ==
    LET e == Me.fresh IN
    /\ Running
    /\ Me.pc = "run"
    /\ e # NoExc
    /\ CallSiteOK(s, Me.hs # <<>>)
    /\ MayThrow(Marked(s), t)
    /\ stack' = [Marked(s) EXCEPT ![N].fresh = NoExc]
    /\ exc' = [exc EXCEPT ![e].type = t, ![e].uncaught = TRUE, ![e].count = 0]
    /\ uncaught' = uncaught + 1
    /\ mode' = "search"
    /\ cursor' = ehTop
    /\ flying' = e
    /\ UNCHANGED <<ehTop, caught, inFlight>>

\* __cxa_rethrow, up to the start of phase one, or its trap.  The guest does not
\* rethrow from inside a destructor or a cleanup.
Rethrow(s) ==
    /\ Rethrows
    /\ Running
    /\ \A i \in 1..N : Len(stack[i].hs) <= MaxHandlers
    /\ Me.pc = "run"
    /\ Me.fresh = NoExc
    /\ CallSiteOK(s, Me.hs # <<>>)
    /\ stack' = Marked(s)
    /\ \/ /\ caught = <<>>
          /\ mode' = "norethrow"
          /\ UNCHANGED <<ehTop, objects, cursor, flying>>
       \/ /\ caught # <<>>
          /\ \A i \in 1..N : stack[i].kind # "dtor" /\ stack[i].pc = "run"
          /\ exc' = [exc EXCEPT ![Head(caught)].uncaught = TRUE]
          /\ uncaught' = uncaught + 1
          /\ mode' = "search"
          /\ cursor' = ehTop
          /\ flying' = Head(caught)
          /\ UNCHANGED <<ehTop, caught, inFlight>>

-----------------------------------------------------------------------------
(* Phase one: one step per iteration of find_handler's loop.                   *)

\* Slip: the loop does not advance.
SearchStays ==
    /\ mode = "search"
    /\ cursor # 0
    /\ FrameAction(cursor, exc[flying].type, TRUE) = "none"
    /\ UNCHANGED vars

SearchNext ==
    /\ mode = "search"
    /\ cursor # 0
    /\ FrameAction(cursor, exc[flying].type, TRUE) = "none"
    /\ cursor' = stack[cursor].prev
    /\ UNCHANGED <<stack, ehTop, objects, mode, flying>>

SearchFound ==
    /\ mode = "search"
    /\ cursor # 0
    /\ FrameAction(cursor, exc[flying].type, TRUE) # "none"
    /\ mode' = "unwind"
    /\ cursor' = ehTop
    /\ exc' = [exc EXCEPT ![flying].goal = cursor]
    /\ UNCHANGED <<stack, ehTop, caught, uncaught, inFlight, flying>>

(* Phase two: one step per iteration of unwind_from's loop.                    *)

UnwindNext ==
    /\ mode = "unwind"
    /\ cursor # 0
    /\ FrameAction(cursor, exc[flying].type, FALSE) = "none"
    /\ cursor' = stack[cursor].prev
    /\ UNCHANGED <<stack, ehTop, objects, mode, flying>>

\* A cleanup hands the exception on, a handler ends its being uncaught.
UncaughtAfter(act) == IF act = "catch" /\ uncaught > 0 THEN uncaught - 1 ELSE uncaught

\* resume_at: the host stack is cut back to the frame and its landing pad runs.
\* The pad leaves all the catch blocks it is nested in if it is going to resume
\* the unwinding, and any number of them if it ends in a catch.
LandAt(act, leaves) ==
    LET e == flying IN
    /\ act = "cleanup" => leaves = Len(stack[cursor].hs)
    /\ stack' = [SubSeq(stack, 1, cursor) EXCEPT
                    ![cursor].pc = act, ![cursor].obj = e, ![cursor].todo = leaves,
                    ![cursor].left = FALSE]
    /\ ehTop' = cursor
    /\ exc' = [exc EXCEPT ![e].resume = stack[cursor].prev,
                          ![e].uncaught = @ /\ act # "catch"]
    /\ uncaught' = UncaughtAfter(act)
    /\ inFlight' = e
    /\ mode' = "run"
    /\ cursor' = 0
    /\ flying' = NoExc
    /\ UNCHANGED caught

UnwindLands ==
    /\ mode = "unwind"
    /\ cursor # 0
    /\ FrameAction(cursor, exc[flying].type, FALSE) # "none"
    /\ \E leaves \in 0..Len(stack[cursor].hs) :
          LandAt(FrameAction(cursor, exc[flying].type, FALSE), leaves)

\* A walk that runs off the shadow stack traps.  In phase one that is "uncaught
\* exception", and no cleanup has run; in phase two it is a failure.
WalkEnds ==
    /\ mode \in {"search", "unwind"}
    /\ cursor = 0
    /\ mode' = IF mode = "search" THEN "uncaught" ELSE "nohandler"
    /\ UNCHANGED <<stack, ehTop, objects, cursor, flying>>

-----------------------------------------------------------------------------
(* Landing pads and catch blocks.                                              *)

\* __cxa_end_catch on the innermost caught exception; st is the stack without
\* the catch block being left.  A destructor runs before the object is freed.
EndCatchOn(st) ==
    IF caught = <<>>
    THEN stack' = st /\ UNCHANGED <<exc, caught>>
    ELSE LET e == Head(caught) IN
         IF exc[e].count > 1
         THEN /\ stack' = st
              /\ exc' = [exc EXCEPT ![e].count = @ - 1]
              /\ UNCHANGED caught
         ELSE /\ caught' = Tail(caught)
              /\ IF exc[e].type \in Destroyed
                 THEN /\ stack' = Push(st, "dtor", e)
                      /\ exc' = [exc EXCEPT ![e].count = 0]
                 ELSE /\ stack' = st
                      /\ exc' = Freed(e)

\* The end of a catch block.
EndCatch ==
    /\ Running
    /\ Me.pc = "run"
    /\ Me.fresh = NoExc
    /\ Me.hs # <<>>
    /\ EndCatchOn([Marked(Quiet) EXCEPT ![N].hs = Tail(@)])
    /\ UNCHANGED <<ehTop, uncaught, inFlight, unwinder>>

\* A landing pad leaving a catch block that an exception is passing through.
PadEndCatch ==
    /\ mode = "run"
    /\ N > 0
    /\ Me.pc # "run"
    /\ Me.todo > 0
    /\ Me.hs # <<>>
    /\ EndCatchOn([Marked(Quiet) EXCEPT ![N].hs = Tail(@), ![N].todo = @ - 1])
    /\ UNCHANGED <<ehTop, uncaught, inFlight, unwinder>>

\* __cxa_free_exception: the constructor of a throw expression threw.
PadFreeException ==
    /\ mode = "run"
    /\ N > 0
    /\ Me.pc # "run"
    /\ Me.fresh # NoExc
    /\ stack' = [Marked(Quiet) EXCEPT ![N].fresh = NoExc]
    /\ exc' = Freed(Me.fresh)
    /\ UNCHANGED <<ehTop, caught, uncaught, inFlight, unwinder>>

\* The pad is done with what it had to leave.
PadDone == mode = "run" /\ N > 0 /\ Me.pc # "run" /\ Me.todo = 0 /\ Me.fresh = NoExc

\* An exception caught for the first time goes to the head of the list.
CaughtLast(e) == IF exc[e].count = 0 THEN Append(caught, e) ELSE caught     \* Slip.
CaughtWith(e) == IF exc[e].count = 0 THEN <<e>> \o caught ELSE caught

\* Slip: g_in_flight is not cleared.
CatchBeginsInFlight(e) ==
    /\ stack' = [Marked(Quiet) EXCEPT ![N].pc = "run", ![N].obj = NoExc,
                                      ![N].hs = <<e>> \o @]
    /\ caught' = CaughtWith(e)
    /\ exc' = [exc EXCEPT ![e].count = @ + 1, ![e].uncaught = FALSE, ![e].goal = 0]
    /\ UNCHANGED <<ehTop, inFlight, uncaught, unwinder>>

CatchBegins(e) ==
    /\ stack' = [Marked(Quiet) EXCEPT ![N].pc = "run", ![N].obj = NoExc,
                                      ![N].hs = <<e>> \o @]
    /\ caught' = CaughtWith(e)
    /\ exc' = [exc EXCEPT ![e].count = @ + 1, ![e].uncaught = FALSE, ![e].goal = 0]
    /\ inFlight' = NoExc
    /\ UNCHANGED <<ehTop, uncaught, unwinder>>

\* __cxa_begin_catch.  Reading a freed header is undefined behaviour.
BeginCatch ==
    LET e == Me.obj IN
    /\ PadDone
    /\ Me.pc = "catch"
    /\ \/ /\ ~exc[e].live
          /\ mode' = "ub"
          /\ UNCHANGED <<stack, ehTop, objects, cursor, flying>>
       \/ exc[e].live /\ CatchBegins(e)

\* _Unwind_Resume: phase two goes on below the frame whose cleanup ran.
Resume ==
    LET e == Me.obj IN
    /\ PadDone
    /\ Me.pc = "cleanup"
    /\ \/ /\ ~exc[e].live
          /\ mode' = "ub"
          /\ UNCHANGED <<stack, ehTop, objects, cursor, flying>>
       \/ /\ exc[e].live
          /\ stack' = Marked(Quiet)
          /\ mode' = "unwind"
          /\ cursor' = exc[e].resume
          /\ flying' = e
          /\ UNCHANGED <<ehTop, objects>>

\* abort() has been called, or the behaviour is undefined from here on.
Halted == mode \in Stopped /\ UNCHANGED vars

Unwinding ==
    SearchNext \/ SearchFound \/ UnwindNext \/ UnwindLands \/ WalkEnds

Guest ==
    \/ \E k \in {"eh", "plain"} : Enter(k) \/ TailCall(k)
    \/ \E k \in {"eh", "plain"}, s \in Site : Call(k, s)
    \/ Return
    \/ \E e \in Exc : AllocateException(e)
    \/ \E t \in Type, s \in Site : Throw(t, s)
    \/ \E s \in Site : Rethrow(s)
    \/ EndCatch \/ PadEndCatch \/ PadFreeException \/ BeginCatch \/ Resume

Next == Guest \/ Unwinding \/ Halted

Spec == Init /\ [][Next]_vars

\* The unwinder is straight-line C on the running thread: once entered it keeps
\* taking steps.  Nothing is assumed of the guest.
FairSpec == Spec /\ WF_vars(Unwinding)
-----------------------------------------------------------------------------
(* Properties.                                                                 *)

\* Every variable stays in its domain, and positions name host activations.
TypeOK ==
    /\ stack \in Seq(Activation)
    /\ ehTop \in 0..N
    /\ exc \in [Exc -> Object]
    /\ caught \in Seq(Exc)
    /\ uncaught \in Int
    /\ inFlight \in Exc \cup {NoExc}
    /\ mode \in Mode
    /\ cursor \in 0..N
    /\ flying \in Exc \cup {NoExc}
    /\ mode \in {"search", "unwind"} => flying \in Exc

\* p is the innermost exception frame of st among the activations below i.
NearestFrame(st, p, i) ==
    /\ p \in 0..(i - 1)
    /\ p # 0 => st[p].kind = "eh"
    /\ \A j \in (p + 1)..(i - 1) : st[j].kind # "eh"

\* The shadow stack is exactly the live activations that have an LSDA, in
\* order: the unwinder never walks a frame whose host storage is gone and never
\* misses one (guest_eh_push, guest_eh_pop, resume_at, guest_fini).
ShadowStack ==
    /\ NearestFrame(stack, ehTop, N + 1)
    /\ \A i \in 1..N : stack[i].kind = "eh" => NearestFrame(stack, stack[i].prev, i)

\* Phase one has found a handler for e.
Found(e) == exc[e].uncaught /\ ~(mode \in {"search", "uncaught"} /\ flying = e)

\* The handler phase one found for an exception stays ahead of it, on the stack
\* and unchanged, through every cleanup and whatever the cleanups throw and
\* catch; so phase two, spread over any number of _Unwind_Resume calls, cannot
\* reach "no handler for the exception being unwound".
HandlerAhead ==
    /\ mode # "nohandler"
    /\ \A e \in Exc : Found(e) =>
          /\ Eh(exc[e].goal)
          /\ FrameAction(exc[e].goal, exc[e].type, TRUE) = "catch"
          /\ mode = "unwind" /\ flying = e => cursor >= exc[e].goal
          /\ \A i \in 1..N : stack[i].pc = "cleanup" /\ stack[i].obj = e =>
                exc[e].resume >= exc[e].goal

\* The catch blocks the activations of a stack are inside of, innermost first.
BlocksOf(st) ==
    LET inside[i \in 0..Len(st)] ==
            IF i = 0 THEN <<>> ELSE st[i].hs \o inside[i - 1]
    IN  inside[Len(st)]

\* The list g_caught heads is the catch blocks the guest is in, innermost first,
\* each object with the number of blocks that hold it: what __cxa_end_catch ends
\* and what __cxa_rethrow throws is the exception of the block it is called in.  And
\* __cxa_uncaught_exceptions counts those thrown and not yet handed to a handler.
HandlersInOrder ==
    /\ caught = BlocksOf(stack)
    /\ \A i \in 1..Len(caught) : exc[caught[i]].count = 1
    /\ uncaught = Cardinality({e \in Exc : exc[e].uncaught})

\* Someone still has to throw, resume, catch, leave or free the object.
Owned(e) ==
    \/ flying = e
    \/ e \in ToSet(caught)
    \/ \E i \in 1..N : e \in {stack[i].fresh, stack[i].obj}

\* Nothing holds a freed exception, and no exception is left that nothing holds.
OwnedIffLive == \A e \in Exc : exc[e].live <=> Owned(e)

\* _Unwind_Resume falls back on g_in_flight when it does not know the object it
\* is given.  The fallback never continues another exception than that one.
FallbackAgrees ==
    PadDone /\ Me.pc = "cleanup" => inFlight \in {Me.obj, NoExc}

\* No entry point of the C++ ABI reads an exception that has been freed: rethrow
\* and nested catches are on the list of what guest_eh.c supports.
NoUseAfterFree == mode # "ub"

\* A function the guest has left by a tail call is never entered again: the mark
\* "records where in the function control is", and an exception resumes control
\* only at the landing pad of a call the guest is in.
LandsWhereControlIs ==
    [][\A i \in 1..N : stack[i].left /\ i <= Len(stack') => stack'[i].left]_vars

\* Each walk over the shadow stack comes to an end, in a landing pad or a trap.
WalksEnd == mode \in {"search", "unwind"} ~> mode \notin {"search", "unwind"}
=============================================================================
