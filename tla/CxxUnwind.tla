------------------------------ MODULE CxxUnwind ------------------------------
(* What exception handling promises a C++ program, with no machinery: the      *)
(* functions that have an exception table, the call each is in, and a throw    *)
(* that knows at once where it goes.  GuestEH implements it.                   *)
EXTENDS Naturals, Sequences

CONSTANTS
    Exc, Type, Site,
    NoExc,      \* no exception
    NoSite      \* a function that has made no call yet

VARIABLES
    frames,     \* the functions that have an exception table, outermost first
    ended       \* has the program been terminated

vars == <<frames, ended>>

\* A function runs its body, or a landing pad for an exception of some type.
Frame == [site : Site \cup {NoSite}, pc : {"run", "cleanup", "catch"},
          obj : (Exc \X Type) \cup {NoExc}]

D == Len(frames)
Top == frames[D]

Handles(f, t) == f.site # NoSite /\ t \in f.site.catches
Cleans(f, t) == f.site # NoSite /\ t \notin f.site.catches /\ f.site.cleanup

\* The innermost of the first n functions that acts on an exception of type t.
Innermost(n, t, i) ==
    /\ i \in 1..n
    /\ Handles(frames[i], t) \/ Cleans(frames[i], t)
    /\ \A j \in (i + 1)..n : ~Handles(frames[j], t) /\ ~Cleans(frames[j], t)

Init == frames = <<>> /\ ended = FALSE

\* A function begins, makes a call, or returns.
Begin ==
    /\ ~ended
    /\ frames' = Append(frames, [site |-> NoSite, pc |-> "run", obj |-> NoExc])
    /\ UNCHANGED ended

At(s) ==
    /\ ~ended
    /\ D > 0
    /\ frames' = [frames EXCEPT ![D].site = s]
    /\ UNCHANGED ended

BeginAt(s) ==
    /\ ~ended
    /\ D > 0
    /\ frames' = Append([frames EXCEPT ![D].site = s],
                        [site |-> NoSite, pc |-> "run", obj |-> NoExc])
    /\ UNCHANGED ended

Return ==
    /\ ~ended
    /\ D > 0
    /\ Top.pc = "run"
    /\ frames' = SubSeq(frames, 1, D - 1)
    /\ UNCHANGED ended

\* Exception e of type t lands in function i: its catch block, or its cleanup.
Land(e, t, i) ==
    /\ frames' = [SubSeq(frames, 1, i) EXCEPT
                     ![i].pc = IF Handles(frames[i], t) THEN "catch" ELSE "cleanup",
                     ![i].obj = <<e, t>>]
    /\ UNCHANGED ended

\* A throw lands in the innermost function that acts on it, if one handles it.
Throw(e, t) ==
    /\ ~ended
    /\ D > 0 /\ Top.pc = "run"
    /\ \E i \in 1..D : Handles(frames[i], t)
    /\ \E i \in 1..D : Innermost(D, t, i) /\ Land(e, t, i)

\* With no handler anywhere the program ends where it is: nothing is cleaned up.
Terminate(t) ==
    /\ ~ended
    /\ D > 0 => Top.pc = "run"
    /\ \A i \in 1..D : ~Handles(frames[i], t)
    /\ ended' = TRUE
    /\ UNCHANGED frames

\* A cleanup is over: the same exception goes on to the next function outwards.
GoOn ==
    /\ ~ended
    /\ D > 0
    /\ Top.pc = "cleanup"
    /\ \E i \in 1..D - 1 :
          Innermost(D - 1, Top.obj[2], i) /\ Land(Top.obj[1], Top.obj[2], i)

\* The catch block begins.
Catch(s) ==
    /\ ~ended
    /\ D > 0
    /\ Top.pc = "catch"
    /\ frames' = [frames EXCEPT ![D].pc = "run", ![D].obj = NoExc, ![D].site = s]
    /\ UNCHANGED ended

Next ==
    \/ Begin \/ Return \/ GoOn
    \/ \E s \in Site : At(s) \/ BeginAt(s) \/ Catch(s)
    \/ \E e \in Exc, t \in Type : Throw(e, t)
    \/ \E t \in Type : Terminate(t)

Spec == Init /\ [][Next]_vars
=============================================================================
