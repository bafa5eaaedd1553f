-------------------------- MODULE GuestEHImplements --------------------------
(* GuestEH implements CxxUnwind: the two walks over the shadow stack, cut into *)
(* pieces by the cleanups, amount to the language's single jump.               *)
EXTENDS GuestEH

\* The functions with an exception table, as positions of the stack and as the
\* guest sees them, outermost first.
EhPositions(st) ==
    LET upTo[i \in 0..Len(st)] ==
            IF i = 0 THEN <<>>
            ELSE IF st[i].kind = "eh" THEN Append(upTo[i - 1], i) ELSE upTo[i - 1]
    IN  upTo[Len(st)]

Shown(ex, a) ==
    [site |-> a.site, pc |-> a.pc,
     obj |-> IF a.obj = NoExc THEN NoExc ELSE <<a.obj, ex[a.obj].type>>]

FramesOf(st, ex) == [x \in 1..Len(EhPositions(st)) |-> Shown(ex, st[EhPositions(st)[x]])]
Frames == FramesOf(stack, exc)

Cxx == INSTANCE CxxUnwind WITH frames <- Frames, ended <- mode \in Stopped

\* An exception lands in the innermost function that acts on it, cleanups on the
\* way to the handler run once each and from the inside out, nothing is cleaned
\* up when there is no handler, and functions outside the handler see nothing.
ImplementsCxx == Cxx!Spec
=============================================================================
