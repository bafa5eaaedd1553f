---------------------------- MODULE GuestEHProofs ----------------------------
(* What is proved of GuestEH, for every exception table, every number of       *)
(* exceptions and every depth of calls, landing pads and catch blocks.         *)
(*                                                                             *)
(* The theorems assume a guest without `throw;`.  With it the runtime may free *)
(* the exception it is rethrowing (NoUseAfterFree does not hold), and an       *)
(* address may then be allocated twice, so nothing that rests on who holds an  *)
(* object is invariant.                                                        *)
(*                                                                             *)
(* The first part, up to NothingFreedIsUsed, says who holds an exception.  The  *)
(* second says that every exception thrown reaches the handler phase one found  *)
(* for it, that the caught exceptions are the catch blocks the guest is in,     *)
(* that no exception leaks, and that the fallback of _Unwind_Resume is right.   *)
(* What Inv says of HandlerAhead and the others is not enough to carry them     *)
(* through a step: the handler of an exception must stay below every landing    *)
(* pad that passes it on, whatever the pad throws and catches; a frame phase    *)
(* two goes past must have nothing left to leave.  The invariant HInv says so,  *)
(* and each of its parts has its lemma.                                        *)
EXTENDS GuestEH, SequenceTheorems, FiniteSetTheorems, WellFoundedInduction, TLAPS

-----------------------------------------------------------------------------
(* The inductive invariant.                                                    *)

\* TypeOK and ShadowStack are not inductive alone: that _Unwind_Resume goes on at
\* a frame that exists rests on the resume point in the object, and so on nobody
\* else having the object.  Hence the parts below.

\* What an activation's control state says of the exception it holds.
Pads ==
    \A i \in 1..N :
        /\ stack[i].kind = "dtor" => stack[i].pc = "run" /\ stack[i].obj \in Exc
        /\ stack[i].pc # "run" => stack[i].kind = "eh" /\ stack[i].obj \in Exc
        /\ stack[i].kind # "dtor" /\ stack[i].pc = "run" => stack[i].obj = NoExc
        /\ stack[i].pc = "cleanup" => exc[stack[i].obj].resume = stack[i].prev

\* The walks are at an exception frame, below any cleanup for the same exception.
Walks ==
    /\ mode \in {"search", "unwind"} /\ cursor # 0 => stack[cursor].kind = "eh"
    /\ mode = "run" => flying = NoExc /\ cursor = 0
    /\ \A i \in 1..N : flying # NoExc /\ stack[i].obj = flying =>
          mode # "search" /\ cursor < i

\* Whoever holds an exception, it has not been freed.
HeldIsLive ==
    /\ \A i \in 1..N :
          /\ stack[i].fresh # NoExc => exc[stack[i].fresh].live
          /\ stack[i].obj # NoExc => exc[stack[i].obj].live
    /\ \A k \in 1..Len(caught) : exc[caught[k]].live
    /\ flying # NoExc => exc[flying].live

\* Nobody else holds the exception an activation is about to throw,
FreshAlone ==
    \A i, j \in 1..N : stack[i].fresh # NoExc =>
        /\ stack[i].fresh = stack[j].fresh => i = j
        /\ stack[i].fresh # stack[j].obj
        /\ stack[i].fresh # flying

\* no two landing pads or destructors have the same one,
ObjAlone ==
    \A i, j \in 1..N : stack[i].obj # NoExc /\ stack[i].obj = stack[j].obj => i = j

\* and a caught one is on the list once and not thrown.
CaughtAlone ==
    \A k \in 1..Len(caught) :
        /\ caught[k] # flying
        /\ \A l \in 1..Len(caught) : caught[k] = caught[l] => k = l
        /\ \A i \in 1..N : caught[k] # stack[i].fresh /\ caught[k] # stack[i].obj

Holders == HeldIsLive /\ FreshAlone /\ ObjAlone /\ CaughtAlone

Inv ==
    /\ TypeOK
    /\ ShadowStack
    /\ Pads
    /\ Walks
    /\ Holders
    /\ NoUseAfterFree

-----------------------------------------------------------------------------
(* Sequences of activations.                                                   *)

\* Writing one activation keeps the host stack a sequence of activations.
LEMMA ExceptTyped ==
    ASSUME NEW st \in Seq(Activation), NEW i \in 1..Len(st), NEW a \in Activation
    PROVE  /\ [st EXCEPT ![i] = a] \in Seq(Activation)
           /\ Len([st EXCEPT ![i] = a]) = Len(st)
           /\ \A j \in 1..Len(st) : [st EXCEPT ![i] = a][j] = IF j = i THEN a ELSE st[j]
BY ExceptSeq

\* An activation whose call site is marked, which has left by a tail call, or
\* whose pending exception changes is still an activation.
LEMMA ActivationWith ==
    ASSUME NEW m \in Activation, NEW e \in Exc \cup {NoExc}
    PROVE  /\ [m EXCEPT !.fresh = e] \in Activation
           /\ [m EXCEPT !.fresh = e].kind = m.kind /\ [m EXCEPT !.fresh = e].prev = m.prev
           /\ [m EXCEPT !.fresh = e].pc = m.pc /\ [m EXCEPT !.fresh = e].obj = m.obj
           /\ [m EXCEPT !.fresh = e].fresh = e
BY DEF Activation

LandedIn(m, act, e, leaves) ==
    [m EXCEPT !.pc = act, !.obj = e, !.todo = leaves, !.left = FALSE]

\* resume_at leaves an activation one, with the pad's fields as given.
LEMMA ActivationLanded ==
    ASSUME NEW m \in Activation, NEW act \in {"catch", "cleanup"}, NEW e \in Exc, NEW l \in Nat
    PROVE  /\ LandedIn(m, act, e, l) \in Activation
           /\ LandedIn(m, act, e, l).kind = m.kind /\ LandedIn(m, act, e, l).prev = m.prev
           /\ LandedIn(m, act, e, l).pc = act /\ LandedIn(m, act, e, l).obj = e
           /\ LandedIn(m, act, e, l).fresh = m.fresh
<1> DEFINE y == [m EXCEPT !.pc = act, !.obj = e, !.todo = l]
           a == LandedIn(m, act, e, l)
<1>1. a = [y EXCEPT !.left = FALSE]
  BY DEF LandedIn
<1>2. /\ y \in Activation /\ y.kind = m.kind /\ y.prev = m.prev /\ y.pc = act
      /\ y.obj = e /\ y.fresh = m.fresh
  BY DEF Activation
<1> HIDE DEF y, a
<1>3. ASSUME NEW b \in BOOLEAN PROVE [y EXCEPT !.left = b] \in Activation
  BY <1>2 DEF Activation
<1>4. a \in Activation
  BY <1>1, <1>3
<1>5. a.kind = y.kind /\ a.prev = y.prev /\ a.pc = y.pc /\ a.obj = y.obj /\ a.fresh = y.fresh
  BY <1>1, <1>2, Zenon DEF Activation
<1> QED BY <1>2, <1>4, <1>5 DEF a

Leaving(m) == [m EXCEPT !.hs = Tail(@)]
PadLeaving(m) == [m EXCEPT !.hs = Tail(@), !.todo = @ - 1]
Entering(m, e) == [m EXCEPT !.pc = "run", !.obj = NoExc, !.hs = <<e>> \o @]

\* Leaving a catch block touches nothing but the blocks of the activation.
LEMMA ActivationLeaving ==
    ASSUME NEW m \in Activation, m.hs # <<>>
    PROVE  /\ Leaving(m) \in Activation
           /\ Leaving(m).kind = m.kind /\ Leaving(m).prev = m.prev /\ Leaving(m).pc = m.pc
           /\ Leaving(m).obj = m.obj /\ Leaving(m).fresh = m.fresh
<1>1. m.hs \in Seq(Exc)
  BY DEF Activation
<1>2. PICK t \in Seq(Exc) : t = Tail(m.hs)
  BY <1>1, HeadTailProperties
<1>3. Leaving(m) = [m EXCEPT !.hs = t]
  BY <1>2 DEF Leaving
<1> QED BY <1>3 DEF Activation

\* A landing pad leaving a catch block touches nothing but those blocks.
LEMMA ActivationPadLeaving ==
    ASSUME NEW m \in Activation, m.hs # <<>>, m.todo > 0
    PROVE  /\ PadLeaving(m) \in Activation
           /\ PadLeaving(m).kind = m.kind /\ PadLeaving(m).prev = m.prev
           /\ PadLeaving(m).pc = m.pc /\ PadLeaving(m).obj = m.obj
           /\ PadLeaving(m).fresh = m.fresh
<1>1. m.hs \in Seq(Exc) /\ m.todo \in Nat
  BY DEF Activation
<1>2. PICK t \in Seq(Exc) : t = Tail(m.hs)
  BY <1>1, HeadTailProperties
<1>3. PICK l \in Nat : l = m.todo - 1
  BY <1>1
<1>4. PadLeaving(m) = [m EXCEPT !.hs = t, !.todo = l]
  BY <1>2, <1>3 DEF PadLeaving
<1> QED BY <1>4 DEF Activation

\* Entering a catch block empties the landing pad of its exception.
LEMMA ActivationEntering ==
    ASSUME NEW m \in Activation, NEW e \in Exc
    PROVE  /\ Entering(m, e) \in Activation
           /\ Entering(m, e).kind = m.kind /\ Entering(m, e).prev = m.prev
           /\ Entering(m, e).pc = "run" /\ Entering(m, e).obj = NoExc
           /\ Entering(m, e).fresh = m.fresh
<1>1. m.hs \in Seq(Exc)
  BY DEF Activation
<1>2. PICK t \in Seq(Exc) : t = <<e>> \o m.hs
  <2>1. <<e>> \in Seq(Exc)
    OBVIOUS
  <2> QED BY <1>1, <2>1, ConcatProperties
<1>3. Entering(m, e) = [m EXCEPT !.pc = "run", !.obj = NoExc, !.hs = t]
  BY <1>2 DEF Entering
<1> QED BY <1>3 DEF Activation

\* A header whose handler count changes is a header.
LEMMA ObjectWithCount ==
    ASSUME NEW x \in Object, NEW c \in Int
    PROVE  [x EXCEPT !.count = c] \in Object
BY DEF Object

Counted(x, c) == [x EXCEPT !.count = c]

\* Counting the handlers of an exception does not free it or move its resume
\* point.
LEMMA ObjectCounted ==
    ASSUME NEW x \in Object, NEW c \in Int
    PROVE  Counted(x, c) \in Object /\ Counted(x, c).live = x.live /\ Counted(x, c).resume = x.resume
<1>1. Counted(x, c) \in Object
  BY ObjectWithCount DEF Counted
<1>2. Counted(x, c).live = x.live /\ Counted(x, c).resume = x.resume
  BY Zenon DEF Counted, Object
<1> QED BY <1>1, <1>2

\* Noting the handler phase one found touches neither.
LEMMA ObjectWithGoal ==
    ASSUME NEW x \in Object, NEW n \in Nat
    PROVE  [x EXCEPT !.goal = n] \in Object
BY DEF Object

\* Rethrowing sets a flag of the header and nothing else.
LEMMA ObjectWithUncaught ==
    ASSUME NEW x \in Object, NEW u \in BOOLEAN
    PROVE  [x EXCEPT !.uncaught = u] \in Object
BY DEF Object

\* __cxa_throw fills in a header without freeing it.
LEMMA ObjectThrown ==
    ASSUME NEW x \in Object, NEW t \in Type
    PROVE  /\ [x EXCEPT !.type = t, !.uncaught = TRUE, !.count = 0] \in Object
           /\ [x EXCEPT !.type = t, !.uncaught = TRUE, !.count = 0].live = x.live
           /\ [x EXCEPT !.type = t, !.uncaught = TRUE, !.count = 0].resume = x.resume
<1> DEFINE y == [x EXCEPT !.type = t]
           z == [y EXCEPT !.uncaught = TRUE]
<1>1. [x EXCEPT !.type = t, !.uncaught = TRUE, !.count = 0] = [z EXCEPT !.count = 0]
  OBVIOUS
<1>2. y \in Object /\ y.live = x.live /\ y.resume = x.resume
  BY DEF Object
<1> HIDE DEF y
<1>3. z \in Object /\ z.live = y.live /\ z.resume = y.resume
  <2>1. z \in Object
    BY <1>2, ObjectWithUncaught
  <2>2. z.live = y.live /\ z.resume = y.resume
    BY <1>2, Zenon DEF Object
  <2> QED BY <2>1, <2>2
<1> HIDE DEF z
<1>4. [z EXCEPT !.count = 0] \in Object
  BY <1>3, ObjectWithCount
<1>5. [z EXCEPT !.count = 0].live = z.live /\ [z EXCEPT !.count = 0].resume = z.resume
  BY <1>3, Zenon DEF Object
<1> QED BY <1>1, <1>2, <1>3, <1>4, <1>5

LandedWith(x, n, u) == [x EXCEPT !.resume = n, !.uncaught = u]

\* A landing writes where to resume, and frees nothing.
LEMMA ObjectLanded ==
    ASSUME NEW x \in Object, NEW n \in Nat, NEW u \in BOOLEAN
    PROVE  /\ LandedWith(x, n, u) \in Object
           /\ LandedWith(x, n, u).live = x.live
           /\ LandedWith(x, n, u).resume = n
<1> DEFINE y == [x EXCEPT !.resume = n]
<1>1. LandedWith(x, n, u) = [y EXCEPT !.uncaught = u]
  BY DEF LandedWith
<1>2. y \in Object /\ y.live = x.live /\ y.resume = n
  BY DEF Object
<1> HIDE DEF y
<1>3. [y EXCEPT !.uncaught = u] \in Object
  BY <1>2, ObjectWithUncaught
<1>4. [y EXCEPT !.uncaught = u].live = y.live /\ [y EXCEPT !.uncaught = u].resume = y.resume
  BY <1>2, Zenon DEF Object
<1> QED BY <1>1, <1>2, <1>3, <1>4

CaughtOnce(x) == [x EXCEPT !.count = @ + 1, !.uncaught = FALSE, !.goal = 0]

\* __cxa_begin_catch frees nothing and keeps the resume point.
LEMMA ObjectCaught ==
    ASSUME NEW x \in Object
    PROVE  /\ CaughtOnce(x) \in Object
           /\ CaughtOnce(x).live = x.live
           /\ CaughtOnce(x).resume = x.resume
<1> DEFINE y == [x EXCEPT !.count = @ + 1]
           z == [y EXCEPT !.uncaught = FALSE]
<1>1. CaughtOnce(x) = [z EXCEPT !.goal = 0]
  BY DEF CaughtOnce
<1>2. y \in Object /\ y.live = x.live /\ y.resume = x.resume
  BY DEF Object
<1> HIDE DEF y
<1>3. z \in Object /\ z.live = y.live /\ z.resume = y.resume
  <2>1. z \in Object
    BY <1>2, ObjectWithUncaught
  <2>2. z.live = y.live /\ z.resume = y.resume
    BY <1>2, Zenon DEF Object
  <2> QED BY <2>1, <2>2
<1> HIDE DEF z
<1>4. [z EXCEPT !.goal = 0] \in Object
  BY <1>3, ObjectWithGoal
<1>5. [z EXCEPT !.goal = 0].live = z.live /\ [z EXCEPT !.goal = 0].resume = z.resume
  BY <1>3, Zenon DEF Object
<1> QED BY <1>1, <1>2, <1>3, <1>4, <1>5

\* A freed header, and one fresh from __cxa_allocate_exception, are headers.
LEMMA DeadTyped == Dead \in Object /\ [Dead EXCEPT !.live = TRUE] \in Object
<1>1. (CHOOSE t \in Type : TRUE) \in Type
  BY GuestEHAssumption
<1>2. Dead \in Object
  BY <1>1 DEF Dead, Object
<1>3. [Dead EXCEPT !.live = TRUE] \in Object
  BY <1>2 DEF Object
<1> QED BY <1>2, <1>3

\* A mark changes nothing but call sites.
LEMMA MarkedTyped ==
    ASSUME TypeOK, NEW s \in Site, N > 0
    PROVE  /\ Marked(s) \in Seq(Activation)
           /\ Len(Marked(s)) = N
           /\ \A i \in 1..N :
                 /\ Marked(s)[i] \in Activation
                 /\ Marked(s)[i].kind = stack[i].kind /\ Marked(s)[i].prev = stack[i].prev
                 /\ Marked(s)[i].left = stack[i].left /\ Marked(s)[i].pc = stack[i].pc
                 /\ Marked(s)[i].obj = stack[i].obj /\ Marked(s)[i].fresh = stack[i].fresh
                 /\ Marked(s)[i].hs = stack[i].hs /\ Marked(s)[i].todo = stack[i].todo
<1>1. stack \in Seq(Activation) /\ ehTop \in 0..N
  BY DEF TypeOK
<1>2. ASSUME NEW i \in 1..N PROVE stack[i] \in Activation
  BY <1>1 DEF N
<1>3. CASE Me.kind = "eh" /\ ehTop # 0
  <2>1. ehTop \in 1..N
    BY <1>1, <1>3 DEF N
  <2> DEFINE a == [stack[ehTop] EXCEPT !.site = s]
  <2>2. a \in Activation /\ a.kind = stack[ehTop].kind /\ a.prev = stack[ehTop].prev
        /\ a.left = stack[ehTop].left /\ a.pc = stack[ehTop].pc /\ a.obj = stack[ehTop].obj
        /\ a.fresh = stack[ehTop].fresh /\ a.hs = stack[ehTop].hs /\ a.todo = stack[ehTop].todo
    BY <1>2, <2>1 DEF Activation
  <2>3. Marked(s) = [stack EXCEPT ![ehTop] = a]
    BY <1>3 DEF Marked
  <2> HIDE DEF a
  <2>4. /\ Marked(s) \in Seq(Activation) /\ Len(Marked(s)) = N
        /\ \A j \in 1..N : Marked(s)[j] = IF j = ehTop THEN a ELSE stack[j]
    BY <1>1, <2>1, <2>2, <2>3, ExceptTyped DEF N
  <2> QED BY <2>4, <2>1, <2>2, <1>2
<1>4. CASE ~(Me.kind = "eh" /\ ehTop # 0)
  BY <1>1, <1>2, <1>4 DEF Marked, N
<1> QED BY <1>3, <1>4

\* The host stack is cut back.
LEMMA CutTyped ==
    ASSUME TypeOK, NEW n \in 0..N
    PROVE  /\ SubSeq(stack, 1, n) \in Seq(Activation)
           /\ Len(SubSeq(stack, 1, n)) = n
           /\ \A i \in 1..n : SubSeq(stack, 1, n)[i] = stack[i]
<1>1. N \in Nat /\ 1 \in Int /\ n \in Int /\ \A i \in 1..n : stack[i] \in Activation
  BY DEF TypeOK, N
<1>2. /\ SubSeq(stack, 1, n) \in Seq(Activation)
      /\ Len(SubSeq(stack, 1, n)) = IF 1 <= n THEN n - 1 + 1 ELSE 0
      /\ \A i \in 1..n - 1 + 1 : SubSeq(stack, 1, n)[i] = stack[1 + i - 1]
  BY <1>1, SubSeqProperties
<1> QED BY <1>1, <1>2

\* The part of the stack that stays keeps its shape, and ehTop is the innermost
\* exception frame of that part.
LEMMA CutShape ==
    ASSUME TypeOK, ShadowStack, NEW n \in 0..N, stack' \in Seq(Activation), N' = n,
           \A i \in 1..n : stack'[i].kind = stack[i].kind /\ stack'[i].prev = stack[i].prev,
           NearestFrame(stack, ehTop', n + 1)
    PROVE  ShadowStack'
<1>1. N \in Nat
  BY DEF TypeOK, N
<1>2. ASSUME NEW p, NEW i \in 1..n + 1, NearestFrame(stack, p, i)
      PROVE  NearestFrame(stack', p, i)
  <2>1. \A j \in 1..i - 1 : stack'[j].kind = stack[j].kind
    BY <1>1
  <2> QED BY <1>1, <1>2, <2>1 DEF NearestFrame
<1>3. NearestFrame(stack', ehTop', N' + 1)
  BY <1>1, <1>2
<1>4. ASSUME NEW i \in 1..n, stack'[i].kind = "eh"
      PROVE  NearestFrame(stack', stack'[i].prev, i)
  <2>1. NearestFrame(stack, stack[i].prev, i)
    BY <1>1, <1>4 DEF ShadowStack
  <2> QED BY <1>1, <1>2, <2>1
<1> QED BY <1>3, <1>4 DEF ShadowStack

\* A function is entered: a wrapper pushes its frame.
LEMMA PushShape ==
    ASSUME TypeOK, ShadowStack, NEW k \in {"eh", "plain", "dtor"}, NEW e \in Exc \cup {NoExc},
           NEW st \in Seq(Activation), Len(st) = N,
           \A i \in 1..N : st[i].kind = stack[i].kind /\ st[i].prev = stack[i].prev,
           stack' = Push(st, k, e), ehTop' = TopAfterPush(k)
    PROVE  /\ stack' \in Seq(Activation)
           /\ N' = N + 1
           /\ \A i \in 1..N : stack'[i] = st[i]
           /\ stack'[N + 1] = NewActivation(k, e)
           /\ ehTop' \in 0..N + 1
           /\ ShadowStack'
<1>1. N \in Nat /\ ehTop \in 0..N
  BY DEF TypeOK, N
<1>2. NewActivation(k, e) \in Activation
  BY <1>1 DEF NewActivation, Activation
<1>3. /\ stack' \in Seq(Activation) /\ N' = N + 1 /\ \A i \in 1..N : stack'[i] = st[i]
      /\ stack'[N + 1] = NewActivation(k, e)
  BY <1>1, <1>2, AppendProperties DEF Push, N
<1>4. ehTop' \in 0..N + 1
  BY <1>1 DEF TopAfterPush
<1>5. \A j \in 1..N : stack'[j].kind = stack[j].kind /\ stack'[j].prev = stack[j].prev
  BY <1>3
<1>6. ASSUME NEW p, NEW i \in 1..N + 1, NearestFrame(stack, p, i) PROVE NearestFrame(stack', p, i)
  <2>1. \A j \in 1..i - 1 : stack'[j].kind = stack[j].kind
    BY <1>1, <1>5
  <2> QED BY <1>1, <1>6, <2>1 DEF NearestFrame
<1>7. NearestFrame(stack, ehTop, N + 1)
  BY DEF ShadowStack
<1>8. NearestFrame(stack', ehTop', N' + 1)
  <2>1. CASE k = "eh"
    BY <1>1, <1>3, <2>1 DEF NearestFrame, TopAfterPush, NewActivation
  <2>2. CASE k # "eh"
    BY <1>1, <1>3, <1>7, <2>2 DEF NearestFrame, TopAfterPush, NewActivation
  <2> QED BY <2>1, <2>2
<1>9. ASSUME NEW i \in 1..N', stack'[i].kind = "eh" PROVE NearestFrame(stack', stack'[i].prev, i)
  <2>1. CASE i = N + 1
    <3>1. k = "eh" /\ stack'[i].prev = ehTop
      BY <1>3, <1>9, <2>1 DEF NewActivation
    <3> QED BY <1>1, <1>6, <1>7, <2>1, <3>1
  <2>2. CASE i \in 1..N
    <3>1. NearestFrame(stack, stack[i].prev, i) /\ stack'[i].prev = stack[i].prev
      BY <1>3, <1>9, <2>2 DEF ShadowStack
    <3> QED BY <1>1, <1>6, <2>2, <3>1
  <2> QED BY <1>1, <1>3, <1>9, <2>1, <2>2
<1> QED BY <1>3, <1>4, <1>8, <1>9 DEF ShadowStack

\* A step that marks a call site and then changes the activation on top.
LEMMA TopUpdate ==
    ASSUME TypeOK, ShadowStack, NEW s \in Site, N > 0, NEW a \in Activation,
           a.kind = Me.kind, a.prev = Me.prev,
           stack' = [Marked(s) EXCEPT ![N] = a], ehTop' = ehTop
    PROVE  /\ stack' \in Seq(Activation)
           /\ N' = N /\ N \in Nat
           /\ stack'[N] = a
           /\ \A i \in 1..N - 1 :
                 /\ stack'[i].kind = stack[i].kind /\ stack'[i].prev = stack[i].prev
                 /\ stack'[i].pc = stack[i].pc /\ stack'[i].obj = stack[i].obj
                 /\ stack'[i].fresh = stack[i].fresh
           /\ ShadowStack'
<1>1. N \in 1..N /\ N \in Nat
  BY DEF TypeOK, N
<1>2. /\ stack' \in Seq(Activation) /\ N' = N /\ stack'[N] = a
      /\ \A i \in 1..N - 1 : stack'[i] = Marked(s)[i]
  BY <1>1, MarkedTyped, ExceptTyped DEF N
<1>3. \A i \in 1..N - 1 :
         /\ stack'[i].kind = stack[i].kind /\ stack'[i].prev = stack[i].prev
         /\ stack'[i].pc = stack[i].pc /\ stack'[i].obj = stack[i].obj
         /\ stack'[i].fresh = stack[i].fresh
  BY <1>1, <1>2, MarkedTyped
<1>4. \A i \in 1..N : stack'[i].kind = stack[i].kind /\ stack'[i].prev = stack[i].prev
  BY <1>1, <1>2, <1>3 DEF Me
<1>5. NearestFrame(stack, ehTop', N + 1)
  BY DEF ShadowStack
<1> QED BY <1>1, <1>2, <1>3, <1>4, <1>5, CutShape

\* A step after which fewer hold an exception.
LEMMA HoldersKept ==
    ASSUME TypeOK, Holders, HeldIsLive',
           \A i \in 1..N' :
              /\ stack'[i].fresh # NoExc => i \in 1..N /\ stack'[i].fresh = stack[i].fresh
              /\ stack'[i].obj # NoExc => i \in 1..N /\ stack'[i].obj = stack[i].obj,
           caught' = caught \/ (caught # <<>> /\ caught' = Tail(caught)),
           flying' = NoExc \/ flying' = flying
    PROVE  Holders'
<1>1. \A i \in 1..N : stack[i].fresh \in Exc \cup {NoExc} /\ stack[i].obj \in Exc \cup {NoExc}
  <2>1. \A i \in 1..N : stack[i] \in Activation
    BY DEF TypeOK, N
  <2> QED BY <2>1 DEF Activation
<1>2. \A k \in 1..Len(caught) : caught[k] \in Exc
  BY DEF TypeOK
<1>3. flying \in Exc \cup {NoExc} /\ NoExc \notin Exc
  BY GuestEHAssumption DEF TypeOK
<1>4. PICK d \in {0, 1} :
          \A k \in 1..Len(caught') : k + d \in 1..Len(caught) /\ caught'[k] = caught[k + d]
  <2>1. CASE caught' = caught
    BY <2>1 DEF TypeOK
  <2>2. CASE caught # <<>> /\ caught' = Tail(caught)
    BY <2>2, HeadTailProperties DEF TypeOK
  <2> QED BY <2>1, <2>2
<1>5. FreshAlone'
  BY <1>1, <1>3 DEF Holders, FreshAlone
<1>6. ObjAlone'
  BY DEF Holders, ObjAlone
<1>7. CaughtAlone'
  <2> SUFFICES ASSUME NEW k \in 1..Len(caught')
               PROVE  /\ caught'[k] # flying'
                      /\ \A l \in 1..Len(caught') : caught'[k] = caught'[l] => k = l
                      /\ \A i \in 1..N' : caught'[k] # stack'[i].fresh /\ caught'[k] # stack'[i].obj
    BY DEF CaughtAlone
  <2>1. k + d \in 1..Len(caught) /\ caught'[k] = caught[k + d] /\ caught'[k] # NoExc
    BY <1>2, <1>3, <1>4
  <2>2. caught'[k] # flying'
    BY <2>1 DEF Holders, CaughtAlone
  <2>3. ASSUME NEW l \in 1..Len(caught'), caught'[k] = caught'[l] PROVE k = l
    <3>1. k + d = l + d
      BY <1>4, <2>1, <2>3 DEF Holders, CaughtAlone
    <3> QED BY <3>1 DEF TypeOK
  <2>4. ASSUME NEW i \in 1..N' PROVE caught'[k] # stack'[i].fresh /\ caught'[k] # stack'[i].obj
    BY <2>1 DEF Holders, CaughtAlone
  <2> QED BY <2>2, <2>3, <2>4
<1> QED BY <1>5, <1>6, <1>7 DEF Holders

-----------------------------------------------------------------------------
(* Every step keeps the invariant.                                             *)

\* Before the host calls an entry point nothing is held.
LEMMA InvInit == Init => Inv
<1> SUFFICES ASSUME Init PROVE Inv
  OBVIOUS
<1> USE DEF Init
<1>1. stack \in Seq(Activation) /\ caught \in Seq(Exc) /\ N = 0 /\ Len(caught) = 0
  BY EmptySeq DEF N
<1>2. (CHOOSE t \in Type : TRUE) \in Type
  BY GuestEHAssumption
<1>3. exc \in [Exc -> Object]
  BY <1>2 DEF Dead, Object
<1>4. TypeOK
  BY <1>1, <1>3 DEF TypeOK, Mode
<1>5. ShadowStack
  BY <1>1 DEF ShadowStack, NearestFrame
<1>6. Pads /\ Walks /\ NoUseAfterFree
  BY <1>1 DEF Pads, Walks, NoUseAfterFree
<1>7. Holders
  BY <1>1 DEF Holders, HeldIsLive, FreshAlone, ObjAlone, CaughtAlone
<1> QED BY <1>4, <1>5, <1>6, <1>7 DEF Inv

\* The host calls an entry point: the first activation.
LEMMA InvEnter ==
    ASSUME Inv, NEW k \in {"eh", "plain"}, Enter(k)
    PROVE  Inv'
<1> USE DEF Inv, objects, unwinder
<1>1. stack \in Seq(Activation) /\ Len(stack) = 0 /\ N = 0 /\ mode = "run" /\ flying = NoExc
  BY DEF Enter, TypeOK, N, Walks
<1>2. /\ stack' = Push(stack, k, NoExc) /\ ehTop' = TopAfterPush(k)
      /\ UNCHANGED <<exc, caught, uncaught, inFlight, mode, cursor, flying>>
  BY DEF Enter
<1>3. /\ stack' \in Seq(Activation) /\ N' = 1 /\ stack'[1] = NewActivation(k, NoExc)
      /\ ehTop' \in 0..1 /\ ShadowStack'
  <2>1. NoExc \in Exc \cup {NoExc} /\ k \in {"eh", "plain", "dtor"} /\ Len(stack) = N
    BY <1>1
  <2>2. /\ stack' \in Seq(Activation) /\ N' = N + 1 /\ stack'[N + 1] = NewActivation(k, NoExc)
        /\ ehTop' \in 0..N + 1 /\ ShadowStack'
    BY <1>1, <1>2, <2>1, PushShape
  <2> QED BY <1>1, <2>2
<1>4. TypeOK'
  BY <1>1, <1>2, <1>3 DEF TypeOK
<1>5. stack'[1].fresh = NoExc /\ stack'[1].obj = NoExc
      /\ stack'[1].pc = "run" /\ stack'[1].kind # "dtor"
  BY <1>3 DEF NewActivation
<1>6. Pads' /\ Walks' /\ NoUseAfterFree'
  BY <1>1, <1>2, <1>3, <1>5 DEF Pads, Walks, NoUseAfterFree
<1>7. Holders'
  BY <1>1, <1>2, <1>3, <1>5 DEF Holders, HeldIsLive, FreshAlone, ObjAlone, CaughtAlone
<1> QED BY <1>3, <1>4, <1>6, <1>7

\* A call, of either kind: the stack with its site marked and a new activation.
LEMMA InvPush ==
    ASSUME Inv, NEW k \in {"eh", "plain"}, NEW st \in Seq(Activation), N > 0, Len(st) = N,
           mode = "run",
           \A i \in 1..N :
              /\ st[i].kind = stack[i].kind /\ st[i].prev = stack[i].prev
              /\ st[i].pc = stack[i].pc /\ st[i].obj = stack[i].obj
              /\ st[i].fresh = stack[i].fresh,
           stack' = Push(st, k, NoExc), ehTop' = TopAfterPush(k),
           UNCHANGED <<objects, unwinder>>
    PROVE  Inv'
<1> USE DEF Inv, objects, unwinder
<1>1. N \in Nat /\ NoExc \in Exc \cup {NoExc} /\ flying = NoExc
  BY DEF TypeOK, N, Walks
<1>2. /\ stack' \in Seq(Activation) /\ N' = N + 1 /\ stack'[N + 1] = NewActivation(k, NoExc)
      /\ ehTop' \in 0..N + 1 /\ ShadowStack'
      /\ \A i \in 1..N : stack'[i] = st[i]
  BY <1>1, PushShape
<1>3. \A i \in 1..N :
         /\ stack'[i].kind = stack[i].kind /\ stack'[i].prev = stack[i].prev
         /\ stack'[i].pc = stack[i].pc /\ stack'[i].obj = stack[i].obj
         /\ stack'[i].fresh = stack[i].fresh
  BY <1>2
<1>4. TypeOK'
  BY <1>1, <1>2 DEF TypeOK
<1>5. stack'[N + 1].fresh = NoExc /\ stack'[N + 1].obj = NoExc
      /\ stack'[N + 1].pc = "run" /\ stack'[N + 1].kind # "dtor"
  BY <1>2 DEF NewActivation
<1>6. Pads'
  BY <1>1, <1>2, <1>3, <1>5 DEF Pads
<1>7. Walks' /\ NoUseAfterFree'
  BY <1>1, <1>2, <1>3, <1>5 DEF Walks, NoUseAfterFree
<1>8. Holders'
  <2>1. \A i \in 1..N' : i \in 1..N \/ i = N + 1
    BY <1>1, <1>2
  <2>2. \A i \in 1..N' :
           /\ stack'[i].fresh # NoExc => i \in 1..N /\ stack'[i].fresh = stack[i].fresh
           /\ stack'[i].obj # NoExc => i \in 1..N /\ stack'[i].obj = stack[i].obj
    BY <1>3, <1>5, <2>1
  <2>3. HeldIsLive'
    BY <1>1, <2>2 DEF Holders, HeldIsLive
  <2> QED BY <1>1, <2>2, <2>3, HoldersKept
<1> QED BY <1>2, <1>4, <1>6, <1>7, <1>8

\* A call marks its site, which no exception depends on, and pushes.
LEMMA InvCall ==
    ASSUME Inv, NEW k \in {"eh", "plain"}, NEW s \in Site, Call(k, s)
    PROVE  Inv'
<1>1. N > 0 /\ mode = "run" /\ stack' = Push(Marked(s), k, NoExc) /\ ehTop' = TopAfterPush(k)
      /\ UNCHANGED <<objects, unwinder>>
  BY DEF Call, Running
<1> QED BY <1>1, InvPush, MarkedTyped DEF Inv

\* A tail call does not mark, and leaves its activation and its frame in place.
LEMMA InvTailCall ==
    ASSUME Inv, NEW k \in {"eh", "plain"}, TailCall(k)
    PROVE  Inv'
<1> DEFINE a == [Me EXCEPT !.left = TRUE]
           st == [stack EXCEPT ![N] = a]
<1>1. N > 0 /\ mode = "run" /\ stack' = Push(st, k, NoExc) /\ ehTop' = TopAfterPush(k)
      /\ UNCHANGED <<objects, unwinder>>
  BY DEF TailCall, Running, Me
<1>2. stack \in Seq(Activation) /\ N \in 1..Len(stack) /\ N = Len(stack) /\ Me \in Activation
  BY <1>1 DEF Inv, TypeOK, N, Me
<1>3. a \in Activation /\ a.kind = Me.kind /\ a.prev = Me.prev /\ a.pc = Me.pc
      /\ a.obj = Me.obj /\ a.fresh = Me.fresh
  BY <1>2 DEF Activation
<1> HIDE DEF a
<1>4. /\ st \in Seq(Activation) /\ Len(st) = N
      /\ \A i \in 1..N :
            /\ st[i].kind = stack[i].kind /\ st[i].prev = stack[i].prev
            /\ st[i].pc = stack[i].pc /\ st[i].obj = stack[i].obj
            /\ st[i].fresh = stack[i].fresh
  BY <1>2, <1>3, ExceptTyped DEF Me
<1> HIDE DEF st
<1> QED BY <1>1, <1>4, InvPush

\* A function returns.  An object whose destructor this was had no other holder.
LEMMA InvReturn ==
    ASSUME Inv, Return
    PROVE  Inv'
<1> USE DEF Inv, unwinder
<1>1. /\ N \in Nat /\ N > 0 /\ N \in 1..N /\ mode = "run" /\ flying = NoExc
      /\ stack' = SubSeq(stack, 1, N - 1)
      /\ UNCHANGED <<caught, uncaught, inFlight, mode, cursor, flying>>
  BY DEF Return, TypeOK, N, Walks
<1>2. \A i \in 1..N : stack[i] \in Activation
  BY DEF TypeOK, N
<1>3. /\ stack' \in Seq(Activation) /\ N' = N - 1 /\ N - 1 \in 0..N
      /\ \A i \in 1..N - 1 : stack'[i] = stack[i]
  <2>1. N - 1 \in 0..N
    BY <1>1
  <2>2. /\ SubSeq(stack, 1, N - 1) \in Seq(Activation) /\ Len(SubSeq(stack, 1, N - 1)) = N - 1
        /\ \A i \in 1..N - 1 : SubSeq(stack, 1, N - 1)[i] = stack[i]
    BY <2>1, CutTyped
  <2>3. N' = Len(stack')
    BY DEF N
  <2> QED BY <1>1, <2>1, <2>2, <2>3
<1>4. NearestFrame(stack, ehTop', N)
  <2>1. NearestFrame(stack, ehTop, N + 1)
    BY DEF ShadowStack
  <2>2. CASE N = 1
    BY <1>1, <2>2 DEF Return, TopAfterPop, NearestFrame
  <2>3. CASE N # 1 /\ Me.kind = "eh"
    BY <1>1, <2>3 DEF Return, TopAfterPop, ShadowStack, Me
  <2>4. CASE N # 1 /\ Me.kind # "eh"
    BY <1>1, <2>1, <2>4 DEF Return, TopAfterPop, NearestFrame, Me
  <2> QED BY <2>2, <2>3, <2>4
<1>5. ShadowStack'
  BY <1>1, <1>3, <1>4, CutShape
<1>6. Me.kind = "dtor" => Me.obj \in Exc
  BY <1>1 DEF Pads, Me
<1>7. exc' = IF Me.kind = "dtor" THEN [exc EXCEPT ![Me.obj] = Dead] ELSE exc
  BY DEF Return, Freed
<1>8. TypeOK'
  <2>1. Dead \in Object
    BY DeadTyped
  <2>2. exc' \in [Exc -> Object]
    BY <1>7, <2>1 DEF TypeOK
  <2>3. ehTop' \in 0..N' /\ cursor' \in 0..N'
    <3>1. cursor' \in 0..N'
      BY <1>1, <1>3 DEF Walks
    <3>2. ehTop' \in 0..N'
      BY <1>1, <1>3, <1>4 DEF NearestFrame
    <3> QED BY <3>1, <3>2
  <2> QED BY <1>1, <1>3, <2>2, <2>3 DEF TypeOK
<1>9. \A x \in Exc : (Me.kind = "dtor" /\ x = Me.obj) \/ exc'[x] = exc[x]
  BY <1>7 DEF TypeOK
<1>10. ASSUME NEW i \in 1..N - 1
       PROVE  /\ stack[i].fresh # NoExc => exc'[stack[i].fresh] = exc[stack[i].fresh]
              /\ stack[i].obj # NoExc => exc'[stack[i].obj] = exc[stack[i].obj]
  <2>1. stack[i].fresh \in Exc \cup {NoExc} /\ stack[i].obj \in Exc \cup {NoExc}
    BY <1>1, <1>2 DEF Activation
  <2>2. i \in 1..N /\ i # N
    BY <1>1
  <2>3. stack[i].obj # NoExc => stack[i].obj # Me.obj
    BY <1>1, <2>2 DEF Holders, ObjAlone, Me
  <2>4. stack[i].fresh # NoExc => stack[i].fresh # Me.obj
    BY <1>1, <2>2 DEF Holders, FreshAlone, Me
  <2> QED BY <1>9, <2>1, <2>3, <2>4
<1>11. \A k \in 1..Len(caught) : exc'[caught[k]] = exc[caught[k]]
  BY <1>1, <1>9 DEF Holders, CaughtAlone, Me, TypeOK
<1>12. \A i \in 1..N' : i \in 1..N - 1 /\ i \in 1..N /\ stack'[i] = stack[i]
  BY <1>1, <1>3
<1>13. Pads'
  <2> SUFFICES ASSUME NEW i \in 1..N'
      PROVE  /\ stack[i].kind = "dtor" => stack[i].pc = "run" /\ stack[i].obj \in Exc
             /\ stack[i].pc # "run" => stack[i].kind = "eh" /\ stack[i].obj \in Exc
             /\ stack[i].kind # "dtor" /\ stack[i].pc = "run" => stack[i].obj = NoExc
             /\ stack[i].pc = "cleanup" => exc'[stack[i].obj].resume = stack[i].prev
    BY <1>12 DEF Pads
  <2>1. i \in 1..N - 1 /\ i \in 1..N
    BY <1>12
  <2>2. stack[i].pc = "cleanup" => exc'[stack[i].obj] = exc[stack[i].obj]
    BY <1>10, <2>1, GuestEHAssumption DEF Pads
  <2> QED BY <2>1, <2>2 DEF Pads
<1>14. Walks' /\ NoUseAfterFree'
  BY <1>1 DEF Walks, NoUseAfterFree
<1>15. HeldIsLive'
  BY <1>1, <1>10, <1>11, <1>12 DEF Holders, HeldIsLive
<1>16. Holders'
  BY <1>1, <1>12, <1>15, HoldersKept
<1> QED BY <1>5, <1>8, <1>13, <1>14, <1>16

\* An address nobody holds, because the object there is free, becomes an object.
LEMMA InvAllocateException ==
    ASSUME Inv, NEW e \in Exc, AllocateException(e)
    PROVE  Inv'
<1> DEFINE a == [Marked(Quiet)[N] EXCEPT !.fresh = e]
<1> USE DEF Inv, unwinder
<1>1. /\ N > 0 /\ mode = "run" /\ flying = NoExc /\ Me.fresh = NoExc /\ ~exc[e].live
      /\ stack' = [Marked(Quiet) EXCEPT ![N] = a]
      /\ exc' = [exc EXCEPT ![e] = [Dead EXCEPT !.live = TRUE]]
      /\ UNCHANGED <<ehTop, caught, uncaught, inFlight, mode, cursor, flying>>
  BY DEF AllocateException, Running, Walks
<1>2. Quiet \in Site /\ N \in 1..N /\ N \in Nat /\ NoExc \notin Exc
  BY <1>1, GuestEHAssumption DEF TypeOK, N
<1>3. a \in Activation /\ a.kind = Me.kind /\ a.prev = Me.prev /\ a.pc = Me.pc
      /\ a.obj = Me.obj /\ a.fresh = e
  <2>1. /\ Marked(Quiet)[N] \in Activation /\ Marked(Quiet)[N].kind = Me.kind
        /\ Marked(Quiet)[N].prev = Me.prev /\ Marked(Quiet)[N].pc = Me.pc
        /\ Marked(Quiet)[N].obj = Me.obj
    BY <1>1, <1>2, MarkedTyped DEF Me
  <2> QED BY <2>1, ActivationWith
<1> HIDE DEF a
<1>4. /\ stack' \in Seq(Activation) /\ N' = N /\ stack'[N] = a /\ ShadowStack'
      /\ \A i \in 1..N - 1 :
            /\ stack'[i].kind = stack[i].kind /\ stack'[i].prev = stack[i].prev
            /\ stack'[i].pc = stack[i].pc /\ stack'[i].obj = stack[i].obj
            /\ stack'[i].fresh = stack[i].fresh
  BY <1>1, <1>2, <1>3, TopUpdate
<1>5. \A i \in 1..N :
            /\ stack'[i].kind = stack[i].kind /\ stack'[i].prev = stack[i].prev
            /\ stack'[i].pc = stack[i].pc /\ stack'[i].obj = stack[i].obj
            /\ stack'[i].fresh = IF i = N THEN e ELSE stack[i].fresh
  BY <1>2, <1>3, <1>4 DEF Me
<1>6. \A i \in 1..N : stack[i].fresh # e /\ stack[i].obj # e
  BY <1>1, <1>2 DEF Holders, HeldIsLive
<1>7. \A k \in 1..Len(caught) : caught[k] # e /\ caught[k] \in Exc
  BY <1>1 DEF Holders, HeldIsLive, TypeOK
<1>8. \A x \in Exc : exc'[x] = IF x = e THEN [Dead EXCEPT !.live = TRUE] ELSE exc[x]
  BY <1>1 DEF TypeOK
<1>9. TypeOK'
  <2>1. [Dead EXCEPT !.live = TRUE] \in Object
    BY DeadTyped
  <2> QED BY <1>1, <1>4, <2>1 DEF TypeOK
<1>10. \A i \in 1..N : stack[i].obj # NoExc => exc'[stack[i].obj] = exc[stack[i].obj]
  <2>1. \A i \in 1..N : stack[i] \in Activation
    BY DEF TypeOK, N
  <2> QED BY <1>6, <1>8, <2>1 DEF Activation
<1>11. Pads'
  BY <1>2, <1>4, <1>5, <1>10 DEF Pads
<1>12. Walks' /\ NoUseAfterFree'
  BY <1>1, <1>4, <1>5 DEF Walks, NoUseAfterFree
<1>13. HeldIsLive'
  <2>1. ASSUME NEW i \in 1..N, stack'[i].fresh # NoExc PROVE exc'[stack'[i].fresh].live
    <3>1. stack[i] \in Activation
      BY DEF TypeOK, N
    <3>2. i # N => stack[i].fresh \in Exc
      BY <1>5, <2>1, <3>1 DEF Activation
    <3>3. CASE i = N
      BY <1>5, <1>8, <3>3 DEF Dead
    <3>4. CASE i # N
      BY <1>5, <1>6, <1>8, <2>1, <3>2, <3>4 DEF Holders, HeldIsLive
    <3> QED BY <3>3, <3>4
  <2> QED BY <1>1, <1>4, <1>5, <1>7, <1>8, <1>10, <2>1 DEF Holders, HeldIsLive
<1>14. FreshAlone' /\ ObjAlone' /\ CaughtAlone'
  BY <1>1, <1>2, <1>4, <1>5, <1>6, <1>7 DEF Holders, FreshAlone, ObjAlone, CaughtAlone
<1> QED BY <1>4, <1>9, <1>11, <1>12, <1>13, <1>14 DEF Holders

\* The thrower hands its object over to the walk.
LEMMA InvThrow ==
    ASSUME Inv, NEW t \in Type, NEW s \in Site, Throw(t, s)
    PROVE  Inv'
<1> DEFINE e == Me.fresh
           a == [Marked(s)[N] EXCEPT !.fresh = NoExc]
           x == [exc[e] EXCEPT !.type = t, !.uncaught = TRUE, !.count = 0]
<1> USE DEF Inv
<1>1. /\ N > 0 /\ mode = "run" /\ flying = NoExc /\ e # NoExc
      /\ stack' = [Marked(s) EXCEPT ![N] = a]
      /\ exc' = [exc EXCEPT ![e] = x]
      /\ uncaught' = uncaught + 1 /\ mode' = "search" /\ cursor' = ehTop /\ flying' = e
      /\ UNCHANGED <<ehTop, caught, inFlight>>
  BY DEF Throw, Running, Walks
<1>2. N \in 1..N /\ N \in Nat /\ NoExc \notin Exc /\ Me \in Activation
  BY <1>1, GuestEHAssumption DEF TypeOK, N, Me
<1>3. e \in Exc /\ exc[e] \in Object
  BY <1>1, <1>2 DEF Activation, TypeOK
<1>4. x \in Object /\ x.live = exc[e].live /\ x.resume = exc[e].resume
  BY <1>3, ObjectThrown
<1>5. a \in Activation /\ a.kind = Me.kind /\ a.prev = Me.prev /\ a.pc = Me.pc
      /\ a.obj = Me.obj /\ a.fresh = NoExc
  <2>1. /\ Marked(s)[N] \in Activation /\ Marked(s)[N].kind = Me.kind
        /\ Marked(s)[N].prev = Me.prev /\ Marked(s)[N].pc = Me.pc
        /\ Marked(s)[N].obj = Me.obj
    BY <1>1, <1>2, MarkedTyped DEF Me
  <2> QED BY <2>1, ActivationWith
<1> HIDE DEF a, x
<1>6. /\ stack' \in Seq(Activation) /\ N' = N /\ stack'[N] = a /\ ShadowStack'
      /\ \A i \in 1..N - 1 :
            /\ stack'[i].kind = stack[i].kind /\ stack'[i].prev = stack[i].prev
            /\ stack'[i].pc = stack[i].pc /\ stack'[i].obj = stack[i].obj
            /\ stack'[i].fresh = stack[i].fresh
  BY <1>1, <1>2, <1>5, TopUpdate
<1>7. \A i \in 1..N :
            /\ stack'[i].kind = stack[i].kind /\ stack'[i].prev = stack[i].prev
            /\ stack'[i].pc = stack[i].pc /\ stack'[i].obj = stack[i].obj
            /\ stack'[i].fresh = IF i = N THEN NoExc ELSE stack[i].fresh
  BY <1>2, <1>5, <1>6 DEF Me
<1>8. \A y \in Exc : exc'[y].live = exc[y].live /\ exc'[y].resume = exc[y].resume
  BY <1>1, <1>3, <1>4 DEF TypeOK
<1>9. TypeOK'
  BY <1>1, <1>3, <1>4, <1>6 DEF TypeOK, Mode
<1>10. \A i \in 1..N : stack[i].obj # e /\ (stack[i].fresh = e => i = N)
  BY <1>1, <1>2 DEF Holders, FreshAlone, Me
<1>11. \A k \in 1..Len(caught) : caught[k] # e /\ caught[k] \in Exc
  BY <1>1, <1>2 DEF Holders, CaughtAlone, TypeOK, Me
<1>12. \A i \in 1..N : stack[i].obj \in Exc \cup {NoExc} /\ stack[i].fresh \in Exc \cup {NoExc}
  <2>1. \A i \in 1..N : stack[i] \in Activation
    BY DEF TypeOK, N
  <2> QED BY <2>1 DEF Activation
<1>13. Pads'
  BY <1>2, <1>6, <1>7, <1>8 DEF Pads
<1>14. Walks' /\ NoUseAfterFree'
  <2>1. cursor' # 0 => stack'[cursor'].kind = "eh"
    BY <1>1, <1>2, <1>6, <1>7 DEF ShadowStack, NearestFrame
  <2> QED BY <1>1, <1>6, <1>7, <1>10, <2>1 DEF Walks, NoUseAfterFree
<1>15. HeldIsLive'
  <2>1. exc[e].live
    BY <1>1, <1>2 DEF Holders, HeldIsLive, Me
  <2> QED BY <1>1, <1>3, <1>6, <1>7, <1>8, <1>11, <1>12, <2>1 DEF Holders, HeldIsLive
<1>16. FreshAlone' /\ ObjAlone' /\ CaughtAlone'
  <2>1. FreshAlone'
    BY <1>1, <1>6, <1>7, <1>10 DEF Holders, FreshAlone
  <2>2. ObjAlone'
    BY <1>1, <1>6, <1>7 DEF Holders, ObjAlone
  <2>3. CaughtAlone'
    BY <1>1, <1>2, <1>6, <1>7, <1>11 DEF Holders, CaughtAlone
  <2> QED BY <2>1, <2>2, <2>3
<1> QED BY <1>6, <1>9, <1>13, <1>14, <1>15, <1>16 DEF Holders

-----------------------------------------------------------------------------
(* The walks.                                                                  *)

\* A walk that stops at a frame stops there to catch or to clean up.
LEMMA ActionOf ==
    ASSUME NEW f, NEW t, NEW want
    PROVE  FrameAction(f, t, want) \in {"none", "catch", "cleanup"}
BY DEF FrameAction

\* A step of a loop that reads a prev pointer, or a trap.
LEMMA InvWalk ==
    ASSUME Inv, SearchNext \/ UnwindNext \/ WalkEnds
    PROVE  Inv'
<1> USE DEF Inv
<1>1. /\ UNCHANGED <<stack, ehTop, exc, caught, uncaught, inFlight, flying>>
      /\ mode \in {"search", "unwind"} /\ mode' \in {mode, "uncaught", "nohandler"}
      /\ (cursor = 0 /\ cursor' = 0) \/ (cursor # 0 /\ cursor' = stack[cursor].prev)
  BY DEF SearchNext, UnwindNext, WalkEnds, objects
<1>2. N \in Nat /\ cursor \in 0..N /\ N' = N
  BY <1>1 DEF TypeOK, N
<1>3. cursor # 0 => cursor' \in 0..cursor - 1 /\ (cursor' # 0 => stack[cursor'].kind = "eh")
  BY <1>1, <1>2 DEF Walks, ShadowStack, NearestFrame
<1>4. TypeOK'
  <2>1. cursor' \in 0..N
    BY <1>1, <1>2, <1>3
  <2>2. mode' \in Mode /\ flying' \in Exc
    BY <1>1 DEF TypeOK, Mode, Stopped
  <2> QED BY <1>1, <1>2, <2>1, <2>2 DEF TypeOK
<1>5. ShadowStack'
  BY <1>1, <1>2 DEF ShadowStack, NearestFrame
<1>6. Pads' /\ NoUseAfterFree'
  BY <1>1, <1>2 DEF Pads, NoUseAfterFree
<1>7. Walks'
  BY <1>1, <1>2, <1>3 DEF Walks
<1>8. Holders'
  BY <1>1, <1>2 DEF Holders, HeldIsLive, FreshAlone, ObjAlone, CaughtAlone
<1> QED BY <1>4, <1>5, <1>6, <1>7, <1>8

\* Phase one has found a handler: phase two begins at the top again.
LEMMA InvSearchFound ==
    ASSUME Inv, SearchFound
    PROVE  Inv'
<1> DEFINE x == [exc[flying] EXCEPT !.goal = cursor]
<1> USE DEF Inv
<1>1. /\ UNCHANGED <<stack, ehTop, caught, uncaught, inFlight, flying>>
      /\ mode = "search" /\ mode' = "unwind" /\ cursor' = ehTop
      /\ exc' = [exc EXCEPT ![flying] = x]
  BY DEF SearchFound
<1>2. /\ N \in Nat /\ cursor \in 0..N /\ N' = N /\ ehTop \in 0..N
      /\ flying \in Exc /\ exc[flying] \in Object
  BY <1>1 DEF TypeOK, N
<1>3. x \in Object /\ x.live = exc[flying].live /\ x.resume = exc[flying].resume
  <2>1. x \in Object
    BY <1>2, ObjectWithGoal
  <2>2. x.live = exc[flying].live /\ x.resume = exc[flying].resume
    BY <1>2, Zenon DEF Object
  <2> QED BY <2>1, <2>2
<1> HIDE DEF x
<1>4. \A y \in Exc : exc'[y].live = exc[y].live /\ exc'[y].resume = exc[y].resume
  BY <1>1, <1>2, <1>3 DEF TypeOK
<1>5. TypeOK'
  BY <1>1, <1>2, <1>3 DEF TypeOK, Mode
<1>6. ShadowStack'
  BY <1>1, <1>2 DEF ShadowStack, NearestFrame
<1>7. \A i \in 1..N : stack[i].obj \in Exc \cup {NoExc} /\ stack[i].fresh \in Exc \cup {NoExc}
  <2>1. \A i \in 1..N : stack[i] \in Activation
    BY DEF TypeOK, N
  <2> QED BY <2>1 DEF Activation
<1>8. Pads' /\ NoUseAfterFree'
  BY <1>1, <1>2, <1>4 DEF Pads, NoUseAfterFree
<1>9. Walks'
  BY <1>1, <1>2 DEF Walks, ShadowStack, NearestFrame
<1>10. HeldIsLive'
  <2>1. \A k \in 1..Len(caught) : caught[k] \in Exc
    BY DEF TypeOK
  <2> QED BY <1>1, <1>2, <1>4, <1>7, <2>1 DEF Holders, HeldIsLive
<1>11. FreshAlone' /\ ObjAlone' /\ CaughtAlone'
  BY <1>1, <1>2 DEF Holders, FreshAlone, ObjAlone, CaughtAlone
<1> QED BY <1>5, <1>6, <1>8, <1>9, <1>10, <1>11 DEF Holders

\* The walk hands the object to the landing pad it stops at; the pads above it,
\* which are the only ones that may hold it too, are cut off.
LEMMA InvUnwindLands ==
    ASSUME Inv, UnwindLands
    PROVE  Inv'
<1> DEFINE n == cursor
           st == SubSeq(stack, 1, n)
<1> USE DEF Inv
<1>1. mode = "unwind" /\ n # 0
  BY DEF UnwindLands
<1>2. /\ N \in Nat /\ n \in 1..N /\ flying \in Exc /\ exc[flying] \in Object
      /\ stack[n] \in Activation /\ NoExc \notin Exc
  BY <1>1, GuestEHAssumption DEF TypeOK, N
<1>3. PICK act \in {"catch", "cleanup"}, leaves \in Nat : LandAt(act, leaves)
  <2>1. PICK l \in 0..Len(stack[n].hs) : LandAt(FrameAction(cursor, exc[flying].type, FALSE), l)
    BY DEF UnwindLands
  <2>2. stack[n].hs \in Seq(Exc)
    BY <1>2 DEF Activation
  <2>3. l \in Nat
    BY <2>2
  <2>4. FrameAction(cursor, exc[flying].type, FALSE) \in {"catch", "cleanup"}
    BY ActionOf DEF UnwindLands
  <2> QED BY <2>1, <2>3, <2>4
<1>4. /\ ehTop' = n /\ inFlight' = flying /\ mode' = "run" /\ cursor' = 0 /\ flying' = NoExc
      /\ caught' = caught
      /\ uncaught' = IF act = "catch" /\ uncaught > 0 THEN uncaught - 1 ELSE uncaught
  BY <1>3 DEF LandAt, UncaughtAfter
<1>5. PICK o \in Object : o = exc[flying]
  BY <1>2
<1>6. PICK m \in Activation : m = stack[n]
  BY <1>2
<1>7. m.prev \in Nat
  BY <1>6 DEF Activation
<1>8. PICK u \in BOOLEAN : exc' = [exc EXCEPT ![flying] = LandedWith(o, m.prev, u)]
  <2>1. (o.uncaught /\ act # "catch") \in BOOLEAN
    OBVIOUS
  <2>2. exc' = [exc EXCEPT ![flying] = LandedWith(o, m.prev, o.uncaught /\ act # "catch")]
    BY <1>3, <1>2, <1>5, <1>6 DEF LandAt, TypeOK, LandedWith
  <2> QED BY <2>1, <2>2
<1> DEFINE a == LandedIn(m, act, flying, leaves)
           x == LandedWith(o, m.prev, u)
<1>9. x \in Object /\ x.live = exc[flying].live /\ x.resume = stack[n].prev
  BY <1>5, <1>6, <1>7, ObjectLanded
<1>10. /\ a \in Activation /\ a.kind = stack[n].kind /\ a.prev = stack[n].prev
       /\ a.pc = act /\ a.obj = flying /\ a.fresh = stack[n].fresh
  <2>1. flying \in Exc
    BY <1>2
  <2>2. /\ a \in Activation /\ a.kind = m.kind /\ a.prev = m.prev
        /\ a.pc = act /\ a.obj = flying /\ a.fresh = m.fresh
    <3> HIDE DEF Inv
    <3> QED BY <2>1, ActivationLanded
  <2> HIDE DEF a
  <2> QED BY <1>6, <2>2
<1>11. st \in Seq(Activation) /\ Len(st) = n /\ \A i \in 1..n : st[i] = stack[i]
  BY <1>2, CutTyped
<1>12. stack' = [st EXCEPT ![n] = a]
  <2>1. st[n] = m
    BY <1>2, <1>6, <1>11
  <2> HIDE DEF st
  <2>2. stack' = [st EXCEPT ![n] = LandedIn(st[n], act, flying, leaves)]
    BY <1>3 DEF LandAt, LandedIn, st
  <2> QED BY <2>1, <2>2
<1>13. exc' = [exc EXCEPT ![flying] = x]
  BY <1>8
<1> HIDE DEF a, x, st
<1>14. /\ stack' \in Seq(Activation) /\ N' = n
       /\ \A i \in 1..n : stack'[i] = IF i = n THEN a ELSE stack[i]
  <2>1. n \in 1..Len(st)
    BY <1>2, <1>11
  <2>2. /\ stack' \in Seq(Activation) /\ Len(stack') = Len(st)
        /\ \A i \in 1..Len(st) : stack'[i] = IF i = n THEN a ELSE st[i]
    BY <1>12, <1>11, <1>10, <2>1, ExceptTyped
  <2> QED BY <1>11, <2>2 DEF N
<1>15. ShadowStack'
  <2>1. stack[n].kind = "eh"
    BY <1>1 DEF Walks
  <2>2. NearestFrame(stack, ehTop', n + 1)
    BY <1>2, <1>4, <2>1 DEF NearestFrame
  <2>3. n \in 0..N /\ \A i \in 1..n : stack'[i].kind = stack[i].kind /\ stack'[i].prev = stack[i].prev
    BY <1>2, <1>10, <1>14
  <2> QED BY <1>14, <2>2, <2>3, CutShape
<1>16. \A i \in 1..n :
          /\ i \in 1..N
          /\ stack'[i].kind = stack[i].kind /\ stack'[i].prev = stack[i].prev
          /\ stack'[i].pc = IF i = n THEN act ELSE stack[i].pc
          /\ stack'[i].obj = IF i = n THEN flying ELSE stack[i].obj
          /\ stack'[i].fresh = stack[i].fresh
  BY <1>2, <1>10, <1>14
<1>17. \A y \in Exc : /\ exc'[y].live = exc[y].live
                      /\ exc'[y].resume = IF y = flying THEN stack[n].prev ELSE exc[y].resume
  BY <1>2, <1>9, <1>13 DEF TypeOK
<1>18. TypeOK'
  <2>1. exc' \in [Exc -> Object]
    BY <1>2, <1>9, <1>13 DEF TypeOK
  <2>2. uncaught' \in Int /\ mode' \in Mode
    BY <1>4 DEF TypeOK, Mode
  <2> QED BY <1>2, <1>4, <1>14, <2>1, <2>2 DEF TypeOK
<1>19. \A i \in 1..N : stack[i].obj \in Exc \cup {NoExc} /\ stack[i].fresh \in Exc \cup {NoExc}
  <2>1. \A i \in 1..N : stack[i] \in Activation
    BY DEF TypeOK, N
  <2> QED BY <2>1 DEF Activation
<1>20. \A i \in 1..n : i # n => stack[i].obj # flying
  BY <1>2 DEF Walks
<1>21. Pads'
  <2>1. stack[n].kind = "eh"
    BY <1>1 DEF Walks
  <2>2. \A i \in 1..n : stack'[i].pc = "cleanup" => exc'[stack'[i].obj].resume = stack'[i].prev
    BY <1>2, <1>16, <1>17, <1>19, <1>20 DEF Pads
  <2>3. ASSUME NEW i \in 1..n
        PROVE  /\ stack'[i].kind = "dtor" => stack'[i].pc = "run" /\ stack'[i].obj \in Exc
               /\ stack'[i].pc # "run" => stack'[i].kind = "eh" /\ stack'[i].obj \in Exc
               /\ stack'[i].kind # "dtor" /\ stack'[i].pc = "run" => stack'[i].obj = NoExc
    <3>1. CASE i = n
      BY <1>1, <1>2, <1>16, <2>1, <3>1
    <3>2. CASE i # n
      BY <1>16, <3>2 DEF Pads
    <3> QED BY <3>1, <3>2
  <2> QED BY <1>14, <2>2, <2>3 DEF Pads
<1>22. Walks' /\ NoUseAfterFree'
  BY <1>4 DEF Walks, NoUseAfterFree
<1>23. HeldIsLive'
  <2>1. \A k \in 1..Len(caught) : caught[k] \in Exc
    BY DEF TypeOK
  <2>2. exc[flying].live
    BY <1>2 DEF Holders, HeldIsLive
  <2>3. ASSUME NEW i \in 1..n
        PROVE  /\ stack'[i].fresh # NoExc => exc'[stack'[i].fresh].live
               /\ stack'[i].obj # NoExc => exc'[stack'[i].obj].live
    BY <1>2, <1>16, <1>17, <1>19, <2>2 DEF Holders, HeldIsLive
  <2>4. \A k \in 1..Len(caught) : exc'[caught[k]].live
    BY <1>17, <2>1 DEF Holders, HeldIsLive
  <2> QED BY <1>4, <1>14, <2>3, <2>4 DEF HeldIsLive
<1>24. FreshAlone'
  BY <1>2, <1>4, <1>14, <1>16 DEF Holders, FreshAlone
<1>25. ObjAlone'
  BY <1>2, <1>4, <1>14, <1>16, <1>20 DEF Holders, ObjAlone
<1>26. CaughtAlone'
  <2>1. \A k \in 1..Len(caught) : caught[k] # NoExc
    BY <1>2 DEF TypeOK
  <2> QED BY <1>2, <1>4, <1>14, <1>16, <2>1 DEF Holders, CaughtAlone
<1> QED BY <1>15, <1>18, <1>21, <1>22, <1>23, <1>24, <1>25, <1>26 DEF Holders

-----------------------------------------------------------------------------
(* Landing pads and catch blocks.                                              *)

\* A step of the guest that keeps the stack's shape and takes exceptions away.
LEMMA InvSame ==
    ASSUME Inv, mode = "run", stack' \in Seq(Activation), N' = N, ehTop' = ehTop,
           \A i \in 1..N :
              /\ stack'[i].kind = stack[i].kind /\ stack'[i].prev = stack[i].prev
              /\ stack'[i].pc = stack[i].pc /\ stack'[i].obj = stack[i].obj
              /\ stack'[i].fresh = stack[i].fresh \/ stack'[i].fresh = NoExc,
           exc' \in [Exc -> Object],
           \A i \in 1..N :
              /\ stack'[i].fresh # NoExc => exc'[stack'[i].fresh].live
              /\ stack[i].obj # NoExc => /\ exc'[stack[i].obj].live
                                         /\ exc'[stack[i].obj].resume = exc[stack[i].obj].resume,
           caught' \in Seq(Exc),
           caught' = caught \/ (caught # <<>> /\ caught' = Tail(caught)),
           \A k \in 1..Len(caught') : exc'[caught'[k]].live,
           uncaught' = uncaught, inFlight' = inFlight, mode' = mode, cursor' = cursor,
           flying' = flying
    PROVE  Inv'
<1> USE DEF Inv
<1>1. N \in Nat /\ flying = NoExc /\ cursor = 0 /\ NoExc \notin Exc
  BY GuestEHAssumption DEF TypeOK, N, Walks
<1>2. TypeOK'
  BY <1>1 DEF TypeOK
<1>3. ShadowStack'
  <2>1. N \in 0..N /\ NearestFrame(stack, ehTop', N + 1)
    BY <1>1 DEF ShadowStack
  <2> QED BY <2>1, CutShape
<1>4. Pads'
  BY <1>1 DEF Pads
<1>5. Walks' /\ NoUseAfterFree'
  BY <1>1 DEF Walks, NoUseAfterFree
<1>6. HeldIsLive'
  BY <1>1 DEF HeldIsLive
<1>7. Holders'
  <2>1. \A i \in 1..N' :
           /\ stack'[i].fresh # NoExc => i \in 1..N /\ stack'[i].fresh = stack[i].fresh
           /\ stack'[i].obj # NoExc => i \in 1..N /\ stack'[i].obj = stack[i].obj
    OBVIOUS
  <2> QED BY <1>6, <2>1, HoldersKept
<1> QED BY <1>2, <1>3, <1>4, <1>5, <1>7

\* The object whose destructor is called leaves the list for the destructor's
\* activation, which nobody but __cxa_end_catch gives it to.
LEMMA InvDestroy ==
    ASSUME Inv, mode = "run", caught # <<>>, NEW st \in Seq(Activation), Len(st) = N,
           \A i \in 1..N :
              /\ st[i].kind = stack[i].kind /\ st[i].prev = stack[i].prev
              /\ st[i].pc = stack[i].pc /\ st[i].obj = stack[i].obj
              /\ st[i].fresh = stack[i].fresh,
           stack' = Push(st, "dtor", Head(caught)), ehTop' = ehTop,
           caught' = Tail(caught), exc' = [exc EXCEPT ![Head(caught)].count = 0],
           UNCHANGED <<uncaught, inFlight, mode, cursor, flying>>
    PROVE  Inv'
<1> USE DEF Inv
<1>1. N \in Nat /\ flying = NoExc /\ cursor = 0 /\ NoExc \notin Exc /\ ehTop \in 0..N
  BY GuestEHAssumption DEF TypeOK, N, Walks
<1>2. PICK e \in Exc : e = Head(caught)
  BY HeadTailProperties DEF TypeOK
<1>3. /\ caught' \in Seq(Exc) /\ Len(caught) \in Nat /\ Len(caught') = Len(caught) - 1
      /\ caught[1] = e /\ 1 \in 1..Len(caught)
      /\ \A k \in 1..Len(caught') : k + 1 \in 1..Len(caught) /\ caught'[k] = caught[k + 1]
  BY <1>2, HeadTailProperties, EmptySeq DEF TypeOK
<1>4. exc[e].live
  BY <1>3 DEF Holders, HeldIsLive
<1>5. \A i \in 1..N : stack[i].fresh # e /\ stack[i].obj # e
  BY <1>3 DEF Holders, CaughtAlone
<1>6. \A k \in 1..Len(caught') : caught'[k] # e /\ caught'[k] \in Exc
  <2> SUFFICES ASSUME NEW k \in 1..Len(caught')
               PROVE  caught'[k] # e /\ caught'[k] \in Exc
    OBVIOUS
  <2>1. k + 1 \in 1..Len(caught) /\ caught'[k] = caught[k + 1] /\ k + 1 # 1
    BY <1>3
  <2>2. caught[k + 1] # caught[1]
    BY <1>3, <2>1 DEF Holders, CaughtAlone
  <2> QED BY <1>3, <2>1, <2>2
<1>7. /\ stack' \in Seq(Activation) /\ N' = N + 1 /\ stack'[N + 1] = NewActivation("dtor", e)
      /\ ehTop' \in 0..N + 1 /\ ShadowStack'
      /\ \A i \in 1..N : stack'[i] = st[i]
  <2>1. stack' = Push(st, "dtor", e) /\ ehTop' = TopAfterPush("dtor")
    BY <1>2 DEF TopAfterPush
  <2>2. "dtor" \in {"eh", "plain", "dtor"} /\ e \in Exc \cup {NoExc}
    OBVIOUS
  <2> QED BY <2>1, <2>2, PushShape
<1>8. /\ stack'[N + 1].fresh = NoExc /\ stack'[N + 1].obj = e
      /\ stack'[N + 1].pc = "run" /\ stack'[N + 1].kind = "dtor"
  BY <1>7 DEF NewActivation
<1>9. \A i \in 1..N :
         /\ stack'[i].kind = stack[i].kind /\ stack'[i].prev = stack[i].prev
         /\ stack'[i].pc = stack[i].pc /\ stack'[i].obj = stack[i].obj
         /\ stack'[i].fresh = stack[i].fresh
  BY <1>7
<1>10. \A i \in 1..N' : i \in 1..N \/ i = N + 1
  BY <1>1, <1>7
<1>11. /\ exc' \in [Exc -> Object]
       /\ \A y \in Exc : exc'[y].live = exc[y].live /\ exc'[y].resume = exc[y].resume
  <2>1. PICK o \in Object : o = exc[e]
    BY DEF TypeOK
  <2>2. Counted(o, 0) \in Object /\ Counted(o, 0).live = o.live /\ Counted(o, 0).resume = o.resume
    BY ObjectCounted
  <2>3. exc' = [exc EXCEPT ![e] = Counted(o, 0)]
    BY <1>2, <2>1 DEF Counted
  <2> QED BY <2>1, <2>2, <2>3 DEF TypeOK
<1>12. TypeOK'
  BY <1>1, <1>3, <1>7, <1>11 DEF TypeOK
<1>13. \A i \in 1..N : stack[i].obj \in Exc \cup {NoExc} /\ stack[i].fresh \in Exc \cup {NoExc}
  <2>1. \A i \in 1..N : stack[i] \in Activation
    BY DEF TypeOK, N
  <2> QED BY <2>1 DEF Activation
<1>14. Pads'
  <2>1. \A i \in 1..N : stack'[i].pc = "cleanup" => exc'[stack'[i].obj].resume = stack'[i].prev
    BY <1>9, <1>11 DEF Pads
  <2>2. ASSUME NEW i \in 1..N'
        PROVE  /\ stack'[i].kind = "dtor" => stack'[i].pc = "run" /\ stack'[i].obj \in Exc
               /\ stack'[i].pc # "run" => stack'[i].kind = "eh" /\ stack'[i].obj \in Exc
               /\ stack'[i].kind # "dtor" /\ stack'[i].pc = "run" => stack'[i].obj = NoExc
               /\ stack'[i].pc = "cleanup" => exc'[stack'[i].obj].resume = stack'[i].prev
    <3>1. CASE i = N + 1
      BY <1>8, <3>1
    <3>2. CASE i \in 1..N
      BY <1>9, <2>1, <3>2 DEF Pads
    <3> QED BY <1>10, <3>1, <3>2
  <2> QED BY <2>2 DEF Pads
<1>15. Walks' /\ NoUseAfterFree'
  BY <1>1 DEF Walks, NoUseAfterFree
<1>16. HeldIsLive'
  <2>1. ASSUME NEW i \in 1..N'
        PROVE  /\ stack'[i].fresh # NoExc => exc'[stack'[i].fresh].live
               /\ stack'[i].obj # NoExc => exc'[stack'[i].obj].live
    <3>1. CASE i = N + 1
      BY <1>4, <1>8, <1>11, <3>1
    <3>2. CASE i \in 1..N
      BY <1>9, <1>11, <1>13, <3>2 DEF Holders, HeldIsLive
    <3> QED BY <1>10, <3>1, <3>2
  <2>2. \A k \in 1..Len(caught') : exc'[caught'[k]].live
    BY <1>3, <1>6, <1>11 DEF Holders, HeldIsLive
  <2> QED BY <1>1, <2>1, <2>2 DEF HeldIsLive
<1>17. FreshAlone'
  BY <1>1, <1>5, <1>8, <1>9, <1>10 DEF Holders, FreshAlone
<1>18. ObjAlone'
  BY <1>1, <1>5, <1>8, <1>9, <1>10 DEF Holders, ObjAlone
<1>19. CaughtAlone'
  <2> SUFFICES ASSUME NEW k \in 1..Len(caught')
               PROVE  /\ caught'[k] # flying'
                      /\ \A l \in 1..Len(caught') : caught'[k] = caught'[l] => k = l
                      /\ \A i \in 1..N' : caught'[k] # stack'[i].fresh /\ caught'[k] # stack'[i].obj
    BY DEF CaughtAlone
  <2>1. caught'[k] # flying'
    BY <1>1, <1>6
  <2>2. ASSUME NEW l \in 1..Len(caught'), caught'[k] = caught'[l] PROVE k = l
    <3>1. k + 1 = l + 1
      BY <1>3, <2>2 DEF Holders, CaughtAlone
    <3> QED BY <1>3, <3>1
  <2>3. ASSUME NEW i \in 1..N' PROVE caught'[k] # stack'[i].fresh /\ caught'[k] # stack'[i].obj
    <3>1. CASE i = N + 1
      BY <1>1, <1>6, <1>8, <3>1
    <3>2. CASE i \in 1..N
      BY <1>3, <1>9, <3>2 DEF Holders, CaughtAlone
    <3> QED BY <1>10, <3>1, <3>2
  <2> QED BY <2>1, <2>2, <2>3
<1> QED BY <1>7, <1>12, <1>14, <1>15, <1>16, <1>17, <1>18, <1>19 DEF Holders

\* __cxa_end_catch, whatever catch block it ends.
LEMMA InvEndCatchOn ==
    ASSUME Inv, mode = "run", NEW st \in Seq(Activation), Len(st) = N,
           \A i \in 1..N :
              /\ st[i].kind = stack[i].kind /\ st[i].prev = stack[i].prev
              /\ st[i].pc = stack[i].pc /\ st[i].obj = stack[i].obj
              /\ st[i].fresh = stack[i].fresh,
           EndCatchOn(st), UNCHANGED <<ehTop, uncaught, inFlight, mode, cursor, flying>>
    PROVE  Inv'
<1> USE DEF Inv
<1>1. NoExc \notin Exc
  BY GuestEHAssumption
<1>2. \A i \in 1..N : stack[i].obj \in Exc \cup {NoExc} /\ stack[i].fresh \in Exc \cup {NoExc}
  <2>1. \A i \in 1..N : stack[i] \in Activation
    BY DEF TypeOK, N
  <2> QED BY <2>1 DEF Activation
<1>3. CASE caught = <<>>
  <2>1. stack' = st /\ exc' = exc /\ caught' = caught
    BY <1>3 DEF EndCatchOn
  <2>2. N' = N
    BY <2>1 DEF N
  <2>3. \A i \in 1..N :
           /\ stack'[i].fresh # NoExc => exc'[stack'[i].fresh].live
           /\ stack[i].obj # NoExc => /\ exc'[stack[i].obj].live
                                      /\ exc'[stack[i].obj].resume = exc[stack[i].obj].resume
    BY <2>1 DEF Holders, HeldIsLive
  <2>4. \A k \in 1..Len(caught') : exc'[caught'[k]].live
    BY <2>1 DEF Holders, HeldIsLive
  <2>5. exc' \in [Exc -> Object] /\ caught' \in Seq(Exc)
    BY <2>1 DEF TypeOK
  <2> QED BY <2>1, <2>2, <2>3, <2>4, <2>5, InvSame
<1>4. CASE caught # <<>>
  <2>1. PICK e \in Exc : e = Head(caught)
    BY <1>4, HeadTailProperties DEF TypeOK
  <2>2. \A k \in 1..Len(caught) : caught[k] \in Exc
    BY DEF TypeOK
  <2>3. CASE exc[e].count > 1
    <3>1. PICK o \in Object : o = exc[e]
      BY DEF TypeOK
    <3>2. PICK c \in Int : c = o.count - 1
      BY DEF Object
    <3>3. /\ stack' = st /\ caught' = caught /\ exc' = [exc EXCEPT ![e] = Counted(o, c)]
      BY <1>4, <2>1, <2>3, <3>1, <3>2 DEF EndCatchOn, Counted
    <3>4. /\ Counted(o, c) \in Object /\ Counted(o, c).live = o.live
          /\ Counted(o, c).resume = o.resume
      BY ObjectCounted
    <3>5. /\ exc' \in [Exc -> Object]
          /\ \A y \in Exc : exc'[y].live = exc[y].live /\ exc'[y].resume = exc[y].resume
      BY <3>1, <3>3, <3>4 DEF TypeOK
    <3>6. N' = N /\ caught' \in Seq(Exc)
      BY <3>3 DEF N, TypeOK
    <3>7. \A i \in 1..N :
             /\ stack'[i].fresh # NoExc => exc'[stack'[i].fresh].live
             /\ stack[i].obj # NoExc => /\ exc'[stack[i].obj].live
                                        /\ exc'[stack[i].obj].resume = exc[stack[i].obj].resume
      BY <1>2, <3>3, <3>5 DEF Holders, HeldIsLive
    <3>8. \A k \in 1..Len(caught') : exc'[caught'[k]].live
      BY <2>2, <3>3, <3>5 DEF Holders, HeldIsLive
    <3> QED BY <3>3, <3>5, <3>6, <3>7, <3>8, InvSame
  <2>4. CASE ~(exc[e].count > 1) /\ exc[e].type \in Destroyed
    <3>1. /\ stack' = Push(st, "dtor", Head(caught)) /\ caught' = Tail(caught)
          /\ exc' = [exc EXCEPT ![Head(caught)].count = 0]
      BY <1>4, <2>1, <2>4 DEF EndCatchOn
    <3> QED BY <1>4, <3>1, InvDestroy
  <2>5. CASE ~(exc[e].count > 1) /\ exc[e].type \notin Destroyed
    <3>1. stack' = st /\ caught' = Tail(caught) /\ exc' = [exc EXCEPT ![e] = Dead]
      BY <1>4, <2>1, <2>5 DEF EndCatchOn, Freed
    <3>2. /\ caught' \in Seq(Exc) /\ Len(caught) \in Nat /\ Len(caught') = Len(caught) - 1
          /\ caught[1] = e /\ 1 \in 1..Len(caught)
          /\ \A k \in 1..Len(caught') : k + 1 \in 1..Len(caught) /\ caught'[k] = caught[k + 1]
      BY <1>4, <2>1, <3>1, HeadTailProperties, EmptySeq DEF TypeOK
    <3>3. \A i \in 1..N : stack[i].fresh # e /\ stack[i].obj # e
      BY <3>2 DEF Holders, CaughtAlone
    <3>4. \A k \in 1..Len(caught') : caught'[k] # e /\ caught'[k] \in Exc /\ exc[caught'[k]].live
      <4> SUFFICES ASSUME NEW k \in 1..Len(caught')
                   PROVE  caught'[k] # e /\ caught'[k] \in Exc /\ exc[caught'[k]].live
        OBVIOUS
      <4>1. k + 1 \in 1..Len(caught) /\ caught'[k] = caught[k + 1] /\ k + 1 # 1
        BY <3>2
      <4>2. caught[k + 1] # caught[1] /\ exc[caught[k + 1]].live
        BY <3>2, <4>1 DEF Holders, CaughtAlone, HeldIsLive
      <4> QED BY <2>2, <3>2, <4>1, <4>2
    <3>5. exc' \in [Exc -> Object] /\ \A y \in Exc : y # e => exc'[y] = exc[y]
      BY <3>1, DeadTyped DEF TypeOK
    <3>6. N' = N
      BY <3>1 DEF N
    <3>7. \A i \in 1..N :
             /\ stack'[i].fresh # NoExc => exc'[stack'[i].fresh].live
             /\ stack[i].obj # NoExc => /\ exc'[stack[i].obj].live
                                        /\ exc'[stack[i].obj].resume = exc[stack[i].obj].resume
      BY <1>2, <3>1, <3>3, <3>5 DEF Holders, HeldIsLive
    <3>8. \A k \in 1..Len(caught') : exc'[caught'[k]].live
      BY <3>4, <3>5
    <3> QED BY <1>4, <3>1, <3>2, <3>5, <3>6, <3>7, <3>8, InvSame
  <2> QED BY <2>3, <2>4, <2>5
<1> QED BY <1>3, <1>4

\* A catch block ends.
LEMMA InvEndCatch ==
    ASSUME Inv, EndCatch \/ PadEndCatch
    PROVE  Inv'
<1> USE DEF Inv
<1>1. N > 0 /\ mode = "run" /\ UNCHANGED <<ehTop, uncaught, inFlight, mode, cursor, flying>>
  BY DEF EndCatch, PadEndCatch, Running, unwinder
<1>2. N \in 1..N /\ Quiet \in Site
  BY <1>1, GuestEHAssumption DEF TypeOK, N
<1>3. PICK m \in Activation : m = Marked(Quiet)[N]
  BY <1>1, <1>2, MarkedTyped
<1>4. /\ m.kind = Me.kind /\ m.prev = Me.prev /\ m.pc = Me.pc /\ m.obj = Me.obj
      /\ m.fresh = Me.fresh /\ m.hs = Me.hs /\ m.todo = Me.todo
  BY <1>1, <1>2, <1>3, MarkedTyped DEF Me
<1>5. PICK a \in Activation :
         /\ EndCatchOn([Marked(Quiet) EXCEPT ![N] = a])
         /\ a.kind = Me.kind /\ a.prev = Me.prev /\ a.pc = Me.pc /\ a.obj = Me.obj
         /\ a.fresh = Me.fresh
  <2>1. CASE EndCatch
    <3>1. EndCatchOn([Marked(Quiet) EXCEPT ![N] = Leaving(m)]) /\ m.hs # <<>>
      BY <1>3, <1>4, <2>1 DEF EndCatch, Leaving
    <3>2. /\ Leaving(m) \in Activation /\ Leaving(m).kind = m.kind /\ Leaving(m).prev = m.prev
          /\ Leaving(m).pc = m.pc /\ Leaving(m).obj = m.obj /\ Leaving(m).fresh = m.fresh
      BY <3>1, ActivationLeaving
    <3> QED BY <1>4, <3>1, <3>2
  <2>2. CASE PadEndCatch
    <3>1. /\ EndCatchOn([Marked(Quiet) EXCEPT ![N] = PadLeaving(m)])
          /\ m.hs # <<>> /\ m.todo > 0
      BY <1>3, <1>4, <2>2 DEF PadEndCatch, PadLeaving
    <3>2. /\ PadLeaving(m) \in Activation /\ PadLeaving(m).kind = m.kind /\ PadLeaving(m).prev = m.prev
          /\ PadLeaving(m).pc = m.pc /\ PadLeaving(m).obj = m.obj /\ PadLeaving(m).fresh = m.fresh
      BY <3>1, ActivationPadLeaving
    <3> QED BY <1>4, <3>1, <3>2
  <2> QED BY <2>1, <2>2
<1> DEFINE st == [Marked(Quiet) EXCEPT ![N] = a]
<1>6. /\ st \in Seq(Activation) /\ Len(st) = N
      /\ \A i \in 1..N : st[i] = IF i = N THEN a ELSE Marked(Quiet)[i]
  <2>1. Marked(Quiet) \in Seq(Activation) /\ Len(Marked(Quiet)) = N
    BY <1>1, <1>2, MarkedTyped
  <2> QED BY <1>2, <2>1, ExceptTyped
<1> HIDE DEF st
<1>7. \A i \in 1..N :
         /\ st[i].kind = stack[i].kind /\ st[i].prev = stack[i].prev
         /\ st[i].pc = stack[i].pc /\ st[i].obj = stack[i].obj
         /\ st[i].fresh = stack[i].fresh
  BY <1>1, <1>2, <1>5, <1>6, MarkedTyped DEF Me
<1>8. EndCatchOn(st)
  BY <1>5 DEF st
<1> QED BY <1>1, <1>6, <1>7, <1>8, InvEndCatchOn

\* The object of a throw expression whose constructor threw is freed by the pad,
\* its only holder.
LEMMA InvPadFreeException ==
    ASSUME Inv, PadFreeException
    PROVE  Inv'
<1> USE DEF Inv
<1>1. /\ N > 0 /\ mode = "run" /\ Me.fresh # NoExc
      /\ exc' = [exc EXCEPT ![Me.fresh] = Dead]
      /\ UNCHANGED <<ehTop, caught, uncaught, inFlight, mode, cursor, flying>>
  BY DEF PadFreeException, Freed, unwinder
<1>2. N \in 1..N /\ N \in Nat /\ Quiet \in Site /\ NoExc \notin Exc
  BY <1>1, GuestEHAssumption DEF TypeOK, N
<1>3. \A i \in 1..N : stack[i].obj \in Exc \cup {NoExc} /\ stack[i].fresh \in Exc \cup {NoExc}
  <2>1. \A i \in 1..N : stack[i] \in Activation
    BY DEF TypeOK, N
  <2> QED BY <2>1 DEF Activation
<1>4. PICK e \in Exc : e = Me.fresh
  BY <1>1, <1>2, <1>3 DEF Me
<1>5. PICK a \in Activation :
         /\ stack' = [Marked(Quiet) EXCEPT ![N] = a]
         /\ a.kind = Me.kind /\ a.prev = Me.prev /\ a.pc = Me.pc /\ a.obj = Me.obj
         /\ a.fresh = NoExc
  <2>1. PICK m \in Activation : m = Marked(Quiet)[N]
    BY <1>1, <1>2, MarkedTyped
  <2>2. m.kind = Me.kind /\ m.prev = Me.prev /\ m.pc = Me.pc /\ m.obj = Me.obj
    BY <1>1, <1>2, <2>1, MarkedTyped DEF Me
  <2>3. stack' = [Marked(Quiet) EXCEPT ![N] = [m EXCEPT !.fresh = NoExc]]
    BY <2>1 DEF PadFreeException
  <2> DEFINE b == [m EXCEPT !.fresh = NoExc]
  <2>4. /\ b \in Activation /\ b.kind = m.kind /\ b.prev = m.prev /\ b.pc = m.pc
        /\ b.obj = m.obj /\ b.fresh = NoExc
    BY ActivationWith
  <2> HIDE DEF b
  <2> QED BY <2>2, <2>3, <2>4 DEF b
<1>6. /\ stack' \in Seq(Activation) /\ N' = N /\ stack'[N] = a
      /\ \A i \in 1..N - 1 :
            /\ stack'[i].kind = stack[i].kind /\ stack'[i].prev = stack[i].prev
            /\ stack'[i].pc = stack[i].pc /\ stack'[i].obj = stack[i].obj
            /\ stack'[i].fresh = stack[i].fresh
  BY <1>1, <1>2, <1>5, TopUpdate
<1>7. \A i \in 1..N :
         /\ stack'[i].kind = stack[i].kind /\ stack'[i].prev = stack[i].prev
         /\ stack'[i].pc = stack[i].pc /\ stack'[i].obj = stack[i].obj
         /\ stack'[i].fresh = IF i = N THEN NoExc ELSE stack[i].fresh
  BY <1>2, <1>5, <1>6 DEF Me
<1>8. exc' \in [Exc -> Object] /\ \A y \in Exc : y # e => exc'[y] = exc[y]
  BY <1>1, <1>4, DeadTyped DEF TypeOK
<1>9. \A i \in 1..N : stack[i].obj # e /\ (stack[i].fresh = e => i = N)
  BY <1>1, <1>2, <1>4 DEF Holders, FreshAlone, Me
<1>10. \A k \in 1..Len(caught) : caught[k] # e /\ caught[k] \in Exc
  BY <1>2, <1>4 DEF Holders, CaughtAlone, Me, TypeOK
<1>11. \A i \in 1..N :
          /\ stack'[i].fresh # NoExc => exc'[stack'[i].fresh].live
          /\ stack[i].obj # NoExc => /\ exc'[stack[i].obj].live
                                     /\ exc'[stack[i].obj].resume = exc[stack[i].obj].resume
  BY <1>3, <1>7, <1>8, <1>9 DEF Holders, HeldIsLive
<1>12. \A k \in 1..Len(caught') : exc'[caught'[k]].live
  BY <1>1, <1>8, <1>10 DEF Holders, HeldIsLive
<1>13. caught' \in Seq(Exc)
  BY <1>1 DEF TypeOK
<1> QED BY <1>1, <1>6, <1>7, <1>8, <1>11, <1>12, <1>13, InvSame

\* A handler is entered: its object goes from the landing pad to the list.
LEMMA InvBeginCatch ==
    ASSUME Inv, BeginCatch
    PROVE  Inv'
<1> USE DEF Inv
<1>1. N > 0 /\ mode = "run" /\ Me.pc = "catch" /\ flying = NoExc /\ cursor = 0
  BY DEF BeginCatch, PadDone, Walks
<1>2. N \in 1..N /\ N \in Nat /\ Quiet \in Site /\ NoExc \notin Exc
  BY <1>1, GuestEHAssumption DEF TypeOK, N
<1>3. PICK e \in Exc : e = Me.obj
  BY <1>1, <1>2 DEF Pads, Me
<1>4. exc[e].live
  BY <1>2, <1>3 DEF Holders, HeldIsLive, Me
<1>5. PICK o \in Object : o = exc[e]
  BY DEF TypeOK
<1>6. /\ stack' = [Marked(Quiet) EXCEPT ![N] = Entering(Marked(Quiet)[N], e)]
      /\ caught' = IF exc[e].count = 0 THEN <<e>> \o caught ELSE caught
      /\ exc' = [exc EXCEPT ![e] = CaughtOnce(o)]
      /\ inFlight' = NoExc
      /\ UNCHANGED <<ehTop, uncaught, mode, cursor, flying>>
  BY <1>3, <1>4, <1>5 DEF BeginCatch, CatchBegins, CaughtWith, Entering, CaughtOnce, unwinder
<1>7. PICK a \in Activation :
         /\ stack' = [Marked(Quiet) EXCEPT ![N] = a]
         /\ a.kind = Me.kind /\ a.prev = Me.prev /\ a.pc = "run" /\ a.obj = NoExc
         /\ a.fresh = Me.fresh
  <2>1. PICK m \in Activation : m = Marked(Quiet)[N]
    BY <1>1, <1>2, MarkedTyped
  <2>2. m.kind = Me.kind /\ m.prev = Me.prev /\ m.fresh = Me.fresh
    BY <1>1, <1>2, <2>1, MarkedTyped DEF Me
  <2>3. stack' = [Marked(Quiet) EXCEPT ![N] = Entering(m, e)]
    BY <1>6, <2>1
  <2>4. /\ Entering(m, e) \in Activation /\ Entering(m, e).kind = m.kind
        /\ Entering(m, e).prev = m.prev /\ Entering(m, e).pc = "run"
        /\ Entering(m, e).obj = NoExc /\ Entering(m, e).fresh = m.fresh
    BY ActivationEntering
  <2> QED BY <2>2, <2>3, <2>4
<1>8. /\ stack' \in Seq(Activation) /\ N' = N /\ stack'[N] = a /\ ShadowStack'
      /\ \A i \in 1..N - 1 :
            /\ stack'[i].kind = stack[i].kind /\ stack'[i].prev = stack[i].prev
            /\ stack'[i].pc = stack[i].pc /\ stack'[i].obj = stack[i].obj
            /\ stack'[i].fresh = stack[i].fresh
  BY <1>1, <1>2, <1>6, <1>7, TopUpdate
<1>9. \A i \in 1..N :
         /\ stack'[i].kind = stack[i].kind /\ stack'[i].prev = stack[i].prev
         /\ stack'[i].pc = IF i = N THEN "run" ELSE stack[i].pc
         /\ stack'[i].obj = IF i = N THEN NoExc ELSE stack[i].obj
         /\ stack'[i].fresh = stack[i].fresh
  BY <1>2, <1>7, <1>8 DEF Me
<1>10. \A i \in 1..N : stack[i].obj \in Exc \cup {NoExc} /\ stack[i].fresh \in Exc \cup {NoExc}
  <2>1. \A i \in 1..N : stack[i] \in Activation
    BY DEF TypeOK, N
  <2> QED BY <2>1 DEF Activation
<1>11. /\ exc' \in [Exc -> Object]
       /\ \A y \in Exc : exc'[y].live = exc[y].live /\ exc'[y].resume = exc[y].resume
  BY <1>5, <1>6, ObjectCaught DEF TypeOK
<1>12. PICK d \in {0, 1} :
          /\ caught' \in Seq(Exc) /\ Len(caught') = Len(caught) + d /\ Len(caught) \in Nat
          /\ d = 1 => caught'[1] = e
          /\ \A k \in 1..Len(caught') : k > d => k - d \in 1..Len(caught) /\ caught'[k] = caught[k - d]
  <2>1. CASE exc[e].count = 0
    <3>1. <<e>> \in Seq(Exc) /\ Len(<<e>>) = 1 /\ <<e>>[1] = e /\ caught \in Seq(Exc)
      BY DEF TypeOK
    <3>2. caught' = <<e>> \o caught
      BY <1>6, <2>1
    <3> HIDE DEF Inv
    <3>3. /\ caught' \in Seq(Exc) /\ Len(caught') = Len(caught) + 1 /\ Len(caught) \in Nat
          /\ \A i \in 1..Len(caught) + 1 : caught'[i] = IF i <= 1 THEN <<e>>[i] ELSE caught[i - 1]
      BY <3>1, <3>2, ConcatProperties
    <3> QED BY <3>1, <3>3
  <2>2. CASE exc[e].count # 0
    BY <1>6, <2>2 DEF TypeOK
  <2> QED BY <2>1, <2>2
<1>13. TypeOK'
  BY <1>1, <1>6, <1>8, <1>11, <1>12 DEF TypeOK
<1>14. Pads'
  <2>1. \A i \in 1..N : stack'[i].pc = "cleanup" => exc'[stack'[i].obj].resume = stack'[i].prev
    BY <1>9, <1>11, <1>2 DEF Pads
  <2>2. Me.kind # "dtor"
    BY <1>1, <1>2 DEF Pads, Me
  <2>3. ASSUME NEW i \in 1..N
        PROVE  /\ stack'[i].kind = "dtor" => stack'[i].pc = "run" /\ stack'[i].obj \in Exc
               /\ stack'[i].pc # "run" => stack'[i].kind = "eh" /\ stack'[i].obj \in Exc
               /\ stack'[i].kind # "dtor" /\ stack'[i].pc = "run" => stack'[i].obj = NoExc
    <3>1. CASE i = N
      BY <1>9, <2>2, <3>1 DEF Me
    <3>2. CASE i # N
      BY <1>9, <3>2 DEF Pads
    <3> QED BY <3>1, <3>2
  <2> QED BY <1>8, <2>1, <2>3 DEF Pads
<1>15. Walks' /\ NoUseAfterFree'
  BY <1>1, <1>6 DEF Walks, NoUseAfterFree
<1>16. \A i \in 1..N : stack[i].fresh # e /\ (stack[i].obj = e => i = N)
  BY <1>2, <1>3 DEF Holders, FreshAlone, ObjAlone, Me
<1>17. \A k \in 1..Len(caught) : caught[k] # e /\ caught[k] \in Exc /\ exc[caught[k]].live
  BY <1>2, <1>3 DEF Holders, CaughtAlone, HeldIsLive, Me, TypeOK
<1>18. \A k \in 1..Len(caught') :
          \/ d = 1 /\ k = 1 /\ caught'[k] = e
          \/ k - d \in 1..Len(caught) /\ caught'[k] = caught[k - d]
  BY <1>12
<1>19. HeldIsLive'
  <2>1. \A i \in 1..N : /\ stack'[i].fresh # NoExc => exc'[stack'[i].fresh].live
                        /\ stack'[i].obj # NoExc => exc'[stack'[i].obj].live
    BY <1>9, <1>10, <1>11 DEF Holders, HeldIsLive
  <2>2. \A k \in 1..Len(caught') : exc'[caught'[k]].live
    BY <1>4, <1>11, <1>17, <1>18
  <2> QED BY <1>1, <1>6, <1>8, <2>1, <2>2 DEF HeldIsLive
<1>20. FreshAlone'
  BY <1>1, <1>6, <1>8, <1>9 DEF Holders, FreshAlone
<1>21. ObjAlone'
  BY <1>8, <1>9 DEF Holders, ObjAlone
<1>22. CaughtAlone'
  <2> SUFFICES ASSUME NEW k \in 1..Len(caught')
               PROVE  /\ caught'[k] # flying'
                      /\ \A l \in 1..Len(caught') : caught'[k] = caught'[l] => k = l
                      /\ \A i \in 1..N' : caught'[k] # stack'[i].fresh /\ caught'[k] # stack'[i].obj
    BY DEF CaughtAlone
  <2>1. caught'[k] \in Exc
    BY <1>17, <1>18
  <2>2. ASSUME NEW l \in 1..Len(caught'), caught'[k] = caught'[l] PROVE k = l
    <3>1. CASE d = 1 /\ k = 1 /\ caught'[k] = e
      BY <1>17, <1>18, <2>2, <3>1
    <3>2. CASE k - d \in 1..Len(caught) /\ caught'[k] = caught[k - d]
      <4>1. l - d \in 1..Len(caught) /\ caught'[l] = caught[l - d]
        BY <1>17, <1>18, <2>2, <3>2
      <4>2. k - d = l - d
        BY <2>2, <3>2, <4>1 DEF Holders, CaughtAlone
      <4> QED BY <1>12, <4>2
    <3> QED BY <1>18, <3>1, <3>2
  <2>3. ASSUME NEW i \in 1..N PROVE caught'[k] # stack'[i].fresh /\ caught'[k] # stack'[i].obj
    <3>1. CASE d = 1 /\ k = 1 /\ caught'[k] = e
      BY <1>2, <1>9, <1>16, <3>1
    <3>2. CASE k - d \in 1..Len(caught) /\ caught'[k] = caught[k - d]
      BY <1>2, <1>9, <2>1, <3>2 DEF Holders, CaughtAlone
    <3> QED BY <1>18, <3>1, <3>2
  <2> QED BY <1>1, <1>2, <1>6, <1>8, <2>1, <2>2, <2>3
<1> QED BY <1>8, <1>13, <1>14, <1>15, <1>19, <1>20, <1>21, <1>22 DEF Holders

\* A cleanup is over: the walk has its object again, and goes on below it.
LEMMA InvResume ==
    ASSUME Inv, Resume
    PROVE  Inv'
<1> USE DEF Inv
<1>1. N > 0 /\ mode = "run" /\ Me.pc = "cleanup" /\ flying = NoExc
  BY DEF Resume, PadDone, Walks
<1>2. N \in 1..N /\ N \in Nat /\ Quiet \in Site /\ NoExc \notin Exc
  BY <1>1, GuestEHAssumption DEF TypeOK, N
<1>3. PICK e \in Exc : e = Me.obj
  BY <1>1, <1>2 DEF Pads, Me
<1>4. exc[e].live /\ exc[e].resume = Me.prev
  BY <1>1, <1>2, <1>3 DEF Holders, HeldIsLive, Pads, Me
<1>5. /\ stack' = Marked(Quiet) /\ mode' = "unwind" /\ cursor' = Me.prev /\ flying' = e
      /\ UNCHANGED <<ehTop, exc, caught, uncaught, inFlight>>
  BY <1>3, <1>4 DEF Resume, objects
<1>6. /\ stack' \in Seq(Activation) /\ N' = N
      /\ \A i \in 1..N :
            /\ stack'[i].kind = stack[i].kind /\ stack'[i].prev = stack[i].prev
            /\ stack'[i].pc = stack[i].pc /\ stack'[i].obj = stack[i].obj
            /\ stack'[i].fresh = stack[i].fresh
  <2>1. Len(Marked(Quiet)) = N /\ Marked(Quiet) \in Seq(Activation)
    BY <1>1, <1>2, MarkedTyped
  <2>2. N' = N
    BY <1>5, <2>1 DEF N
  <2> QED BY <1>1, <1>2, <1>5, <2>1, <2>2, MarkedTyped
<1>7. NearestFrame(stack, Me.prev, N)
  BY <1>1, <1>2 DEF Pads, ShadowStack, Me
<1>8. cursor' \in 0..N - 1 /\ (cursor' # 0 => stack'[cursor'].kind = "eh")
  BY <1>2, <1>5, <1>6, <1>7 DEF NearestFrame
<1>9. ShadowStack'
  <2>1. N \in 0..N /\ NearestFrame(stack, ehTop', N + 1)
    BY <1>2, <1>5 DEF ShadowStack
  <2> QED BY <1>6, <2>1, CutShape
<1>10. TypeOK'
  BY <1>2, <1>5, <1>6, <1>8 DEF TypeOK, Mode
<1>11. Pads' /\ NoUseAfterFree'
  BY <1>5, <1>6 DEF Pads, NoUseAfterFree
<1>12. \A i \in 1..N : stack[i].fresh # e /\ (stack[i].obj = e => i = N)
  BY <1>2, <1>3 DEF Holders, FreshAlone, ObjAlone, Me
<1>13. \A k \in 1..Len(caught) : caught[k] # e
  BY <1>2, <1>3 DEF Holders, CaughtAlone, Me
<1>14. Walks'
  BY <1>2, <1>5, <1>6, <1>8, <1>12 DEF Walks
<1>15. HeldIsLive'
  BY <1>4, <1>5, <1>6 DEF Holders, HeldIsLive
<1>16. FreshAlone' /\ ObjAlone' /\ CaughtAlone'
  BY <1>1, <1>5, <1>6, <1>12, <1>13 DEF Holders, FreshAlone, ObjAlone, CaughtAlone
<1> QED BY <1>9, <1>10, <1>11, <1>14, <1>15, <1>16 DEF Holders

\* A step that changes nothing.
LEMMA InvStutter ==
    ASSUME Inv, UNCHANGED vars
    PROVE  Inv'
<1>1. /\ stack' = stack /\ ehTop' = ehTop /\ exc' = exc /\ caught' = caught /\ mode' = mode
      /\ uncaught' = uncaught /\ inFlight' = inFlight /\ cursor' = cursor /\ flying' = flying
  BY DEF vars
<1>2. N' = N
  BY <1>1 DEF N
<1>3. TypeOK'
  BY <1>1, <1>2 DEF Inv, TypeOK
<1>4. ShadowStack'
  BY <1>1, <1>2 DEF Inv, ShadowStack, NearestFrame
<1>5. Pads' /\ Walks' /\ NoUseAfterFree'
  BY <1>1, <1>2 DEF Inv, Pads, Walks, NoUseAfterFree
<1>6. Holders'
  BY <1>1, <1>2 DEF Inv, Holders, HeldIsLive, FreshAlone, ObjAlone, CaughtAlone
<1> QED BY <1>3, <1>4, <1>5, <1>6 DEF Inv

\* Each action of guest_eh.c and of the guest keeps the invariant.
LEMMA InvNext ==
    ASSUME Inv, ~Rethrows, [Next]_vars
    PROVE  Inv'
<1>1. ASSUME NEW k \in {"eh", "plain"}, Enter(k) \/ TailCall(k) PROVE Inv'
  BY <1>1, InvEnter, InvTailCall
<1>2. ASSUME NEW k \in {"eh", "plain"}, NEW s \in Site, Call(k, s) PROVE Inv'
  BY <1>2, InvCall
<1>3. CASE Return
  BY <1>3, InvReturn
<1>4. ASSUME NEW e \in Exc, AllocateException(e) PROVE Inv'
  BY <1>4, InvAllocateException
<1>5. ASSUME NEW t \in Type, NEW s \in Site, Throw(t, s) PROVE Inv'
  BY <1>5, InvThrow
<1>6. ASSUME NEW s \in Site, Rethrow(s) PROVE Inv'
  BY <1>6 DEF Rethrow
<1>7. CASE EndCatch \/ PadEndCatch
  BY <1>7, InvEndCatch
<1>8. CASE PadFreeException
  BY <1>8, InvPadFreeException
<1>9. CASE BeginCatch
  BY <1>9, InvBeginCatch
<1>10. CASE Resume
  BY <1>10, InvResume
<1>11. CASE SearchNext \/ UnwindNext \/ WalkEnds
  BY <1>11, InvWalk
<1>12. CASE SearchFound
  BY <1>12, InvSearchFound
<1>13. CASE UnwindLands
  BY <1>13, InvUnwindLands
<1>14. CASE Halted \/ UNCHANGED vars
  BY <1>14, InvStutter DEF Halted
<1> QED
  BY <1>1, <1>2, <1>3, <1>4, <1>5, <1>6, <1>7, <1>8, <1>9, <1>10, <1>11, <1>12, <1>13, <1>14
  DEF Next, Guest, Unwinding

-----------------------------------------------------------------------------
(* Theorems.                                                                   *)

\* The inductive invariant holds at every step of every guest without `throw;`.
\* It says who holds each exception object of guest_eh.c: exactly one of the
\* activation about to throw it, the walk, a landing pad or destructor, and the
\* g_caught list.  The other theorems are parts of it.
THEOREM Invariance == ASSUME ~Rethrows PROVE Spec => []Inv
<1>1. Inv /\ [Next]_vars => Inv'
  BY InvNext
<1> QED BY <1>1, InvInit, PTL DEF Spec

\* Every position an exception frame, a walk or an exception object keeps is the
\* position of a host activation, however deep the calls and however many
\* exceptions are in flight.
THEOREM TypeCorrect == ASSUME ~Rethrows PROVE Spec => []TypeOK
<1>1. Inv => TypeOK
  BY DEF Inv
<1> QED BY <1>1, Invariance, PTL

\* The shadow stack is at every moment the live functions that have an LSDA:
\* calls, returns, tail calls, destructors that run in __cxa_end_catch, and
\* landings that cut the host stack anywhere keep it so.
THEOREM ShadowStackIsTheStack == ASSUME ~Rethrows PROVE Spec => []ShadowStack
<1>1. Inv => ShadowStack
  BY DEF Inv
<1> QED BY <1>1, Invariance, PTL

\* Without `throw;` in the guest, __cxa_begin_catch and _Unwind_Resume are never
\* given an exception that has been freed.
THEOREM NothingFreedIsUsed == ASSUME ~Rethrows PROVE Spec => []NoUseAfterFree
<1>1. Inv => NoUseAfterFree
  BY DEF Inv
<1> QED BY <1>1, Invariance, PTL

-----------------------------------------------------------------------------
(* The catch blocks of a stack.  BlocksOf is a recursive function on the        *)
(* positions; what it computes is found by induction on them.                  *)

\* Of a set of natural numbers that is not empty, one is the least.
LEMMA LeastNumber ==
    ASSUME NEW T \in SUBSET Nat, T # {}
    PROVE  \E m \in T : \A k \in T : m <= k
<1> DEFINE F == {0..x : x \in T}
<1>1. F \subseteq FiniteSubsetsOf(Nat)
  <2>1. \A x \in T : IsFiniteSet(0..x) /\ 0..x \in SUBSET Nat
    BY FS_Interval
  <2> QED BY <2>1 DEF FiniteSubsetsOf
<1>2. IsWellFoundedOn(StrictSubsetOrdering(Nat), FiniteSubsetsOf(Nat))
  BY FS_StrictSubsetOrderingWellFounded
<1>3. F # {}
  OBVIOUS
<1> HIDE DEF F
<1>4. PICK s \in F : \A u \in F : <<u, s>> \notin StrictSubsetOrdering(Nat)
  BY <1>1, <1>2, <1>3, WFMin
<1>5. PICK m \in T : s = 0..m
  BY DEF F
<1>6. ASSUME NEW k \in T, k < m PROVE FALSE
  <2>1. 0..k \in F /\ 0..k # 0..m /\ 0..k \subseteq 0..m /\ 0..m \subseteq Nat
    BY <1>6 DEF F
  <2> QED BY <1>4, <1>5, <2>1 DEF StrictSubsetOrdering
<1> QED BY <1>6

\* The recursion of BlocksOf.
InsideTo(st, f, n) ==
    \A i \in 0..n : f[i] = IF i = 0 THEN <<>> ELSE st[i].hs \o f[i - 1]
\* With sequences of exceptions for its values.
IsInside(st, f, n) == f \in [0..n -> Seq(Exc)] /\ InsideTo(st, f, n)

\* It has a solution,
LEMMA InsideExists ==
    ASSUME NEW st \in Seq(Activation)
    PROVE  \A n \in 0..Len(st) : \E f : IsInside(st, f, n)
<1> DEFINE T == {n \in 0..Len(st) : ~ \E f : IsInside(st, f, n)}
<1>1. \A i \in 1..Len(st) : st[i].hs \in Seq(Exc)
  <2>1. \A i \in 1..Len(st) : st[i] \in Activation
    OBVIOUS
  <2> QED BY <2>1 DEF Activation
<1>2. SUFFICES ASSUME T # {} PROVE FALSE
  OBVIOUS
<1>3. PICK m \in T : \A k \in T : m <= k
  <2>1. T \in SUBSET Nat
    OBVIOUS
  <2> HIDE DEF T
  <2> QED BY <1>2, <2>1, LeastNumber
<1>4. CASE m = 0
  <2>1. IsInside(st, [i \in 0..0 |-> <<>>], 0)
    BY DEF IsInside, InsideTo
  <2> QED BY <1>3, <1>4, <2>1
<1>5. CASE m # 0
  <2>1. m - 1 \in 0..Len(st) /\ m \in 1..Len(st) /\ m \in Nat
    BY <1>3, <1>5
  <2>2. PICK f : IsInside(st, f, m - 1)
    BY <1>3, <2>1
  <2> DEFINE x == st[m].hs \o f[m - 1]
             g == [i \in 0..m |-> IF i = m THEN x ELSE f[i]]
  <2>3. x \in Seq(Exc)
    <3>1. f[m - 1] \in Seq(Exc)
      BY <2>1, <2>2 DEF IsInside, InsideTo
    <3> QED BY <1>1, <2>1, <3>1, ConcatProperties
  <2>4. g[m] = x /\ \A i \in 0..m - 1 : g[i] = f[i]
    <3> HIDE DEF x
    <3> QED BY <2>1
  <2>5. g \in [0..m -> Seq(Exc)]
    <3> HIDE DEF x
    <3> QED BY <2>1, <2>2, <2>3 DEF IsInside, InsideTo
  <2>6. \A i \in 0..m : g[i] = IF i = 0 THEN <<>> ELSE st[i].hs \o g[i - 1]
    <3> HIDE DEF g
    <3> TAKE i \in 0..m
    <3>1. CASE i = m
      <4>1. m - 1 \in 0..m - 1 /\ m # 0
        BY <2>1
      <4>2. g[m] = x /\ g[m - 1] = f[m - 1]
        BY <2>4, <4>1
      <4> QED BY <3>1, <4>1, <4>2
    <3>2. CASE i # m
      <4>1. i \in 0..m - 1 /\ (i # 0 => i - 1 \in 0..m - 1)
        BY <2>1, <3>2
      <4> QED BY <2>2, <2>4, <4>1 DEF IsInside, InsideTo
    <3> QED BY <3>1, <3>2
  <2> HIDE DEF g
  <2>7. IsInside(st, g, m)
    BY <2>5, <2>6 DEF IsInside, InsideTo
  <2> QED BY <1>3, <2>7
<1> QED BY <1>4, <1>5

\* which two stacks with the same catch blocks share,
LEMMA InsideSame ==
    ASSUME NEW st, NEW su, NEW f, NEW g, NEW n \in Nat, NEW m \in Nat,
           n <= m, InsideTo(st, f, n), InsideTo(su, g, m),
           \A i \in 1..n : su[i].hs = st[i].hs
    PROVE  \A i \in 0..n : g[i] = f[i]
<1> DEFINE T == {i \in 0..n : f[i] # g[i]}
<1>1. SUFFICES ASSUME T # {} PROVE FALSE
  OBVIOUS
<1>2. PICK a \in T : \A b \in T : a <= b
  <2>1. T \in SUBSET Nat
    OBVIOUS
  <2> HIDE DEF T
  <2> QED BY <1>1, <2>1, LeastNumber
<1>3. CASE a = 0
  BY <1>2, <1>3 DEF IsInside, InsideTo
<1>4. CASE a # 0
  <2>1. a \in 1..n /\ a - 1 \in 0..n
    BY <1>2, <1>4
  <2>2. f[a - 1] = g[a - 1]
    BY <1>2, <2>1
  <2>3. f[a] = st[a].hs \o f[a - 1] /\ g[a] = su[a].hs \o g[a - 1]
    <3>1. a \in 0..n /\ a \in 0..m /\ a # 0
      BY <2>1
    <3> QED BY <3>1 DEF InsideTo
  <2> QED BY <1>2, <2>1, <2>2, <2>3
<1> QED BY <1>3, <1>4

\* and BlocksOf is where it ends.
LEMMA BlocksOfInside ==
    ASSUME NEW st \in Seq(Activation)
    PROVE  \E f : IsInside(st, f, Len(st)) /\ BlocksOf(st) = f[Len(st)]
<1> DEFINE n == Len(st)
           Eqn(f) == f = [i \in 0..n |-> IF i = 0 THEN <<>> ELSE st[i].hs \o f[i - 1]]
           h == CHOOSE f : Eqn(f)
<1>1. n \in Nat
  OBVIOUS
<1>2. PICK g : IsInside(st, g, n)
  BY <1>1, InsideExists
<1>3. Eqn(g)
  BY <1>2 DEF IsInside, InsideTo
<1>4. Eqn(h)
  BY <1>3
<1>5. BlocksOf(st) = h[n]
  BY DEF BlocksOf
<1> HIDE DEF h
<1>6. InsideTo(st, h, n) /\ InsideTo(st, g, n)
  BY <1>2, <1>4 DEF IsInside, InsideTo
<1>7. \A i \in 0..n : h[i] = g[i]
  <2> HIDE DEF n
  <2> QED BY <1>1, <1>6, InsideSame
<1> QED BY <1>1, <1>2, <1>5, <1>7

\* The blocks of a stack are those of its top and then those below it.
LEMMA BlocksOfTop ==
    ASSUME NEW st \in Seq(Activation), NEW su \in Seq(Activation), Len(su) = Len(st) + 1,
           \A i \in 1..Len(st) : su[i].hs = st[i].hs
    PROVE  BlocksOf(su) = su[Len(su)].hs \o BlocksOf(st)
<1>1. PICK n \in Nat : n = Len(st) /\ n + 1 = Len(su)
  OBVIOUS
<1>2. PICK f : IsInside(st, f, n) /\ BlocksOf(st) = f[n]
  BY <1>1, BlocksOfInside
<1>3. PICK g : IsInside(su, g, n + 1) /\ BlocksOf(su) = g[n + 1]
  BY <1>1, BlocksOfInside
<1>4. g[n] = f[n]
  <2>1. n + 1 \in Nat /\ n <= n + 1 /\ \A i \in 1..n : su[i].hs = st[i].hs
    BY <1>1
  <2>2. InsideTo(st, f, n) /\ InsideTo(su, g, n + 1)
    BY <1>2, <1>3 DEF IsInside
  <2>3. \A i \in 0..n : g[i] = f[i]
    BY <2>1, <2>2, InsideSame
  <2> QED BY <2>3
<1>5. g[n + 1] = su[n + 1].hs \o g[n]
  <2>1. PICK m \in 0..n + 1 : m = n + 1 /\ m # 0 /\ m - 1 = n
    OBVIOUS
  <2>2. InsideTo(su, g, n + 1)
    BY <1>3 DEF IsInside
  <2>3. g[m] = IF m = 0 THEN <<>> ELSE su[m].hs \o g[m - 1]
    BY <2>1, <2>2 DEF InsideTo
  <2>4. g[m] = su[m].hs \o g[m - 1]
    BY <2>1, <2>3
  <2> QED BY <2>1, <2>4
<1> QED BY <1>1, <1>2, <1>3, <1>4, <1>5

\* They are sequences of exceptions.
LEMMA BlocksOfTyped ==
    ASSUME NEW st \in Seq(Activation)
    PROVE  BlocksOf(st) \in Seq(Exc)
<1>1. PICK f : IsInside(st, f, Len(st)) /\ BlocksOf(st) = f[Len(st)]
  BY BlocksOfInside
<1>2. Len(st) \in 0..Len(st)
  OBVIOUS
<1> QED BY <1>1, <1>2 DEF IsInside

\* Without activations there are none.
LEMMA BlocksOfNone ==
    ASSUME NEW st \in Seq(Activation), Len(st) = 0
    PROVE  BlocksOf(st) = <<>>
<1>1. PICK f : IsInside(st, f, 0) /\ BlocksOf(st) = f[0]
  BY BlocksOfInside
<1> QED BY <1>1 DEF IsInside, InsideTo

\* Only the blocks of the activations matter.
LEMMA BlocksOfSame ==
    ASSUME NEW st \in Seq(Activation), NEW su \in Seq(Activation), Len(su) = Len(st),
           \A i \in 1..Len(st) : su[i].hs = st[i].hs
    PROVE  BlocksOf(su) = BlocksOf(st)
<1>1. Len(st) \in Nat
  OBVIOUS
<1>2. PICK f : IsInside(st, f, Len(st)) /\ BlocksOf(st) = f[Len(st)]
  BY BlocksOfInside
<1>3. PICK g : IsInside(su, g, Len(st)) /\ BlocksOf(su) = g[Len(st)]
  BY BlocksOfInside
<1>4. \A i \in 0..Len(st) : g[i] = f[i]
  <2>1. InsideTo(st, f, Len(st)) /\ InsideTo(su, g, Len(st)) /\ Len(st) <= Len(st)
    BY <1>1, <1>2, <1>3 DEF IsInside
  <2> QED BY <1>1, <2>1, InsideSame
<1> QED BY <1>1, <1>2, <1>3, <1>4

\* Cutting off activations that are in no catch block takes no block away.
LEMMA BlocksOfCut ==
    ASSUME NEW st \in Seq(Activation), NEW su \in Seq(Activation), Len(su) <= Len(st),
           \A i \in 1..Len(su) : su[i].hs = st[i].hs,
           \A i \in Len(su) + 1..Len(st) : st[i].hs = <<>>
    PROVE  BlocksOf(su) = BlocksOf(st)
<1>1. Len(st) \in Nat /\ Len(su) \in Nat
  OBVIOUS
<1>2. PICK f : IsInside(st, f, Len(st)) /\ BlocksOf(st) = f[Len(st)]
  BY BlocksOfInside
<1>3. PICK g : IsInside(su, g, Len(su)) /\ BlocksOf(su) = g[Len(su)]
  BY BlocksOfInside
<1>4. g[Len(su)] = f[Len(su)]
  <2>1. \A i \in 0..Len(su) : f[i] = g[i]
    <3>1. InsideTo(st, f, Len(st)) /\ InsideTo(su, g, Len(su))
      BY <1>2, <1>3 DEF IsInside
    <3>2. \A i \in 1..Len(su) : st[i].hs = su[i].hs
      OBVIOUS
    <3> QED BY <1>1, <3>1, <3>2, InsideSame
  <2> QED BY <1>1, <2>1
<1> DEFINE T == {i \in Len(su)..Len(st) : f[i] # f[Len(su)]}
<1>5. ASSUME T # {} PROVE FALSE
  <2>1. PICK a \in T : \A b \in T : a <= b
    <3>1. T \in SUBSET Nat
      BY <1>1
    <3> HIDE DEF T
    <3> QED BY <1>5, <3>1, LeastNumber
  <2>2. a \in Len(su) + 1..Len(st) /\ a - 1 \in Len(su)..Len(st) /\ a \in 0..Len(st) /\ a # 0
    BY <1>1, <2>1
  <2>3. f[a - 1] = f[Len(su)]
    BY <1>1, <2>1, <2>2
  <2>4. f[a] = st[a].hs \o f[a - 1]
    <3>1. InsideTo(st, f, Len(st))
      BY <1>2 DEF IsInside
    <3> QED BY <2>2, <3>1 DEF InsideTo
  <2>5. f[a - 1] \in Seq(Exc) /\ st[a].hs = <<>>
    BY <1>1, <1>2, <2>2 DEF IsInside
  <2> QED BY <2>1, <2>3, <2>4, <2>5, ConcatEmptySeq
<1> QED BY <1>1, <1>2, <1>3, <1>4, <1>5

\* Leaving the innermost block.
LEMMA TailOfConcat ==
    ASSUME NEW S, NEW s \in Seq(S), NEW t \in Seq(S), s # <<>>
    PROVE  /\ s \o t # <<>>
           /\ Head(s \o t) = Head(s)
           /\ Tail(s \o t) = Tail(s) \o t
<1>1. Len(s) \in Nat /\ Len(s) > 0 /\ Len(t) \in Nat
  BY EmptySeq
<1>2. /\ s \o t \in Seq(S) /\ Len(s \o t) = Len(s) + Len(t)
      /\ \A i \in 1..Len(s) + Len(t) :
            (s \o t)[i] = IF i <= Len(s) THEN s[i] ELSE t[i - Len(s)]
  BY ConcatProperties
<1>3. s \o t # <<>>
  BY <1>1, <1>2, EmptySeq
<1>4. Head(s \o t) = Head(s)
  <2>1. (s \o t)[1] = s[1]
    BY <1>1, <1>2
  <2>2. Head(s) = s[1] /\ Head(s \o t) = (s \o t)[1]
    BY <1>2
  <2> QED BY <2>1, <2>2
<1>5. /\ Tail(s) \in Seq(S) /\ Len(Tail(s)) = Len(s) - 1
      /\ \A i \in 1..Len(s) - 1 : Tail(s)[i] = s[i + 1]
  BY HeadTailProperties
<1>6. /\ Tail(s) \o t \in Seq(S) /\ Len(Tail(s) \o t) = Len(s) - 1 + Len(t)
      /\ \A i \in 1..Len(s) - 1 + Len(t) :
            (Tail(s) \o t)[i] = IF i <= Len(s) - 1 THEN Tail(s)[i] ELSE t[i - (Len(s) - 1)]
  BY <1>5, ConcatProperties
<1>7. /\ Tail(s \o t) \in Seq(S) /\ Len(Tail(s \o t)) = Len(s) + Len(t) - 1
      /\ \A i \in 1..Len(s) + Len(t) - 1 : Tail(s \o t)[i] = (s \o t)[i + 1]
  BY <1>2, <1>3, HeadTailProperties
<1>8. ASSUME NEW i \in 1..Len(s) + Len(t) - 1 PROVE Tail(s \o t)[i] = (Tail(s) \o t)[i]
  <2>1. i + 1 \in 1..Len(s) + Len(t) /\ i \in 1..Len(s) - 1 + Len(t) /\ i \in Nat
    BY <1>1
  <2>2. Tail(s \o t)[i] = IF i + 1 <= Len(s) THEN s[i + 1] ELSE t[i + 1 - Len(s)]
    BY <1>2, <1>7, <2>1
  <2>3. (Tail(s) \o t)[i] = IF i <= Len(s) - 1 THEN Tail(s)[i] ELSE t[i - (Len(s) - 1)]
    BY <1>6, <2>1
  <2>4. CASE i + 1 <= Len(s)
    BY <1>1, <1>5, <2>1, <2>2, <2>3, <2>4
  <2>5. CASE ~(i + 1 <= Len(s))
    <3>1. i + 1 - Len(s) = i - (Len(s) - 1)
      BY <1>1, <2>1
    <3> QED BY <1>1, <2>1, <2>2, <2>3, <2>5, <3>1
  <2> QED BY <2>4, <2>5
<1>9. Len(Tail(s \o t)) = Len(Tail(s) \o t) /\ Len(Tail(s \o t)) = Len(s) + Len(t) - 1
  BY <1>1, <1>6, <1>7
<1>10. Tail(s \o t) = Tail(s) \o t
  BY <1>6, <1>7, <1>8, <1>9, SeqEqual
<1> QED BY <1>3, <1>4, <1>10

-----------------------------------------------------------------------------
(* The fields of the records after an update.                                  *)

\* What the lemmas of GuestEHProofs leave open of the activations and headers
\* they describe.
LEMMA FreshFields ==
    ASSUME NEW m \in Activation, NEW e \in Exc \cup {NoExc}
    PROVE  LET a == [m EXCEPT !.fresh = e] IN
           a.site = m.site /\ a.hs = m.hs /\ a.todo = m.todo
BY DEF Activation

\* Leaving a catch block changes the blocks and what the pad has to leave.
LEMMA LeavingFields ==
    ASSUME NEW m \in Activation
    PROVE  /\ Leaving(m).site = m.site /\ Leaving(m).hs = Tail(m.hs) /\ Leaving(m).todo = m.todo
           /\ PadLeaving(m).site = m.site /\ PadLeaving(m).hs = Tail(m.hs)
           /\ PadLeaving(m).todo = m.todo - 1
BY DEF Activation, Leaving, PadLeaving

\* Entering one puts it in front.
LEMMA EnteringFields ==
    ASSUME NEW m \in Activation, NEW e \in Exc
    PROVE  /\ Entering(m, e).site = m.site /\ Entering(m, e).hs = <<e>> \o m.hs
           /\ Entering(m, e).todo = m.todo
BY DEF Activation, Entering

\* Landing leaves the call site and the catch blocks as they are.
LEMMA LandedFields ==
    ASSUME NEW m \in Activation, NEW act, NEW e, NEW l
    PROVE  /\ LandedIn(m, act, e, l).site = m.site /\ LandedIn(m, act, e, l).hs = m.hs
           /\ LandedIn(m, act, e, l).todo = l
BY DEF Activation, LandedIn

\* Counting handlers changes no other field.
LEMMA CountedFields ==
    ASSUME NEW x \in Object, NEW c \in Int
    PROVE  /\ Counted(x, c).type = x.type /\ Counted(x, c).uncaught = x.uncaught
           /\ Counted(x, c).goal = x.goal /\ Counted(x, c).count = c
BY Zenon DEF Object, Counted

\* __cxa_throw gives the type and makes the exception uncaught.
LEMMA ThrownFields ==
    ASSUME NEW x \in Object, NEW t \in Type
    PROVE  LET y == [x EXCEPT !.type = t, !.uncaught = TRUE, !.count = 0] IN
           y.type = t /\ y.uncaught /\ y.count = 0 /\ y.goal = x.goal
BY Zenon DEF Object

\* A landing writes the resume point and whether the exception is uncaught.
LEMMA LandedWithFields ==
    ASSUME NEW x \in Object, NEW n \in Nat, NEW u \in BOOLEAN
    PROVE  /\ LandedWith(x, n, u).type = x.type /\ LandedWith(x, n, u).uncaught = u
           /\ LandedWith(x, n, u).goal = x.goal /\ LandedWith(x, n, u).count = x.count
BY Zenon DEF Object, LandedWith

\* __cxa_begin_catch counts one handler more.
LEMMA CaughtOnceFields ==
    ASSUME NEW x \in Object
    PROVE  ~CaughtOnce(x).uncaught /\ CaughtOnce(x).count = x.count + 1
           /\ CaughtOnce(x).type = x.type
BY Zenon DEF Object, CaughtOnce

\* Phase one writes the goal only.
LEMMA GoalFields ==
    ASSUME NEW x \in Object, NEW n \in Nat
    PROVE  LET y == [x EXCEPT !.goal = n] IN
           y.type = x.type /\ y.uncaught = x.uncaught /\ y.count = x.count /\ y.goal = n
BY Zenon DEF Object

-----------------------------------------------------------------------------
(* The inductive invariant.                                                    *)

\* A function an exception may not leave: a destructor, or one in a landing pad.
Barrier(i) == stack[i].kind = "dtor" \/ stack[i].pc # "run"

\* The function at i has a handler for type t at the call it is in.
Catches(i, t) ==
    /\ stack[i].kind = "eh"
    /\ stack[i].site # NoSite
    /\ t \in stack[i].site.catches

\* The function at i is in a catch block or has an exception it has not thrown.
Owes(i) == stack[i].hs # <<>> \/ stack[i].fresh # NoExc

\* The call site has a cleanup.
Covers(s) == s # NoSite /\ s.cleanup

\* Someone carries each uncaught exception on: the walk, or a cleanup,
Carried ==
    \A e \in Exc : exc[e].uncaught =>
        flying = e \/ \E i \in 1..N : stack[i].pc = "cleanup" /\ stack[i].obj = e

\* and the function phase one found for it is on the stack and has the handler.
Goals ==
    \A e \in Exc : Found(e) => exc[e].goal \in 1..N /\ Catches(exc[e].goal, exc[e].type)

\* The handler is not above the frame a cleanup resumes at, and it is above every
\* pad and destructor the cleanup is nested in.
Pending ==
    \A i \in 1..N : stack[i].pc = "cleanup" =>
        /\ exc[stack[i].obj].uncaught
        /\ exc[stack[i].obj].goal <= stack[i].prev
        /\ \A b \in 1..i - 1 : Barrier(b) => b < exc[stack[i].obj].goal

\* What a handler has been given, or a destructor runs for, is not uncaught.
Settled ==
    \A i \in 1..N : stack[i].kind = "dtor" \/ stack[i].pc = "catch" => ~exc[stack[i].obj].uncaught

\* Phase one still has a handler to find above every pad and destructor.
PhaseOne ==
    mode = "search" =>
        /\ exc[flying].uncaught
        /\ \A b \in 1..N : Barrier(b) => \E i \in b + 1..cursor : Catches(i, exc[flying].type)

\* Phase two has not gone past the handler, and stops before what it must not cut.
PhaseTwo ==
    mode = "unwind" =>
        /\ exc[flying].uncaught
        /\ exc[flying].goal <= cursor
        /\ \A b \in 1..N : Barrier(b) /\ stack[b].obj # flying => b < exc[flying].goal

Ahead ==
    /\ mode # "nohandler"
    /\ Carried /\ Goals /\ Pending /\ Settled /\ PhaseOne /\ PhaseTwo

\* A function without an LSDA is in no catch block, and throws what it allocates
\* before it calls.
Bare ==
    \A i \in 1..N : stack[i].kind # "eh" =>
        stack[i].hs = <<>> /\ (i < N \/ mode # "run" => stack[i].fresh = NoExc)

\* A pad that will resume leaves every catch block the function is in.
PadLeaves ==
    \A i \in 1..N : stack[i].pc = "cleanup" => stack[i].todo = Len(stack[i].hs)

\* A function that calls with something to clean up has a cleanup there, unless
\* it is in a pad itself or the call is the destructor __cxa_end_catch runs.
Covered ==
    \A i \in 1..N : stack[i].kind = "eh" /\ (i < N \/ mode # "run") /\ Owes(i) =>
        \/ Covers(stack[i].site)
        \/ stack[i].pc # "run" /\ stack[i].obj # flying
        \/ i < N /\ stack[i + 1].kind = "dtor"

\* So what phase two has gone past is in no catch block and has no exception.
Passed == mode = "unwind" => \A i \in cursor + 1..N : ~Owes(i)

Paid == Bare /\ PadLeaves /\ Covered /\ Passed

\* handler_count is one for an exception on the list and zero for one on its way.
Counts ==
    /\ \A k \in 1..Len(caught) : exc[caught[k]].count = 1
    /\ \A i \in 1..N : stack[i].pc # "run" => exc[stack[i].obj].count = 0
    /\ flying # NoExc => exc[flying].count = 0

\* g_uncaught_count counts the exceptions thrown and not caught.
Thrown == {e \in Exc : exc[e].uncaught}
Tally == IsFiniteSet(Thrown) /\ uncaught = Cardinality(Thrown)

\* g_caught heads the catch blocks of the stack.
Blocks == caught = BlocksOf(stack)

\* An exception that has been allocated and not freed is somebody's.
Kept == \A e \in Exc : exc[e].live => Owned(e)

\* g_in_flight is the exception of the innermost pad, or nothing.
Falls ==
    \A i \in 1..N :
        stack[i].pc # "run" /\ (\A j \in i + 1..N : stack[j].pc = "run") =>
            inFlight \in {stack[i].obj, NoExc}

HInv == Ahead /\ Paid /\ Counts /\ Tally /\ Blocks /\ Kept /\ Falls

-----------------------------------------------------------------------------
(* What a step does, with the call site it marks and the fields of records out  *)
(* of the way: one operator for each effect, and a lemma that the action has it. *)

\* The activations agree but for the call site and for having been left, and
\* with the site.
Alike(a, b) ==
    /\ a.kind = b.kind /\ a.prev = b.prev /\ a.pc = b.pc /\ a.obj = b.obj
    /\ a.fresh = b.fresh /\ a.hs = b.hs /\ a.todo = b.todo
Same(a, b) == Alike(a, b) /\ a.site = b.site

\* The domains TypeOK gives, field by field.
LEMMA Fields ==
    ASSUME TypeOK
    PROVE  /\ N \in Nat /\ NoExc \notin Exc /\ flying \in Exc \cup {NoExc}
           /\ \A i \in 1..N :
                 /\ stack[i] \in Activation /\ stack[i].prev \in Nat
                 /\ stack[i].obj \in Exc \cup {NoExc} /\ stack[i].fresh \in Exc \cup {NoExc}
                 /\ stack[i].hs \in Seq(Exc) /\ stack[i].todo \in Nat
                 /\ stack[i].kind \in {"eh", "plain", "dtor"}
                 /\ stack[i].pc \in {"run", "cleanup", "catch"}
           /\ \A e \in Exc : exc[e] \in Object /\ exc[e].goal \in Nat /\ exc[e].count \in Int
           /\ \A k \in 1..Len(caught) : caught[k] \in Exc
<1>1. \A i \in 1..N : stack[i] \in Activation
  BY DEF TypeOK, N
<1>2. N \in Nat /\ NoExc \notin Exc /\ flying \in Exc \cup {NoExc}
  BY GuestEHAssumption DEF TypeOK, N
<1>3. \A e \in Exc : exc[e] \in Object
  BY DEF TypeOK
<1>4. \A k \in 1..Len(caught) : caught[k] \in Exc
  BY DEF TypeOK
<1>5. \A i \in 1..N :
                 /\ stack[i].prev \in Nat
                 /\ stack[i].obj \in Exc \cup {NoExc} /\ stack[i].fresh \in Exc \cup {NoExc}
                 /\ stack[i].hs \in Seq(Exc) /\ stack[i].todo \in Nat
                 /\ stack[i].kind \in {"eh", "plain", "dtor"}
                 /\ stack[i].pc \in {"run", "cleanup", "catch"}
  BY <1>1 DEF Activation
<1>6. \A e \in Exc : exc[e].goal \in Nat /\ exc[e].count \in Int
  BY <1>3 DEF Object
<1> QED BY <1>1, <1>2, <1>3, <1>4, <1>5, <1>6

\* The mark of a function with an LSDA is on its own frame.
LEMMA MarkedSite ==
    ASSUME TypeOK, ShadowStack, NEW s \in Site, N > 0
    PROVE  \A i \in 1..N :
              /\ Alike(Marked(s)[i], stack[i])
              /\ Marked(s)[i].site = IF i = N /\ Me.kind = "eh" THEN s ELSE stack[i].site
<1>1. \A i \in 1..N : Alike(Marked(s)[i], stack[i])
  BY MarkedTyped DEF Alike
<1>2. N \in 1..N /\ N \in Nat /\ ehTop \in 0..N
  BY DEF TypeOK, N
<1>3. CASE Me.kind = "eh"
  <2>1. ehTop = N
    BY <1>2, <1>3 DEF ShadowStack, NearestFrame, Me
  <2> DEFINE a == [stack[N] EXCEPT !.site = s]
  <2>2. a \in Activation /\ a.site = s
    <3>1. stack[N] \in Activation
      BY <1>2, Fields
    <3> QED BY <3>1 DEF Activation
  <2>3. Marked(s) = [stack EXCEPT ![N] = a]
    BY <1>2, <1>3, <2>1 DEF Marked
  <2> HIDE DEF a
  <2>4. \A j \in 1..N : Marked(s)[j] = IF j = N THEN a ELSE stack[j]
    BY <1>2, <2>2, <2>3, ExceptTyped DEF TypeOK, N
  <2> QED BY <1>1, <1>3, <2>2, <2>4
<1>4. CASE Me.kind # "eh"
  BY <1>1, <1>4 DEF Marked
<1> QED BY <1>3, <1>4

\* A step that marks a call site and then changes the activation on top.
LEMMA TopStep ==
    ASSUME Inv, NEW s \in Site, N > 0, NEW a \in Activation,
           stack' = [Marked(s) EXCEPT ![N] = a]
    PROVE  /\ N' = N /\ N \in 1..N /\ stack'[N] = a
           /\ \A i \in 1..N - 1 : Same(stack'[i], stack[i])
<1>1. N \in 1..N /\ N \in Nat
  BY DEF Inv, TypeOK, N
<1>2. Marked(s) \in Seq(Activation) /\ Len(Marked(s)) = N
  BY MarkedTyped DEF Inv
<1>3. /\ Len(stack') = N
      /\ \A i \in 1..N : stack'[i] = IF i = N THEN a ELSE Marked(s)[i]
  BY <1>1, <1>2, ExceptTyped
<1>4. \A i \in 1..N - 1 : i \in 1..N /\ i # N /\ Same(Marked(s)[i], stack[i])
  BY <1>1, MarkedSite DEF Inv, Same
<1> QED BY <1>1, <1>3, <1>4 DEF N

\* What a call does.
Calls ==
    /\ mode = "run" /\ mode' = "run" /\ flying = NoExc /\ flying' = NoExc
    /\ UNCHANGED <<exc, caught, uncaught, inFlight>>
    /\ N' = N + 1
    /\ \A i \in 1..N - 1 : Same(stack'[i], stack[i])
    /\ N > 0 => /\ Alike(stack'[N], stack[N])
                /\ stack[N].kind = "eh" /\ Owes(N) => stack[N].pc # "run" \/ Covers(stack'[N].site)
                /\ stack[N].kind # "eh" => ~Owes(N)
    /\ stack'[N + 1].kind # "dtor" /\ stack'[N + 1].pc = "run" /\ stack'[N + 1].obj = NoExc
    /\ stack'[N + 1].fresh = NoExc /\ stack'[N + 1].hs = <<>>

\* A push adds one activation, which runs and holds only what it destroys.
LEMMA PushStep ==
    ASSUME Inv, NEW st \in Seq(Activation), Len(st) = N, NEW k \in {"eh", "plain", "dtor"},
           NEW e \in Exc \cup {NoExc}, stack' = Push(st, k, e)
    PROVE  /\ N' = N + 1
           /\ \A i \in 1..N : stack'[i] = st[i]
           /\ stack'[N + 1].kind = k /\ stack'[N + 1].pc = "run" /\ stack'[N + 1].obj = e
           /\ stack'[N + 1].fresh = NoExc /\ stack'[N + 1].hs = <<>>
<1>1. ehTop \in Nat /\ N \in Nat
  BY DEF Inv, TypeOK, N
<1>2. NewActivation(k, e) \in Activation
  BY <1>1 DEF NewActivation, Activation
<1>3. N' = N + 1 /\ (\A i \in 1..N : stack'[i] = st[i]) /\ stack'[N + 1] = NewActivation(k, e)
  BY <1>1, <1>2, AppendProperties DEF Push, N
<1> QED BY <1>3 DEF NewActivation

\* Entering from the host, calling and tail calling are calls.
LEMMA CallsIt ==
    ASSUME Inv, NEW k \in {"eh", "plain"}, NEW s \in Site, Enter(k) \/ TailCall(k) \/ Call(k, s)
    PROVE  Calls
<1>1. /\ mode = "run" /\ mode' = "run" /\ flying = NoExc /\ flying' = NoExc
      /\ UNCHANGED <<exc, caught, uncaught, inFlight>>
  BY DEF Inv, Walks, Enter, TailCall, Call, Running, objects, unwinder
<1>2. NoExc \in Exc \cup {NoExc} /\ k \in {"eh", "plain", "dtor"} /\ k # "dtor"
  OBVIOUS
<1>3. stack \in Seq(Activation) /\ Len(stack) = N /\ N \in Nat
  BY DEF Inv, TypeOK, N
<1>4. CASE Enter(k)
  <2>1. stack' = Push(stack, k, NoExc) /\ N = 0
    BY <1>4, <1>3 DEF Enter, N
  <2>2. N' = N + 1 /\ stack'[N + 1].kind = k /\ stack'[N + 1].pc = "run" /\ stack'[N + 1].obj = NoExc
        /\ stack'[N + 1].fresh = NoExc /\ stack'[N + 1].hs = <<>>
    BY <1>2, <1>3, <2>1, PushStep
  <2> QED BY <1>1, <1>2, <2>1, <2>2 DEF Calls
<1>5. CASE TailCall(k)
  <2>1. /\ stack' = Push([stack EXCEPT ![N].left = TRUE], k, NoExc) /\ N > 0
        /\ Me.fresh = NoExc /\ Me.hs = <<>> /\ Me.kind = "eh"
    BY <1>5 DEF TailCall, Running
  <2> DEFINE a == [Me EXCEPT !.left = TRUE]
             st == [stack EXCEPT ![N] = a]
  <2>2. stack' = Push(st, k, NoExc) /\ N \in 1..N
    BY <1>3, <2>1 DEF Me
  <2>3. a \in Activation /\ Same(a, Me)
    <3>1. Me \in Activation
      BY <2>2, Fields DEF Inv, Me
    <3> QED BY <3>1 DEF Activation, Same, Alike
  <2> HIDE DEF a
  <2>4. /\ st \in Seq(Activation) /\ Len(st) = N
        /\ \A j \in 1..N : st[j] = IF j = N THEN a ELSE stack[j]
    BY <1>3, <2>2, <2>3, ExceptTyped
  <2> HIDE DEF st
  <2>5. /\ N' = N + 1 /\ \A i \in 1..N : stack'[i] = st[i]
        /\ stack'[N + 1].kind = k /\ stack'[N + 1].pc = "run" /\ stack'[N + 1].obj = NoExc
        /\ stack'[N + 1].fresh = NoExc /\ stack'[N + 1].hs = <<>>
    BY <1>2, <2>2, <2>4, PushStep
  <2>6. \A i \in 1..N : Same(stack'[i], stack[i])
    BY <2>3, <2>4, <2>5 DEF Me, Same, Alike
  <2>7. Alike(stack'[N], stack[N]) /\ ~Owes(N)
    BY <2>1, <2>2, <2>6 DEF Same, Owes, Me
  <2>8. \A i \in 1..N - 1 : i \in 1..N
    BY <1>3
  <2> QED BY <1>1, <1>2, <2>5, <2>6, <2>7, <2>8 DEF Calls
<1>6. CASE Call(k, s)
  <2>1. /\ stack' = Push(Marked(s), k, NoExc) /\ N > 0
        /\ CallSiteOK(s, Me.fresh # NoExc \/ Me.hs # <<>>)
    BY <1>6 DEF Call, Running
  <2>2. Marked(s) \in Seq(Activation) /\ Len(Marked(s)) = N /\ N \in 1..N
    BY <1>3, <2>1, MarkedTyped DEF Inv
  <2>3. /\ N' = N + 1 /\ \A i \in 1..N : stack'[i] = Marked(s)[i]
        /\ stack'[N + 1].kind = k /\ stack'[N + 1].pc = "run" /\ stack'[N + 1].obj = NoExc
        /\ stack'[N + 1].fresh = NoExc /\ stack'[N + 1].hs = <<>>
    BY <1>2, <2>1, <2>2, PushStep
  <2>4. \A i \in 1..N :
           /\ Alike(stack'[i], stack[i])
           /\ stack'[i].site = IF i = N /\ Me.kind = "eh" THEN s ELSE stack[i].site
    BY <2>1, <2>3, MarkedSite DEF Inv
  <2>5. \A i \in 1..N - 1 : Same(stack'[i], stack[i])
    BY <1>3, <2>4 DEF Same
  <2>6. Alike(stack'[N], stack[N]) /\ (stack[N].kind = "eh" => stack'[N].site = s)
    BY <2>2, <2>4 DEF Me
  <2>7. /\ stack[N].kind = "eh" /\ Owes(N) => Covers(stack'[N].site)
        /\ stack[N].kind # "eh" => ~Owes(N)
    <3>1. s # NoSite
      BY GuestEHAssumption
    <3> QED BY <2>1, <2>6, <3>1 DEF CallSiteOK, Owes, Covers, Me
  <2> QED BY <1>1, <1>2, <2>3, <2>5, <2>6, <2>7 DEF Calls
<1> QED BY <1>4, <1>5, <1>6

\* What a return does.
Returns ==
    /\ mode = "run" /\ mode' = "run" /\ flying = NoExc /\ flying' = NoExc
    /\ UNCHANGED <<caught, uncaught, inFlight>>
    /\ N > 0 /\ N' = N - 1
    /\ \A i \in 1..N - 1 : Same(stack'[i], stack[i])
    /\ stack[N].pc = "run" /\ stack[N].fresh = NoExc /\ stack[N].hs = <<>>
    /\ \A e \in Exc : exc'[e] = IF e = stack[N].obj THEN Dead ELSE exc[e]

\* A return frees the exception whose destructor it ends, and no other.
LEMMA ReturnsIt ==
    ASSUME Inv, Return
    PROVE  Returns
<1>1. /\ mode = "run" /\ mode' = "run" /\ flying = NoExc /\ flying' = NoExc
      /\ UNCHANGED <<caught, uncaught, inFlight>>
      /\ N > 0 /\ stack[N].pc = "run" /\ stack[N].fresh = NoExc /\ stack[N].hs = <<>>
      /\ stack' = SubSeq(stack, 1, N - 1)
      /\ exc' = IF Me.kind = "dtor" THEN [exc EXCEPT ![Me.obj] = Dead] ELSE exc
  BY DEF Inv, Walks, Return, unwinder, Me, Freed
<1>2. N \in Nat /\ N \in 1..N /\ N - 1 \in 0..N /\ NoExc \notin Exc
  BY <1>1, Fields DEF Inv
<1>3. /\ N' = N - 1 /\ \A i \in 1..N - 1 : stack'[i] = stack[i]
  BY <1>1, <1>2, CutTyped DEF Inv, N
<1>4. \A i \in 1..N - 1 : Same(stack'[i], stack[i])
  BY <1>3 DEF Same, Alike
<1>5. Me.kind # "dtor" => stack[N].obj = NoExc
  BY <1>1, <1>2 DEF Inv, Pads, Me
<1>6. \A e \in Exc : exc'[e] = IF e = stack[N].obj THEN Dead ELSE exc[e]
  BY <1>1, <1>2, <1>5 DEF Inv, TypeOK, Me
<1> QED BY <1>1, <1>3, <1>4, <1>6 DEF Returns

\* Nobody has an exception that is uncaught but the walk or a cleanup.
LEMMA UncaughtHeld ==
    ASSUME Inv, Carried, NEW e \in Exc, exc[e].uncaught
    PROVE  /\ exc[e].live
           /\ \A i \in 1..N : stack[i].fresh # e
           /\ \A k \in 1..Len(caught) : caught[k] # e
<1>1. CASE flying = e
  BY <1>1, Fields DEF Inv, Holders, HeldIsLive, FreshAlone, CaughtAlone, Pads, Walks
<1>2. CASE \E i \in 1..N : stack[i].pc = "cleanup" /\ stack[i].obj = e
  <2>1. PICK i \in 1..N : stack[i].pc = "cleanup" /\ stack[i].obj = e
    BY <1>2
  <2>2. e # NoExc
    BY Fields DEF Inv
  <2>3. exc[e].live
    BY <2>1, <2>2 DEF Inv, Holders, HeldIsLive
  <2>4. \A j \in 1..N : stack[j].fresh # e
    BY <2>1, <2>2 DEF Inv, Holders, FreshAlone
  <2>5. \A k \in 1..Len(caught) : caught[k] # e
    BY <2>1, <2>2 DEF Inv, Holders, CaughtAlone
  <2> QED BY <2>3, <2>4, <2>5
<1> QED BY <1>1, <1>2 DEF Carried

\* What __cxa_allocate_exception does.
Allocates(e) ==
    /\ mode = "run" /\ mode' = "run" /\ flying = NoExc /\ flying' = NoExc
    /\ UNCHANGED <<caught, uncaught, inFlight>>
    /\ N \in 1..N /\ N' = N
    /\ \A i \in 1..N - 1 : Same(stack'[i], stack[i])
    /\ stack'[N].kind = stack[N].kind /\ stack'[N].prev = stack[N].prev
    /\ stack'[N].pc = stack[N].pc /\ stack'[N].obj = stack[N].obj
    /\ stack'[N].hs = stack[N].hs /\ stack'[N].todo = stack[N].todo
    /\ stack[N].pc = "run" /\ stack[N].fresh = NoExc /\ stack'[N].fresh = e
    /\ stack[N].kind # "eh" => stack[N].hs = <<>>
    /\ ~exc[e].live
    /\ \A y \in Exc : exc'[y] = IF y = e THEN [Dead EXCEPT !.live = TRUE] ELSE exc[y]

\* It is what AllocateException does.
LEMMA AllocatesIt ==
    ASSUME Inv, NEW e \in Exc, AllocateException(e)
    PROVE  Allocates(e)
<1>1. /\ mode = "run" /\ mode' = "run" /\ flying = NoExc /\ flying' = NoExc
      /\ UNCHANGED <<caught, uncaught, inFlight>>
      /\ N > 0 /\ Me.pc = "run" /\ Me.fresh = NoExc /\ ~exc[e].live
      /\ stack' = [Marked(Quiet) EXCEPT ![N].fresh = e]
      /\ exc' = [exc EXCEPT ![e] = [Dead EXCEPT !.live = TRUE]]
      /\ Me.kind # "eh" => Me.hs = <<>>
  BY DEF Inv, Walks, AllocateException, Running, unwinder, CallSiteOK
<1>2. Quiet \in Site /\ N \in 1..N
  BY <1>1, GuestEHAssumption, Fields DEF Inv
<1>3. PICK m \in Activation : m = Marked(Quiet)[N] /\ Alike(m, Me)
  <2>1. Marked(Quiet)[N] \in Activation /\ Alike(Marked(Quiet)[N], stack[N])
    BY <1>1, <1>2, MarkedTyped, MarkedSite DEF Inv
  <2> QED BY <2>1 DEF Me
<1> DEFINE a == [m EXCEPT !.fresh = e]
<1>4. /\ a \in Activation /\ a.kind = m.kind /\ a.prev = m.prev /\ a.pc = m.pc /\ a.obj = m.obj
      /\ a.fresh = e /\ a.hs = m.hs /\ a.todo = m.todo
  BY ActivationWith, FreshFields
<1>5. stack' = [Marked(Quiet) EXCEPT ![N] = a]
  BY <1>1, <1>3
<1> HIDE DEF a
<1>6. /\ N' = N /\ stack'[N] = a
      /\ \A i \in 1..N - 1 : Same(stack'[i], stack[i])
  BY <1>1, <1>2, <1>4, <1>5, TopStep
<1>7. \A y \in Exc : exc'[y] = IF y = e THEN [Dead EXCEPT !.live = TRUE] ELSE exc[y]
  BY <1>1 DEF Inv, TypeOK
<1> QED BY <1>1, <1>2, <1>3, <1>4, <1>6, <1>7 DEF Allocates, Alike, Me

\* Freed by its landing pad.
Frees(e) ==
    /\ mode = "run" /\ mode' = "run" /\ flying = NoExc /\ flying' = NoExc
    /\ UNCHANGED <<caught, uncaught, inFlight>>
    /\ N \in 1..N /\ N' = N
    /\ \A i \in 1..N - 1 : Same(stack'[i], stack[i])
    /\ stack'[N].kind = stack[N].kind /\ stack'[N].prev = stack[N].prev
    /\ stack'[N].pc = stack[N].pc /\ stack'[N].obj = stack[N].obj
    /\ stack'[N].hs = stack[N].hs /\ stack'[N].todo = stack[N].todo
    /\ stack[N].pc # "run" /\ stack[N].fresh = e /\ stack'[N].fresh = NoExc
    /\ \A y \in Exc : exc'[y] = IF y = e THEN Dead ELSE exc[y]

\* __cxa_free_exception in a pad frees what the function was about to throw.
LEMMA FreesIt ==
    ASSUME Inv, PadFreeException
    PROVE  \E e \in Exc : Frees(e)
<1>1. /\ mode = "run" /\ mode' = "run" /\ flying = NoExc /\ flying' = NoExc
      /\ UNCHANGED <<caught, uncaught, inFlight>>
      /\ N > 0 /\ Me.pc # "run" /\ Me.fresh # NoExc
      /\ stack' = [Marked(Quiet) EXCEPT ![N].fresh = NoExc]
      /\ exc' = [exc EXCEPT ![Me.fresh] = Dead]
  BY DEF Inv, Walks, PadFreeException, unwinder, Freed
<1>2. Quiet \in Site /\ N \in 1..N
  BY <1>1, GuestEHAssumption, Fields DEF Inv
<1>3. PICK m \in Activation : m = Marked(Quiet)[N] /\ Alike(m, Me)
  <2>1. Marked(Quiet)[N] \in Activation /\ Alike(Marked(Quiet)[N], stack[N])
    BY <1>1, <1>2, MarkedTyped, MarkedSite DEF Inv
  <2> QED BY <2>1 DEF Me
<1>4. PICK e \in Exc : e = Me.fresh
  BY <1>1, <1>2, Fields DEF Inv, Me
<1> DEFINE a == [m EXCEPT !.fresh = NoExc]
<1>5. /\ a \in Activation /\ a.kind = m.kind /\ a.prev = m.prev /\ a.pc = m.pc /\ a.obj = m.obj
      /\ a.fresh = NoExc /\ a.hs = m.hs /\ a.todo = m.todo
  BY ActivationWith, FreshFields
<1>6. stack' = [Marked(Quiet) EXCEPT ![N] = a]
  BY <1>1, <1>3
<1> HIDE DEF a
<1>7. /\ N' = N /\ stack'[N] = a
      /\ \A i \in 1..N - 1 : Same(stack'[i], stack[i])
  BY <1>1, <1>2, <1>5, <1>6, TopStep
<1>8. \A y \in Exc : exc'[y] = IF y = e THEN Dead ELSE exc[y]
  BY <1>1, <1>4 DEF Inv, TypeOK
<1>9. Frees(e)
  BY <1>1, <1>2, <1>3, <1>4, <1>5, <1>7, <1>8 DEF Frees, Alike, Me
<1> QED BY <1>9

\* What __cxa_throw does.
Throws(e, t) ==
    /\ mode = "run" /\ mode' = "search" /\ flying = NoExc /\ flying' = e
    /\ cursor' = ehTop /\ ehTop' = ehTop
    /\ UNCHANGED <<caught, inFlight>> /\ uncaught' = uncaught + 1
    /\ N \in 1..N /\ N' = N
    /\ \A i \in 1..N - 1 : Same(stack'[i], stack[i])
    /\ stack'[N].kind = stack[N].kind /\ stack'[N].prev = stack[N].prev
    /\ stack'[N].pc = stack[N].pc /\ stack'[N].obj = stack[N].obj
    /\ stack'[N].hs = stack[N].hs /\ stack'[N].todo = stack[N].todo
    /\ stack[N].pc = "run" /\ stack[N].fresh = e /\ stack'[N].fresh = NoExc
    /\ stack[N].hs # <<>> => stack[N].kind = "eh" /\ Covers(stack'[N].site)
    /\ \A b \in 1..N : Barrier(b) => \E i \in b + 1..N : Catches(i, t)'
    /\ \A y \in Exc : y # e => exc'[y] = exc[y]
    /\ exc'[e].type = t /\ exc'[e].uncaught /\ exc'[e].count = 0 /\ exc'[e].live = exc[e].live

\* A throw has a handler above every pad and destructor, by what the guest keeps.
LEMMA ThrowsIt ==
    ASSUME Inv, NEW t \in Type, NEW s \in Site, Throw(t, s)
    PROVE  \E e \in Exc : Throws(e, t)
<1>1. /\ mode = "run" /\ mode' = "search" /\ flying = NoExc /\ flying' = Me.fresh
      /\ cursor' = ehTop /\ ehTop' = ehTop
      /\ UNCHANGED <<caught, inFlight>> /\ uncaught' = uncaught + 1
      /\ N > 0 /\ Me.pc = "run" /\ Me.fresh # NoExc
      /\ stack' = [Marked(s) EXCEPT ![N].fresh = NoExc]
      /\ exc' = [exc EXCEPT ![Me.fresh].type = t, ![Me.fresh].uncaught = TRUE, ![Me.fresh].count = 0]
      /\ CallSiteOK(s, Me.hs # <<>>) /\ MayThrow(Marked(s), t)
  BY DEF Inv, Walks, Throw, Running
<1>2. N \in 1..N /\ N \in Nat /\ s # NoSite
  BY <1>1, GuestEHAssumption, Fields DEF Inv
<1>3. PICK m \in Activation : m = Marked(s)[N] /\ Alike(m, Me)
  <2>1. Marked(s)[N] \in Activation /\ Alike(Marked(s)[N], stack[N])
    BY <1>1, <1>2, MarkedTyped, MarkedSite DEF Inv
  <2> QED BY <2>1 DEF Me
<1>4. PICK e \in Exc : e = Me.fresh
  BY <1>1, <1>2, Fields DEF Inv, Me
<1> DEFINE a == [m EXCEPT !.fresh = NoExc]
<1>5. /\ a \in Activation /\ a.kind = m.kind /\ a.prev = m.prev /\ a.pc = m.pc /\ a.obj = m.obj
      /\ a.fresh = NoExc /\ a.hs = m.hs /\ a.todo = m.todo /\ a.site = m.site
  BY ActivationWith, FreshFields
<1>6. stack' = [Marked(s) EXCEPT ![N] = a]
  BY <1>1, <1>3
<1> HIDE DEF a
<1>7. /\ N' = N /\ stack'[N] = a
      /\ \A i \in 1..N - 1 : Same(stack'[i], stack[i])
  BY <1>1, <1>2, <1>5, <1>6, TopStep
<1>8. \A y \in Exc : y # e => exc'[y] = exc[y]
  BY <1>1, <1>4 DEF Inv, TypeOK
<1>9. exc'[e].type = t /\ exc'[e].uncaught /\ exc'[e].count = 0 /\ exc'[e].live = exc[e].live
  <2>1. PICK x \in Object : x = exc[e]
    BY Fields DEF Inv
  <2> DEFINE y == [x EXCEPT !.type = t, !.uncaught = TRUE, !.count = 0]
  <2>2. y.type = t /\ y.uncaught /\ y.count = 0 /\ y.live = x.live
    BY ThrownFields, ObjectThrown
  <2>3. exc' = [exc EXCEPT ![e] = y]
    BY <1>1, <1>4, <2>1 DEF Inv, TypeOK
  <2> HIDE DEF y
  <2> QED BY <2>1, <2>2, <2>3 DEF Inv, TypeOK
<1>10. stack[N].hs # <<>> => stack[N].kind = "eh" /\ Covers(stack'[N].site)
  <2>1. stack[N].kind = "eh" => stack'[N].site = s
    BY <1>1, <1>2, <1>3, <1>5, <1>7, MarkedSite DEF Inv, Me
  <2> QED BY <1>1, <1>2, <2>1 DEF CallSiteOK, Covers, Me
<1>11. ASSUME NEW b \in 1..N, Barrier(b) PROVE \E i \in b + 1..N : Catches(i, t)'
  <2>1. Len(Marked(s)) = N /\ \A i \in 1..N : Alike(Marked(s)[i], stack[i])
    BY <1>1, MarkedTyped, MarkedSite DEF Inv
  <2>2. PICK i \in b + 1..N : /\ Marked(s)[i].kind = "eh" /\ Marked(s)[i].site # NoSite
                              /\ t \in Marked(s)[i].site.catches
    BY <1>1, <1>11, <2>1 DEF MayThrow, Barrier, Alike
  <2>3. i \in 1..N /\ stack'[i].kind = Marked(s)[i].kind /\ stack'[i].site = Marked(s)[i].site
    <3>1. CASE i = N
      BY <1>2, <1>3, <1>5, <1>7, <3>1
    <3>2. CASE i # N
      <4>1. i \in 1..N - 1 /\ i \in 1..N
        BY <1>2, <3>2
      <4>2. Marked(s)[i].site = stack[i].site /\ Marked(s)[i].kind = stack[i].kind
        BY <1>1, <3>2, <4>1, MarkedSite DEF Inv, Alike
      <4> QED BY <1>7, <4>1, <4>2 DEF Same, Alike
    <3> QED BY <3>1, <3>2
  <2> QED BY <2>2, <2>3 DEF Catches
<1>12. Throws(e, t)
  BY <1>1, <1>2, <1>3, <1>4, <1>5, <1>7, <1>8, <1>9, <1>10, <1>11 DEF Throws, Alike, Me
<1> QED BY <1>12

\* What the end of a catch block does: the block is the innermost on the list.
Leaves(e) ==
    /\ mode = "run" /\ mode' = "run" /\ flying = NoExc /\ flying' = NoExc
    /\ UNCHANGED <<uncaught, inFlight>>
    /\ N \in 1..N
    /\ \A i \in 1..N - 1 : Same(stack'[i], stack[i])
    /\ stack'[N].kind = stack[N].kind /\ stack'[N].prev = stack[N].prev
    /\ stack'[N].pc = stack[N].pc /\ stack'[N].obj = stack[N].obj
    /\ stack'[N].fresh = stack[N].fresh /\ stack'[N].hs = Tail(stack[N].hs)
    /\ stack[N].pc = "cleanup" => stack'[N].todo = stack[N].todo - 1
    /\ stack[N].hs # <<>> /\ (stack[N].pc = "run" => stack[N].fresh = NoExc)
    /\ caught # <<>> /\ e = Head(caught) /\ caught' = Tail(caught)
    /\ \A y \in Exc : y # e => exc'[y] = exc[y]
    /\ \/ N' = N /\ exc'[e] = Dead
       \/ /\ N' = N + 1 /\ stack'[N + 1].kind = "dtor" /\ stack'[N + 1].pc = "run"
          /\ stack'[N + 1].obj = e /\ stack'[N + 1].fresh = NoExc /\ stack'[N + 1].hs = <<>>
          /\ exc'[e].uncaught = exc[e].uncaught

\* The list is not empty in a catch block, and its head has one handler; so the end
\* of the block takes it off, and frees it or runs its destructor.
LEMMA LeavesIt ==
    ASSUME Inv, Blocks, Counts, EndCatch \/ PadEndCatch
    PROVE  \E e \in Exc : Leaves(e)
<1>1. /\ mode = "run" /\ mode' = "run" /\ flying = NoExc /\ flying' = NoExc
      /\ UNCHANGED <<uncaught, inFlight>>
      /\ N > 0 /\ Me.hs # <<>> /\ (Me.pc = "run" => Me.fresh = NoExc)
  BY DEF Inv, Walks, EndCatch, PadEndCatch, Running, unwinder
<1>2. Quiet \in Site /\ N \in 1..N /\ N \in Nat /\ stack \in Seq(Activation) /\ N = Len(stack)
  BY <1>1, GuestEHAssumption, Fields DEF Inv, TypeOK, N
<1>3. PICK m \in Activation : m = Marked(Quiet)[N] /\ Alike(m, Me)
  <2>1. Marked(Quiet)[N] \in Activation /\ Alike(Marked(Quiet)[N], stack[N])
    BY <1>1, <1>2, MarkedTyped, MarkedSite DEF Inv
  <2> QED BY <2>1 DEF Me
<1>4. PICK a \in Activation :
         /\ EndCatchOn([Marked(Quiet) EXCEPT ![N] = a])
         /\ a.kind = Me.kind /\ a.prev = Me.prev /\ a.pc = Me.pc /\ a.obj = Me.obj
         /\ a.fresh = Me.fresh /\ a.hs = Tail(Me.hs) /\ (Me.pc = "cleanup" => a.todo = Me.todo - 1)
  <2>1. CASE EndCatch
    <3>1. EndCatchOn([Marked(Quiet) EXCEPT ![N] = Leaving(m)]) /\ m.hs # <<>> /\ Me.pc = "run"
      BY <1>1, <1>3, <2>1 DEF EndCatch, Leaving, Alike
    <3>2. /\ Leaving(m) \in Activation /\ Leaving(m).kind = m.kind /\ Leaving(m).prev = m.prev
          /\ Leaving(m).pc = m.pc /\ Leaving(m).obj = m.obj /\ Leaving(m).fresh = m.fresh
          /\ Leaving(m).hs = Tail(m.hs)
      BY <3>1, ActivationLeaving, LeavingFields
    <3> QED BY <1>3, <3>1, <3>2 DEF Alike
  <2>2. CASE PadEndCatch
    <3>1. /\ EndCatchOn([Marked(Quiet) EXCEPT ![N] = PadLeaving(m)])
          /\ m.hs # <<>> /\ m.todo > 0
      BY <1>1, <1>3, <2>2 DEF PadEndCatch, PadLeaving, Alike
    <3>2. /\ PadLeaving(m) \in Activation /\ PadLeaving(m).kind = m.kind /\ PadLeaving(m).prev = m.prev
          /\ PadLeaving(m).pc = m.pc /\ PadLeaving(m).obj = m.obj /\ PadLeaving(m).fresh = m.fresh
          /\ PadLeaving(m).hs = Tail(m.hs) /\ PadLeaving(m).todo = m.todo - 1
      BY <3>1, ActivationPadLeaving, LeavingFields
    <3> QED BY <1>3, <3>1, <3>2 DEF Alike
  <2> QED BY <2>1, <2>2
<1> DEFINE st == [Marked(Quiet) EXCEPT ![N] = a]
<1>5. /\ st \in Seq(Activation) /\ Len(st) = N /\ st[N] = a
      /\ \A i \in 1..N - 1 : Same(st[i], stack[i])
  <2>1. Marked(Quiet) \in Seq(Activation) /\ Len(Marked(Quiet)) = N
    BY <1>1, <1>2, MarkedTyped DEF Inv
  <2>2. /\ st \in Seq(Activation) /\ Len(st) = N
        /\ \A i \in 1..N : st[i] = IF i = N THEN a ELSE Marked(Quiet)[i]
    BY <1>2, <2>1, ExceptTyped
  <2>3. \A i \in 1..N - 1 : i \in 1..N /\ i # N /\ Same(Marked(Quiet)[i], stack[i])
    BY <1>1, <1>2, MarkedSite DEF Inv, Same
  <2> HIDE DEF st
  <2> QED BY <1>2, <2>2, <2>3
<1> HIDE DEF st
<1>6. caught # <<>> /\ caught \in Seq(Exc)
  <2>1. SubSeq(stack, 1, N - 1) \in Seq(Activation) /\ Len(SubSeq(stack, 1, N - 1)) = N - 1
        /\ \A i \in 1..N - 1 : SubSeq(stack, 1, N - 1)[i] = stack[i]
    BY <1>2, CutTyped DEF Inv
  <2> DEFINE below == SubSeq(stack, 1, N - 1)
  <2>2. caught = stack[N].hs \o BlocksOf(below)
    <3> HIDE DEF below
    <3>1. below \in Seq(Activation) /\ Len(stack) = Len(below) + 1
          /\ \A i \in 1..Len(below) : stack[i].hs = below[i].hs
      BY <1>2, <2>1 DEF below
    <3>2. BlocksOf(stack) = stack[Len(stack)].hs \o BlocksOf(below)
      BY <1>2, <3>1, BlocksOfTop
    <3> QED BY <1>2, <3>2 DEF Blocks
  <2>3. stack[N].hs \in Seq(Exc) /\ BlocksOf(below) \in Seq(Exc) /\ stack[N].hs # <<>>
    BY <1>1, <1>2, <2>1, Fields, BlocksOfTyped DEF Inv, Me
  <2> HIDE DEF below
  <2>4. stack[N].hs \o BlocksOf(below) # <<>>
    BY <2>3, TailOfConcat
  <2> QED BY <2>2, <2>4 DEF Inv, TypeOK
<1>7. PICK e \in Exc : e = Head(caught)
  BY <1>6, HeadTailProperties
<1>8. exc[e].count = 1
  <2>1. 1 \in 1..Len(caught) /\ Head(caught) = caught[1]
    BY <1>6, EmptySeq
  <2> QED BY <1>7, <2>1 DEF Counts
<1>9. PICK o \in Object : o = exc[e]
  BY Fields DEF Inv
<1>10. /\ caught' = Tail(caught)
       /\ \/ stack' = Push(st, "dtor", e) /\ exc' = [exc EXCEPT ![e] = Counted(o, 0)]
          \/ stack' = st /\ exc' = [exc EXCEPT ![e] = Dead]
  <2>1. EndCatchOn(st)
    BY <1>4 DEF st
  <2>2. ~(exc[e].count > 1)
    BY <1>8
  <2> QED BY <1>6, <1>7, <1>9, <2>1, <2>2 DEF EndCatchOn, Counted, Freed
<1>11. /\ \A i \in 1..N : stack'[i] = st[i]
       /\ \A y \in Exc : y # e => exc'[y] = exc[y]
       /\ \/ N' = N /\ exc'[e] = Dead
          \/ /\ N' = N + 1 /\ stack'[N + 1].kind = "dtor" /\ stack'[N + 1].pc = "run"
             /\ stack'[N + 1].obj = e /\ stack'[N + 1].fresh = NoExc /\ stack'[N + 1].hs = <<>>
             /\ exc'[e].uncaught = exc[e].uncaught
  <2>1. CASE stack' = Push(st, "dtor", e) /\ exc' = [exc EXCEPT ![e] = Counted(o, 0)]
    <3>1. Counted(o, 0).uncaught = o.uncaught
      BY CountedFields
    <3>2. \A y \in Exc : exc'[y] = IF y = e THEN Counted(o, 0) ELSE exc[y]
      BY <2>1 DEF Inv, TypeOK
    <3>3. /\ N' = N + 1 /\ \A i \in 1..N : stack'[i] = st[i]
          /\ stack'[N + 1].kind = "dtor" /\ stack'[N + 1].pc = "run"
          /\ stack'[N + 1].obj = e /\ stack'[N + 1].fresh = NoExc /\ stack'[N + 1].hs = <<>>
      BY <1>5, <2>1, PushStep
    <3> QED BY <1>9, <3>1, <3>2, <3>3
  <2>2. CASE stack' = st /\ exc' = [exc EXCEPT ![e] = Dead]
    <3>1. N' = N
      BY <1>5, <2>2 DEF N
    <3>2. \A y \in Exc : exc'[y] = IF y = e THEN Dead ELSE exc[y]
      BY <2>2 DEF Inv, TypeOK
    <3> QED BY <2>2, <3>1, <3>2
  <2> QED BY <1>10, <2>1, <2>2
<1>12. \A i \in 1..N - 1 : Same(stack'[i], stack[i])
  BY <1>2, <1>5, <1>11
<1>13. Leaves(e)
  BY <1>1, <1>2, <1>4, <1>5, <1>6, <1>7, <1>10, <1>11, <1>12 DEF Leaves, Me
<1> QED BY <1>13

\* What __cxa_begin_catch does.
Begins(e) ==
    /\ mode = "run" /\ mode' = "run" /\ flying = NoExc /\ flying' = NoExc
    /\ UNCHANGED uncaught /\ inFlight' = NoExc
    /\ N \in 1..N /\ N' = N
    /\ \A i \in 1..N - 1 : Same(stack'[i], stack[i])
    /\ stack'[N].kind = stack[N].kind /\ stack'[N].prev = stack[N].prev
    /\ stack[N].pc = "catch" /\ stack[N].obj = e /\ stack[N].fresh = NoExc
    /\ stack'[N].pc = "run" /\ stack'[N].obj = NoExc
    /\ stack'[N].fresh = NoExc /\ stack'[N].hs = <<e>> \o stack[N].hs
    /\ caught' = IF exc[e].count = 0 THEN <<e>> \o caught ELSE caught
    /\ \A y \in Exc : y # e => exc'[y] = exc[y]
    /\ ~exc'[e].uncaught /\ exc'[e].count = exc[e].count + 1 /\ exc'[e].live = exc[e].live

\* BeginCatch reads no freed header, and counts the handler.
LEMMA BeginsIt ==
    ASSUME Inv, BeginCatch
    PROVE  \E e \in Exc : Begins(e)
<1>1. /\ mode = "run" /\ flying = NoExc /\ N > 0 /\ Me.pc = "catch" /\ Me.fresh = NoExc
  BY DEF Inv, Walks, BeginCatch, PadDone
<1>2. Quiet \in Site /\ N \in 1..N
  BY <1>1, GuestEHAssumption, Fields DEF Inv
<1>3. PICK e \in Exc : e = Me.obj
  BY <1>1, <1>2 DEF Inv, Pads, Me
<1>4. exc[e].live
  BY <1>2, <1>3, Fields DEF Inv, Holders, HeldIsLive, Me
<1>5. PICK m \in Activation : m = Marked(Quiet)[N] /\ Alike(m, Me)
  <2>1. Marked(Quiet)[N] \in Activation /\ Alike(Marked(Quiet)[N], stack[N])
    BY <1>1, <1>2, MarkedTyped, MarkedSite DEF Inv
  <2> QED BY <2>1 DEF Me
<1>6. PICK o \in Object : o = exc[e]
  BY Fields DEF Inv
<1>7. /\ stack' = [Marked(Quiet) EXCEPT ![N] = Entering(m, e)]
      /\ caught' = IF exc[e].count = 0 THEN <<e>> \o caught ELSE caught
      /\ exc' = [exc EXCEPT ![e] = CaughtOnce(o)]
      /\ inFlight' = NoExc
      /\ UNCHANGED <<uncaught, mode, flying>>
  BY <1>3, <1>4, <1>5, <1>6 DEF BeginCatch, CatchBegins, CaughtWith, Entering, CaughtOnce, unwinder
<1> DEFINE a == Entering(m, e)
<1>8. /\ a \in Activation /\ a.kind = m.kind /\ a.prev = m.prev /\ a.pc = "run"
      /\ a.obj = NoExc /\ a.fresh = m.fresh /\ a.hs = <<e>> \o m.hs
  BY ActivationEntering, EnteringFields
<1> HIDE DEF a
<1>9. /\ N' = N /\ stack'[N] = a
      /\ \A i \in 1..N - 1 : Same(stack'[i], stack[i])
  BY <1>1, <1>2, <1>7, <1>8, TopStep DEF a
<1>10. \A y \in Exc : exc'[y] = IF y = e THEN CaughtOnce(o) ELSE exc[y]
  BY <1>7 DEF Inv, TypeOK
<1>11. /\ ~CaughtOnce(o).uncaught /\ CaughtOnce(o).count = o.count + 1
       /\ CaughtOnce(o).live = o.live
  BY CaughtOnceFields, ObjectCaught
<1>12. Begins(e)
  BY <1>1, <1>2, <1>3, <1>5, <1>6, <1>7, <1>8, <1>9, <1>10, <1>11 DEF Begins, Alike, Me
<1> QED BY <1>12

\* What _Unwind_Resume does.
Resumes(e) ==
    /\ mode = "run" /\ mode' = "unwind" /\ flying = NoExc /\ flying' = e
    /\ UNCHANGED <<exc, caught, uncaught, inFlight>>
    /\ N \in 1..N /\ N' = N
    /\ \A i \in 1..N : Alike(stack'[i], stack[i])
    /\ \A i \in 1..N - 1 : Same(stack'[i], stack[i])
    /\ stack[N].pc = "cleanup" /\ stack[N].obj = e /\ stack[N].fresh = NoExc /\ stack[N].todo = 0
    /\ cursor' = stack[N].prev

\* Resume goes on at the frame below the pad's.
LEMMA ResumesIt ==
    ASSUME Inv, Resume
    PROVE  \E e \in Exc : Resumes(e)
<1>1. /\ mode = "run" /\ flying = NoExc /\ N > 0 /\ Me.pc = "cleanup" /\ Me.fresh = NoExc
      /\ Me.todo = 0
  BY DEF Inv, Walks, Resume, PadDone
<1>2. Quiet \in Site /\ N \in 1..N
  BY <1>1, GuestEHAssumption, Fields DEF Inv
<1>3. PICK e \in Exc : e = Me.obj
  BY <1>1, <1>2 DEF Inv, Pads, Me
<1>4. exc[e].live /\ exc[e].resume = Me.prev
  BY <1>1, <1>2, <1>3, Fields DEF Inv, Holders, HeldIsLive, Pads, Me
<1>5. /\ stack' = Marked(Quiet) /\ mode' = "unwind" /\ cursor' = Me.prev /\ flying' = e
      /\ UNCHANGED <<exc, caught, uncaught, inFlight>>
  BY <1>3, <1>4 DEF Resume, objects
<1>6. Len(Marked(Quiet)) = N
  BY <1>1, <1>2, MarkedTyped DEF Inv
<1>7. N' = N /\ \A i \in 1..N : Alike(stack'[i], stack[i])
  BY <1>1, <1>2, <1>5, <1>6, MarkedSite DEF Inv, N
<1>8. \A i \in 1..N - 1 : i \in 1..N /\ i # N
  BY <1>2
<1>9. \A i \in 1..N - 1 : Same(stack'[i], stack[i])
  BY <1>1, <1>2, <1>5, <1>7, <1>8, MarkedSite DEF Inv, Same
<1>10. Resumes(e)
  BY <1>1, <1>2, <1>3, <1>5, <1>7, <1>9 DEF Resumes, Me
<1> QED BY <1>10

\* What a landing does.
Lands(act, e) ==
    /\ mode = "unwind" /\ mode' = "run" /\ flying = e /\ flying' = NoExc
    /\ UNCHANGED caught /\ inFlight' = e
    /\ cursor \in 1..N /\ N' = cursor /\ stack[cursor].kind = "eh"
    /\ \A i \in 1..cursor - 1 : Same(stack'[i], stack[i])
    /\ stack'[cursor].kind = "eh" /\ stack'[cursor].prev = stack[cursor].prev
    /\ stack'[cursor].site = stack[cursor].site
    /\ stack'[cursor].hs = stack[cursor].hs /\ stack'[cursor].fresh = stack[cursor].fresh
    /\ stack'[cursor].pc = act /\ stack'[cursor].obj = e
    /\ act = "cleanup" => stack'[cursor].todo = Len(stack[cursor].hs)
    /\ act = "cleanup" => ~Catches(cursor, exc[e].type)
    /\ uncaught' = IF act = "catch" /\ uncaught > 0 THEN uncaught - 1 ELSE uncaught
    /\ \A y \in Exc : y # e => exc'[y] = exc[y]
    /\ exc'[e].type = exc[e].type /\ exc'[e].count = exc[e].count /\ exc'[e].goal = exc[e].goal
    /\ exc'[e].live = exc[e].live
    /\ exc'[e].uncaught <=> exc[e].uncaught /\ act # "catch"

\* A landing cuts the stack at the cursor; a cleanup is not a handler.
LEMMA LandsIt ==
    ASSUME Inv, UnwindLands
    PROVE  \E act \in {"catch", "cleanup"} : Lands(act, flying)
<1> DEFINE n == cursor
           st == SubSeq(stack, 1, n)
<1> USE DEF Inv
<1>1. mode = "unwind" /\ n # 0
  BY DEF UnwindLands
<1>2. /\ N \in Nat /\ n \in 1..N /\ flying \in Exc /\ exc[flying] \in Object
      /\ stack[n] \in Activation /\ stack[n].kind = "eh"
  <2>1. N \in Nat /\ n \in 1..N /\ flying \in Exc /\ stack[n].kind = "eh"
    BY <1>1 DEF TypeOK, N, Walks
  <2> QED BY <2>1, Fields
<1>3. PICK act \in {"catch", "cleanup"}, leaves \in Nat :
         LandAt(act, leaves) /\ act = FrameAction(cursor, exc[flying].type, FALSE)
  <2>1. PICK l \in 0..Len(stack[n].hs) : LandAt(FrameAction(cursor, exc[flying].type, FALSE), l)
    BY DEF UnwindLands
  <2>2. stack[n].hs \in Seq(Exc)
    BY <1>2, Fields
  <2>3. l \in Nat
    BY <2>2
  <2>4. FrameAction(cursor, exc[flying].type, FALSE) \in {"catch", "cleanup"}
    BY ActionOf DEF UnwindLands
  <2> QED BY <2>1, <2>3, <2>4
<1>4. /\ inFlight' = flying /\ mode' = "run" /\ flying' = NoExc
      /\ caught' = caught /\ (act = "cleanup" => leaves = Len(stack[n].hs))
      /\ uncaught' = IF act = "catch" /\ uncaught > 0 THEN uncaught - 1 ELSE uncaught
  BY <1>3 DEF LandAt, UncaughtAfter
<1>5. PICK o \in Object : o = exc[flying]
  BY <1>2
<1>6. PICK m \in Activation : m = stack[n]
  BY <1>2
<1>7. m.prev \in Nat
  BY <1>6 DEF Activation
<1>8. PICK u \in BOOLEAN : /\ exc' = [exc EXCEPT ![flying] = LandedWith(o, m.prev, u)]
                           /\ u <=> o.uncaught /\ act # "catch"
  <2>1. (o.uncaught /\ act # "catch") \in BOOLEAN
    OBVIOUS
  <2>2. exc' = [exc EXCEPT ![flying] = LandedWith(o, m.prev, o.uncaught /\ act # "catch")]
    BY <1>3, <1>2, <1>5, <1>6 DEF LandAt, TypeOK, LandedWith
  <2> QED BY <2>1, <2>2
<1> DEFINE a == LandedIn(m, act, flying, leaves)
           x == LandedWith(o, m.prev, u)
<1>9. x.live = o.live /\ x.type = o.type /\ x.goal = o.goal /\ x.count = o.count /\ x.uncaught = u
  BY <1>7, ObjectLanded, LandedWithFields
<1>10. /\ a \in Activation /\ a.kind = m.kind /\ a.prev = m.prev
       /\ a.pc = act /\ a.obj = flying /\ a.fresh = m.fresh
       /\ a.hs = m.hs /\ a.site = m.site /\ a.todo = leaves
  <2>1. flying \in Exc
    BY <1>2
  <2> HIDE DEF Inv
  <2> QED BY <2>1, ActivationLanded, LandedFields
<1>11. st \in Seq(Activation) /\ Len(st) = n /\ \A i \in 1..n : st[i] = stack[i]
  BY <1>2, CutTyped
<1>12. stack' = [st EXCEPT ![n] = a]
  <2>1. st[n] = m
    BY <1>2, <1>6, <1>11
  <2> HIDE DEF st
  <2>2. stack' = [st EXCEPT ![n] = LandedIn(st[n], act, flying, leaves)]
    BY <1>3 DEF LandAt, LandedIn, st
  <2> QED BY <2>1, <2>2
<1>13. exc' = [exc EXCEPT ![flying] = x]
  BY <1>8
<1> HIDE DEF a, x, st
<1>14. /\ N' = n /\ n \in Nat
       /\ \A i \in 1..n : stack'[i] = IF i = n THEN a ELSE stack[i]
  <2>1. n \in 1..Len(st)
    BY <1>2, <1>11
  <2>2. /\ Len(stack') = Len(st)
        /\ \A i \in 1..Len(st) : stack'[i] = IF i = n THEN a ELSE st[i]
    BY <1>12, <1>11, <1>10, <2>1, ExceptTyped
  <2> QED BY <1>2, <1>11, <2>2 DEF N
<1>15. \A i \in 1..n - 1 : Same(stack'[i], stack[i])
  BY <1>14 DEF Same, Alike
<1>16. \A y \in Exc : exc'[y] = IF y = flying THEN x ELSE exc[y]
  BY <1>13 DEF TypeOK
<1>17. act = "cleanup" => ~Catches(cursor, exc[flying].type)
  <2>1. CASE Catches(cursor, exc[flying].type)
    <3>1. FrameAction(cursor, exc[flying].type, FALSE) = "catch"
      BY <2>1 DEF Catches, FrameAction
    <3> QED BY <1>3, <3>1
  <2> QED BY <2>1
<1>18. stack'[n] = a
  BY <1>14, <1>2
<1>19. Lands(act, flying)
  <2> HIDE DEF Inv
  <2>1. exc'[flying] = x
    BY <1>2, <1>16
  <2>2. exc'[flying].uncaught <=> exc[flying].uncaught /\ act # "catch"
    BY <1>5, <1>8, <1>9, <2>1
  <2>3. \A y \in Exc : y # flying => exc'[y] = exc[y]
    BY <1>16
  <2> QED BY <1>1, <1>2, <1>4, <1>5, <1>6, <1>9, <1>10, <1>14, <1>15, <1>17, <1>18, <2>1, <2>2, <2>3
     DEF Lands
<1> QED BY <1>19

-----------------------------------------------------------------------------
(* Ahead: the handler stays ahead of the exception.                           *)

\* The handler phase one found for an exception is below every landing pad that
\* passes it on.
LEMMA GoalBelow ==
    ASSUME Inv, Ahead, NEW e \in Exc, exc[e].uncaught, mode = "run"
    PROVE  /\ \E i \in 1..N : stack[i].pc = "cleanup" /\ stack[i].obj = e
           /\ exc[e].goal \in 1..N - 1
           /\ Catches(exc[e].goal, exc[e].type)
<1>1. flying = NoExc /\ NoExc \notin Exc /\ N \in Nat /\ exc[e].goal \in Nat
  BY Fields DEF Inv, Walks
<1>2. PICK i \in 1..N : stack[i].pc = "cleanup" /\ stack[i].obj = e
  BY <1>1 DEF Ahead, Carried
<1>3. exc[e].goal <= stack[i].prev
  BY <1>2 DEF Ahead, Pending
<1>4. stack[i].kind = "eh"
  BY <1>2 DEF Inv, Pads
<1>5. stack[i].prev \in 0..i - 1
  BY <1>4 DEF Inv, ShadowStack, NearestFrame
<1>6. Found(e)
  BY <1>1 DEF Found
<1> QED BY <1>1, <1>2, <1>3, <1>5, <1>6 DEF Ahead, Goals

\* A step of the guest that is neither a throw nor a resumption: no exception
\* becomes uncaught or is caught, and below the top of the stack nothing changes.
LEMMA AheadGuest ==
    ASSUME Inv, Ahead, mode = "run", mode' = "run", flying' = NoExc,
           N' \in Nat, N' >= N - 1,
           \A i \in 1..N - 1 : Same(stack'[i], stack[i]),
           \A e \in Exc : exc[e].uncaught => exc'[e] = exc[e],
           \A e \in Exc : ~exc[e].uncaught => ~exc'[e].uncaught,
           \A i \in N..N' :
              \/ /\ i = N /\ i > 0
                 /\ stack'[i].kind = stack[i].kind /\ stack'[i].prev = stack[i].prev
                 /\ stack'[i].pc = stack[i].pc /\ stack'[i].obj = stack[i].obj
              \/ i = 0
              \/ /\ stack'[i].pc = "run"
                 /\ stack'[i].kind = "dtor" => stack'[i].obj \in Exc /\ ~exc[stack'[i].obj].uncaught
                 /\ i = N => stack[N].pc # "cleanup",
           N' < N => stack[N].pc # "cleanup"
    PROVE  Ahead'
<1>1. flying = NoExc /\ NoExc \notin Exc /\ N \in Nat
      /\ \A i \in 1..N : stack[i].obj \in Exc \cup {NoExc}
  BY Fields DEF Inv, Walks
<1>2. \A i \in 1..N : stack[i].pc = "cleanup" =>
         i \in 1..N' /\ stack'[i].pc = "cleanup" /\ stack'[i].obj = stack[i].obj
  BY <1>1 DEF Same, Alike
<1>3. \A i \in 1..N' : stack'[i].pc = "cleanup" =>
         /\ i \in 1..N /\ stack[i].pc = "cleanup" /\ stack'[i].obj = stack[i].obj
         /\ stack'[i].prev = stack[i].prev
  BY <1>1 DEF Same, Alike
<1>4. \A e \in Exc : exc'[e].uncaught => exc[e].uncaught /\ exc'[e] = exc[e]
  OBVIOUS
<1>5. Carried'
  <2> SUFFICES ASSUME NEW e \in Exc, exc'[e].uncaught
               PROVE  \E i \in 1..N' : stack'[i].pc = "cleanup" /\ stack'[i].obj = e
    BY DEF Carried
  <2>1. PICK i \in 1..N : stack[i].pc = "cleanup" /\ stack[i].obj = e
    BY <1>4, GoalBelow
  <2> QED BY <1>2, <2>1
<1>6. Goals'
  <2> SUFFICES ASSUME NEW e \in Exc, exc'[e].uncaught
               PROVE  /\ exc'[e].goal \in 1..N' /\ stack'[exc'[e].goal].kind = "eh"
                      /\ stack'[exc'[e].goal].site # NoSite
                      /\ exc'[e].type \in stack'[exc'[e].goal].site.catches
    BY DEF Goals, Found, Catches
  <2>1. exc[e].uncaught /\ exc'[e] = exc[e]
    BY <1>4
  <2>2. exc[e].goal \in 1..N - 1 /\ Catches(exc[e].goal, exc[e].type)
    BY <2>1, GoalBelow
  <2>3. Same(stack'[exc[e].goal], stack[exc[e].goal])
    BY <2>2
  <2> QED BY <1>1, <2>1, <2>2, <2>3 DEF Catches, Same, Alike
<1>7. Pending'
  <2> SUFFICES ASSUME NEW i \in 1..N', stack'[i].pc = "cleanup"
               PROVE  /\ exc'[stack'[i].obj].uncaught
                      /\ exc'[stack'[i].obj].goal <= stack'[i].prev
                      /\ \A b \in 1..i - 1 : Barrier(b)' => b < exc'[stack'[i].obj].goal
    BY DEF Pending
  <2>1. i \in 1..N /\ stack[i].pc = "cleanup" /\ stack'[i].obj = stack[i].obj
        /\ stack'[i].prev = stack[i].prev
    BY <1>3
  <2>2. stack[i].obj \in Exc
    BY <2>1 DEF Inv, Pads
  <2>3. /\ exc[stack[i].obj].uncaught
        /\ exc[stack[i].obj].goal <= stack[i].prev
        /\ \A b \in 1..i - 1 : Barrier(b) => b < exc[stack[i].obj].goal
    BY <2>1 DEF Ahead, Pending
  <2>4. exc'[stack[i].obj] = exc[stack[i].obj]
    BY <2>2, <2>3
  <2>5. \A b \in 1..i - 1 : Barrier(b)' => Barrier(b)
    BY <1>1, <2>1 DEF Barrier, Same, Alike
  <2> QED BY <2>1, <2>3, <2>4, <2>5
<1>8. Settled'
  <2> SUFFICES ASSUME NEW i \in 1..N', stack'[i].kind = "dtor" \/ stack'[i].pc = "catch"
               PROVE  ~exc'[stack'[i].obj].uncaught
    BY DEF Settled
  <2>1. CASE /\ i \in 1..N
             /\ stack'[i].kind = stack[i].kind /\ stack'[i].pc = stack[i].pc /\ stack'[i].obj = stack[i].obj
    <3>1. ~exc[stack[i].obj].uncaught /\ stack[i].obj \in Exc
      BY <2>1 DEF Ahead, Settled, Inv, Pads
    <3> QED BY <2>1, <3>1
  <2>2. CASE stack'[i].kind = "dtor" /\ stack'[i].obj \in Exc /\ ~exc[stack'[i].obj].uncaught
    BY <2>2
  <2>3. i < N \/ i \in N..N'
    BY <1>1
  <2> QED BY <1>1, <2>1, <2>2, <2>3 DEF Same, Alike
<1> QED BY <1>5, <1>6, <1>7, <1>8 DEF Ahead, PhaseOne, PhaseTwo

\* A freed object is neither live nor uncaught.
LEMMA DeadFields == ~Dead.uncaught /\ ~Dead.live /\ ~[Dead EXCEPT !.live = TRUE].uncaught
BY DEF Dead

\* Steps of the guest that throw nothing.
LEMMA AheadRuns ==
    ASSUME Inv, Ahead, Calls \/ Returns \/ (\E e \in Exc : Allocates(e) \/ Frees(e) \/ Leaves(e) \/ Begins(e))
    PROVE  Ahead'
<1>1. N \in Nat /\ \A i \in 1..N : stack[i].obj \in Exc \cup {NoExc}
  BY Fields DEF Inv
<1>2. Carried
  BY DEF Ahead
<1>3. CASE Calls
  BY <1>1, <1>3, AheadGuest DEF Calls, Alike
<1>4. CASE Returns
  <2>1. \A e \in Exc : e = stack[N].obj => ~exc[e].uncaught
    <3>1. stack[N].pc = "run" /\ N \in 1..N
      BY <1>1, <1>4 DEF Returns
    <3>2. stack[N].kind # "dtor" => stack[N].obj \notin Exc
      BY <3>1, Fields DEF Inv, Pads
    <3> QED BY <3>1, <3>2 DEF Ahead, Settled
  <2>2. \A e \in Exc : exc[e].uncaught => exc'[e] = exc[e]
    BY <1>4, <2>1 DEF Returns
  <2>3. \A e \in Exc : ~exc[e].uncaught => ~exc'[e].uncaught
    BY <1>4, DeadFields DEF Returns
  <2> QED BY <1>1, <1>4, <2>2, <2>3, AheadGuest DEF Returns
<1>5. ASSUME NEW e \in Exc, Allocates(e) PROVE Ahead'
  <2>1. ~exc[e].uncaught
    BY <1>2, <1>5, UncaughtHeld DEF Allocates
  <2>2. \A y \in Exc : exc[y].uncaught => exc'[y] = exc[y]
    BY <1>5, <2>1 DEF Allocates
  <2>3. \A y \in Exc : ~exc[y].uncaught => ~exc'[y].uncaught
    BY <1>5, DeadFields DEF Allocates
  <2> QED BY <1>1, <1>5, <2>2, <2>3, AheadGuest DEF Allocates
<1>6. ASSUME NEW e \in Exc, Frees(e) PROVE Ahead'
  <2>1. ~exc[e].uncaught
    BY <1>2, <1>6, UncaughtHeld DEF Frees
  <2>2. \A y \in Exc : exc[y].uncaught => exc'[y] = exc[y]
    BY <1>6, <2>1 DEF Frees
  <2>3. \A y \in Exc : ~exc[y].uncaught => ~exc'[y].uncaught
    BY <1>6, DeadFields DEF Frees
  <2> QED BY <1>1, <1>6, <2>2, <2>3, AheadGuest DEF Frees
<1>7. ASSUME NEW e \in Exc, Leaves(e) PROVE Ahead'
  <2>1. ~exc[e].uncaught
    <3>1. 1 \in 1..Len(caught) /\ caught[1] = e
      BY <1>7, EmptySeq DEF Leaves, Inv, TypeOK
    <3> QED BY <1>2, <3>1, UncaughtHeld
  <2>2. \A y \in Exc : exc[y].uncaught => exc'[y] = exc[y]
    BY <1>7, <2>1 DEF Leaves
  <2>3. \A y \in Exc : ~exc[y].uncaught => ~exc'[y].uncaught
    BY <1>7, DeadFields DEF Leaves
  <2> QED BY <1>1, <1>7, <2>1, <2>2, <2>3, AheadGuest DEF Leaves
<1>8. ASSUME NEW e \in Exc, Begins(e) PROVE Ahead'
  <2>1. ~exc[e].uncaught
    BY <1>8 DEF Begins, Ahead, Settled
  <2>2. \A y \in Exc : exc[y].uncaught => exc'[y] = exc[y]
    BY <1>8, <2>1 DEF Begins
  <2>3. \A y \in Exc : ~exc[y].uncaught => ~exc'[y].uncaught
    BY <1>8 DEF Begins
  <2>4. stack[N].kind = "eh" /\ stack'[N].kind = "eh"
    BY <1>8 DEF Begins, Inv, Pads
  <2> QED BY <1>1, <1>8, <2>2, <2>3, <2>4, AheadGuest DEF Begins
<1> QED BY <1>3, <1>4, <1>5, <1>6, <1>7, <1>8

\* Below an exception frame, an exception frame is not above its prev.
LEMMA PrevIsNext ==
    ASSUME Inv, NEW c \in 1..N, stack[c].kind = "eh"
    PROVE  /\ stack[c].prev \in 0..c - 1
           /\ \A i \in 1..c - 1 : stack[i].kind = "eh" => i <= stack[c].prev
BY Fields DEF Inv, ShadowStack, NearestFrame

\* ehTop is the innermost exception frame.
LEMMA TopIsFirst ==
    ASSUME Inv
    PROVE  ehTop \in 0..N /\ \A i \in 1..N : stack[i].kind = "eh" => i <= ehTop
BY Fields DEF Inv, ShadowStack, NearestFrame

\* A throw: the rules of the guest put a handler above every pad and destructor.
LEMMA AheadThrow ==
    ASSUME Inv, Ahead, NEW e \in Exc, NEW t \in Type, Throws(e, t)
    PROVE  Ahead'
<1> USE DEF Throws
<1>1. flying = NoExc /\ NoExc \notin Exc /\ N \in Nat /\ N' = N /\ N \in 1..N
      /\ \A i \in 1..N : stack[i].obj \in Exc \cup {NoExc}
  BY Fields DEF Inv
<1>2. \A i \in 1..N : /\ stack'[i].kind = stack[i].kind /\ stack'[i].prev = stack[i].prev
                      /\ stack'[i].pc = stack[i].pc /\ stack'[i].obj = stack[i].obj
  BY <1>1 DEF Same, Alike
<1>3. \A i \in 1..N : stack[i].obj # e
  BY <1>1 DEF Inv, Holders, FreshAlone
<1>4. \A y \in Exc : y # e => exc'[y] = exc[y]
  OBVIOUS
<1>5. Carried'
  <2> SUFFICES ASSUME NEW y \in Exc, exc'[y].uncaught, y # e
               PROVE  \E i \in 1..N : stack'[i].pc = "cleanup" /\ stack'[i].obj = y
    BY <1>1 DEF Carried
  <2>1. exc[y].uncaught
    BY <1>4
  <2> QED BY <1>2, <2>1, GoalBelow
<1>6. Goals'
  <2> SUFFICES ASSUME NEW y \in Exc, exc'[y].uncaught, y # e
               PROVE  /\ exc'[y].goal \in 1..N /\ stack'[exc'[y].goal].kind = "eh"
                      /\ stack'[exc'[y].goal].site # NoSite
                      /\ exc'[y].type \in stack'[exc'[y].goal].site.catches
    BY <1>1 DEF Goals, Found, Catches
  <2>1. exc[y].uncaught /\ exc'[y] = exc[y]
    BY <1>4
  <2>2. exc[y].goal \in 1..N - 1 /\ Catches(exc[y].goal, exc[y].type)
    BY <2>1, GoalBelow
  <2>3. Same(stack'[exc[y].goal], stack[exc[y].goal])
    BY <2>2
  <2> QED BY <1>1, <2>1, <2>2, <2>3 DEF Catches, Same, Alike
<1>7. Pending'
  <2> SUFFICES ASSUME NEW i \in 1..N, stack[i].pc = "cleanup"
               PROVE  /\ exc'[stack[i].obj].uncaught
                      /\ exc'[stack[i].obj].goal <= stack[i].prev
                      /\ \A b \in 1..i - 1 : Barrier(b)' => b < exc'[stack[i].obj].goal
    BY <1>1, <1>2 DEF Pending
  <2>1. stack[i].obj \in Exc /\ stack[i].obj # e
    BY <1>3 DEF Inv, Pads
  <2>2. /\ exc[stack[i].obj].uncaught
        /\ exc[stack[i].obj].goal <= stack[i].prev
        /\ \A b \in 1..i - 1 : Barrier(b) => b < exc[stack[i].obj].goal
    BY DEF Ahead, Pending
  <2>3. exc'[stack[i].obj] = exc[stack[i].obj]
    BY <1>4, <2>1
  <2>4. \A b \in 1..i - 1 : Barrier(b)' => Barrier(b)
    BY <1>1, <1>2 DEF Barrier
  <2> QED BY <2>2, <2>3, <2>4
<1>8. Settled'
  <2> SUFFICES ASSUME NEW i \in 1..N, stack[i].kind = "dtor" \/ stack[i].pc = "catch"
               PROVE  ~exc'[stack[i].obj].uncaught
    BY <1>1, <1>2 DEF Settled
  <2>1. ~exc[stack[i].obj].uncaught /\ stack[i].obj \in Exc /\ stack[i].obj # e
    BY <1>3 DEF Ahead, Settled, Inv, Pads
  <2> QED BY <1>4, <2>1
<1>9. PhaseOne'
  <2> SUFFICES ASSUME NEW b \in 1..N, Barrier(b)'
               PROVE  \E i \in b + 1..ehTop : /\ stack'[i].kind = "eh" /\ stack'[i].site # NoSite
                                              /\ t \in stack'[i].site.catches
    BY <1>1 DEF PhaseOne, Catches
  <2>1. Barrier(b)
    BY <1>2 DEF Barrier
  <2>2. PICK i \in b + 1..N : Catches(i, t)'
    BY <2>1
  <2>3. i \in 1..N /\ stack'[i].kind = "eh" /\ stack'[i].site # NoSite
        /\ t \in stack'[i].site.catches
    BY <1>1, <2>2 DEF Catches
  <2>4. i <= ehTop /\ ehTop \in Nat
    BY <1>1, <1>2, <2>3, TopIsFirst
  <2>5. i \in b + 1..ehTop
    BY <2>2, <2>4
  <2> QED BY <2>3, <2>5
<1> QED BY <1>5, <1>6, <1>7, <1>8, <1>9 DEF Ahead, PhaseTwo

\* A resumption: the handler was below the pad, and is at or below the cursor.
LEMMA AheadResume ==
    ASSUME Inv, Ahead, NEW e \in Exc, Resumes(e)
    PROVE  Ahead'
<1> USE DEF Resumes
<1>1. flying = NoExc /\ NoExc \notin Exc /\ N \in Nat /\ N' = N /\ N \in 1..N /\ exc' = exc
  BY Fields DEF Inv
<1>2. \A i \in 1..N : /\ stack'[i].kind = stack[i].kind /\ stack'[i].prev = stack[i].prev
                      /\ stack'[i].pc = stack[i].pc /\ stack'[i].obj = stack[i].obj
  BY DEF Alike
<1>3. \A b \in 1..N : Barrier(b)' <=> Barrier(b)
  BY <1>2 DEF Barrier
<1>4. Carried'
  <2> SUFFICES ASSUME NEW y \in Exc, exc[y].uncaught
               PROVE  \E i \in 1..N : stack[i].pc = "cleanup" /\ stack[i].obj = y
    BY <1>1, <1>2 DEF Carried
  <2> QED BY GoalBelow
<1>5. Goals'
  <2> SUFFICES ASSUME NEW y \in Exc, exc[y].uncaught
               PROVE  /\ exc[y].goal \in 1..N /\ stack'[exc[y].goal].kind = "eh"
                      /\ stack'[exc[y].goal].site # NoSite
                      /\ exc[y].type \in stack'[exc[y].goal].site.catches
    BY <1>1 DEF Goals, Found, Catches
  <2>2. exc[y].goal \in 1..N - 1 /\ Catches(exc[y].goal, exc[y].type)
    BY GoalBelow
  <2>3. Same(stack'[exc[y].goal], stack[exc[y].goal])
    BY <2>2
  <2> QED BY <1>1, <2>2, <2>3 DEF Catches, Same, Alike
<1>6. Pending' /\ Settled'
  <2>1. Pending'
    <3> SUFFICES ASSUME NEW i \in 1..N, stack[i].pc = "cleanup"
                 PROVE  /\ exc[stack[i].obj].uncaught
                        /\ exc[stack[i].obj].goal <= stack[i].prev
                        /\ \A b \in 1..i - 1 : Barrier(b)' => b < exc[stack[i].obj].goal
      BY <1>1, <1>2 DEF Pending
    <3>1. \A b \in 1..i - 1 : b \in 1..N
      BY <1>1
    <3> QED BY <1>3, <3>1 DEF Ahead, Pending
  <2>2. Settled'
    BY <1>1, <1>2 DEF Settled, Ahead
  <2> QED BY <2>1, <2>2
<1>7. PhaseTwo'
  <2>1. exc[e].uncaught /\ exc[e].goal <= cursor'
    BY DEF Ahead, Pending
  <2> SUFFICES ASSUME NEW b \in 1..N, Barrier(b)', stack'[b].obj # e
               PROVE  b < exc[e].goal
    BY <1>1, <2>1 DEF PhaseTwo
  <2>2. Barrier(b) /\ b # N
    BY <1>2, <1>3
  <2>3. b \in 1..N - 1
    BY <1>1, <2>2
  <2> QED BY <1>1, <2>2, <2>3 DEF Ahead, Pending
<1> QED BY <1>4, <1>5, <1>6, <1>7 DEF Ahead, PhaseOne

\* In phase two the pads and destructors below the walk are all below the
\* handler it is going to.
LEMMA BarriersBelow ==
    ASSUME Inv, Ahead, mode = "unwind"
    PROVE  /\ flying \in Exc /\ exc[flying].uncaught
           /\ exc[flying].goal \in 1..cursor
           /\ Catches(exc[flying].goal, exc[flying].type)
           /\ cursor \in 1..N /\ stack[cursor].kind = "eh"
           /\ \A b \in 1..cursor : Barrier(b) => stack[b].obj # flying /\ b < exc[flying].goal
           /\ stack[cursor].pc = "run" /\ stack[cursor].obj = NoExc
<1>1. flying \in Exc /\ cursor \in 0..N /\ N \in Nat /\ exc[flying].goal \in Nat /\ NoExc \notin Exc
  BY Fields DEF Inv, TypeOK
<1>2. exc[flying].uncaught /\ exc[flying].goal <= cursor
  BY DEF Ahead, PhaseTwo
<1>3. Found(flying)
  BY <1>2 DEF Found
<1>4. exc[flying].goal \in 1..N /\ Catches(exc[flying].goal, exc[flying].type)
  BY <1>1, <1>3 DEF Ahead, Goals
<1>5. cursor \in 1..N /\ stack[cursor].kind = "eh"
  BY <1>1, <1>2, <1>4 DEF Inv, Walks
<1>6. ASSUME NEW b \in 1..cursor, Barrier(b) PROVE stack[b].obj # flying /\ b < exc[flying].goal
  <2>1. b \in 1..N /\ ~(cursor < b)
    BY <1>1
  <2>2. stack[b].obj # flying
    BY <1>1, <2>1 DEF Inv, Walks
  <2> QED BY <1>6, <2>1, <2>2 DEF Ahead, PhaseTwo
<1>7. stack[cursor].pc = "run"
  <2>1. CASE Barrier(cursor)
    BY <1>1, <1>2, <1>5, <1>6, <2>1
  <2> QED BY <2>1 DEF Barrier
<1>8. stack[cursor].obj = NoExc
  BY <1>5, <1>7 DEF Inv, Pads
<1> QED BY <1>1, <1>2, <1>4, <1>5, <1>6, <1>7, <1>8

\* Where the other uncaught exceptions are in phase two.
LEMMA OthersBelow ==
    ASSUME Inv, Ahead, mode = "unwind", NEW y \in Exc, exc[y].uncaught, y # flying
    PROVE  \E i \in 1..cursor - 1 :
              /\ stack[i].pc = "cleanup" /\ stack[i].obj = y
              /\ exc[y].goal \in 1..i - 1 /\ Catches(exc[y].goal, exc[y].type)
<1>1. flying \in Exc /\ cursor \in 1..N /\ N \in Nat /\ exc[flying].goal \in 1..cursor
      /\ exc[y].goal \in Nat
  BY BarriersBelow, Fields DEF Inv
<1>2. PICK i \in 1..N : stack[i].pc = "cleanup" /\ stack[i].obj = y
  BY DEF Ahead, Carried
<1>3. i < exc[flying].goal
  BY <1>2 DEF Ahead, PhaseTwo, Barrier
<1>4. stack[i].kind = "eh"
  BY <1>2 DEF Inv, Pads
<1>5. stack[i].prev \in 0..i - 1
  BY <1>4, PrevIsNext
<1>6. exc[y].goal <= stack[i].prev
  BY <1>2 DEF Ahead, Pending
<1>7. Found(y)
  BY DEF Found
<1>8. exc[y].goal \in 1..N /\ Catches(exc[y].goal, exc[y].type)
  BY <1>7 DEF Ahead, Goals
<1>9. i \in 1..cursor - 1 /\ exc[y].goal \in 1..i - 1
  BY <1>1, <1>3, <1>5, <1>6, <1>8
<1> QED BY <1>2, <1>8, <1>9

\* A landing: in a cleanup the handler is further down, in the handler it is reached.
LEMMA AheadLand ==
    ASSUME Inv, Ahead, NEW act \in {"catch", "cleanup"}, NEW e \in Exc, Lands(act, e)
    PROVE  Ahead'
<1> USE DEF Lands
<1>1. NoExc \notin Exc /\ N \in Nat /\ N' = cursor /\ cursor \in 1..N /\ mode = "unwind" /\ flying = e
      /\ exc[e].goal \in Nat
  BY Fields DEF Inv
<1>2. /\ exc[e].uncaught /\ exc[e].goal \in 1..cursor /\ Catches(exc[e].goal, exc[e].type)
      /\ \A b \in 1..cursor : Barrier(b) => stack[b].obj # e /\ b < exc[e].goal
      /\ stack[cursor].kind = "eh" /\ stack[cursor].pc = "run"
  BY <1>1, BarriersBelow
<1>3. \A y \in Exc : y # e => exc'[y] = exc[y]
  OBVIOUS
<1>4. Carried'
  <2> SUFFICES ASSUME NEW y \in Exc, exc'[y].uncaught
               PROVE  \E i \in 1..N' : stack'[i].pc = "cleanup" /\ stack'[i].obj = y
    BY <1>1 DEF Carried
  <2>1. CASE y = e
    BY <1>1, <2>1
  <2>2. CASE y # e
    <3>1. exc[y].uncaught
      BY <1>3, <2>2
    <3>2. PICK i \in 1..cursor - 1 : stack[i].pc = "cleanup" /\ stack[i].obj = y
      BY <1>1, <2>2, <3>1, OthersBelow
    <3>3. i \in 1..N' /\ Same(stack'[i], stack[i])
      BY <1>1
    <3> QED BY <3>2, <3>3 DEF Same, Alike
  <2> QED BY <2>1, <2>2
<1>5. act = "cleanup" => exc[e].goal \in 1..cursor - 1 /\ exc[e].goal <= stack[cursor].prev
  <2> SUFFICES ASSUME act = "cleanup"
               PROVE  exc[e].goal \in 1..cursor - 1 /\ exc[e].goal <= stack[cursor].prev
    OBVIOUS
  <2>1. exc[e].goal # cursor
    BY <1>2
  <2>2. exc[e].goal \in 1..cursor - 1 /\ stack[exc[e].goal].kind = "eh"
    BY <1>1, <1>2, <2>1 DEF Catches
  <2> QED BY <1>1, <1>2, <2>2, PrevIsNext
<1>6. Goals'
  <2> SUFFICES ASSUME NEW y \in Exc, exc'[y].uncaught
               PROVE  /\ exc'[y].goal \in 1..N' /\ stack'[exc'[y].goal].kind = "eh"
                      /\ stack'[exc'[y].goal].site # NoSite
                      /\ exc'[y].type \in stack'[exc'[y].goal].site.catches
    BY DEF Goals, Found, Catches
  <2>1. exc'[y].goal = exc[y].goal /\ exc'[y].type = exc[y].type
    BY <1>3
  <2>2. exc[y].goal \in 1..cursor - 1 /\ Catches(exc[y].goal, exc[y].type)
    <3>1. CASE y = e
      BY <1>2, <1>5, <3>1
    <3>2. CASE y # e
      <4>1. exc[y].uncaught
        BY <1>3, <3>2
      <4>2. PICK i \in 1..cursor - 1 : exc[y].goal \in 1..i - 1 /\ Catches(exc[y].goal, exc[y].type)
        BY <1>1, <3>2, <4>1, OthersBelow
      <4> QED BY <1>1, <4>2
    <3> QED BY <3>1, <3>2
  <2>3. Same(stack'[exc[y].goal], stack[exc[y].goal])
    BY <2>2
  <2> QED BY <1>1, <2>1, <2>2, <2>3 DEF Catches, Same, Alike
<1>7. \A b \in 1..cursor - 1 : Barrier(b)' => Barrier(b)
  BY DEF Barrier, Same, Alike
<1>8. Pending'
  <2> SUFFICES ASSUME NEW i \in 1..cursor, stack'[i].pc = "cleanup"
               PROVE  /\ exc'[stack'[i].obj].uncaught
                      /\ exc'[stack'[i].obj].goal <= stack'[i].prev
                      /\ \A b \in 1..i - 1 : Barrier(b)' => b < exc'[stack'[i].obj].goal
    BY <1>1 DEF Pending
  <2>1. CASE i = cursor
    <3>1. act = "cleanup" /\ stack'[i].obj = e /\ stack'[i].prev = stack[i].prev
      BY <2>1
    <3>2. \A b \in 1..cursor - 1 : b \in 1..cursor
      BY <1>1
    <3> QED BY <1>2, <1>5, <1>7, <2>1, <3>1, <3>2
  <2>2. CASE i # cursor
    <3>1. i \in 1..cursor - 1 /\ i \in 1..cursor /\ i \in 1..N
      BY <1>1, <2>2
    <3>2. stack[i].pc = "cleanup" /\ stack'[i].obj = stack[i].obj /\ stack'[i].prev = stack[i].prev
      BY <3>1 DEF Same, Alike
    <3>3. stack[i].obj # e /\ stack[i].obj \in Exc
      BY <1>2, <3>1, <3>2 DEF Barrier, Inv, Pads
    <3>4. /\ exc[stack[i].obj].uncaught
          /\ exc[stack[i].obj].goal <= stack[i].prev
          /\ \A b \in 1..i - 1 : Barrier(b) => b < exc[stack[i].obj].goal
      BY <3>1, <3>2 DEF Ahead, Pending
    <3>5. \A b \in 1..i - 1 : b \in 1..cursor - 1
      BY <3>1
    <3> QED BY <1>3, <1>7, <3>2, <3>3, <3>4, <3>5
  <2> QED BY <2>1, <2>2
<1>9. Settled'
  <2> SUFFICES ASSUME NEW i \in 1..cursor, stack'[i].kind = "dtor" \/ stack'[i].pc = "catch"
               PROVE  ~exc'[stack'[i].obj].uncaught
    BY <1>1 DEF Settled
  <2>1. CASE i = cursor
    BY <2>1
  <2>2. CASE i # cursor
    <3>1. i \in 1..cursor - 1 /\ i \in 1..cursor /\ i \in 1..N
      BY <1>1, <2>2
    <3>2. (stack[i].kind = "dtor" \/ stack[i].pc = "catch") /\ stack'[i].obj = stack[i].obj
      BY <3>1 DEF Same, Alike
    <3>3. stack[i].obj # e /\ stack[i].obj \in Exc
      BY <1>2, <3>1, <3>2 DEF Barrier, Inv, Pads
    <3> QED BY <1>3, <3>1, <3>2, <3>3 DEF Ahead, Settled
  <2> QED BY <2>1, <2>2
<1> QED BY <1>4, <1>6, <1>8, <1>9 DEF Ahead, PhaseOne, PhaseTwo

\* A step that leaves the host stack alone.
LEMMA StackSame ==
    ASSUME stack' = stack
    PROVE  /\ N' = N
           /\ \A b : Barrier(b)' <=> Barrier(b)
           /\ \A b, t : Catches(b, t)' <=> Catches(b, t)
           /\ \A i : Owes(i)' <=> Owes(i)
BY DEF N, Barrier, Catches, Owes

\* frame_action by what the call site has.
LEMMA ActionIsCatch ==
    ASSUME NEW f, NEW t, stack[f].kind = "eh"
    PROVE  /\ FrameAction(f, t, TRUE) = "none" <=> ~Catches(f, t)
           /\ FrameAction(f, t, FALSE) = "none" <=> ~Catches(f, t) /\ ~Covers(stack[f].site)
BY DEF FrameAction, Catches, Covers

\* Phase one goes on: a frame without a handler is nobody's.
LEMMA AheadSearchNext ==
    ASSUME Inv, Ahead, SearchNext
    PROVE  Ahead'
<1>1. /\ mode = "search" /\ mode' = mode /\ cursor # 0 /\ cursor' = stack[cursor].prev
      /\ stack' = stack /\ exc' = exc /\ flying' = flying
      /\ FrameAction(cursor, exc[flying].type, TRUE) = "none"
  BY DEF SearchNext, objects
<1>2. cursor \in 1..N /\ N \in Nat /\ stack[cursor].kind = "eh"
  BY <1>1, Fields DEF Inv, TypeOK, Walks
<1>3. ~Catches(cursor, exc[flying].type)
  BY <1>1, <1>2, ActionIsCatch
<1>4. /\ N' = N /\ (\A b : Barrier(b)' <=> Barrier(b))
      /\ \A b, t : Catches(b, t)' <=> Catches(b, t)
  BY <1>1, StackSame
<1>5. Carried' /\ Pending' /\ Settled' /\ PhaseTwo'
  BY <1>1, <1>4 DEF Ahead, Carried, Pending, Settled, PhaseTwo
<1>6. Goals'
  BY <1>1, <1>4 DEF Ahead, Goals, Found, Catches
<1>7. PhaseOne'
  <2> SUFFICES ASSUME NEW b \in 1..N, Barrier(b)
               PROVE  \E i \in b + 1..cursor' : Catches(i, exc[flying].type)
    BY <1>1, <1>4 DEF Ahead, PhaseOne, Catches
  <2>1. PICK i \in b + 1..cursor : Catches(i, exc[flying].type)
    BY <1>1 DEF Ahead, PhaseOne
  <2>2. i \in 1..cursor - 1 /\ stack[i].kind = "eh"
    BY <1>2, <1>3, <2>1 DEF Catches
  <2>3. i <= cursor' /\ cursor' \in Nat
    BY <1>1, <1>2, <2>2, PrevIsNext
  <2>4. i \in b + 1..cursor'
    BY <2>1, <2>3
  <2> QED BY <2>1, <2>4
<1> QED BY <1>1, <1>5, <1>6, <1>7 DEF Ahead

\* Phase one finds a handler: it is above every pad and destructor.
LEMMA AheadSearchFound ==
    ASSUME Inv, Ahead, SearchFound
    PROVE  Ahead'
<1>1. /\ mode = "search" /\ mode' = "unwind" /\ cursor # 0 /\ cursor' = ehTop
      /\ stack' = stack /\ flying' = flying /\ exc' = [exc EXCEPT ![flying].goal = cursor]
      /\ FrameAction(cursor, exc[flying].type, TRUE) # "none"
  BY DEF SearchFound
<1>2. cursor \in 1..N /\ N \in Nat /\ stack[cursor].kind = "eh" /\ flying \in Exc /\ NoExc \notin Exc
  BY <1>1, Fields DEF Inv, TypeOK, Walks
<1>3. Catches(cursor, exc[flying].type)
  BY <1>1, <1>2, ActionIsCatch
<1>4. /\ N' = N /\ (\A b : Barrier(b)' <=> Barrier(b))
      /\ \A b, t : Catches(b, t)' <=> Catches(b, t)
  BY <1>1, StackSame
<1>5. PICK o \in Object : o = exc[flying]
  BY <1>2, Fields DEF Inv
<1> DEFINE x == [o EXCEPT !.goal = cursor]
<1>6. x.type = o.type /\ x.uncaught = o.uncaught /\ x.goal = cursor
  <2>1. cursor \in Nat
    BY <1>2
  <2> QED BY <2>1, GoalFields
<1>7. exc' = [exc EXCEPT ![flying] = x]
  BY <1>1, <1>2, <1>5 DEF Inv, TypeOK
<1> HIDE DEF x
<1>8. \A y \in Exc : exc'[y] = IF y = flying THEN x ELSE exc[y]
  BY <1>7 DEF Inv, TypeOK
<1>9. \A y \in Exc : /\ exc'[y].uncaught = exc[y].uncaught /\ exc'[y].type = exc[y].type
                     /\ exc'[y].goal = IF y = flying THEN cursor ELSE exc[y].goal
  BY <1>5, <1>6, <1>8
<1>10. \A i \in 1..N : stack[i].obj # flying
  BY <1>1, <1>2 DEF Inv, Walks
<1>11. Carried'
  BY <1>1, <1>4, <1>9 DEF Ahead, Carried
<1>12. Goals'
  <2> SUFFICES ASSUME NEW y \in Exc, exc'[y].uncaught
               PROVE  /\ exc'[y].goal \in 1..N /\ stack[exc'[y].goal].kind = "eh"
                      /\ stack[exc'[y].goal].site # NoSite
                      /\ exc'[y].type \in stack[exc'[y].goal].site.catches
    BY <1>1, <1>4 DEF Goals, Found, Catches
  <2>1. CASE y = flying
    BY <1>2, <1>3, <1>9, <2>1 DEF Catches
  <2>2. CASE y # flying
    <3>1. Found(y)
      BY <1>9, <2>2 DEF Found
    <3> QED BY <1>9, <2>2, <3>1 DEF Ahead, Goals, Catches
  <2> QED BY <2>1, <2>2
<1>13. Pending'
  <2> SUFFICES ASSUME NEW i \in 1..N, stack[i].pc = "cleanup"
               PROVE  /\ exc'[stack[i].obj].uncaught
                      /\ exc'[stack[i].obj].goal <= stack[i].prev
                      /\ \A b \in 1..i - 1 : Barrier(b) => b < exc'[stack[i].obj].goal
    BY <1>1, <1>4 DEF Pending
  <2>1. stack[i].obj \in Exc /\ stack[i].obj # flying
    BY <1>10 DEF Inv, Pads
  <2> QED BY <1>9, <2>1 DEF Ahead, Pending
<1>14. Settled'
  <2> SUFFICES ASSUME NEW i \in 1..N, stack[i].kind = "dtor" \/ stack[i].pc = "catch"
               PROVE  ~exc'[stack[i].obj].uncaught
    BY <1>1, <1>4 DEF Settled
  <2>1. stack[i].obj \in Exc
    BY DEF Inv, Pads
  <2> QED BY <1>9, <2>1 DEF Ahead, Settled
<1>15. PhaseTwo'
  <2>1. exc[flying].uncaught /\ exc'[flying].goal = cursor /\ exc'[flying].uncaught
    BY <1>1, <1>2, <1>9 DEF Ahead, PhaseOne
  <2>2. cursor <= ehTop
    BY <1>2, TopIsFirst
  <2>3. ASSUME NEW b \in 1..N, Barrier(b) PROVE b < cursor
    <3>1. PICK i \in b + 1..cursor : Catches(i, exc[flying].type)
      BY <1>1, <2>3 DEF Ahead, PhaseOne
    <3> QED BY <1>2, <3>1
  <2> QED BY <1>1, <1>4, <2>1, <2>2, <2>3 DEF PhaseTwo
<1> QED BY <1>1, <1>11, <1>12, <1>13, <1>14, <1>15 DEF Ahead, PhaseOne

\* Phase two goes on: the frame it passes is not the one phase one found.
LEMMA AheadUnwindNext ==
    ASSUME Inv, Ahead, UnwindNext
    PROVE  Ahead'
<1>1. /\ mode = "unwind" /\ mode' = mode /\ cursor # 0 /\ cursor' = stack[cursor].prev
      /\ stack' = stack /\ exc' = exc /\ flying' = flying
      /\ FrameAction(cursor, exc[flying].type, FALSE) = "none"
  BY DEF UnwindNext, objects
<1>2. /\ cursor \in 1..N /\ N \in Nat /\ stack[cursor].kind = "eh"
      /\ exc[flying].goal \in 1..cursor /\ Catches(exc[flying].goal, exc[flying].type)
  BY <1>1, BarriersBelow, Fields DEF Inv
<1>3. ~Catches(cursor, exc[flying].type)
  BY <1>1, <1>2, ActionIsCatch
<1>4. /\ N' = N /\ (\A b : Barrier(b)' <=> Barrier(b))
      /\ \A b, t : Catches(b, t)' <=> Catches(b, t)
  BY <1>1, StackSame
<1>5. Carried' /\ Pending' /\ Settled' /\ PhaseOne'
  BY <1>1, <1>4 DEF Ahead, Carried, Pending, Settled, PhaseOne
<1>6. Goals'
  BY <1>1, <1>4 DEF Ahead, Goals, Found, Catches
<1>7. exc[flying].goal <= cursor'
  <2>1. exc[flying].goal \in 1..cursor - 1 /\ stack[exc[flying].goal].kind = "eh"
    BY <1>2, <1>3 DEF Catches
  <2> QED BY <1>1, <1>2, <2>1, PrevIsNext
<1>8. PhaseTwo'
  BY <1>1, <1>4, <1>7 DEF Ahead, PhaseTwo
<1> QED BY <1>1, <1>5, <1>6, <1>8 DEF Ahead

\* A walk that ends is in phase one.
LEMMA AheadWalkEnds ==
    ASSUME Inv, Ahead, WalkEnds
    PROVE  Ahead'
<1>1. /\ mode \in {"search", "unwind"} /\ cursor = 0
      /\ mode' = IF mode = "search" THEN "uncaught" ELSE "nohandler"
      /\ stack' = stack /\ exc' = exc /\ flying' = flying
  BY DEF WalkEnds, objects
<1>2. mode = "search" /\ mode' = "uncaught"
  BY <1>1, BarriersBelow
<1>3. /\ N' = N /\ (\A b : Barrier(b)' <=> Barrier(b))
      /\ \A b, t : Catches(b, t)' <=> Catches(b, t)
  BY <1>1, StackSame
<1>4. Carried' /\ Pending' /\ Settled' /\ PhaseOne' /\ PhaseTwo'
  BY <1>1, <1>2, <1>3 DEF Ahead, Carried, Pending, Settled, PhaseOne, PhaseTwo
<1>5. Goals'
  BY <1>1, <1>2, <1>3 DEF Ahead, Goals, Found, Catches
<1> QED BY <1>2, <1>4, <1>5 DEF Ahead

\* Nothing changes.
LEMMA HInvStutter ==
    ASSUME HInv, UNCHANGED vars
    PROVE  HInv'
<1>1. /\ stack' = stack /\ exc' = exc /\ caught' = caught /\ mode' = mode
      /\ uncaught' = uncaught /\ inFlight' = inFlight /\ cursor' = cursor /\ flying' = flying
  BY DEF vars
<1>2. /\ N' = N /\ (\A b : Barrier(b)' <=> Barrier(b))
      /\ (\A b, t : Catches(b, t)' <=> Catches(b, t)) /\ \A i : Owes(i)' <=> Owes(i)
  BY <1>1, StackSame
<1>3. Carried' /\ Pending' /\ Settled' /\ PhaseOne' /\ PhaseTwo'
  BY <1>1, <1>2 DEF HInv, Ahead, Carried, Pending, Settled, PhaseOne, PhaseTwo
<1>4. Goals'
  BY <1>1, <1>2 DEF HInv, Ahead, Goals, Found, Catches
<1>5. Paid'
  BY <1>1, <1>2 DEF HInv, Paid, Bare, PadLeaves, Covered, Passed
<1>6. Counts' /\ Tally'
  BY <1>1, <1>2 DEF HInv, Counts, Tally, Thrown
<1>7. Blocks'
  BY <1>1 DEF HInv, Blocks
<1>8. Kept'
  BY <1>1, <1>2 DEF HInv, Kept, Owned
<1>9. Falls'
  BY <1>1, <1>2 DEF HInv, Falls
<1> QED BY <1>1, <1>3, <1>4, <1>5, <1>6, <1>7, <1>8, <1>9 DEF HInv, Ahead

-----------------------------------------------------------------------------
(* All the effects together.                                                  *)

\* A step of either walk.
WalksOn ==
    /\ mode \in {"search", "unwind"} /\ mode' \notin {"run", "ub", "norethrow"}
    /\ UNCHANGED <<stack, caught, uncaught, inFlight, flying>>
    /\ \A y \in Exc : exc'[y].live = exc[y].live /\ exc'[y].uncaught = exc[y].uncaught
                      /\ exc'[y].count = exc[y].count

\* A walk writes the goal of its exception and no other field of an object.
LEMMA WalksOnIt ==
    ASSUME Inv, SearchNext \/ SearchFound \/ UnwindNext \/ WalkEnds
    PROVE  WalksOn
<1>1. CASE SearchFound
  <2>1. /\ mode = "search" /\ mode' = "unwind" /\ cursor # 0
        /\ UNCHANGED <<stack, caught, uncaught, inFlight, flying>>
        /\ exc' = [exc EXCEPT ![flying].goal = cursor]
    BY <1>1 DEF SearchFound
  <2>2. cursor \in Nat /\ flying \in Exc
    BY <2>1, Fields DEF Inv, TypeOK
  <2>3. PICK o \in Object : o = exc[flying]
    BY <2>2, Fields DEF Inv
  <2> DEFINE x == [o EXCEPT !.goal = cursor]
  <2>4. x.uncaught = o.uncaught /\ x.count = o.count
    BY <2>2, GoalFields
  <2>5. x.live = o.live
    BY <2>2 DEF Object
  <2>6. exc' = [exc EXCEPT ![flying] = x]
    BY <2>1, <2>2, <2>3 DEF Inv, TypeOK
  <2> HIDE DEF x
  <2>7. \A y \in Exc : exc'[y] = IF y = flying THEN x ELSE exc[y]
    BY <2>6 DEF Inv, TypeOK
  <2> QED BY <2>1, <2>3, <2>4, <2>5, <2>7 DEF WalksOn
<1>2. CASE SearchNext \/ UnwindNext \/ WalkEnds
  BY <1>2 DEF SearchNext, UnwindNext, WalkEnds, WalksOn, objects
<1> QED BY <1>1, <1>2

\* What a step does that is not one of the walks, by what it does.
Effect ==
    \/ Calls \/ Returns \/ WalksOn
    \/ \E e \in Exc : Allocates(e) \/ Frees(e) \/ Leaves(e) \/ Begins(e) \/ Resumes(e)
    \/ \E e \in Exc, t \in Type : Throws(e, t)
    \/ \E act \in {"catch", "cleanup"} : flying \in Exc /\ Lands(act, flying)

\* Every step has one of the effects.
LEMMA EffectOf ==
    ASSUME Inv, HInv, Inv', ~Rethrows, Next
    PROVE  Effect \/ UNCHANGED vars
<1>1. CASE \E k \in {"eh", "plain"} : Enter(k) \/ TailCall(k) \/ \E s \in Site : Call(k, s)
  <2>1. PICK k \in {"eh", "plain"} : Enter(k) \/ TailCall(k) \/ \E s \in Site : Call(k, s)
    BY <1>1
  <2>2. Quiet \in Site
    BY GuestEHAssumption
  <2>3. PICK s \in Site : Enter(k) \/ TailCall(k) \/ Call(k, s)
    BY <2>1, <2>2
  <2> QED BY <2>3, CallsIt DEF Effect
<1>2. CASE Return
  BY <1>2, ReturnsIt DEF Effect
<1>3. CASE \E e \in Exc : AllocateException(e)
  BY <1>3, AllocatesIt DEF Effect
<1>4. CASE \E t \in Type, s \in Site : Throw(t, s)
  BY <1>4, ThrowsIt DEF Effect
<1>5. CASE \E s \in Site : Rethrow(s)
  BY <1>5 DEF Rethrow
<1>6. CASE EndCatch \/ PadEndCatch
  BY <1>6, LeavesIt DEF Effect, HInv
<1>7. CASE PadFreeException
  BY <1>7, FreesIt DEF Effect
<1>8. CASE BeginCatch
  BY <1>8, BeginsIt DEF Effect
<1>9. CASE Resume
  BY <1>9, ResumesIt DEF Effect
<1>10. CASE SearchNext \/ SearchFound \/ UnwindNext \/ WalkEnds
  BY <1>10, WalksOnIt DEF Effect
<1>11. CASE UnwindLands
  <2>1. flying \in Exc
    BY <1>11, BarriersBelow DEF UnwindLands, HInv
  <2> QED BY <1>11, <2>1, LandsIt DEF Effect
<1>12. CASE Halted
  BY <1>12 DEF Halted
<1> QED BY <1>1, <1>2, <1>3, <1>4, <1>5, <1>6, <1>7, <1>8, <1>9, <1>10, <1>11, <1>12
    DEF Next, Guest, Unwinding

-----------------------------------------------------------------------------
(* Blocks: the list is the catch blocks the guest is in.                      *)

\* The frames of the functions above the one an exception lands in are in no
\* catch block.
LEMMA BlocksFall ==
    ASSUME Inv, Inv', Blocks, caught' = caught, N' <= N,
           \A i \in 1..N' : stack'[i].hs = stack[i].hs,
           \A i \in N' + 1..N : stack[i].hs = <<>>
    PROVE  Blocks'
<1>1. stack \in Seq(Activation) /\ stack' \in Seq(Activation)
  BY DEF Inv, TypeOK
<1>2. PICK st \in Seq(Activation) : st = stack
  BY <1>1
<1>3. PICK su \in Seq(Activation) : su = stack'
  BY <1>1
<1>4. Len(st) = N /\ Len(su) = N'
  BY <1>2, <1>3 DEF N
<1>5. /\ Len(su) <= Len(st) /\ (\A i \in 1..Len(su) : su[i].hs = st[i].hs)
      /\ \A i \in Len(su) + 1..Len(st) : st[i].hs = <<>>
  BY <1>2, <1>3, <1>4
<1>6. BlocksOf(su) = BlocksOf(st)
  BY <1>5, BlocksOfCut
<1> QED BY <1>2, <1>3, <1>6 DEF Blocks

\* The blocks of the function on top come first.
LEMMA BlocksOnTop ==
    ASSUME NEW st \in Seq(Activation), Len(st) > 0
    PROVE  \E b \in Seq(Exc) :
              /\ BlocksOf(st) = st[Len(st)].hs \o b
              /\ \A su \in Seq(Activation) :
                    Len(su) = Len(st) /\ (\A i \in 1..Len(st) - 1 : su[i].hs = st[i].hs)
                    => BlocksOf(su) = su[Len(st)].hs \o b
<1>1. Len(st) \in Nat /\ Len(st) - 1 \in 0..Len(st)
  OBVIOUS
<1> DEFINE below == SubSeq(st, 1, Len(st) - 1)
<1>2. /\ below \in Seq(Activation) /\ Len(below) = Len(st) - 1
      /\ \A i \in 1..Len(st) - 1 : below[i] = st[i]
  <2>1. PICK n \in Nat : n = Len(st) - 1
    BY <1>1
  <2>2. 1 \in Int /\ n \in Int /\ \A i \in 1..n : st[i] \in Activation
    BY <1>1, <2>1
  <2>3. /\ SubSeq(st, 1, n) \in Seq(Activation)
        /\ Len(SubSeq(st, 1, n)) = IF 1 <= n THEN n - 1 + 1 ELSE 0
        /\ \A i \in 1..n - 1 + 1 : SubSeq(st, 1, n)[i] = st[1 + i - 1]
    BY <2>2, SubSeqProperties
  <2>4. /\ SubSeq(st, 1, n) \in Seq(Activation) /\ Len(SubSeq(st, 1, n)) = n
        /\ \A i \in 1..n : SubSeq(st, 1, n)[i] = st[i]
    BY <2>1, <2>3
  <2> QED BY <2>1, <2>4
<1> HIDE DEF below
<1>3. BlocksOf(below) \in Seq(Exc)
  BY <1>2, BlocksOfTyped
<1>4. ASSUME NEW su \in Seq(Activation), Len(su) = Len(st),
             \A i \in 1..Len(st) - 1 : su[i].hs = st[i].hs
      PROVE  BlocksOf(su) = su[Len(st)].hs \o BlocksOf(below)
  <2>1. Len(su) = Len(below) + 1 /\ \A i \in 1..Len(below) : su[i].hs = below[i].hs
    BY <1>1, <1>2, <1>4
  <2>2. BlocksOf(su) = su[Len(su)].hs \o BlocksOf(below)
    BY <1>2, <2>1, BlocksOfTop
  <2> QED BY <1>4, <2>2
<1>5. BlocksOf(st) = st[Len(st)].hs \o BlocksOf(below)
  BY <1>4
<1> QED BY <1>3, <1>4, <1>5

\* Every effect keeps the list the blocks of the stack.
LEMMA BlocksNext ==
    ASSUME Inv, Inv', HInv, Effect
    PROVE  Blocks'
<1>1. /\ N \in Nat /\ N' \in Nat /\ Blocks /\ stack \in Seq(Activation) /\ stack' \in Seq(Activation)
      /\ Len(stack) = N /\ Len(stack') = N' /\ caught \in Seq(Exc)
  BY DEF HInv, Inv, TypeOK, N
<1>2. PICK st \in Seq(Activation) : st = stack
  BY <1>1
<1>3. PICK su \in Seq(Activation) : su = stack'
  BY <1>1
<1>4. CASE Calls
  <2>1. Len(su) = Len(st) + 1 /\ \A i \in 1..Len(st) : su[i].hs = st[i].hs
    BY <1>1, <1>2, <1>3, <1>4 DEF Calls, Same, Alike
  <2>2. BlocksOf(su) = su[Len(su)].hs \o BlocksOf(st)
    BY <2>1, BlocksOfTop
  <2>3. su[Len(su)].hs = <<>> /\ BlocksOf(st) \in Seq(Exc)
    BY <1>1, <1>3, <1>4, BlocksOfTyped DEF Calls
  <2>4. BlocksOf(su) = BlocksOf(st)
    BY <2>2, <2>3, ConcatEmptySeq
  <2> QED BY <1>1, <1>2, <1>3, <1>4, <2>4 DEF Calls, Blocks
<1>5. CASE Returns
  <2>1. /\ caught' = caught /\ N' <= N /\ (\A i \in 1..N' : stack'[i].hs = stack[i].hs)
        /\ \A i \in N' + 1..N : stack[i].hs = <<>>
    BY <1>1, <1>5 DEF Returns, Same, Alike
  <2> QED BY <1>1, <2>1, BlocksFall
<1>6. CASE WalksOn
  BY <1>1, <1>6 DEF WalksOn, Blocks
<1>7. ASSUME NEW e \in Exc, Allocates(e) \/ Frees(e) \/ Resumes(e) PROVE Blocks'
  <2>1. caught' = caught /\ N' = N /\ (\A i \in 1..N - 1 : Same(stack'[i], stack[i]))
        /\ stack'[N].hs = stack[N].hs
    BY <1>1, <1>7 DEF Allocates, Frees, Resumes, Alike
  <2>2. /\ caught' = caught /\ N' <= N /\ (\A i \in 1..N' : stack'[i].hs = stack[i].hs)
        /\ \A i \in N' + 1..N : stack[i].hs = <<>>
    BY <1>1, <2>1 DEF Same, Alike
  <2> QED BY <1>1, <2>2, BlocksFall
<1>8. ASSUME NEW e \in Exc, NEW t \in Type, Throws(e, t) PROVE Blocks'
  <2>1. /\ caught' = caught /\ N' <= N /\ (\A i \in 1..N' : stack'[i].hs = stack[i].hs)
        /\ \A i \in N' + 1..N : stack[i].hs = <<>>
    BY <1>1, <1>8 DEF Throws, Same, Alike
  <2> QED BY <1>1, <2>1, BlocksFall
<1>9. ASSUME NEW e \in Exc, Leaves(e) PROVE Blocks'
  <2>1. /\ N \in 1..N /\ (\A i \in 1..N - 1 : stack'[i].hs = stack[i].hs)
        /\ stack'[N].hs = Tail(stack[N].hs) /\ caught' = Tail(caught) /\ stack[N].hs # <<>>
        /\ N' = N \/ (N' = N + 1 /\ stack'[N + 1].hs = <<>>)
    BY <1>1, <1>9 DEF Leaves, Same, Alike
  <2>2. PICK b \in Seq(Exc) :
              /\ BlocksOf(st) = st[Len(st)].hs \o b
              /\ \A r \in Seq(Activation) :
                    Len(r) = Len(st) /\ (\A i \in 1..Len(st) - 1 : r[i].hs = st[i].hs)
                    => BlocksOf(r) = r[Len(st)].hs \o b
    <3>1. Len(st) > 0
      BY <1>1, <1>2, <2>1
    <3> QED BY <3>1, BlocksOnTop
  <2>3. PICK r \in Seq(Activation) :
           /\ Len(r) = N /\ (\A i \in 1..N : r[i] = stack'[i]) /\ BlocksOf(r) = BlocksOf(su)
    <3>1. CASE N' = N
      BY <1>1, <1>3, <3>1
    <3>2. CASE N' = N + 1 /\ stack'[N + 1].hs = <<>>
      <4> DEFINE r == SubSeq(su, 1, N)
      <4>1. r \in Seq(Activation) /\ Len(r) = N /\ \A i \in 1..N : r[i] = su[i]
        <5>1. \A i \in 1..N : su[i] \in Activation
          BY <1>1, <1>3, <3>2
        <5>2. /\ r \in Seq(Activation) /\ Len(r) = IF 1 <= N THEN N - 1 + 1 ELSE 0
              /\ \A i \in 1..N - 1 + 1 : r[i] = su[1 + i - 1]
          <6>1. 1 \in Int /\ N \in Int
            BY <1>1
          <6> QED BY <5>1, <6>1, SubSeqProperties
        <5> HIDE DEF r
        <5> QED BY <1>1, <5>2
      <4> HIDE DEF r
      <4>2. /\ Len(r) <= Len(su) /\ (\A i \in 1..Len(r) : r[i].hs = su[i].hs)
            /\ \A i \in Len(r) + 1..Len(su) : su[i].hs = <<>>
        BY <1>1, <1>3, <3>2, <4>1
      <4>3. BlocksOf(r) = BlocksOf(su)
        BY <4>1, <4>2, BlocksOfCut
      <4> QED BY <1>3, <4>1, <4>3
    <3> QED BY <2>1, <3>1, <3>2
  <2>4. BlocksOf(r) = Tail(stack[N].hs) \o b
    <3>1. Len(r) = Len(st) /\ \A i \in 1..Len(st) - 1 : r[i].hs = st[i].hs
      BY <1>1, <1>2, <2>1, <2>3
    <3>2. BlocksOf(r) = r[Len(st)].hs \o b
      BY <2>2, <3>1
    <3> QED BY <1>1, <1>2, <2>1, <2>3, <3>2
  <2>5. caught = stack[N].hs \o b /\ stack[N].hs \in Seq(Exc)
    BY <1>1, <1>2, <2>1, <2>2, Fields DEF Blocks, Inv
  <2>6. Tail(caught) = Tail(stack[N].hs) \o b
    BY <2>1, <2>5, TailOfConcat
  <2>7. caught' = BlocksOf(su)
    BY <2>1, <2>3, <2>4, <2>6
  <2> QED BY <1>3, <2>7 DEF Blocks
<1>10. ASSUME NEW e \in Exc, Begins(e) PROVE Blocks'
  <2>1. /\ N \in 1..N /\ N' = N /\ (\A i \in 1..N - 1 : stack'[i].hs = stack[i].hs)
        /\ stack'[N].hs = <<e>> \o stack[N].hs
    BY <1>1, <1>10 DEF Begins, Same, Alike
  <2>2. caught' = <<e>> \o caught
    BY <1>10, <2>1 DEF Begins, HInv, Counts
  <2>3. PICK b \in Seq(Exc) :
              /\ BlocksOf(st) = st[Len(st)].hs \o b
              /\ \A r \in Seq(Activation) :
                    Len(r) = Len(st) /\ (\A i \in 1..Len(st) - 1 : r[i].hs = st[i].hs)
                    => BlocksOf(r) = r[Len(st)].hs \o b
    <3>1. Len(st) > 0
      BY <1>1, <1>2, <2>1
    <3> QED BY <3>1, BlocksOnTop
  <2>4. BlocksOf(su) = su[Len(st)].hs \o b
    <3>1. Len(su) = Len(st) /\ \A i \in 1..Len(st) - 1 : su[i].hs = st[i].hs
      BY <1>1, <1>2, <1>3, <2>1
    <3> QED BY <2>3, <3>1
  <2>5. caught = stack[N].hs \o b /\ stack[N].hs \in Seq(Exc) /\ <<e>> \in Seq(Exc)
    BY <1>1, <1>2, <2>1, <2>3, Fields DEF Blocks, Inv
  <2>6. (<<e>> \o stack[N].hs) \o b = <<e>> \o (stack[N].hs \o b)
    <3>1. PICK h \in Seq(Exc) : h = stack[N].hs
      BY <2>5
    <3>2. PICK d \in Seq(Exc) : d = <<e>>
      BY <2>5
    <3>3. (d \o h) \o b = d \o (h \o b)
      BY ConcatAssociative
    <3> QED BY <3>1, <3>2, <3>3
  <2>7. su[Len(st)].hs = <<e>> \o stack[N].hs
    BY <1>1, <1>2, <1>3, <2>1
  <2>8. caught' = BlocksOf(su)
    BY <2>2, <2>4, <2>5, <2>6, <2>7
  <2> QED BY <1>3, <2>8 DEF Blocks
<1>11. ASSUME NEW act \in {"catch", "cleanup"}, NEW e \in Exc, Lands(act, e) PROVE Blocks'
  <2>1. /\ mode = "unwind" /\ cursor \in 1..N /\ N' = cursor /\ caught' = caught
        /\ stack'[cursor].hs = stack[cursor].hs
        /\ \A i \in 1..cursor - 1 : Same(stack'[i], stack[i])
    BY <1>11 DEF Lands
  <2>4. \A i \in 1..N' : stack'[i].hs = stack[i].hs
    <3> TAKE i \in 1..N'
    <3>1. i \in 1..cursor - 1 \/ i = cursor
      BY <1>1, <2>1
    <3> QED BY <2>1, <3>1 DEF Same, Alike
  <2>2. \A i \in N' + 1..N : stack[i].hs = <<>>
    BY <2>1 DEF HInv, Paid, Passed, Owes
  <2>3. N' <= N
    BY <1>1, <2>1
  <2> QED BY <1>1, <2>1, <2>2, <2>3, <2>4, BlocksFall
<1> QED BY <1>4, <1>5, <1>6, <1>7, <1>8, <1>9, <1>10, <1>11 DEF Effect

-----------------------------------------------------------------------------
(* Counts and Falls.                                                          *)

\* Who holds what, besides Inv: the same, by position.
LEMMA HeldApart ==
    ASSUME Inv
    PROVE  /\ N \in Nat /\ NoExc \notin Exc
           /\ \A i \in 1..N : stack[i].obj \in Exc \cup {NoExc} /\ stack[i].fresh \in Exc \cup {NoExc}
           /\ \A i, j \in 1..N : stack[i].obj # NoExc /\ i # j => stack[i].obj # stack[j].obj
           /\ \A i, j \in 1..N : stack[i].fresh # NoExc => stack[i].fresh # stack[j].obj
           /\ \A k \in 1..Len(caught) : /\ caught[k] \in Exc /\ exc[caught[k]].live
                                        /\ \A i \in 1..N : caught[k] # stack[i].obj
                                                           /\ caught[k] # stack[i].fresh
           /\ \A i \in 1..N : stack[i].pc # "run" => stack[i].obj \in Exc /\ exc[stack[i].obj].live
           /\ caught # <<>> => /\ 1 \in 1..Len(caught) /\ caught[1] = Head(caught)
                               /\ Len(Tail(caught)) = Len(caught) - 1 /\ Len(caught) \in Nat
                               /\ \A k \in 1..Len(Tail(caught)) :
                                     k + 1 \in 1..Len(caught) /\ Tail(caught)[k] = caught[k + 1]
                                     /\ caught[k + 1] # caught[1]
<1>1. /\ N \in Nat /\ NoExc \notin Exc
      /\ \A i \in 1..N : stack[i].obj \in Exc \cup {NoExc} /\ stack[i].fresh \in Exc \cup {NoExc}
      /\ \A k \in 1..Len(caught) : caught[k] \in Exc
  BY Fields DEF Inv
<1>2. caught # <<>> => /\ 1 \in 1..Len(caught) /\ caught[1] = Head(caught)
                       /\ Len(Tail(caught)) = Len(caught) - 1 /\ Len(caught) \in Nat
                       /\ \A k \in 1..Len(Tail(caught)) :
                             k + 1 \in 1..Len(caught) /\ Tail(caught)[k] = caught[k + 1]
  <2> HAVE caught # <<>>
  <2>1. caught \in Seq(Exc)
    BY DEF Inv, TypeOK
  <2>2. Len(caught) \in Nat \ {0}
    BY <2>1, EmptySeq
  <2>3. /\ Len(Tail(caught)) = Len(caught) - 1
        /\ \A k \in 1..Len(Tail(caught)) : Tail(caught)[k] = caught[k + 1]
    BY <2>1, HeadTailProperties
  <2>4. \A k \in 1..Len(Tail(caught)) : k + 1 \in 1..Len(caught)
    BY <2>2, <2>3
  <2> QED BY <2>2, <2>3, <2>4
<1>3. caught # <<>> => \A k \in 1..Len(Tail(caught)) : caught[k + 1] # caught[1]
  <2> HAVE caught # <<>>
  <2> TAKE k \in 1..Len(Tail(caught))
  <2>1. k + 1 # 1 /\ k + 1 \in 1..Len(caught) /\ 1 \in 1..Len(caught)
    BY <1>2
  <2> QED BY <2>1 DEF Inv, Holders, CaughtAlone
<1>4. \A i, j \in 1..N : stack[i].obj # NoExc /\ i # j => stack[i].obj # stack[j].obj
  BY DEF Inv, Holders, ObjAlone
<1>5. \A i, j \in 1..N : stack[i].fresh # NoExc => stack[i].fresh # stack[j].obj
  BY DEF Inv, Holders, FreshAlone
<1>6. \A k \in 1..Len(caught) : exc[caught[k]].live
  BY DEF Inv, Holders, HeldIsLive
<1>7. \A k \in 1..Len(caught) : \A i \in 1..N : caught[k] # stack[i].obj /\ caught[k] # stack[i].fresh
  BY DEF Inv, Holders, CaughtAlone
<1>8. \A i \in 1..N : stack[i].pc # "run" => stack[i].obj \in Exc
  BY DEF Inv, Pads
<1>9. \A i \in 1..N : stack[i].pc # "run" => exc[stack[i].obj].live
  BY <1>1, <1>8 DEF Inv, Holders, HeldIsLive
<1> QED BY <1>1, <1>2, <1>3, <1>4, <1>5, <1>6, <1>7, <1>8, <1>9

\* A step that changes one object, which no pad has and is not on the list.
Spares(e) ==
    /\ flying' = NoExc
    /\ \A y \in Exc : y # e => exc'[y] = exc[y]
    /\ \A k \in 1..Len(caught') : \E l \in 1..Len(caught) : caught'[k] = caught[l] /\ caught[l] # e
    /\ \A i \in 1..N' : stack'[i].pc # "run" =>
          i \in 1..N /\ stack[i].pc # "run" /\ stack'[i].obj = stack[i].obj /\ stack[i].obj # e

\* Such a step keeps the counts.
LEMMA CountsKept ==
    ASSUME Inv, Counts, NEW e, Spares(e)
    PROVE  Counts'
<1>1. \A k \in 1..Len(caught') : exc'[caught'[k]].count = 1
  <2> TAKE k \in 1..Len(caught')
  <2>1. PICK l \in 1..Len(caught) : caught'[k] = caught[l] /\ caught[l] # e
    BY DEF Spares
  <2>2. caught[l] \in Exc /\ exc[caught[l]].count = 1
    BY HeldApart DEF Counts
  <2> QED BY <2>1, <2>2 DEF Spares
<1>2. \A i \in 1..N' : stack'[i].pc # "run" => exc'[stack'[i].obj].count = 0
  <2> SUFFICES ASSUME NEW i \in 1..N', stack'[i].pc # "run" PROVE exc'[stack'[i].obj].count = 0
    OBVIOUS
  <2>1. i \in 1..N /\ stack[i].pc # "run" /\ stack'[i].obj = stack[i].obj /\ stack[i].obj # e
    BY DEF Spares
  <2>2. stack[i].obj \in Exc /\ exc[stack[i].obj].count = 0
    BY <2>1, HeldApart DEF Counts
  <2> QED BY <2>1, <2>2 DEF Spares
<1> QED BY <1>1, <1>2 DEF Counts, Spares

\* Every effect keeps the counts.
LEMMA CountsNext ==
    ASSUME Inv, HInv, Inv', Effect
    PROVE  Counts'
<1>1. /\ N \in Nat /\ N' \in Nat /\ NoExc \notin Exc /\ Counts
  BY Fields DEF HInv, Inv, TypeOK, N
<1>2. CASE Calls
  <2>1. \A i \in 1..N' : stack'[i].pc # "run" =>
              i \in 1..N /\ stack[i].pc # "run" /\ stack'[i].obj = stack[i].obj
    BY <1>1, <1>2 DEF Calls, Same, Alike
  <2> QED BY <1>1, <1>2, <2>1 DEF Calls, Counts
<1>3. CASE Returns
  <2>1. \A i \in 1..N' : stack'[i].pc # "run" =>
              i \in 1..N /\ i # N /\ stack[i].pc # "run" /\ stack'[i].obj = stack[i].obj
    BY <1>1, <1>3 DEF Returns, Same, Alike
  <2>2. N \in 1..N /\ flying' = NoExc /\ caught' = caught
        /\ \A y \in Exc : y # stack[N].obj => exc'[y] = exc[y]
    BY <1>1, <1>3 DEF Returns
  <2>3. \A i \in 1..N : i # N /\ stack[i].pc # "run" => stack[i].obj # stack[N].obj
    BY <1>1, <2>2, HeldApart
  <2>4. \A k \in 1..Len(caught) : caught[k] # stack[N].obj
    BY <2>2, HeldApart
  <2>5. Spares(stack[N].obj)
    BY <1>1, <2>1, <2>2, <2>3, <2>4 DEF Spares
  <2> QED BY <1>1, <2>5, CountsKept
<1>4. CASE WalksOn
  <2>1. \A y \in Exc : exc'[y].count = exc[y].count
    BY <1>4 DEF WalksOn
  <2>2. \A k \in 1..Len(caught) : caught[k] \in Exc
    BY HeldApart
  <2>3. \A i \in 1..N : stack[i].pc # "run" => stack[i].obj \in Exc
    BY HeldApart
  <2>4. flying # NoExc => flying \in Exc
    BY Fields DEF Inv
  <2>5. stack' = stack /\ N' = N /\ caught' = caught /\ flying' = flying
    BY <1>4 DEF WalksOn, N
  <2> QED BY <1>1, <2>1, <2>2, <2>3, <2>4, <2>5 DEF Counts
<1>5. ASSUME NEW e \in Exc, Allocates(e) PROVE Counts'
  <2>1. \A i \in 1..N' : stack'[i].pc # "run" =>
              i \in 1..N /\ stack[i].pc # "run" /\ stack'[i].obj = stack[i].obj /\ stack[i].obj # e
    <3>1. \A i \in 1..N' : stack'[i].pc # "run" =>
              i \in 1..N /\ stack[i].pc # "run" /\ stack'[i].obj = stack[i].obj
      BY <1>1, <1>5 DEF Allocates, Same, Alike
    <3> QED BY <1>5, <3>1, HeldApart DEF Allocates
  <2>2. \A k \in 1..Len(caught) : caught[k] # e
    BY <1>5, HeldApart DEF Allocates
  <2>3. flying' = NoExc /\ caught' = caught /\ \A y \in Exc : y # e => exc'[y] = exc[y]
    BY <1>5 DEF Allocates
  <2>4. Spares(e)
    BY <2>1, <2>2, <2>3 DEF Spares
  <2> QED BY <1>1, <2>4, CountsKept
<1>6. ASSUME NEW e \in Exc, Frees(e) PROVE Counts'
  <2>1. N \in 1..N /\ stack[N].fresh = e
    BY <1>6 DEF Frees
  <2>2. \A i \in 1..N' : stack'[i].pc # "run" =>
              i \in 1..N /\ stack[i].pc # "run" /\ stack'[i].obj = stack[i].obj /\ stack[i].obj # e
    <3>1. \A i \in 1..N' : stack'[i].pc # "run" =>
              i \in 1..N /\ stack[i].pc # "run" /\ stack'[i].obj = stack[i].obj
      BY <1>1, <1>6 DEF Frees, Same, Alike
    <3> QED BY <2>1, <3>1, HeldApart
  <2>3. \A k \in 1..Len(caught) : caught[k] # e
    BY <2>1, HeldApart
  <2>4. flying' = NoExc /\ caught' = caught /\ \A y \in Exc : y # e => exc'[y] = exc[y]
    BY <1>6 DEF Frees
  <2>5. Spares(e)
    BY <2>2, <2>3, <2>4 DEF Spares
  <2> QED BY <1>1, <2>5, CountsKept
<1>7. ASSUME NEW e \in Exc, Leaves(e) PROVE Counts'
  <2>1. caught # <<>> /\ caught[1] = e /\ 1 \in 1..Len(caught)
    BY <1>7, HeldApart DEF Leaves
  <2>2. \A i \in 1..N' : stack'[i].pc # "run" =>
              i \in 1..N /\ stack[i].pc # "run" /\ stack'[i].obj = stack[i].obj /\ stack[i].obj # e
    <3>1. \A i \in 1..N' : stack'[i].pc # "run" =>
              i \in 1..N /\ stack[i].pc # "run" /\ stack'[i].obj = stack[i].obj
      BY <1>1, <1>7 DEF Leaves, Same, Alike
    <3> QED BY <2>1, <3>1, HeldApart
  <2>3. \A k \in 1..Len(caught') : \E l \in 1..Len(caught) : caught'[k] = caught[l] /\ caught[l] # e
    <3>1. caught' = Tail(caught)
      BY <1>7 DEF Leaves
    <3>2. \A k \in 1..Len(Tail(caught)) : k + 1 \in 1..Len(caught) /\ Tail(caught)[k] = caught[k + 1]
                     /\ caught[k + 1] # e
      BY <2>1, HeldApart
    <3> QED BY <3>1, <3>2
  <2>4. flying' = NoExc /\ \A y \in Exc : y # e => exc'[y] = exc[y]
    BY <1>7 DEF Leaves
  <2>5. Spares(e)
    BY <2>2, <2>3, <2>4 DEF Spares
  <2> QED BY <1>1, <2>5, CountsKept
<1>8. ASSUME NEW e \in Exc, Begins(e) PROVE Counts'
  <2>1. N \in 1..N /\ stack[N].obj = e /\ stack[N].pc = "catch" /\ exc[e].count = 0
    BY <1>8 DEF Begins, HInv, Counts
  <2>2. /\ caught' = <<e>> \o caught /\ exc'[e].count = 1 /\ flying' = NoExc
        /\ \A y \in Exc : y # e => exc'[y] = exc[y]
    BY <1>8, <2>1 DEF Begins
  <2>3. \A i \in 1..N' : stack'[i].pc # "run" => exc'[stack'[i].obj].count = 0
    <3>1. \A i \in 1..N' : stack'[i].pc # "run" =>
              i \in 1..N /\ i # N /\ stack[i].pc # "run" /\ stack'[i].obj = stack[i].obj
      BY <1>1, <1>8 DEF Begins, Same, Alike
    <3>2. \A i \in 1..N : i # N /\ stack[i].pc # "run" => stack[i].obj \in Exc /\ stack[i].obj # e
      BY <2>1, HeldApart
    <3> QED BY <1>1, <2>2, <3>1, <3>2 DEF Counts
  <2>4. \A k \in 1..Len(caught') : exc'[caught'[k]].count = 1
    <3>1. caught \in Seq(Exc) /\ <<e>> \in Seq(Exc) /\ Len(<<e>>) = 1 /\ <<e>>[1] = e
      BY DEF Inv, TypeOK
    <3>2. /\ Len(caught') = 1 + Len(caught)
          /\ \A k \in 1..1 + Len(caught) : caught'[k] = IF k <= 1 THEN e ELSE caught[k - 1]
      <4>1. PICK d \in Seq(Exc) : d = <<e>>
        BY <3>1
      <4>2. /\ Len(d \o caught) = Len(d) + Len(caught)
            /\ \A k \in 1..Len(d) + Len(caught) : (d \o caught)[k] = IF k <= Len(d) THEN d[k] ELSE caught[k - Len(d)]
        BY <3>1, ConcatProperties
      <4>3. Len(d) = 1 /\ d[1] = e /\ Len(caught) \in Nat
        BY <3>1, <4>1
      <4> QED BY <2>2, <4>1, <4>2, <4>3
    <3>3. \A k \in 1..Len(caught) : exc'[caught[k]].count = 1
      <4>1. \A k \in 1..Len(caught) : caught[k] \in Exc /\ caught[k] # e
        BY <2>1, HeldApart
      <4> QED BY <1>1, <2>2, <4>1 DEF Counts
    <3> TAKE k \in 1..Len(caught')
    <3>4. Len(caught) \in Nat
      BY <3>1
    <3>5. CASE k = 1
      BY <2>2, <3>2, <3>4, <3>5
    <3>6. CASE k # 1
      <4>1. k - 1 \in 1..Len(caught) /\ caught'[k] = caught[k - 1]
        BY <3>2, <3>4, <3>6
      <4> QED BY <3>3, <4>1
    <3> QED BY <3>5, <3>6
  <2> QED BY <2>2, <2>3, <2>4 DEF Counts
<1>9. ASSUME NEW e \in Exc, Resumes(e) PROVE Counts'
  <2>1. /\ N' = N /\ N \in 1..N /\ exc' = exc /\ caught' = caught /\ flying' = e
        /\ stack[N].pc = "cleanup" /\ stack[N].obj = e
        /\ \A i \in 1..N : stack'[i].pc = stack[i].pc /\ stack'[i].obj = stack[i].obj
    BY <1>1, <1>9 DEF Resumes, Alike
  <2> QED BY <1>1, <2>1 DEF Counts
<1>10. ASSUME NEW e \in Exc, NEW t \in Type, Throws(e, t) PROVE Counts'
  <2>1. N \in 1..N /\ stack[N].fresh = e /\ flying' = e /\ exc'[e].count = 0 /\ caught' = caught
        /\ \A y \in Exc : y # e => exc'[y] = exc[y]
    BY <1>10 DEF Throws
  <2>2. \A i \in 1..N' : stack'[i].pc # "run" => exc'[stack'[i].obj].count = 0
    <3>1. \A i \in 1..N' : stack'[i].pc # "run" =>
              i \in 1..N /\ stack[i].pc # "run" /\ stack'[i].obj = stack[i].obj
      BY <1>1, <1>10 DEF Throws, Same, Alike
    <3>2. \A i \in 1..N : stack[i].pc # "run" => stack[i].obj \in Exc /\ stack[i].obj # e
      BY <2>1, HeldApart
    <3> QED BY <1>1, <2>1, <3>1, <3>2 DEF Counts
  <2>3. \A k \in 1..Len(caught) : caught[k] \in Exc /\ caught[k] # e
    BY <2>1, HeldApart
  <2> QED BY <1>1, <2>1, <2>2, <2>3 DEF Counts
<1>11. ASSUME NEW act \in {"catch", "cleanup"}, flying \in Exc, Lands(act, flying) PROVE Counts'
  <2>1. /\ cursor \in 1..N /\ N' = cursor /\ flying' = NoExc /\ caught' = caught
        /\ \A y \in Exc : exc'[y].count = exc[y].count
        /\ stack'[cursor].obj = flying
    BY <1>11 DEF Lands
  <2>2. exc[flying].count = 0
    BY <1>1, <1>11 DEF Counts
  <2>3. \A i \in 1..N' : stack'[i].pc # "run" => exc'[stack'[i].obj].count = 0
    <3> SUFFICES ASSUME NEW i \in 1..N', stack'[i].pc # "run" PROVE exc'[stack'[i].obj].count = 0
      OBVIOUS
    <3>1. CASE i = cursor
      BY <1>11, <2>1, <2>2, <3>1
    <3>2. CASE i # cursor
      <4>1. i \in 1..cursor - 1 /\ i \in 1..N
        BY <1>1, <2>1, <3>2
      <4>2. stack[i].pc # "run" /\ stack'[i].obj = stack[i].obj
        BY <1>11, <4>1 DEF Lands, Same, Alike
      <4>3. stack[i].obj \in Exc
        BY <4>1, <4>2, HeldApart
      <4> QED BY <1>1, <2>1, <4>1, <4>2, <4>3 DEF Counts
    <3> QED BY <3>1, <3>2
  <2>4. \A k \in 1..Len(caught) : caught[k] \in Exc
    BY HeldApart
  <2> QED BY <1>1, <2>1, <2>3, <2>4 DEF Counts
<1> QED BY <1>2, <1>3, <1>4, <1>5, <1>6, <1>7, <1>8, <1>9, <1>10, <1>11 DEF Effect

\* Every effect keeps g_in_flight the exception of the innermost pad.
LEMMA FallsNext ==
    ASSUME Inv, HInv, Inv', Effect
    PROVE  Falls'
<1>1. N \in Nat /\ N' \in Nat /\ Falls
  BY Fields DEF HInv, Inv, TypeOK, N
<1>2. CASE Calls
  <2>1. /\ inFlight' = inFlight /\ N' = N + 1 /\ stack'[N + 1].pc = "run"
        /\ \A i \in 1..N : stack'[i].pc = stack[i].pc /\ stack'[i].obj = stack[i].obj
    BY <1>1, <1>2 DEF Calls, Same, Alike
  <2> QED BY <1>1, <2>1 DEF Falls
<1>3. CASE Returns
  <2>1. /\ inFlight' = inFlight /\ N' = N - 1 /\ stack[N].pc = "run" /\ N > 0
        /\ \A i \in 1..N - 1 : stack'[i].pc = stack[i].pc /\ stack'[i].obj = stack[i].obj
    BY <1>1, <1>3 DEF Returns, Same, Alike
  <2> QED BY <1>1, <2>1 DEF Falls
<1>4. CASE WalksOn
  <2>1. stack' = stack /\ N' = N /\ inFlight' = inFlight
    BY <1>4 DEF WalksOn, N
  <2> QED BY <1>1, <2>1 DEF Falls
<1>5. ASSUME NEW e \in Exc, NEW t \in Type, Allocates(e) \/ Frees(e) \/ Resumes(e) \/ Throws(e, t)
      PROVE  Falls'
  <2>1. /\ inFlight' = inFlight /\ N' = N /\ stack'[N].pc = stack[N].pc /\ stack'[N].obj = stack[N].obj
        /\ \A i \in 1..N - 1 : stack'[i].pc = stack[i].pc /\ stack'[i].obj = stack[i].obj
    BY <1>1, <1>5 DEF Allocates, Frees, Resumes, Throws, Same, Alike
  <2>2. \A i \in 1..N : stack'[i].pc = stack[i].pc /\ stack'[i].obj = stack[i].obj
    BY <1>1, <2>1
  <2> QED BY <1>1, <2>1, <2>2 DEF Falls
<1>6. ASSUME NEW e \in Exc, Leaves(e) PROVE Falls'
  <2>1. /\ inFlight' = inFlight /\ stack'[N].pc = stack[N].pc /\ stack'[N].obj = stack[N].obj
        /\ \A i \in 1..N - 1 : stack'[i].pc = stack[i].pc /\ stack'[i].obj = stack[i].obj
        /\ N' = N \/ (N' = N + 1 /\ stack'[N + 1].pc = "run")
    BY <1>1, <1>6 DEF Leaves, Same, Alike
  <2>2. \A i \in 1..N : stack'[i].pc = stack[i].pc /\ stack'[i].obj = stack[i].obj
    BY <1>1, <2>1
  <2> QED BY <1>1, <2>1, <2>2 DEF Falls
<1>7. ASSUME NEW e \in Exc, Begins(e) PROVE Falls'
  BY <1>7 DEF Begins, Falls
<1>8. ASSUME NEW act \in {"catch", "cleanup"}, Lands(act, flying) PROVE Falls'
  <2>1. /\ cursor \in 1..N /\ N' = cursor /\ stack'[cursor].pc # "run" /\ stack'[cursor].obj = flying
        /\ inFlight' = flying
    BY <1>8 DEF Lands
  <2>2. \A i \in 1..N' : i # cursor => cursor \in i + 1..N'
    BY <1>1, <2>1
  <2> QED BY <2>1, <2>2 DEF Falls
<1>9. \E t \in Type : TRUE
  BY GuestEHAssumption
<1> QED BY <1>2, <1>3, <1>4, <1>5, <1>6, <1>7, <1>8, <1>9 DEF Effect

-----------------------------------------------------------------------------
(* Tally: the count of the uncaught.                                          *)

\* A step that makes nothing caught or uncaught and does not count.
LEMMA TallyKept ==
    ASSUME Tally, uncaught' = uncaught, \A y \in Exc : exc'[y].uncaught <=> exc[y].uncaught
    PROVE  Tally'
<1>1. Thrown' = Thrown
  BY DEF Thrown
<1> QED BY <1>1 DEF Tally

\* A throw adds one, a landing in a handler takes one away, nothing else does.
LEMMA TallyNext ==
    ASSUME Inv, HInv, Inv', Effect
    PROVE  Tally'
<1>1. N \in Nat /\ Tally /\ Ahead /\ Carried /\ NoExc \notin Exc
  BY Fields DEF HInv, Inv, Ahead
<1>2. CASE Calls \/ WalksOn
  <2>1. uncaught' = uncaught /\ \A y \in Exc : exc'[y].uncaught <=> exc[y].uncaught
    BY <1>2 DEF Calls, WalksOn
  <2> QED BY <1>1, <2>1, TallyKept
<1>3. CASE Returns
  <2>1. N \in 1..N /\ stack[N].pc = "run" /\ uncaught' = uncaught
    BY <1>1, <1>3 DEF Returns
  <2>2. \A e \in Exc : e = stack[N].obj => ~exc[e].uncaught
    <3>1. stack[N].kind # "dtor" => stack[N].obj \notin Exc
      BY <2>1, Fields DEF Inv, Pads
    <3> QED BY <1>1, <2>1, <3>1 DEF Ahead, Settled
  <2>3. \A y \in Exc : exc'[y].uncaught <=> exc[y].uncaught
    BY <1>3, <2>2, DeadFields DEF Returns
  <2> QED BY <1>1, <2>1, <2>3, TallyKept
<1>4. ASSUME NEW e \in Exc, Allocates(e) PROVE Tally'
  <2>1. ~exc[e].uncaught
    BY <1>1, <1>4, UncaughtHeld DEF Allocates
  <2>2. uncaught' = uncaught /\ \A y \in Exc : exc'[y].uncaught <=> exc[y].uncaught
    BY <1>4, <2>1, DeadFields DEF Allocates
  <2> QED BY <1>1, <2>2, TallyKept
<1>5. ASSUME NEW e \in Exc, Frees(e) PROVE Tally'
  <2>1. ~exc[e].uncaught
    BY <1>1, <1>5, UncaughtHeld DEF Frees
  <2>2. uncaught' = uncaught /\ \A y \in Exc : exc'[y].uncaught <=> exc[y].uncaught
    BY <1>5, <2>1, DeadFields DEF Frees
  <2> QED BY <1>1, <2>2, TallyKept
<1>6. ASSUME NEW e \in Exc, Leaves(e) PROVE Tally'
  <2>1. ~exc[e].uncaught
    <3>1. 1 \in 1..Len(caught) /\ caught[1] = e
      BY <1>6, HeldApart DEF Leaves
    <3> QED BY <1>1, <3>1, UncaughtHeld
  <2>2. uncaught' = uncaught /\ \A y \in Exc : exc'[y].uncaught <=> exc[y].uncaught
    BY <1>6, <2>1, DeadFields DEF Leaves
  <2> QED BY <1>1, <2>2, TallyKept
<1>7. ASSUME NEW e \in Exc, Begins(e) PROVE Tally'
  <2>1. ~exc[e].uncaught
    BY <1>1, <1>7 DEF Begins, Ahead, Settled
  <2>2. uncaught' = uncaught /\ \A y \in Exc : exc'[y].uncaught <=> exc[y].uncaught
    BY <1>7, <2>1 DEF Begins
  <2> QED BY <1>1, <2>2, TallyKept
<1>8. ASSUME NEW e \in Exc, Resumes(e) PROVE Tally'
  <2>1. uncaught' = uncaught /\ \A y \in Exc : exc'[y].uncaught <=> exc[y].uncaught
    BY <1>8 DEF Resumes
  <2> QED BY <1>1, <2>1, TallyKept
<1>9. ASSUME NEW e \in Exc, NEW t \in Type, Throws(e, t) PROVE Tally'
  <2>1. ~exc[e].uncaught
    <3>1. N \in 1..N /\ stack[N].fresh = e
      BY <1>9 DEF Throws
    <3> QED BY <1>1, <3>1, UncaughtHeld
  <2>2. uncaught' = uncaught + 1 /\ exc'[e].uncaught /\ \A y \in Exc : y # e => exc'[y] = exc[y]
    BY <1>9 DEF Throws
  <2>3. Thrown' = Thrown \cup {e} /\ e \notin Thrown
    BY <2>1, <2>2 DEF Thrown
  <2>4. IsFiniteSet(Thrown) /\ uncaught = Cardinality(Thrown)
    BY <1>1 DEF Tally
  <2>5. IsFiniteSet(Thrown \cup {e}) /\ Cardinality(Thrown \cup {e}) = Cardinality(Thrown) + 1
    BY <2>3, <2>4, FS_AddElement
  <2> QED BY <2>2, <2>3, <2>4, <2>5 DEF Tally
<1>10. ASSUME NEW act \in {"catch", "cleanup"}, flying \in Exc, Lands(act, flying) PROVE Tally'
  <2>1. exc[flying].uncaught
    BY <1>1, <1>10, BarriersBelow DEF Lands
  <2>2. /\ uncaught' = IF act = "catch" /\ uncaught > 0 THEN uncaught - 1 ELSE uncaught
        /\ \A y \in Exc : y # flying => exc'[y] = exc[y]
        /\ exc'[flying].uncaught <=> exc[flying].uncaught /\ act # "catch"
    BY <1>10 DEF Lands
  <2>3. CASE act = "cleanup"
    <3>1. uncaught' = uncaught /\ \A y \in Exc : exc'[y].uncaught <=> exc[y].uncaught
      BY <2>2, <2>3
    <3> QED BY <1>1, <3>1, TallyKept
  <2>4. CASE act = "catch"
    <3>1. Thrown' = Thrown \ {flying} /\ flying \in Thrown
      BY <1>10, <2>1, <2>2, <2>4 DEF Thrown
    <3>2. IsFiniteSet(Thrown) /\ uncaught = Cardinality(Thrown)
      BY <1>1 DEF Tally
    <3>3. IsFiniteSet(Thrown \ {flying}) /\ Cardinality(Thrown \ {flying}) = Cardinality(Thrown) - 1
      BY <3>1, <3>2, FS_RemoveElement
    <3>4. uncaught \in Nat /\ uncaught # 0
      BY <3>1, <3>2, FS_EmptySet, FS_CardinalityType
    <3> QED BY <2>2, <2>4, <3>1, <3>2, <3>3, <3>4 DEF Tally
  <2> QED BY <2>3, <2>4
<1> QED BY <1>2, <1>3, <1>4, <1>5, <1>6, <1>7, <1>8, <1>9, <1>10 DEF Effect

-----------------------------------------------------------------------------
(* Kept: nothing leaks.                                                       *)

\* Owned, by position on the list.
OnList(y) == \E k \in 1..Len(caught) : caught[k] = y
Held(y) == flying = y \/ OnList(y) \/ \E i \in 1..N : stack[i].fresh = y \/ stack[i].obj = y

\* Who held an object that is live before and after a step still does, but for
\* the one object the step is about.
Keeps(e) ==
    \A y \in Exc :
        /\ y = e => (exc'[y].live => Held(y)')
        /\ y # e => (exc'[y].live => exc[y].live) /\ (Held(y) => Held(y)')

\* Then every live exception is still somebody's.
LEMMA KeptBut ==
    ASSUME Inv, Inv', Kept, NEW e, Keeps(e)
    PROVE  Kept'
<1>1. caught \in Seq(Exc) /\ caught' \in Seq(Exc)
  BY DEF Inv, TypeOK
<1>2. \A y : Owned(y) <=> Held(y)
  <2>1. \A y : y \in ToSet(caught) <=> \E k \in 1..Len(caught) : caught[k] = y
    BY <1>1 DEF ToSet
  <2> QED BY <2>1 DEF Owned, Held, OnList
<1>3. \A y : Owned(y)' <=> Held(y)'
  <2>1. \A y : y \in ToSet(caught') <=> \E k \in 1..Len(caught') : caught'[k] = y
    BY <1>1 DEF ToSet
  <2> QED BY <2>1 DEF Owned, Held, OnList
<1> SUFFICES ASSUME NEW y \in Exc, exc'[y].live PROVE Owned(y)'
  BY DEF Kept
<1>4. CASE y = e
  BY <1>3, <1>4 DEF Keeps
<1>5. CASE y # e
  BY <1>2, <1>3, <1>5 DEF Kept, Keeps
<1> QED BY <1>4, <1>5

\* Every effect passes the exception on or frees it.
LEMMA KeptNext ==
    ASSUME Inv, HInv, Inv', Effect
    PROVE  Kept'
<1>1. /\ N \in Nat /\ N' \in Nat /\ NoExc \notin Exc /\ Kept
  BY Fields DEF HInv, Inv, TypeOK, N
<1>2. CASE Calls
  <2>1. /\ exc' = exc /\ caught' = caught /\ flying' = flying /\ N' = N + 1
        /\ \A i \in 1..N : stack'[i].fresh = stack[i].fresh /\ stack'[i].obj = stack[i].obj
    BY <1>1, <1>2 DEF Calls, Same, Alike
  <2>2. \A y \in Exc : y # NoExc => (exc'[y].live => exc[y].live) /\ (Held(y) => Held(y)')
    BY <1>1, <2>1 DEF Held, OnList
  <2>20. Keeps(NoExc)
    BY <1>1, <2>2 DEF Keeps
  <2> QED BY <1>1, <2>20, KeptBut
<1>3. CASE Returns
  <2>1. /\ caught' = caught /\ flying' = flying /\ N' = N - 1 /\ N > 0 /\ stack[N].fresh = NoExc
        /\ \A i \in 1..N - 1 : stack'[i].fresh = stack[i].fresh /\ stack'[i].obj = stack[i].obj
        /\ \A y \in Exc : exc'[y] = IF y = stack[N].obj THEN Dead ELSE exc[y]
    BY <1>3 DEF Returns, Same, Alike
  <2>2. \A y \in Exc : y # stack[N].obj => (exc'[y].live => exc[y].live)
    BY <2>1
  <2>3. \A y \in Exc : y # stack[N].obj /\ Held(y) => Held(y)'
    <3> SUFFICES ASSUME NEW y \in Exc, y # stack[N].obj, Held(y) PROVE Held(y)'
      OBVIOUS
    <3>1. ASSUME NEW i \in 1..N, stack[i].fresh = y \/ stack[i].obj = y PROVE Held(y)'
      <4>1. i \in 1..N'
        BY <1>1, <2>1, <3>1
      <4>2. stack'[i].fresh = y \/ stack'[i].obj = y
        BY <2>1, <3>1, <4>1
      <4> QED BY <4>1, <4>2 DEF Held
    <3> QED BY <2>1, <3>1 DEF Held, OnList
  <2>4. \A y \in Exc : y = stack[N].obj => ~exc'[y].live
    BY <2>1, DeadFields
  <2>20. Keeps(stack[N].obj)
    BY <2>2, <2>3, <2>4 DEF Keeps
  <2> QED BY <1>1, <2>20, KeptBut
<1>4. CASE WalksOn
  <2>1. /\ caught' = caught /\ flying' = flying /\ N' = N /\ stack' = stack
        /\ \A y \in Exc : exc'[y].live = exc[y].live
    BY <1>4 DEF WalksOn, N
  <2>2. \A y \in Exc : y # NoExc => (exc'[y].live => exc[y].live) /\ (Held(y) => Held(y)')
    BY <2>1 DEF Held, OnList
  <2>20. Keeps(NoExc)
    BY <1>1, <2>2 DEF Keeps
  <2> QED BY <1>1, <2>20, KeptBut
<1>5. ASSUME NEW e \in Exc, Allocates(e) PROVE Kept'
  <2>1. /\ caught' = caught /\ flying' = flying /\ N' = N /\ N \in 1..N /\ stack[N].fresh = NoExc
        /\ stack'[N].fresh = e
        /\ \A i \in 1..N : i # N => stack'[i].fresh = stack[i].fresh
        /\ \A i \in 1..N : stack'[i].obj = stack[i].obj
        /\ \A y \in Exc : y # e => exc'[y] = exc[y]
    BY <1>1, <1>5 DEF Allocates, Same, Alike
  <2>2. \A y \in Exc : y # e => (exc'[y].live => exc[y].live) /\ (Held(y) => Held(y)')
    BY <1>1, <2>1 DEF Held, OnList
  <2>3. Held(e)'
    BY <2>1 DEF Held
  <2>20. Keeps(e)
    BY <2>2, <2>3 DEF Keeps
  <2> QED BY <1>1, <2>20, KeptBut
<1>6. ASSUME NEW e \in Exc, Frees(e) PROVE Kept'
  <2>1. /\ caught' = caught /\ flying' = flying /\ N' = N /\ N \in 1..N /\ stack[N].fresh = e
        /\ \A i \in 1..N : i # N => stack'[i].fresh = stack[i].fresh
        /\ \A i \in 1..N : stack'[i].obj = stack[i].obj
        /\ exc'[e] = Dead /\ \A y \in Exc : y # e => exc'[y] = exc[y]
    BY <1>1, <1>6 DEF Frees, Same, Alike
  <2>2. \A y \in Exc : y # e => (exc'[y].live => exc[y].live) /\ (Held(y) => Held(y)')
    BY <1>1, <2>1 DEF Held, OnList
  <2>3. ~exc'[e].live
    BY <2>1, DeadFields
  <2>20. Keeps(e)
    BY <2>2, <2>3 DEF Keeps
  <2> QED BY <1>1, <2>20, KeptBut
<1>7. ASSUME NEW e \in Exc, Leaves(e) PROVE Kept'
  <2>1. /\ caught # <<>> /\ caught' = Tail(caught) /\ flying' = flying
        /\ \A i \in 1..N : stack'[i].fresh = stack[i].fresh /\ stack'[i].obj = stack[i].obj
        /\ \A y \in Exc : y # e => exc'[y] = exc[y]
        /\ \/ N' = N /\ exc'[e] = Dead
           \/ N' = N + 1 /\ stack'[N + 1].obj = e
    BY <1>1, <1>7 DEF Leaves, Same, Alike
  <2>2. /\ Len(caught') = Len(caught) - 1 /\ Len(caught) \in Nat /\ caught[1] = e
        /\ \A k \in 1..Len(caught') : caught'[k] = caught[k + 1]
    BY <1>7, <2>1, HeldApart DEF Leaves
  <2>3. \A y \in Exc : y # e /\ OnList(y) => OnList(y)'
    <3> SUFFICES ASSUME NEW y \in Exc, y # e, OnList(y) PROVE \E k \in 1..Len(caught') : caught'[k] = y
      BY DEF OnList
    <3>1. PICK k \in 1..Len(caught) : caught[k] = y
      BY DEF OnList
    <3>2. k - 1 \in 1..Len(caught') /\ k - 1 + 1 = k
      BY <2>2, <3>1
    <3>3. caught'[k - 1] = y
      BY <2>2, <3>1, <3>2
    <3> QED BY <3>2, <3>3
  <2>4. \A i \in 1..N : i \in 1..N'
    BY <1>1, <2>1
  <2>5. \A y \in Exc : y # e => (exc'[y].live => exc[y].live) /\ (Held(y) => Held(y)')
    BY <2>1, <2>3, <2>4 DEF Held
  <2>6. exc'[e].live => Held(e)'
    <3>1. N + 1 \in 1..N + 1
      BY <1>1
    <3> QED BY <2>1, <3>1, DeadFields DEF Held
  <2>20. Keeps(e)
    BY <2>5, <2>6 DEF Keeps
  <2> QED BY <1>1, <2>20, KeptBut
<1>8. ASSUME NEW e \in Exc, Begins(e) PROVE Kept'
  <2>1. /\ flying' = flying /\ N' = N /\ N \in 1..N /\ stack[N].obj = e /\ stack[N].fresh = NoExc
        /\ \A i \in 1..N : i # N => stack'[i].obj = stack[i].obj /\ stack'[i].fresh = stack[i].fresh
        /\ \A y \in Exc : y # e => exc'[y] = exc[y]
        /\ caught' = <<e>> \o caught
    BY <1>1, <1>8 DEF Begins, Same, Alike, HInv, Counts
  <2>2. caught \in Seq(Exc) /\ Len(caught) \in Nat
    BY DEF Inv, TypeOK
  <2>3. /\ Len(caught') = 1 + Len(caught)
        /\ \A k \in 1..1 + Len(caught) : caught'[k] = IF k <= 1 THEN e ELSE caught[k - 1]
    <3>1. PICK d \in Seq(Exc) : d = <<e>> /\ Len(d) = 1 /\ d[1] = e
      <4>1. <<e>> \in Seq(Exc) /\ Len(<<e>>) = 1 /\ <<e>>[1] = e
        OBVIOUS
      <4> QED BY <4>1
    <3>2. /\ Len(d \o caught) = Len(d) + Len(caught)
          /\ \A k \in 1..Len(d) + Len(caught) : (d \o caught)[k] = IF k <= Len(d) THEN d[k] ELSE caught[k - Len(d)]
      BY <2>2, ConcatProperties
    <3> QED BY <2>1, <2>2, <3>1, <3>2
  <2>4. OnList(e)' /\ \A y : OnList(y) => OnList(y)'
    <3>1. 1 \in 1..Len(caught') /\ caught'[1] = e
      BY <2>2, <2>3
    <3>2. \A k \in 1..Len(caught) : k + 1 \in 1..Len(caught') /\ caught'[k + 1] = caught[k]
      BY <2>2, <2>3
    <3> QED BY <3>1, <3>2 DEF OnList
  <2>5. \A y \in Exc : y # e => (exc'[y].live => exc[y].live) /\ (Held(y) => Held(y)')
    BY <1>1, <2>1, <2>4 DEF Held
  <2>20. Keeps(e)
    BY <2>4, <2>5 DEF Keeps, Held
  <2> QED BY <1>1, <2>20, KeptBut
<1>9. ASSUME NEW e \in Exc, Resumes(e) PROVE Kept'
  <2>1. /\ flying = NoExc /\ exc' = exc /\ caught' = caught /\ N' = N
        /\ \A i \in 1..N : stack'[i].fresh = stack[i].fresh /\ stack'[i].obj = stack[i].obj
    BY <1>9 DEF Resumes, Alike
  <2>2. \A y \in Exc : y # NoExc => (exc'[y].live => exc[y].live) /\ (Held(y) => Held(y)')
    BY <2>1 DEF Held, OnList
  <2>20. Keeps(NoExc)
    BY <1>1, <2>2 DEF Keeps
  <2> QED BY <1>1, <2>20, KeptBut
<1>10. ASSUME NEW e \in Exc, NEW t \in Type, Throws(e, t) PROVE Kept'
  <2>1. /\ flying = NoExc /\ flying' = e /\ caught' = caught /\ N' = N /\ stack[N].fresh = e
        /\ \A i \in 1..N : i # N => stack'[i].fresh = stack[i].fresh
        /\ \A i \in 1..N : stack'[i].obj = stack[i].obj
        /\ \A y \in Exc : y # e => exc'[y] = exc[y]
    BY <1>1, <1>10 DEF Throws, Same, Alike
  <2>2. \A y \in Exc : y # e => (exc'[y].live => exc[y].live) /\ (Held(y) => Held(y)')
    BY <1>1, <2>1 DEF Held, OnList
  <2>3. Held(e)'
    BY <2>1 DEF Held
  <2>20. Keeps(e)
    BY <2>2, <2>3 DEF Keeps
  <2> QED BY <1>1, <2>20, KeptBut
<1>11. ASSUME NEW act \in {"catch", "cleanup"}, NEW e \in Exc, Lands(act, e) PROVE Kept'
  <2>1. /\ mode = "unwind" /\ cursor \in 1..N /\ N' = cursor /\ caught' = caught /\ flying = e
        /\ stack'[cursor].obj = e /\ stack'[cursor].fresh = stack[cursor].fresh
        /\ \A i \in 1..cursor - 1 : stack'[i].fresh = stack[i].fresh /\ stack'[i].obj = stack[i].obj
        /\ \A y \in Exc : y # e => exc'[y] = exc[y]
    BY <1>11 DEF Lands, Same, Alike
  <2>2. stack[cursor].obj = NoExc
    BY <2>1, BarriersBelow DEF HInv
  <2>3. \A i \in cursor + 1..N : stack[i].fresh = NoExc
    BY <2>1 DEF HInv, Paid, Passed, Owes
  <2>4. \A i \in cursor + 1..N : stack[i].obj \in {e, NoExc}
    <3> SUFFICES ASSUME NEW i \in cursor + 1..N, stack[i].obj # e PROVE stack[i].obj = NoExc
      OBVIOUS
    <3>1. i \in 1..N /\ cursor \in Nat /\ ~(i < exc[e].goal)
      <4>1. exc[e].goal \in 1..cursor
        BY <2>1, BarriersBelow DEF HInv
      <4> QED BY <1>1, <2>1, <4>1
    <3>2. ~Barrier(i)
      BY <2>1, <3>1 DEF HInv, Ahead, PhaseTwo
    <3> QED BY <3>1, <3>2 DEF Barrier, Inv, Pads
  <2>5. Held(e)'
    <3>1. cursor \in 1..N'
      BY <2>1
    <3> QED BY <2>1, <3>1 DEF Held
  <2>6. \A y \in Exc : y # e /\ Held(y) => Held(y)'
    <3> SUFFICES ASSUME NEW y \in Exc, y # e, Held(y) PROVE Held(y)'
      OBVIOUS
    <3>1. ASSUME NEW i \in 1..N, stack[i].fresh = y \/ stack[i].obj = y PROVE Held(y)'
      <4>1. y # NoExc
        BY <1>1
      <4>2. i \notin cursor + 1..N
        BY <2>3, <2>4, <3>1, <4>1
      <4>3. i \in 1..N' /\ (i = cursor \/ i \in 1..cursor - 1)
        BY <1>1, <2>1, <4>2
      <4>4. stack'[i].fresh = y \/ stack'[i].obj = y
        BY <2>1, <2>2, <3>1, <4>1, <4>3
      <4> QED BY <4>3, <4>4 DEF Held
    <3>2. OnList(y) => OnList(y)'
      BY <2>1 DEF OnList
    <3> QED BY <2>1, <3>1, <3>2 DEF Held
  <2>7. \A y \in Exc : y # e => (exc'[y].live => exc[y].live)
    BY <2>1
  <2>20. Keeps(e)
    BY <2>5, <2>6, <2>7 DEF Keeps
  <2> QED BY <1>1, <2>20, KeptBut
<1> QED BY <1>2, <1>3, <1>4, <1>5, <1>6, <1>7, <1>8, <1>9, <1>10, <1>11 DEF Effect

-----------------------------------------------------------------------------
(* Paid: nothing is left undone.                                              *)

\* A step of the guest that changes the function on top, and may call.
LEMMA PaidGuest ==
    ASSUME Inv, Inv', Paid, mode = "run", mode' = "run", flying = NoExc, flying' = NoExc,
           N' >= N - 1, N' <= N + 1,
           \A i \in 1..N - 1 : Same(stack'[i], stack[i]),
           N' >= N /\ N > 0 =>
              /\ stack'[N].kind = stack[N].kind
              /\ stack[N].kind # "eh" => stack'[N].hs = <<>>
              /\ stack'[N].pc = "cleanup" => stack'[N].todo = Len(stack'[N].hs),
           N' = N + 1 =>
              /\ stack'[N + 1].pc = "run" /\ stack'[N + 1].hs = <<>>
              /\ N > 0 => /\ stack[N].kind # "eh" => stack'[N].fresh = NoExc
                          /\ stack[N].kind = "eh" /\ (stack'[N].hs # <<>> \/ stack'[N].fresh # NoExc) =>
                                \/ Covers(stack'[N].site)
                                \/ stack'[N].pc # "run"
                                \/ stack'[N + 1].kind = "dtor"
    PROVE  Paid'
<1>1. N \in Nat /\ N' \in Nat /\ NoExc \notin Exc
  BY Fields DEF Inv, TypeOK, N
<1>2. \A i \in 1..N' : i \in 1..N - 1 \/ (i = N /\ N > 0 /\ N' >= N) \/ (i = N + 1 /\ N' = N + 1)
  BY <1>1
<1>3. Bare'
  <2> SUFFICES ASSUME NEW i \in 1..N', stack'[i].kind # "eh"
               PROVE  stack'[i].hs = <<>> /\ (i < N' => stack'[i].fresh = NoExc)
    BY DEF Bare
  <2>1. CASE i \in 1..N - 1
    <3>1. stack[i].hs = <<>> /\ stack[i].fresh = NoExc
      BY <1>1, <2>1 DEF Paid, Bare, Same, Alike
    <3> QED BY <2>1, <3>1 DEF Same, Alike
  <2>2. CASE i = N /\ N > 0 /\ N' >= N
    BY <1>1, <2>2
  <2>3. CASE i = N + 1 /\ N' = N + 1
    BY <1>1, <2>3
  <2> QED BY <1>2, <2>1, <2>2, <2>3
<1>4. PadLeaves'
  <2> SUFFICES ASSUME NEW i \in 1..N', stack'[i].pc = "cleanup"
               PROVE  stack'[i].todo = Len(stack'[i].hs)
    BY DEF PadLeaves
  <2>1. CASE i \in 1..N - 1
    <3>1. i \in 1..N /\ stack[i].pc = "cleanup"
      BY <1>1, <2>1 DEF Same, Alike
    <3>2. stack[i].todo = Len(stack[i].hs)
      BY <3>1 DEF Paid, PadLeaves
    <3> QED BY <2>1, <3>2 DEF Same, Alike
  <2> QED BY <1>2, <2>1
<1>5. Covered'
  <2> SUFFICES ASSUME NEW i \in 1..N', stack'[i].kind = "eh", i < N', Owes(i)'
               PROVE  \/ Covers(stack'[i].site)
                      \/ stack'[i].pc # "run" /\ stack'[i].obj # NoExc
                      \/ stack'[i + 1].kind = "dtor"
    BY DEF Covered
  <2>1. stack'[i].pc # "run" => stack'[i].obj # NoExc
    BY <1>1 DEF Inv, Pads
  <2>2. CASE i \in 1..N - 1
    <3>1. i \in 1..N /\ i < N /\ stack[i].kind = "eh" /\ Owes(i)
      BY <1>1, <2>2 DEF Same, Alike, Owes
    <3>2. Covers(stack[i].site) \/ stack[i].pc # "run" \/ stack[i + 1].kind = "dtor"
      BY <3>1 DEF Paid, Covered
    <3>3. stack'[i].site = stack[i].site /\ stack'[i].pc = stack[i].pc
      BY <2>2 DEF Same, Alike
    <3>4. stack'[i + 1].kind = stack[i + 1].kind
      <4>1. i + 1 \in 1..N - 1 \/ (i + 1 = N /\ N > 0 /\ N' >= N)
        BY <1>1, <2>2
      <4> QED BY <4>1 DEF Same, Alike
    <3> QED BY <2>1, <3>2, <3>3, <3>4
  <2>3. CASE i = N /\ N > 0
    <3>1. N' = N + 1 /\ N' >= N
      BY <1>1, <2>3
    <3>2. stack'[N].kind = "eh" /\ (stack'[N].hs # <<>> \/ stack'[N].fresh # NoExc)
      BY <2>3 DEF Owes
    <3>3. stack[N].kind = "eh"
      BY <2>3, <3>1, <3>2
    <3> QED BY <2>1, <2>3, <3>1, <3>2, <3>3
  <2> QED BY <1>1, <1>2, <2>2, <2>3
<1> QED BY <1>3, <1>4, <1>5 DEF Paid, Passed

\* No step of a walk changes what a function owes, but phase two goes past one.
LEMMA PaidWalk ==
    ASSUME Inv, Paid, WalksOn, mode' = "unwind" => \A i \in cursor' + 1..N : ~Owes(i)
    PROVE  Paid'
<1>1. stack' = stack /\ N' = N /\ flying' = flying /\ mode # "run" /\ mode' # "run"
      /\ \A i : Owes(i)' <=> Owes(i)
  BY DEF WalksOn, N, Owes
<1> QED BY <1>1 DEF Paid, Bare, PadLeaves, Covered, Passed

\* Phase two starts above every exception frame.
LEMMA PaidSearchFound ==
    ASSUME Inv, HInv, SearchFound
    PROVE  Paid'
<1>1. WalksOn /\ Paid /\ mode = "search" /\ cursor' = ehTop /\ N \in Nat
  BY WalksOnIt, Fields DEF SearchFound, HInv, Inv
<1>2. ASSUME NEW i \in ehTop + 1..N PROVE ~Owes(i)
  <2>1. i \in 1..N /\ ~(i <= ehTop) /\ ehTop \in Nat
    BY <1>1, TopIsFirst
  <2>2. stack[i].kind # "eh"
    BY <2>1, TopIsFirst
  <2> QED BY <1>1, <2>1, <2>2 DEF Paid, Bare, Owes
<1> QED BY <1>1, <1>2, PaidWalk

\* A frame without a handler or a cleanup has nothing to leave behind.
LEMMA PaidUnwindNext ==
    ASSUME Inv, HInv, UnwindNext
    PROVE  Paid'
<1>1. /\ WalksOn /\ Paid /\ Ahead /\ mode = "unwind" /\ cursor' = stack[cursor].prev /\ N \in Nat
      /\ FrameAction(cursor, exc[flying].type, FALSE) = "none"
  BY WalksOnIt, Fields DEF UnwindNext, HInv, Inv
<1>2. /\ cursor \in 1..N /\ stack[cursor].kind = "eh" /\ stack[cursor].pc = "run"
      /\ flying \in Exc /\ exc[flying].uncaught /\ exc[flying].goal \in 1..cursor
  BY <1>1, BarriersBelow
<1>3. ~Covers(stack[cursor].site)
  BY <1>1, <1>2, ActionIsCatch
<1>4. cursor < N => stack[cursor + 1].kind # "dtor"
  <2> SUFFICES ASSUME cursor < N, stack[cursor + 1].kind = "dtor" PROVE FALSE
    OBVIOUS
  <2>1. cursor + 1 \in 1..N /\ Barrier(cursor + 1)
    BY <1>1, <1>2 DEF Barrier
  <2>2. ~exc[stack[cursor + 1].obj].uncaught
    BY <1>1, <2>1 DEF Ahead, Settled
  <2>3. stack[cursor + 1].obj # flying
    BY <1>2, <2>2
  <2>4. cursor + 1 < exc[flying].goal
    BY <1>1, <2>1, <2>3 DEF Ahead, PhaseTwo
  <2> QED BY <1>2, <2>4
<1>5. ~Owes(cursor)
  BY <1>1, <1>2, <1>3, <1>4 DEF Paid, Covered
<1>6. ASSUME NEW i \in stack[cursor].prev + 1..N PROVE ~Owes(i)
  <2>1. stack[cursor].prev \in 0..cursor - 1
    BY <1>2, PrevIsNext
  <2>2. i \in 1..N /\ (i \in cursor + 1..N \/ i = cursor \/ i \in 1..cursor - 1)
    BY <1>1, <1>2, <2>1
  <2>3. CASE i \in cursor + 1..N
    BY <1>1, <2>3 DEF Paid, Passed
  <2>4. CASE i \in 1..cursor - 1
    <3>1. stack[i].kind # "eh"
      <4>1. ~(i <= stack[cursor].prev)
        BY <2>1
      <4> QED BY <1>2, <2>4, <4>1, PrevIsNext
    <3> QED BY <1>1, <2>2, <3>1 DEF Paid, Bare, Owes
  <2> QED BY <1>5, <2>2, <2>3, <2>4
<1> QED BY <1>1, <1>6, PaidWalk

\* The effects of the guest, and a landing.
LEMMA PaidNext ==
    ASSUME Inv, HInv, Inv', Effect, ~WalksOn
    PROVE  Paid'
<1>1. /\ N \in Nat /\ N' \in Nat /\ NoExc \notin Exc /\ Paid
      /\ Bare /\ PadLeaves /\ Covered /\ Passed
      /\ \A i \in 1..N : stack[i].hs \in Seq(Exc)
  BY Fields DEF HInv, Inv, TypeOK, N, Paid
<1>2. CASE Calls
  <2>1. N > 0 => /\ stack'[N].kind = stack[N].kind /\ stack'[N].hs = stack[N].hs
                 /\ stack'[N].fresh = stack[N].fresh /\ stack'[N].pc = stack[N].pc
                 /\ stack'[N].todo = stack[N].todo /\ N \in 1..N
                 /\ stack[N].kind # "eh" => stack[N].hs = <<>> /\ stack[N].fresh = NoExc
    <3> HAVE N > 0
    <3>1. Alike(stack'[N], stack[N]) /\ (stack[N].kind # "eh" => ~Owes(N)) /\ N \in 1..N
      BY <1>1, <1>2 DEF Calls
    <3>2. /\ stack'[N].kind = stack[N].kind /\ stack'[N].hs = stack[N].hs
          /\ stack'[N].fresh = stack[N].fresh /\ stack'[N].pc = stack[N].pc
          /\ stack'[N].todo = stack[N].todo
      BY <3>1 DEF Alike
    <3> QED BY <3>1, <3>2 DEF Owes
  <2>2. N > 0 => (stack'[N].pc = "cleanup" => stack'[N].todo = Len(stack'[N].hs))
    BY <1>1, <2>1 DEF PadLeaves
  <2>3. /\ mode = "run" /\ mode' = "run" /\ flying = NoExc /\ flying' = NoExc /\ N' = N + 1
        /\ \A i \in 1..N - 1 : Same(stack'[i], stack[i])
        /\ stack'[N + 1].pc = "run" /\ stack'[N + 1].hs = <<>>
    BY <1>2 DEF Calls
  <2>4. /\ N' >= N - 1 /\ N' <= N + 1
    BY <1>1, <2>3
  <2>5. N > 0 => /\ stack[N].kind # "eh" => stack'[N].fresh = NoExc
                 /\ stack[N].kind = "eh" /\ (stack'[N].hs # <<>> \/ stack'[N].fresh # NoExc) =>
                        Covers(stack'[N].site) \/ stack'[N].pc # "run"
    <3> HAVE N > 0
    <3>1. stack[N].kind = "eh" /\ Owes(N) => stack[N].pc # "run" \/ Covers(stack'[N].site)
      BY <1>2 DEF Calls
    <3> QED BY <2>1, <3>1 DEF Owes
  <2> QED BY <1>1, <2>1, <2>2, <2>3, <2>4, <2>5, PaidGuest
<1>3. CASE Returns
  BY <1>1, <1>3, PaidGuest DEF Returns
<1>4. ASSUME NEW e \in Exc, Allocates(e) \/ Frees(e) PROVE Paid'
  <2>1. /\ N \in 1..N /\ N' = N /\ stack'[N].kind = stack[N].kind /\ stack'[N].hs = stack[N].hs
        /\ stack'[N].pc = stack[N].pc /\ stack'[N].todo = stack[N].todo
        /\ mode = "run" /\ mode' = "run" /\ flying = NoExc /\ flying' = NoExc
        /\ \A i \in 1..N - 1 : Same(stack'[i], stack[i])
    BY <1>4 DEF Allocates, Frees
  <2>2. stack[N].kind # "eh" => stack'[N].hs = <<>>
    BY <1>1, <2>1 DEF Bare
  <2>3. stack'[N].pc = "cleanup" => stack'[N].todo = Len(stack'[N].hs)
    BY <1>1, <2>1 DEF PadLeaves
  <2> QED BY <1>1, <2>1, <2>2, <2>3, PaidGuest
<1>5. ASSUME NEW e \in Exc, Leaves(e) PROVE Paid'
  <2>1. /\ N \in 1..N /\ (N' = N \/ N' = N + 1) /\ stack'[N].kind = stack[N].kind
        /\ stack'[N].hs = Tail(stack[N].hs) /\ stack'[N].pc = stack[N].pc /\ stack[N].hs # <<>>
        /\ stack[N].pc = "cleanup" => stack'[N].todo = stack[N].todo - 1
        /\ mode = "run" /\ mode' = "run" /\ flying = NoExc /\ flying' = NoExc
        /\ \A i \in 1..N - 1 : Same(stack'[i], stack[i])
        /\ N' = N + 1 => /\ stack'[N + 1].kind = "dtor" /\ stack'[N + 1].pc = "run"
                         /\ stack'[N + 1].hs = <<>>
    BY <1>1, <1>5 DEF Leaves
  <2>2. stack[N].kind = "eh"
    BY <1>1, <2>1 DEF Bare
  <2>3. stack'[N].pc = "cleanup" => stack'[N].todo = Len(stack'[N].hs)
    <3>1. Len(Tail(stack[N].hs)) = Len(stack[N].hs) - 1
      BY <1>1, <2>1, HeadTailProperties
    <3>2. stack[N].pc = "cleanup" => stack[N].todo = Len(stack[N].hs)
      BY <1>1, <2>1 DEF PadLeaves
    <3> QED BY <2>1, <3>1, <3>2
  <2> QED BY <1>1, <2>1, <2>2, <2>3, PaidGuest
<1>6. ASSUME NEW e \in Exc, Begins(e) PROVE Paid'
  <2>1. /\ N \in 1..N /\ N' = N /\ stack'[N].kind = stack[N].kind /\ stack'[N].pc = "run"
        /\ stack[N].pc = "catch"
        /\ mode = "run" /\ mode' = "run" /\ flying = NoExc /\ flying' = NoExc
        /\ \A i \in 1..N - 1 : Same(stack'[i], stack[i])
    BY <1>6 DEF Begins
  <2>2. stack[N].kind = "eh"
    BY <2>1 DEF Inv, Pads
  <2> QED BY <1>1, <2>1, <2>2, PaidGuest
<1>7. ASSUME NEW e \in Exc, NEW t \in Type, Throws(e, t) PROVE Paid'
  <2>1. /\ N \in 1..N /\ N' = N /\ stack'[N].kind = stack[N].kind /\ stack'[N].hs = stack[N].hs
        /\ stack'[N].pc = "run" /\ stack[N].fresh = e /\ stack'[N].fresh = NoExc
        /\ mode = "run" /\ mode' = "search" /\ flying = NoExc /\ flying' = e
        /\ \A i \in 1..N - 1 : Same(stack'[i], stack[i])
        /\ stack[N].hs # <<>> => Covers(stack'[N].site)
    BY <1>7 DEF Throws
  <2>2. \A i \in 1..N : i \in 1..N - 1 \/ i = N
    BY <1>1
  <2>3. Bare'
    <3> SUFFICES ASSUME NEW i \in 1..N, stack'[i].kind # "eh"
                 PROVE  stack'[i].hs = <<>> /\ stack'[i].fresh = NoExc
      BY <2>1 DEF Bare
    <3>1. CASE i \in 1..N - 1
      <4>1. i < N /\ stack[i].kind # "eh"
        BY <1>1, <2>1, <3>1 DEF Same, Alike
      <4> QED BY <1>1, <2>1, <3>1, <4>1 DEF Bare, Same, Alike
    <3>2. CASE i = N
      BY <1>1, <2>1, <3>2 DEF Bare
    <3> QED BY <2>2, <3>1, <3>2
  <2>4. PadLeaves'
    <3> SUFFICES ASSUME NEW i \in 1..N, stack'[i].pc = "cleanup"
                 PROVE  stack'[i].todo = Len(stack'[i].hs)
      BY <2>1 DEF PadLeaves
    <3>1. i \in 1..N - 1
      BY <2>1, <2>2
    <3> QED BY <1>1, <2>1, <3>1 DEF PadLeaves, Same, Alike
  <2>5. Covered'
    <3> SUFFICES ASSUME NEW i \in 1..N, stack'[i].kind = "eh", Owes(i)'
                 PROVE  \/ Covers(stack'[i].site)
                        \/ stack'[i].pc # "run" /\ stack'[i].obj # e
                        \/ i < N /\ stack'[i + 1].kind = "dtor"
      BY <2>1 DEF Covered
    <3>1. CASE i \in 1..N - 1
      <4>1. i < N /\ stack[i].kind = "eh" /\ Owes(i)
        BY <1>1, <2>1, <3>1 DEF Same, Alike, Owes
      <4>2. Covers(stack[i].site) \/ stack[i].pc # "run" \/ stack[i + 1].kind = "dtor"
        BY <1>1, <4>1 DEF Covered
      <4>3. stack[i].obj # e
        BY <1>7, <2>1, HeldApart
      <4>4. stack'[i + 1].kind = stack[i + 1].kind
        <5>1. i + 1 \in 1..N - 1 \/ i + 1 = N
          BY <1>1, <3>1
        <5> QED BY <2>1, <5>1 DEF Same, Alike
      <4> QED BY <2>1, <3>1, <4>1, <4>2, <4>3, <4>4 DEF Same, Alike
    <3>2. CASE i = N
      BY <2>1, <3>2 DEF Owes
    <3> QED BY <2>2, <3>1, <3>2
  <2> QED BY <2>1, <2>3, <2>4, <2>5 DEF Paid, Passed
<1>8. ASSUME NEW e \in Exc, Resumes(e) PROVE Paid'
  <2>1. /\ N \in 1..N /\ N' = N /\ mode' = "unwind" /\ flying' = e /\ cursor' = stack[N].prev
        /\ (\A i \in 1..N : Alike(stack'[i], stack[i])) /\ flying = NoExc
        /\ \A i \in 1..N - 1 : Same(stack'[i], stack[i])
        /\ stack[N].pc = "cleanup" /\ stack[N].obj = e /\ stack[N].fresh = NoExc /\ stack[N].todo = 0
    BY <1>8 DEF Resumes
  <2>2. stack[N].kind = "eh" /\ ~Owes(N)
    <3>1. Len(stack[N].hs) = 0
      BY <1>1, <2>1 DEF PadLeaves
    <3>2. stack[N].hs = <<>>
      BY <1>1, <2>1, <3>1, EmptySeq
    <3> QED BY <2>1, <3>2 DEF Owes, Inv, Pads
  <2>3. \A i \in 1..N : (Owes(i)' <=> Owes(i)) /\ (i \in 1..N - 1 \/ i = N)
    BY <1>1, <2>1 DEF Owes, Alike
  <2>4. Bare'
    <3> SUFFICES ASSUME NEW i \in 1..N, stack'[i].kind # "eh"
                 PROVE  stack'[i].hs = <<>> /\ stack'[i].fresh = NoExc
      BY <2>1 DEF Bare
    <3>1. i < N /\ stack[i].kind # "eh"
      BY <1>1, <2>1, <2>2, <2>3 DEF Alike
    <3> QED BY <1>1, <2>1, <3>1 DEF Bare, Alike
  <2>5. PadLeaves'
    BY <1>1, <2>1 DEF PadLeaves, Alike
  <2>6. Covered'
    <3> SUFFICES ASSUME NEW i \in 1..N, stack'[i].kind = "eh", Owes(i)'
                 PROVE  \/ Covers(stack'[i].site)
                        \/ stack'[i].pc # "run" /\ stack'[i].obj # e
                        \/ i < N /\ stack'[i + 1].kind = "dtor"
      BY <2>1 DEF Covered
    <3>1. i \in 1..N - 1 /\ i < N /\ stack[i].kind = "eh" /\ Owes(i)
      BY <1>1, <2>1, <2>2, <2>3 DEF Alike
    <3>2. Covers(stack[i].site) \/ stack[i].pc # "run" \/ stack[i + 1].kind = "dtor"
      BY <1>1, <3>1 DEF Covered
    <3>3. stack[i].obj # e
      <4>1. stack[N].obj # NoExc /\ i # N
        BY <1>1, <1>8, <2>1, <3>1
      <4> QED BY <2>1, <4>1, HeldApart
    <3>4. stack'[i + 1].kind = stack[i + 1].kind
      <4>1. i + 1 \in 1..N
        BY <1>1, <3>1
      <4> QED BY <2>1, <4>1 DEF Alike
    <3> QED BY <2>1, <3>1, <3>2, <3>3, <3>4 DEF Same, Alike
  <2>7. Passed'
    <3> SUFFICES ASSUME NEW i \in stack[N].prev + 1..N PROVE ~Owes(i)'
      BY <2>1 DEF Passed
    <3>1. stack[N].prev \in 0..N - 1
      BY <2>1, <2>2, PrevIsNext
    <3>2. i \in 1..N /\ ~(i <= stack[N].prev)
      BY <1>1, <3>1
    <3>3. CASE i # N
      <4>1. i \in 1..N - 1 /\ i < N
        BY <1>1, <3>2, <3>3
      <4>2. stack[i].kind # "eh"
        BY <2>1, <2>2, <3>2, <4>1, PrevIsNext
      <4>3. ~Owes(i)
        BY <1>1, <3>2, <4>1, <4>2 DEF Bare, Owes
      <4> QED BY <2>3, <3>2, <4>3
    <3> QED BY <2>2, <2>3, <3>2, <3>3
  <2> QED BY <2>4, <2>5, <2>6, <2>7 DEF Paid
<1>9. ASSUME NEW act \in {"catch", "cleanup"}, NEW e \in Exc, Lands(act, e) PROVE Paid'
  <2>1. /\ cursor \in 1..N /\ N' = cursor /\ mode = "unwind" /\ mode' = "run" /\ flying' = NoExc
        /\ stack[cursor].kind = "eh" /\ stack'[cursor].kind = "eh"
        /\ \A i \in 1..cursor - 1 : Same(stack'[i], stack[i])
        /\ stack'[cursor].pc = act /\ stack'[cursor].hs = stack[cursor].hs
        /\ act = "cleanup" => stack'[cursor].todo = Len(stack[cursor].hs)
    BY <1>9 DEF Lands
  <2>2. \A i \in 1..cursor : i \in 1..N /\ (i \in 1..cursor - 1 \/ i = cursor)
    BY <1>1, <2>1
  <2>3. Bare'
    <3> SUFFICES ASSUME NEW i \in 1..cursor, stack'[i].kind # "eh"
                 PROVE  stack'[i].hs = <<>> /\ stack'[i].fresh = NoExc
      BY <2>1 DEF Bare
    <3>1. i \in 1..cursor - 1 /\ i \in 1..N
      BY <2>1, <2>2
    <3> QED BY <1>1, <2>1, <3>1 DEF Bare, Same, Alike
  <2>4. PadLeaves'
    <3> SUFFICES ASSUME NEW i \in 1..cursor, stack'[i].pc = "cleanup"
                 PROVE  stack'[i].todo = Len(stack'[i].hs)
      BY <2>1 DEF PadLeaves
    <3>1. CASE i \in 1..cursor - 1
      BY <1>1, <2>1, <2>2, <3>1 DEF PadLeaves, Same, Alike
    <3>2. CASE i = cursor
      BY <2>1, <3>2
    <3> QED BY <2>2, <3>1, <3>2
  <2>5. Covered'
    <3> SUFFICES ASSUME NEW i \in 1..cursor, stack'[i].kind = "eh", i < cursor, Owes(i)'
                 PROVE  \/ Covers(stack'[i].site)
                        \/ stack'[i].pc # "run" /\ stack'[i].obj # NoExc
                        \/ stack'[i + 1].kind = "dtor"
      BY <2>1 DEF Covered
    <3>1. stack'[i].pc # "run" => stack'[i].obj # NoExc
      BY <1>1, <2>1 DEF Inv, Pads
    <3>2. i \in 1..N /\ i \in 1..cursor - 1 /\ stack[i].kind = "eh" /\ Owes(i)
      BY <2>1, <2>2 DEF Same, Alike, Owes
    <3>3. Covers(stack[i].site) \/ stack[i].pc # "run" \/ stack[i + 1].kind = "dtor"
      BY <1>1, <2>1, <3>2 DEF Covered
    <3>4. stack'[i + 1].kind = stack[i + 1].kind
      <4>1. i + 1 \in 1..cursor - 1 \/ i + 1 = cursor
        BY <1>1, <2>1, <3>2
      <4> QED BY <2>1, <4>1 DEF Same, Alike
    <3> QED BY <2>1, <3>1, <3>2, <3>3, <3>4 DEF Same, Alike
  <2> QED BY <2>1, <2>3, <2>4, <2>5 DEF Paid, Passed
<1> QED BY <1>2, <1>3, <1>4, <1>5, <1>6, <1>7, <1>8, <1>9 DEF Effect

-----------------------------------------------------------------------------
(* The invariant is inductive.                                                *)

\* It holds initially.
LEMMA HInvInit == Init => HInv
<1> SUFFICES ASSUME Init PROVE HInv
  OBVIOUS
<1>1. /\ stack = <<>> /\ N = 0 /\ caught = <<>> /\ uncaught = 0 /\ flying = NoExc /\ mode = "run"
      /\ \A e \in Exc : exc[e] = Dead
  BY DEF Init, N
<1>2. \A e \in Exc : ~exc[e].uncaught /\ ~exc[e].live
  BY <1>1, DeadFields
<1>3. Ahead
  BY <1>1, <1>2 DEF Ahead, Carried, Goals, Found, Pending, Settled, PhaseOne, PhaseTwo
<1>4. Paid
  BY <1>1 DEF Paid, Bare, PadLeaves, Covered, Passed
<1>5. Counts
  BY <1>1 DEF Counts
<1>6. Tally
  <2>1. Thrown = {}
    BY <1>2 DEF Thrown
  <2> QED BY <1>1, <2>1, FS_EmptySet DEF Tally
<1>7. Blocks
  <2>1. PICK st \in Seq(Activation) : st = stack /\ Len(st) = 0
    <3>1. stack \in Seq(Activation) /\ Len(stack) = 0
      BY <1>1, EmptySeq DEF N
    <3> QED BY <3>1
  <2>2. BlocksOf(st) = <<>>
    BY <2>1, BlocksOfNone
  <2> QED BY <1>1, <2>1, <2>2 DEF Blocks
<1>8. Kept /\ Falls
  BY <1>1, <1>2 DEF Kept, Falls
<1> QED BY <1>3, <1>4, <1>5, <1>6, <1>7, <1>8 DEF HInv

\* A step of a walk is one of the four.
LEMMA WalkIs ==
    ASSUME Next, WalksOn
    PROVE  SearchNext \/ SearchFound \/ UnwindNext \/ WalkEnds
<1>1. mode \in {"search", "unwind"}
  BY DEF WalksOn
<1>2. ~Guest
  BY <1>1 DEF Guest, Enter, TailCall, Call, Return, AllocateException, Throw, Rethrow, EndCatch,
              PadEndCatch, PadFreeException, BeginCatch, Resume, Running, PadDone
<1>3. ~Halted
  BY <1>1 DEF Halted, Stopped
<1>4. ~UnwindLands
  BY DEF WalksOn, UnwindLands, LandAt
<1> QED BY <1>2, <1>3, <1>4 DEF Next, Unwinding

\* Every step of a guest without `throw;` keeps it.
LEMMA HInvNext ==
    ASSUME Inv, HInv, ~Rethrows, [Next]_vars
    PROVE  HInv'
<1>1. Inv'
  BY InvNext
<1>2. CASE UNCHANGED vars
  BY <1>2, HInvStutter
<1>3. CASE Next /\ ~UNCHANGED vars
  <2>1. Effect
    BY <1>1, <1>3, EffectOf
  <2>2. Counts' /\ Tally' /\ Blocks' /\ Kept' /\ Falls'
    BY <1>1, <2>1, CountsNext, TallyNext, BlocksNext, KeptNext, FallsNext
  <2>3. CASE WalksOn
    <3>1. SearchNext \/ SearchFound \/ UnwindNext \/ WalkEnds
      BY <1>3, <2>3, WalkIs
    <3>2. Ahead /\ Paid
      BY DEF HInv
    <3>3. Ahead'
      BY <3>1, <3>2, AheadSearchNext, AheadSearchFound, AheadUnwindNext, AheadWalkEnds
    <3>4. CASE SearchNext \/ WalkEnds
      <4>1. mode' # "unwind"
        BY <3>4 DEF SearchNext, WalkEnds
      <4> QED BY <2>2, <2>3, <3>2, <3>3, <4>1, PaidWalk DEF HInv
    <3>5. CASE SearchFound
      BY <2>2, <3>3, <3>5, PaidSearchFound DEF HInv
    <3>6. CASE UnwindNext
      BY <2>2, <3>3, <3>6, PaidUnwindNext DEF HInv
    <3> QED BY <3>1, <3>4, <3>5, <3>6
  <2>4. CASE ~WalksOn
    <3>1. Paid'
      BY <1>1, <2>1, <2>4, PaidNext
    <3>2. Ahead
      BY DEF HInv
    <3>3. Ahead'
      <4>1. CASE Calls \/ Returns \/ \E e \in Exc : Allocates(e) \/ Frees(e) \/ Leaves(e) \/ Begins(e)
        BY <3>2, <4>1, AheadRuns
      <4>2. CASE \E e \in Exc : Resumes(e)
        BY <3>2, <4>2, AheadResume
      <4>3. CASE \E e \in Exc, t \in Type : Throws(e, t)
        BY <3>2, <4>3, AheadThrow
      <4>4. CASE \E act \in {"catch", "cleanup"} : flying \in Exc /\ Lands(act, flying)
        <5>1. PICK act \in {"catch", "cleanup"}, e \in Exc : Lands(act, e)
          BY <4>4
        <5> QED BY <3>2, <5>1, AheadLand
      <4> QED BY <2>1, <2>4, <4>1, <4>2, <4>3, <4>4 DEF Effect
    <3> QED BY <2>2, <3>1, <3>3 DEF HInv
  <2> QED BY <2>3, <2>4
<1> QED BY <1>2, <1>3

-----------------------------------------------------------------------------
(* Theorems.                                                                  *)

\* The inductive invariant of this module holds at every step of every guest
\* without `throw;`, with the one of GuestEHProofs.
THEOREM HandlerInvariance == ASSUME ~Rethrows PROVE Spec => [](Inv /\ HInv)
<1>1. Inv /\ HInv /\ [Next]_vars => (Inv /\ HInv)'
  BY InvNext, HInvNext
<1> QED BY <1>1, InvInit, HInvInit, PTL DEF Spec

\* An exception with a handler reaches it: whatever the cleanups on the way throw
\* and catch, phase two of guest_eh.c never runs off the shadow stack, and what
\* _Unwind_Resume continues at is not below the handler.
THEOREM HandlerStaysAhead == ASSUME ~Rethrows PROVE Spec => []HandlerAhead
<1>1. Inv /\ HInv => HandlerAhead
  <2> SUFFICES ASSUME Inv, HInv PROVE HandlerAhead
    OBVIOUS
  <2>1. mode # "nohandler" /\ Goals /\ Pending /\ PhaseTwo
    BY DEF HInv, Ahead
  <2>2. ASSUME NEW e \in Exc, Found(e)
        PROVE  /\ Eh(exc[e].goal)
               /\ FrameAction(exc[e].goal, exc[e].type, TRUE) = "catch"
               /\ mode = "unwind" /\ flying = e => cursor >= exc[e].goal
               /\ \A i \in 1..N : stack[i].pc = "cleanup" /\ stack[i].obj = e =>
                     exc[e].resume >= exc[e].goal
    <3>1. exc[e].goal \in 1..N /\ Catches(exc[e].goal, exc[e].type)
      BY <2>1, <2>2 DEF Goals
    <3>2. Eh(exc[e].goal) /\ FrameAction(exc[e].goal, exc[e].type, TRUE) = "catch"
      BY <3>1 DEF Eh, Catches, FrameAction
    <3>3. mode = "unwind" /\ flying = e => cursor >= exc[e].goal
      <4>1. cursor \in Nat /\ exc[e].goal \in Nat
        BY <2>2, Fields DEF Inv, TypeOK
      <4> QED BY <2>1, <4>1 DEF PhaseTwo
    <3>4. ASSUME NEW i \in 1..N, stack[i].pc = "cleanup", stack[i].obj = e
          PROVE  exc[e].resume >= exc[e].goal
      <4>1. exc[e].goal <= stack[i].prev /\ exc[e].resume = stack[i].prev
        BY <2>1, <3>4 DEF Pending, Inv, Pads
      <4>2. exc[e].goal \in Nat /\ stack[i].prev \in Nat
        BY <2>2, Fields DEF Inv
      <4> QED BY <4>1, <4>2
    <3> QED BY <3>2, <3>3, <3>4
  <2> QED BY <2>1, <2>2 DEF HandlerAhead
<1> QED BY <1>1, HandlerInvariance, PTL

\* __cxa_end_catch ends the exception of the block it is called in, however catch
\* blocks, destructors and landing pads nest; and __cxa_uncaught_exceptions counts
\* the exceptions on their way.
THEOREM HandlersStayInOrder == ASSUME ~Rethrows PROVE Spec => []HandlersInOrder
<1>1. HInv => HandlersInOrder
  BY DEF HInv, Blocks, Counts, Tally, Thrown, HandlersInOrder
<1> QED BY <1>1, HandlerInvariance, PTL

\* An exception object is freed exactly when the last that holds it is done: no
\* landing cuts off the only function that would have freed one.
THEOREM NothingLeaks == ASSUME ~Rethrows PROVE Spec => []OwnedIffLive
<1>1. Inv /\ HInv => OwnedIffLive
  <2> SUFFICES ASSUME Inv, HInv, NEW e \in Exc PROVE exc[e].live <=> Owned(e)
    BY DEF OwnedIffLive
  <2>1. exc[e].live => Owned(e)
    BY DEF HInv, Kept
  <2>2. Owned(e) => exc[e].live
    <3>1. NoExc \notin Exc /\ caught \in Seq(Exc)
      BY Fields DEF Inv, TypeOK
    <3>2. e \in ToSet(caught) => \E k \in 1..Len(caught) : caught[k] = e
      BY <3>1 DEF ToSet
    <3> QED BY <3>1, <3>2 DEF Owned, Inv, Holders, HeldIsLive
  <2> QED BY <2>1, <2>2
<1> QED BY <1>1, HandlerInvariance, PTL

\* Where _Unwind_Resume falls back on g_in_flight, that is the exception whose
\* cleanup is ending.
THEOREM FallbackIsRight == ASSUME ~Rethrows PROVE Spec => []FallbackAgrees
<1>1. Inv /\ HInv => FallbackAgrees
  <2> SUFFICES ASSUME Inv, HInv, PadDone, Me.pc = "cleanup" PROVE inFlight \in {Me.obj, NoExc}
    BY DEF FallbackAgrees
  <2>1. N \in 1..N /\ \A j \in N + 1..N : FALSE
    BY Fields DEF PadDone, Inv
  <2> QED BY <2>1 DEF HInv, Falls, Me
<1> QED BY <1>1, HandlerInvariance, PTL
=============================================================================
