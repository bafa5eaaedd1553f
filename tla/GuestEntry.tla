----------------------------- MODULE GuestEntry ------------------------------
(* Entering and leaving the translated program: guest_init and guest_fini of   *)
(* runtime/guest_rt.c, as the entry points lib/unit.py emits call them.        *)
(*                                                                             *)
(* The host calls an entry point on some thread; translated code runs and may  *)
(* reach an entry point again, on the same thread.  Each call has a cpu_t of   *)
(* its own, named here by its depth.  The guest stack is memory that only the  *)
(* calls using it write; a word of it holds the depth of the call that did.    *)
EXTENDS Naturals, Sequences, FiniteSets

CONSTANTS
    Thread,
    Stack,      \* the memory guest_stack_alloc hands out
    NoStack,    \* g_stack.base = NULL
    MaxCalls,   \* bound on entries nested on a thread
    MaxWords,   \* bound on what a call pushes
    Nested      \* does translated code reach entry points

ASSUME GuestEntryAssumption ==
    /\ NoStack \notin Stack
    /\ MaxCalls \in Nat \ {0}
    /\ MaxWords \in Nat
    /\ Nested \in BOOLEAN

VARIABLES
    calls,      \* per thread: the entries in progress, outermost first
    current,    \* per thread: g_current_cpu, 0 for NULL
    depth,      \* per thread: g_depth
    gstack,     \* per thread: g_stack.base
    memory,     \* the contents of the stacks
    ehTop,      \* g_eh_top: the call whose exception frame it is, or <<>>
    ctorsDone,  \* g_ctors_done
    ctorsRun    \* how often the constructors were started, and have finished

entryVars == <<calls, current, depth, gstack, memory, ehTop, ctorsDone, ctorsRun>>

\* An entry: where it is (guest_init's test of g_ctors_done, the assignment, the
\* constructors, the function), the words it has pushed since SP was set, and
\* the exception frame of its function, as the value it found in g_eh_top.
Entry == [pc : {"test", "set", "ctors", "body"}, sp : 0..MaxWords,
          eh : {<<>>} \cup {<<p>> : p \in {<<>>} \cup (Thread \X (1..MaxCalls))}]

Level(t) == Len(calls[t])
Top(t) == calls[t][Level(t)]
Running(t) == Level(t) > 0 /\ Top(t).pc \in {"ctors", "body"}

EntryInit ==
    /\ calls = [t \in Thread |-> <<>>]
    /\ current = [t \in Thread |-> 0]
    /\ depth = [t \in Thread |-> 0]
    /\ gstack = [t \in Thread |-> NoStack]
    /\ memory = [s \in Stack |-> [w \in 1..MaxWords |-> 0]]
    /\ ehTop = <<>>
    /\ ctorsDone = FALSE
    /\ ctorsRun = [started |-> 0, finished |-> 0]

\* The stacks guest_stack_alloc may hand out: mmap never gives the same twice.
FreeStack == {s \in Stack : \A u \in Thread : gstack[u] # s}

\* guest_init up to the test: the new state is the current one, the outermost
\* call maps a stack, and SP is the top of the thread's stack whatever was there.
Enter(t) ==
    /\ Level(t) = 0 \/ (Nested /\ Running(t))
    /\ Level(t) < MaxCalls
    /\ calls' = [calls EXCEPT ![t] = Append(@, [pc |-> "test", sp |-> 0, eh |-> <<>>])]
    /\ current' = [current EXCEPT ![t] = Level(t) + 1]
    /\ \/ /\ depth[t] = 0
          /\ \E s \in FreeStack : gstack' = [gstack EXCEPT ![t] = s]
       \/ /\ depth[t] # 0
          /\ UNCHANGED gstack
    /\ depth' = [depth EXCEPT ![t] = @ + 1]
    /\ UNCHANGED <<memory, ehTop, ctorsDone, ctorsRun>>

\* if (!g_ctors_done)
TestCtors(t) ==
    /\ Level(t) > 0
    /\ Top(t).pc = "test"
    /\ calls' = [calls EXCEPT ![t][Level(t)].pc = IF ctorsDone THEN "body" ELSE "set"]
    /\ UNCHANGED <<current, depth, gstack, memory, ehTop, ctorsDone, ctorsRun>>

\* Slip: the flag is left for later.
StartCtorsUnflagged(t) ==
    /\ Level(t) > 0
    /\ Top(t).pc = "set"
    /\ ctorsRun' = [ctorsRun EXCEPT !.started = @ + 1]
    /\ calls' = [calls EXCEPT ![t][Level(t)].pc = "ctors"]
    /\ UNCHANGED <<current, depth, gstack, memory, ehTop, ctorsDone>>

\* g_ctors_done = 1; guest_run_ctors(cpu) begins.
StartCtors(t) ==
    /\ Level(t) > 0
    /\ Top(t).pc = "set"
    /\ ctorsDone' = TRUE
    /\ ctorsRun' = [ctorsRun EXCEPT !.started = @ + 1]
    /\ calls' = [calls EXCEPT ![t][Level(t)].pc = "ctors"]
    /\ UNCHANGED <<current, depth, gstack, memory, ehTop>>

\* The constructors return; the state is wiped and SP set again.
EndCtors(t) ==
    /\ Level(t) > 0
    /\ Top(t).pc = "ctors"
    /\ Top(t).eh = <<>>
    /\ ctorsRun' = [ctorsRun EXCEPT !.finished = @ + 1]
    /\ calls' = [calls EXCEPT ![t][Level(t)].pc = "body", ![t][Level(t)].sp = 0]
    /\ UNCHANGED <<current, depth, gstack, memory, ehTop, ctorsDone>>

\* Translated code pushes a word on the guest stack, or pops one.
PushWord(t) ==
    /\ Running(t)
    /\ Top(t).sp < MaxWords
    /\ memory' = [memory EXCEPT ![gstack[t]][Top(t).sp + 1] = Level(t)]
    /\ calls' = [calls EXCEPT ![t][Level(t)].sp = @ + 1]
    /\ UNCHANGED <<current, depth, gstack, ehTop, ctorsDone, ctorsRun>>

PopWord(t) ==
    /\ Running(t)
    /\ Top(t).sp > 0
    /\ calls' = [calls EXCEPT ![t][Level(t)].sp = @ - 1]
    /\ UNCHANGED <<current, depth, gstack, memory, ehTop, ctorsDone, ctorsRun>>

\* Its function has an LSDA: guest_eh_push, and guest_eh_pop when it returns.
PushFrame(t) ==
    /\ Running(t)
    /\ Top(t).eh = <<>>
    /\ calls' = [calls EXCEPT ![t][Level(t)].eh = <<ehTop>>]
    /\ ehTop' = <<t, Level(t)>>
    /\ UNCHANGED <<current, depth, gstack, memory, ctorsDone, ctorsRun>>

PopFrame(t) ==
    /\ Running(t)
    /\ Top(t).eh # <<>>
    /\ calls' = [calls EXCEPT ![t][Level(t)].eh = <<>>]
    /\ ehTop' = Head(Top(t).eh)
    /\ UNCHANGED <<current, depth, gstack, memory, ctorsDone, ctorsRun>>

\* --g_depth, and whether that was the outermost call.
LevelDown(t) == [depth EXCEPT ![t] = @ - 1]
EveryLevel(t) == TRUE                           \* Slip: every call cleans up.
Outermost(t) == depth[t] = 1

\* guest_fini, at the end of an entry point.
Leave(t) ==
    /\ Level(t) > 0
    /\ Top(t).pc = "body"
    /\ Top(t).sp = 0
    /\ Top(t).eh = <<>>
    /\ depth' = LevelDown(t)
    /\ IF Outermost(t)
       THEN ehTop' = <<>> /\ gstack' = [gstack EXCEPT ![t] = NoStack]
       ELSE UNCHANGED <<ehTop, gstack>>
    /\ calls' = [calls EXCEPT ![t] = SubSeq(@, 1, Level(t) - 1)]
    /\ UNCHANGED <<current, memory, ctorsDone, ctorsRun>>

EntryNext ==
    \E t \in Thread :
        \/ Enter(t) \/ TestCtors(t) \/ StartCtors(t) \/ EndCtors(t)
        \/ PushWord(t) \/ PopWord(t) \/ PushFrame(t) \/ PopFrame(t)
        \/ Leave(t)

EntrySpec == EntryInit /\ [][EntryNext]_entryVars

-----------------------------------------------------------------------------
(* Properties.                                                                 *)

\* "nested and concurrent entries do not share a guest stack": the words a call
\* has pushed stay its own until it pops them.
FramesIntact ==
    \A t \in Thread : \A l \in 1..Level(t) : \A w \in 1..calls[t][l].sp :
        memory[gstack[t]][w] = l

\* The constructors are run once in the life of the process, also if one of them
\* reaches an entry point, and first: only their own calls see the program before
\* they are over.
CtorsOnceAndFirst ==
    /\ ctorsRun.started <= 1
    /\ \A t \in Thread : \A l \in 1..Level(t) :
           calls[t][l].pc = "body" /\ (\A m \in 1..l : calls[t][m].pc # "ctors") =>
               ctorsRun.finished = 1

\* A nested entry that ends gives the outer one everything back: its stack, and
\* g_eh_top, the exception frame of the innermost entry that has one.
NestedEntriesRestore ==
    \A t \in Thread :
        /\ depth[t] = Level(t)
        /\ gstack[t] # NoStack <=> Level(t) > 0
        /\ LET framed == {l \in 1..Level(t) : calls[t][l].eh # <<>>}
           IN  IF framed = {} THEN ehTop = <<>>
               ELSE \E l \in framed : ehTop = <<t, l>> /\ \A m \in framed : m <= l
=============================================================================
