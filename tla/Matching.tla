------------------------------ MODULE Matching --------------------------------
(* What lsda_lookup of runtime/guest_eh.c makes of a call site: the chain of     *)
(* action records the compiler wrote for its try blocks, the classes they name,  *)
(* and the search of ti_matches through the bases of the class that was thrown.  *)
(* GuestEH has for all this a site that catches a set of types.                  *)
EXTENDS Naturals, Sequences

CONSTANTS
    Classes,        \* how many classes there are; one is derived from smaller ones
    MaxDepth,       \* ti_matches: 32
    MaxBases,       \* ti_matches: 1024
    MaxRecords,     \* lsda_lookup: 4096
    Width,          \* bound on the bases of a class
    Chain           \* bound on the records of a call site

\* No class, no table of bases and no chain is beyond what the two searches go to.
ASSUME MatchingAssumption ==
    /\ Classes \in Nat /\ MaxDepth \in Nat /\ Classes <= MaxDepth + 2
    /\ MaxBases \in Nat /\ Width \in Nat /\ Width <= MaxBases
    /\ MaxRecords \in Nat /\ Chain \in Nat /\ Chain <= MaxRecords

VARIABLES
    bases,          \* for each class: __vmi_class_type_info, or one of the simpler two
    records,        \* the action records of the call site, in the order of the chain
    thrown,         \* the class of the exception
    wantHandler,    \* is it find_handler that asks, or unwind_from
    left,           \* the records that are still to be looked at
    guard, sawCleanup,
    result          \* the action, its selector in terms of records; or Pending

matchVars == <<bases, records, thrown, wantHandler, left, guard, sawCleanup, result>>

Class == 1..Classes
CatchAll == 0
Record   == [kind : {"catch"}, class : {CatchAll} \cup Class]
            \cup [kind : {"cleanup", "specification"}, class : {CatchAll}]
Pending  == [found |-> "pending", record |-> 0]
Nothing  == [found |-> "none", record |-> 0]

Base == [class : Class, public : BOOLEAN]
BasesOf(c) == UNION {[1..n -> {b \in Base : b.class < c}] : n \in 0..Width}

-----------------------------------------------------------------------------

\* ti_matches: is one of the public bases of a class, or of theirs, the one wanted.  A
\* class with too many bases is taken to have none.
EveryBase(b) == TRUE                            \* Slip: no VMI_PUBLIC_MASK.
Reachable(b) == b.public
Matches(caught) ==
    LET at[d \in 0 .. MaxDepth + 1] == [c \in Class |->
            \/ c = caught
            \/ /\ d <= MaxDepth
               /\ Len(bases[c]) <= MaxBases
               /\ \E i \in 1..Len(bases[c]) :
                     Reachable(bases[c][i]) /\ at[d + 1][bases[c][i].class]]
    IN  caught = CatchAll \/ at[0][thrown]

MatchInit ==
    /\ bases \in {f \in [Class -> BasesOf(Classes)] :
                      \A c \in Class : f[c] \in BasesOf(c)}
    /\ records \in UNION {[1..n -> Record] : n \in 0..Chain}
    /\ thrown \in Class
    /\ wantHandler \in BOOLEAN
    /\ left = records /\ guard = 0 /\ sawCleanup = FALSE
    /\ result = Pending

\* A call site with a landing pad and no records is a cleanup.
PureCleanup ==
    /\ result = Pending /\ records = <<>>
    /\ result' = IF wantHandler THEN Nothing ELSE [found |-> "cleanup", record |-> 0]
    /\ UNCHANGED <<bases, records, thrown, wantHandler, left, guard, sawCleanup>>

\* One round of the loop over the records.
Current == Len(records) - Len(left) + 1
LookAt ==
    /\ result = Pending /\ left # <<>> /\ guard < MaxRecords
    /\ left' = Tail(left) /\ guard' = guard + 1
    /\ sawCleanup' = (sawCleanup \/ Head(left).kind = "cleanup")
    /\ result' = IF Head(left).kind = "catch" /\ Matches(Head(left).class)
                 THEN [found |-> "catch", record |-> Current]
                 ELSE Pending
    /\ UNCHANGED <<bases, records, thrown, wantHandler>>

\* The chain, or the patience of the loop, is at its end.
ChainEnds ==
    /\ result = Pending /\ records # <<>> /\ (left = <<>> \/ guard = MaxRecords)
    /\ result' = IF sawCleanup /\ ~wantHandler THEN [found |-> "cleanup", record |-> 0]
                 ELSE Nothing
    /\ UNCHANGED <<bases, records, thrown, wantHandler, left, guard, sawCleanup>>

Decided == result # Pending /\ UNCHANGED matchVars

MatchNext == PureCleanup \/ LookAt \/ ChainEnds \/ Decided

MatchSpec == MatchInit /\ [][MatchNext]_matchVars

-----------------------------------------------------------------------------
(* Properties.                                                                 *)

\* The classes a handler for one of them takes: what is derived from it publicly.
Closed(cs) == \A c \in Class : \A i \in 1..Len(bases[c]) :
    bases[c][i].public /\ bases[c][i].class \in cs => c \in cs
Derived(caught) == {c \in Class : \A cs \in SUBSET Class : caught \in cs /\ Closed(cs) => c \in cs}

Catches(r) ==
    IF r.kind # "catch" THEN {} ELSE IF r.class = CatchAll THEN Class ELSE Derived(r.class)

\* The lookup gives what GuestEH takes for the action of a site that catches the union
\* of the clauses' types: the handler, and of several the first that takes the class,
\* whichever of the two walks asks; else a cleanup if there is one and the walk is the
\* one that runs them.
LookupIsTheSite ==
    result # Pending =>
        LET takes == {i \in 1..Len(records) : thrown \in Catches(records[i])}
            cleanup == records = <<>> \/ \E i \in 1..Len(records) : records[i].kind = "cleanup"
        IN  CASE takes # {} -> /\ result.found = "catch"
                               /\ result.record \in takes
                               /\ \A i \in takes : result.record <= i
              [] takes = {} /\ cleanup /\ ~wantHandler -> result.found = "cleanup"
              [] OTHER -> result.found = "none"
=============================================================================
