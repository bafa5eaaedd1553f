------------------------------ MODULE Rebuild -------------------------------
(* From a binary to a library: analyze.py fills the cache, elf2c.py reads it   *)
(* and writes the tree, make builds the library.  One runs at a time; each may *)
(* be cut short and run again, and the binary may be replaced by a later build.*)
EXTENDS LiftCache, OutputTree

CONSTANT InputOf    \* for each binary and base: the input the tree is made from

ASSUME RebuildAssumption == \A b \in Binary : \A base \in Base : InputOf[b][base] \in Input

rebuildVars == <<cacheVars, treeVars, cuts>>

RInit == CacheInit /\ TreeInit /\ cuts = 0

AllIdle == an.pc = "idle" /\ TreeIdle

\* python3 analyze.py <binary> <cache> [base].
Analyze ==
    /\ Analyse \/ (AllIdle /\ \E b \in Base : AnalyseStart(b))
    /\ UNCHANGED <<treeVars, cuts>>

\* python3 elf2c.py <binary> --cache <cache> [--base base]: Ctx, and then the rest.
Elf2cStart(given) ==
    /\ AllIdle
    /\ LoadCache(given)
    /\ IF lifted'.verdict = "accepted"
       THEN GenerateStart(InputOf[binary][lifted'.image.base])
       ELSE UNCHANGED treeVars

Elf2c ==
    /\ \/ Generate /\ UNCHANGED cacheVars
       \/ \E b \in Base \cup {NoBase} : Elf2cStart(b)
    /\ UNCHANGED cuts

\* make.
MakeRuns ==
    /\ Make \/ (AllIdle /\ MakeStart)
    /\ UNCHANGED <<cacheVars, cuts>>

Replace ==
    /\ TreeIdle
    /\ \E b \in Binary : ReplaceBinary(b)
    /\ UNCHANGED <<treeVars, cuts>>

CutShort ==
    \/ AnalyseCut /\ UNCHANGED treeVars
    \/ (GenerateCut \/ MakeCut) /\ UNCHANGED cacheVars

RNext == Analyze \/ Elf2c \/ MakeRuns \/ Replace \/ CutShort

RSpec == RInit /\ [][RNext]_rebuildVars

-----------------------------------------------------------------------------
(* Fairness.  A run that is started goes on unless it is cut short.  Whoever   *)
(* uses the tools analyses again when elf2c.py refuses the cache, as its       *)
(* message says, and generates and makes until there is a library.             *)

OfBinary == \E base \in Base : complete = InputOf[binary][base]

Advised == lifted.verdict = "refused" /\ Analyze
Needed == ~OfBinary /\ Elf2c
Wanted == OfBinary /\ ~built /\ MakeRuns

GoesOn == (Analyse /\ UNCHANGED treeVars) \/ ((Generate \/ Make) /\ UNCHANGED cacheVars)

FairSpec ==
    /\ RSpec
    /\ WF_rebuildVars(GoesOn /\ UNCHANGED cuts)
    /\ SF_rebuildVars(Advised) /\ SF_rebuildVars(Needed) /\ SF_rebuildVars(Wanted)

\* The variables of both modules stay in their domains.
RebuildTypeOK == CacheTypeOK /\ TreeTypeOK

\* However the runs are cut short, there is a library of the binary again in the
\* end: no file left behind stops the next run or makes it skip what it must do.
Recovers == []<>(OfBinary /\ built)
=============================================================================
