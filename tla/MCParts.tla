------------------------------- MODULE MCParts --------------------------------
(* Six parts of the project that share no state, so that a behaviour of all of   *)
(* them is one of each: translating a program, entering the guest, its flags,    *)
(* variable arguments, the matching of exceptions and the workers of glslc.  One *)
(* moves in a behaviour, and the others are at rest.                             *)
EXTENDS MCElf2c, GuestEntry, Flags, Arguments, Matching, Workers

VARIABLE part       \* the one that moves

runtimeVars == <<entryVars, flagVars, argVars, matchVars>>
partVars == <<part, vars, runtimeVars, workVars>>

MatchRest ==
    /\ bases = [c \in Class |-> <<>>] /\ records = <<>> /\ thrown = 1 /\ wantHandler = FALSE
    /\ left = <<>> /\ guard = 0 /\ sawCleanup = FALSE /\ result = Pending

WorkRest ==
    /\ n_inputs = 1 /\ nworkers = 1 /\ fork = TRUE /\ bad = {} /\ killed = FALSE
    /\ parent = [pc |-> "rest", at |-> 0, started |-> 0, file |-> 0, rc |-> 0]
    /\ worker = [w \in {0} |-> [pc |-> "none", file |-> w, rc |-> 0]]
    /\ tries = [f \in {0} |-> 0] /\ made = [f \in {0} |-> 0]

AnyProgram == CHOOSE p \in Programs : TRUE

PartsInit ==
    /\ part \in {"elf2c", "entry", "flags", "arguments", "matching", "workers"}
    /\ EntryInit /\ FlagsInit /\ ArgInit
    /\ Init /\ (part = "elf2c" \/ prog = AnyProgram)
    /\ IF part = "matching" THEN MatchInit ELSE MatchRest
    /\ IF part = "workers" THEN WorkInit ELSE WorkRest

Elf2cMoves ==
    /\ part = "elf2c" /\ Next
    /\ UNCHANGED <<part, runtimeVars, workVars>>
EntryMoves ==
    /\ part = "entry" /\ EntryNext
    /\ UNCHANGED <<part, vars, flagVars, argVars, matchVars, workVars>>
FlagsMove ==
    /\ part = "flags" /\ FlagsNext
    /\ UNCHANGED <<part, vars, entryVars, argVars, matchVars, workVars>>
ArgumentsMove ==
    /\ part = "arguments" /\ ArgNext
    /\ UNCHANGED <<part, vars, entryVars, flagVars, matchVars, workVars>>
MatchingMoves ==
    /\ part = "matching" /\ MatchNext
    /\ UNCHANGED <<part, vars, entryVars, flagVars, argVars, workVars>>
WorkersMove ==
    /\ part = "workers" /\ WorkNext
    /\ UNCHANGED <<part, vars, runtimeVars>>

PartsNext ==
    \/ Elf2cMoves \/ EntryMoves \/ FlagsMove \/ ArgumentsMove \/ MatchingMoves \/ WorkersMove

PartsSpec == PartsInit /\ [][PartsNext]_partVars
=============================================================================
