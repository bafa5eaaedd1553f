------------------------------- MODULE Workers --------------------------------
(* glslc compiling a folder with several processes (tools/glslc_cli.c, main).    *)
(* Worker w of n takes the files w, w + n, w + 2n and so on.  Where there is     *)
(* fork() a worker is a child; on Windows it is the program started once more    *)
(* with --mt-shard, and the parent compiles what a worker that could not be      *)
(* started would have taken.  A worker may be killed and a compilation may stop  *)
(* the process it runs in.                                                      *)
EXTENDS Naturals

CONSTANTS
    Inputs,     \* the sizes of folders looked at
    Cores       \* the numbers of processes: perf_cores(), =N, or 1 without the flag

ASSUME WorkersAssumption == Inputs \subseteq Nat \ {0} /\ Cores \subseteq Nat \ {0}

VARIABLES
    n_inputs,   \* how many files there are
    nworkers,
    fork,       \* is there fork()
    bad,        \* the files the compiler rejects
    parent,     \* where it is, the worker it is at, those it has started, its rc
    worker,     \* per worker: where it is, the file it is at, its exit status
    tries, made,\* per file: how often it was compiled, and compiled well
    killed      \* (history) some process stopped before its end

workVars == <<n_inputs, nworkers, fork, bad, parent, worker, tries, made, killed>>
folder   == <<n_inputs, nworkers, fork, bad>>

NWorkers(cores, n) == IF cores < n THEN cores ELSE n

\* Worker w's first file is w, counted from 0.
WorkInit ==
    /\ n_inputs \in Inputs /\ fork \in BOOLEAN /\ bad \in SUBSET (0 .. n_inputs - 1)
    /\ \E c \in Cores : nworkers = NWorkers(c, n_inputs)
    /\ parent = [pc |-> IF nworkers > 1 THEN "start" ELSE "rest", at |-> 0, started |-> 0,
                 file |-> 0, rc |-> 0]
    /\ worker = [w \in 0 .. nworkers - 1 |-> [pc |-> "none", file |-> w, rc |-> 0]]
    /\ tries = [f \in 0 .. n_inputs - 1 |-> 0]
    /\ made = [f \in 0 .. n_inputs - 1 |-> 0]
    /\ killed = FALSE

\* compile_and_dump of one file.
Compile(f) ==
    /\ tries' = [tries EXCEPT ![f] = @ + 1]
    /\ made' = [made EXCEPT ![f] = IF f \in bad THEN @ ELSE @ + 1]
Failed(f, rc) == IF f \in bad THEN 1 ELSE rc

-----------------------------------------------------------------------------
(* The parent.                                                                *)

StartWorker ==
    /\ parent.pc = "start" /\ parent.at < nworkers
    /\ worker' = [worker EXCEPT ![parent.at].pc = "run"]
    /\ parent' = [parent EXCEPT !.at = @ + 1, !.started = @ + 1]
    /\ UNCHANGED <<folder, tries, made, killed>>

\* fork fails: die.  CreateProcess fails: the rest is left for later.
StartFails ==
    /\ parent.pc = "start" /\ parent.at < nworkers
    /\ parent' = [parent EXCEPT !.pc = IF fork THEN "exited" ELSE "wait", !.at = 0, !.rc = 1]
    /\ UNCHANGED <<folder, worker, tries, made, killed>>

AllStarted ==
    /\ parent.pc = "start" /\ parent.at = nworkers
    /\ parent' = [parent EXCEPT !.pc = "wait", !.at = 0]
    /\ UNCHANGED <<folder, worker, tries, made, killed>>

\* waitpid, or WaitForSingleObject: the workers in the order they were started.
LastStatus == IF worker[parent.at].rc = 0 THEN 0 ELSE 1         \* Slip.
Status == IF worker[parent.at].rc = 0 THEN parent.rc ELSE 1
Collect ==
    /\ parent.pc = "wait" /\ parent.at < parent.started
    /\ worker[parent.at].pc = "exited"
    /\ parent' = [parent EXCEPT !.at = @ + 1, !.rc = Status]
    /\ UNCHANGED <<folder, worker, tries, made, killed>>

AllCollected ==
    /\ parent.pc = "wait" /\ parent.at = parent.started
    /\ parent' = [parent EXCEPT
                     !.pc = IF parent.started < nworkers THEN "rest" ELSE "exited",
                     !.file = parent.started]
    /\ UNCHANGED <<folder, worker, tries, made, killed>>

\* The files of the workers from the first that is missing on; with one core, all.
RestStep == IF nworkers > 1 THEN nworkers ELSE 1
CompileRest ==
    /\ parent.pc = "rest" /\ parent.at < nworkers /\ parent.file < n_inputs
    /\ Compile(parent.file)
    /\ parent' = [parent EXCEPT !.file = @ + RestStep, !.rc = Failed(parent.file, @)]
    /\ UNCHANGED <<folder, worker, killed>>

NextShard ==
    /\ parent.pc = "rest" /\ parent.at < nworkers /\ parent.file >= n_inputs
    /\ parent' = [parent EXCEPT !.at = @ + 1, !.file = parent.at + 1]
    /\ UNCHANGED <<folder, worker, tries, made, killed>>

RestDone ==
    /\ parent.pc = "rest" /\ parent.at = nworkers
    /\ parent' = [parent EXCEPT !.pc = "exited"]
    /\ UNCHANGED <<folder, worker, tries, made, killed>>

-----------------------------------------------------------------------------
(* A worker.                                                                  *)

WorkerCompiles(w) ==
    /\ worker[w].pc = "run" /\ worker[w].file < n_inputs
    /\ Compile(worker[w].file)
    /\ worker' = [worker EXCEPT ![w].file = @ + nworkers, ![w].rc = Failed(worker[w].file, @)]
    /\ UNCHANGED <<folder, parent, killed>>

WorkerExits(w) ==
    /\ worker[w].pc = "run" /\ worker[w].file >= n_inputs
    /\ worker' = [worker EXCEPT ![w].pc = "exited"]
    /\ UNCHANGED <<folder, parent, tries, made, killed>>

\* die, or a signal.
Stops(w) ==
    /\ worker[w].pc = "run"
    /\ worker' = [worker EXCEPT ![w].pc = "exited", ![w].rc = 1]
    /\ killed' = TRUE
    /\ UNCHANGED <<folder, parent, tries, made>>

\* The compiler runs inside the parent too.
ParentStops ==
    /\ parent.pc = "rest" /\ parent.at < nworkers
    /\ parent' = [parent EXCEPT !.pc = "exited", !.rc = 1]
    /\ killed' = TRUE
    /\ UNCHANGED <<folder, worker, tries, made>>

Parent ==
    \/ StartWorker \/ StartFails \/ AllStarted
    \/ Collect \/ AllCollected
    \/ CompileRest \/ NextShard \/ RestDone \/ ParentStops

\* Every process has exited.
AllOver ==
    /\ parent.pc = "exited" /\ \A w \in DOMAIN worker : worker[w].pc # "run"
    /\ UNCHANGED workVars

WorkNext ==
    \/ Parent \/ AllOver
    \/ \E w \in DOMAIN worker : WorkerCompiles(w) \/ WorkerExits(w) \/ Stops(w)

WorkSpec == WorkInit /\ [][WorkNext]_workVars

-----------------------------------------------------------------------------
(* Properties.                                                                 *)

\* Where fork fails the parent gives up, and children may still be at work.
GaveUp == fork /\ nworkers > 1 /\ parent.started < nworkers

\* Whoever takes a file, no other process compiles it as well; a parent that reports
\* success has every file compiled; and a file the compiler rejects, or a worker that
\* cannot be started where there is no fork, keeps no other file from its turn.
WholeFolder ==
    /\ \A f \in DOMAIN tries : tries[f] <= 1
    /\ parent.pc = "exited" =>
          /\ parent.rc = 0 => \A f \in DOMAIN made : made[f] = 1
          /\ ~killed /\ ~GaveUp => \A f \in DOMAIN tries : tries[f] = 1
=============================================================================
