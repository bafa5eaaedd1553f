------------------------------- MODULE Elf2c ---------------------------------
(* The translation pipeline (elf2c.py, lib/gen.py): from the functions a CFG   *)
(* recovery cached to a tree of C functions and a dispatch table.  A call in   *)
(* the tree is a C call, a branch inside a function a goto, and every computed *)
(* transfer a lookup in the table.  The tool runs as QUICKSTART.sh runs it,    *)
(* with --closure --rw-pointers --all, on one process and then with -j.        *)
(*                                                                             *)
(* The text is N instructions; imports, ignored start-up stubs and exception   *)
(* frames do not change where control goes and are left out.  Functions stay   *)
(* below TRIM_MIN_BLOCKS, so trimming changes nothing.                         *)
EXTENDS Integers, FiniteSets, Sequences, FiniteSetsExt, SequencesExt

CONSTANTS
    N,          \* instructions in the text
    Programs,   \* the programs translated
    Jobs        \* the worker processes of the second build

Addr == 1..N

Instruction == [op : {"plain", "takes", "branch", "jump", "call", "switch", "ret"},
                to : 0..N]

\* A program: its code; the block list the CFG cached for each function; the
\* exported functions; what the analyses of the tables and of the code found:
\* jump-table arms and landing pads, functions that are continuation blocks; and
\* the code addresses stored in the writable image.
Program(p) ==
    /\ p.code \in [Addr -> Instruction]
    /\ p.code[N].op \in {"jump", "switch", "ret"}
    /\ \A a \in Addr :
        p.code[a].to = 0 <=> p.code[a].op \in {"plain", "switch", "ret"}
    /\ DOMAIN p.cfg \subseteq Addr
    /\ \A f \in DOMAIN p.cfg : f \in p.cfg[f] /\ p.cfg[f] \subseteq Addr
    /\ p.exports \subseteq DOMAIN p.cfg \ p.false
    /\ p.false \subseteq DOMAIN p.cfg
    /\ p.arms \cup p.relocs \subseteq Addr

ASSUME Elf2cAssumption ==
    /\ N \in Nat \ {0}
    /\ IsFiniteSet(Jobs) /\ Cardinality(Jobs) > 1
    /\ \A p \in Programs : Program(p)

VARIABLES
    prog,       \* the program being translated
    procs,      \* the worker processes of this build, {} for a serial one
    phase,      \* the part of main() that runs
    work,       \* the worklist of the part: closure's stack, scan_work, batch
    ctx,        \* the Ctx of the parent
    wctx,       \* the Ctx of each worker, as it was forked
    funcs,      \* ctx.funcs: the functions of the cache
    seen,       \* closure's seen, then scan
    todo,
    forced,     \* ctx.forced_entries
    owned,      \* owned_by_other, ctx.owned_blocks
    armOwner,   \* ctx._arm_owner
    done,
    files,      \* src/fn: the function files
    table,      \* the dispatch table
    serial      \* the tree the serial build wrote, once it has

vars == <<prog, procs, phase, work, ctx, wctx, funcs, seen, todo, forced, owned,
          armOwner, done, files, table, serial>>

-----------------------------------------------------------------------------
\* Blocks.  A lifted block runs to the first branch, or stops short of `limit`.
Code(a) == prog.code[a]
Ends(a) == Code(a).op \notin {"plain", "takes"}
End(b, limit) == Min({x \in b..N : Ends(x) \/ x + 1 = limit})

\* next_block_start: the limit a block is lifted with in a function.
NextStart(b, blocks) == Min({x \in blocks : x > b} \cup {N + 1})
EndIn(b, blocks) == End(b, NextStart(b, blocks))

\* Where a block that ends at e goes by a constant other than a call; what it
\* calls; where its call returns.
Goes(e) == (IF Code(e).op \in {"branch", "jump"} THEN {Code(e).to} ELSE {}) \cup
           (IF Code(e).op \in {"branch", "plain", "takes"} THEN {e + 1} ELSE {})
Calls(e) == IF Code(e).op = "call" THEN {Code(e).to} ELSE {}
Returns(e) == IF Code(e).op = "call" THEN {e + 1} ELSE {}

\* The code constants of a block.
Takes(b, e) == {Code(x).to : x \in {y \in b..e : Code(y).op = "takes"}}

\* _walk_blocks: the blocks reached from `entry` by branches that do not lead to
\* another known function.
Walk(starts, entry) ==
    LET Step(a) == LET e == End(a, 0)
                   IN  {d \in Goes(e) : d \notin starts \/ d = entry} \cup Returns(e)
        reached[n \in 0..N] ==
            IF n = 0 THEN {entry}
            ELSE LET prev == reached[n - 1] IN prev \cup UNION {Step(a) : a \in prev}
    IN  reached[N]

-----------------------------------------------------------------------------
\* A set of addresses in ascending order.
Sorted(S) ==
    [i \in 1..Cardinality(S) |-> CHOOSE x \in S : Cardinality({y \in S : y < x}) = i - 1]

\* The context.  `order` is the insertion order of blocks_of; `entries` is
\* entry_blocks: the functions with re-entry cases and those cases, in order.
NewCtx ==
    [funcSet |-> DOMAIN prog.cfg, referenced |-> {}, potential |-> {},
     blocksOf |-> prog.cfg, order |-> Sorted(DOMAIN prog.cfg),
     entries |-> <<>>, deps |-> [a \in Addr |-> {}]]

Discover(c, a) ==
    IF a \in DOMAIN c.blocksOf THEN c
    ELSE [c EXCEPT !.blocksOf = [x \in DOMAIN @ \cup {a} |->
                                    IF x = a THEN Walk(c.funcSet, a) ELSE @[x]],
                   !.order = Append(@, a)]

\* call_name on each of D, in the function f.
CallName(c, f, D) ==
    [c EXCEPT !.funcSet = @ \cup D, !.referenced = @ \cup D, !.deps[f] = @ \cup D]

\* const_addr on each of V, in the function f; those of V in R are registered
\* when they are plausible targets.
ConstAddr(c, f, V, R) ==
    [c EXCEPT !.referenced = @ \cup (V \cap c.funcSet),
              !.potential = @ \cup {v \in (V \cap R) \ c.funcSet : v >= f}]

\* scan_function
ScanFunction(c0, f) ==
    LET c == Discover(c0, f)
        blocks == c.blocksOf[f]
        ends == {EndIn(b, blocks) : b \in blocks}
        taken == UNION {Takes(b, EndIn(b, blocks)) : b \in blocks}
        called == UNION {Calls(e) \cup ((Goes(e) \cup Returns(e)) \ blocks) : e \in ends}
    IN  CallName(ConstAddr(c, f, taken \cup UNION {Returns(e) : e \in ends}, taken),
                 f, called)

\* emit_function: the blocks of f, and how each transfer out of them is written.
\* goto_or_call and term choose a goto, a call or a lookup at run time.
Blocks(c, f) ==
    LET blocks == c.blocksOf[f]
        returns == UNION {Returns(EndIn(b, blocks)) : b \in blocks}
    IN  blocks \cup {r \in returns : r >= Min(blocks)} \cup forced[f] \cup armOwner[f]

Moves(blocks) ==
    LET ends == {EndIn(b, blocks) : b \in blocks}
        Out(d) == <<IF d \in owned THEN "dispatch" ELSE "call", d>>
        Go(d) == IF d \in blocks THEN <<"goto", d>> ELSE Out(d)
    IN  UNION {{Go(d) : d \in Goes(e) \cup Returns(e)} \cup {Out(d) : d \in Calls(e)} :
                e \in ends}

\* emit_function: what emitting f makes of the context of the process that does.
EmitFunction(c0, f) ==
    LET c == Discover(c0, f)
        blocks == Blocks(c, f)
        taken == UNION {Takes(b, EndIn(b, blocks)) \cup Returns(EndIn(b, blocks)) :
                            b \in blocks}
    IN  CallName(ConstAddr([c EXCEPT !.blocksOf[f] = blocks,
                                     !.entries = IF blocks = {f} THEN @ ELSE Append(@, <<f, blocks \ {f}>>)],
                           f, taken, taken),
                 f, {m[2] : m \in {x \in Moves(blocks) : x[1] = "call"}})

\* The file of a function: its labels and the transfers between and out of them,
\* the functions it declares, and the host it forwards to, if it is a stub.
Body(c, f) == [labels |-> c.blocksOf[f], moves |-> Moves(c.blocksOf[f]),
               deps |-> c.deps[f], host |-> 0]
Stub(h) == [labels |-> {}, moves |-> {}, deps |-> {h}, host |-> h]

\* FunctionWriter.write: the files with the one of f written.
Write(f, body) == [x \in DOMAIN files \cup {f} |-> IF x = f THEN body ELSE files[x]]

-----------------------------------------------------------------------------
\* main(), in the order it runs.
Init ==
    /\ prog \in Programs /\ procs = {} /\ serial = <<>>
    /\ phase = "closure" /\ work = Sorted(prog.exports)
    /\ ctx = NewCtx /\ wctx = <<>> /\ funcs = DOMAIN prog.cfg
    /\ seen = {} /\ todo = {} /\ owned = {}
    /\ forced = [a \in Addr |-> {}] /\ armOwner = [a \in Addr |-> {}]
    /\ done = {} /\ files = <<>> /\ table = <<>>

\* closure: depth first, over calls and over branches that leave the function.
Closure ==
    /\ phase = "closure" /\ work # <<>>
    /\ LET a == Last(work)
           c == Discover(ctx, a)
           blocks == c.blocksOf[a]
           Pushed(b) ==
             LET e == EndIn(b, blocks)
                 Outside(d) == IF d \in blocks THEN <<>> ELSE <<d>>
             IN  CASE Code(e).op = "call" -> <<Code(e).to>>
                   [] Code(e).op = "branch" -> Outside(e + 1) \o Outside(Code(e).to)
                   [] Code(e).op = "jump" -> Outside(Code(e).to)
                   [] Code(e).op \in {"plain", "takes"} -> Outside(e + 1)
                   [] OTHER -> <<>>
           order == Sorted(blocks)
       IN  IF a \in seen THEN work' = Front(work) /\ UNCHANGED <<seen, ctx>>
           ELSE /\ seen' = seen \cup {a}
                /\ ctx' = c
                /\ work' = Front(work) \o
                           FlattenSeq([i \in DOMAIN order |-> Pushed(order[i])])
    /\ UNCHANGED <<prog, procs, phase, wctx, funcs, todo, forced, owned, armOwner,
                   done, files, table, serial>>

\* Slip: the sweep looks past the end of the text.
SlipMissed ==
    LET known == UNION {{f} \cup ctx.blocksOf[f] : f \in DOMAIN ctx.blocksOf}
    IN  {a \in (2..N + 1) \ known : Code(a - 1).op \in {"jump", "switch", "ret"}}

\* sweep_missed_blocks: what follows an unconditional transfer and is in no block
\* list.
Missed ==
    LET known == UNION {{f} \cup ctx.blocksOf[f] : f \in DOMAIN ctx.blocksOf}
    IN  {a \in Addr \ known : a > 1 /\ Code(a - 1).op \in {"jump", "switch", "ret"}}

\* The rest of main() up to pass 1: todo is complete, the jump tables, the missed
\* blocks and the false starts are known, and every false start is folded into the
\* nearest function before it (reattach_false_starts).
Analyse ==
    /\ phase = "closure" /\ work = <<>>
    /\ LET real == DOMAIN prog.cfg \ prog.false
           below(a) == {f \in real : f < a}
           attached == {a \in prog.false : below(a) # {}}
           folded == [f \in Addr |-> {a \in attached : Max(below(a)) = f}]
           all == (DOMAIN prog.cfg \cup prog.exports \cup prog.relocs \cup seen \cup Missed)
                    \ prog.false
       IN  /\ funcs' = funcs \ attached
           /\ forced' = folded
           /\ todo' = all
           /\ ctx' = [ctx EXCEPT
                !.potential = @ \cup prog.arms,
                !.blocksOf = [f \in DOMAIN @ |-> @[f] \cup UNION {@[a] : a \in folded[f]}],
                !.funcSet = (@ \cup all) \ prog.false]
           /\ work' = Sorted(all)
    /\ phase' = "scan" /\ seen' = {}
    /\ UNCHANGED <<prog, procs, wctx, owned, armOwner, done, files, table, serial>>

\* Pass 1, one function at a time, in rounds over what it finds referenced.
Scan ==
    /\ phase = "scan" /\ work # <<>>
    /\ seen' = seen \cup {Head(work)}
    /\ ctx' = ScanFunction(ctx, Head(work))
    /\ work' = IF Tail(work) # <<>> THEN Tail(work) ELSE Sorted(ctx'.referenced \ seen')
    /\ UNCHANGED <<prog, procs, phase, wctx, funcs, todo, forced, owned, armOwner,
                   done, files, table, serial>>

\* Between the passes: an interior block of a function that something may branch
\* to is handed to the function that contains it, an arm no function contains is
\* translated standalone.
ContainedIn(a) == {f \in funcs : a \in prog.cfg[f] \ {f}}
Keepers(a) == {i \in DOMAIN ctx.order : a \in ctx.blocksOf[ctx.order[i]] \ {ctx.order[i]}}
Owner(a) == IF ContainedIn(a) # {} THEN Min(ContainedIn(a))
            ELSE IF Keepers(a) # {} THEN ctx.order[Min(Keepers(a))] ELSE 0

Orphans == {a \in prog.arms \ funcs : \A f \in funcs : a \notin prog.cfg[f]}

\* arms_owned_by: each target to the nearest function start at or before it.
ArmOwner(c) ==
    [f \in Addr |-> {a \in c.potential :
        \E S \in {{x \in c.funcSet : x <= a}} : f \in S /\ f = Max(S)}]

HandOver ==
    /\ phase = "scan" /\ work = <<>>
    /\ LET c == [ctx EXCEPT !.potential = @ \cup prog.relocs]
           handed == {a \in (c.potential \cup seen) \ funcs : Owner(a) # 0}
           given == [f \in Addr |-> forced[f] \cup {a \in handed : Owner(a) = f}]
           taken == UNION {given[f] : f \in Addr}
           batch == (todo \cup Orphans \cup c.referenced) \ taken
       IN  /\ ctx' = c
           /\ forced' = given /\ owned' = taken
           /\ todo' = batch /\ done' = batch /\ work' = Sorted(batch)
           /\ armOwner' = ArmOwner(c)
           /\ wctx' = [w \in procs |-> c]
    /\ phase' = "emit"
    /\ UNCHANGED <<prog, procs, funcs, seen, files, table, serial>>

\* Pass 2.  A serial build emits the batch itself.
Emit ==
    /\ phase = "emit" /\ work # <<>> /\ procs = {}
    /\ ctx' = EmitFunction(ctx, Head(work))
    /\ files' = Write(Head(work), Body(ctx', Head(work)))
    /\ work' = Tail(work)
    /\ UNCHANGED <<prog, procs, phase, wctx, funcs, seen, todo, forced, owned,
                   armOwner, done, table, serial>>

\* _merge, after a worker emitted f: sets are united, a block list is united with
\* the one the parent has.  What f declares comes with its file.
SlipNotReported(c, w) == c.referenced     \* Slip: a worker's references stay there.
MergeReferenced(c, w) == c.referenced \cup w.referenced

\* Slip: only a key the parent does not have is new.
SlipNewKeys(c, w, f) ==
    [x \in DOMAIN c.blocksOf \cup {f} |->
        IF x \in DOMAIN c.blocksOf THEN c.blocksOf[x] ELSE w.blocksOf[x]]
MergeBlocks(c, w, f) ==
    [x \in DOMAIN c.blocksOf \cup {f} |->
        UNION {k.blocksOf[x] : k \in {y \in {c} \cup (IF x = f THEN {w} ELSE {}) :
                                        x \in DOMAIN y.blocksOf}}]

Merge(c, w, f) ==
    [c EXCEPT
        !.funcSet = @ \cup w.funcSet,
        !.referenced = MergeReferenced(c, w),
        !.potential = @ \cup w.potential,
        !.blocksOf = MergeBlocks(c, w, f),
        !.entries = LET fs == {e \in Range(w.entries) : e[1] = f}
                    IN  IF fs = {} THEN @ ELSE Append(@, CHOOSE e \in fs : TRUE)]

\* With -j, any worker takes the next function of the batch.  It reads its own
\* context alone, and imap hands the results to the parent in the order of the
\* batch, so emitting and merging are one step.
EmitOne(w) ==
    /\ phase = "emit" /\ work # <<>> /\ w \in procs
    /\ LET f == Head(work)
       IN  /\ wctx' = [wctx EXCEPT ![w] = EmitFunction(@, f)]
           /\ ctx' = Merge(ctx, wctx'[w], f)
           /\ files' = Write(f, Body(wctx'[w], f))
    /\ work' = Tail(work)
    /\ UNCHANGED <<prog, procs, phase, funcs, seen, todo, forced, owned, armOwner,
                   done, table, serial>>

SlipAgain == ctx.referenced \ owned        \* Slip: what was emitted is not left out.

\* The next batch: what was referenced and is nobody's block.
Unemitted == (ctx.referenced \ done) \ owned

NextRound ==
    /\ phase = "emit" /\ work = <<>> /\ Unemitted # {}
    /\ done' = done \cup Unemitted
    /\ work' = Sorted(Unemitted)
    /\ UNCHANGED <<prog, procs, phase, ctx, wctx, funcs, seen, todo, forced, owned,
                   armOwner, files, table, serial>>

\* fold_subset_functions: a function all of whose blocks a better ranked one has
\* becomes a stub that enters that one.
Better(a, b) ==
    \/ Cardinality(ctx.blocksOf[a]) > Cardinality(ctx.blocksOf[b])
    \/ Cardinality(ctx.blocksOf[a]) = Cardinality(ctx.blocksOf[b]) /\ a < b

\* Slip: it is enough that the host has the block the function starts at.
SlipHolds(a, b) == b \in ctx.blocksOf[a]
Holds(a, b) == ctx.blocksOf[b] \subseteq ctx.blocksOf[a]
Hosts(b) == {a \in done : Cardinality(ctx.blocksOf[a]) > 1 /\ b \in ctx.blocksOf[a]
                          /\ Better(a, b) /\ Holds(a, b)}

\* A chain of hosts is collapsed to its root.
Root == LET root[b \in done] ==
                IF Hosts(b) = {} THEN b
                ELSE root[CHOOSE a \in Hosts(b) : \A x \in Hosts(b) \ {a} : Better(a, x)]
        IN  root

FoldSubsetFunctions ==
    /\ phase = "emit" /\ work = <<>> /\ Unemitted = {}
    /\ LET root == Root
       IN  files' = [f \in DOMAIN files |->
                        IF root[f] = f THEN files[f] ELSE Stub(root[f])]
    /\ phase' = "dispatch"
    /\ UNCHANGED <<prog, procs, work, ctx, wctx, funcs, seen, todo, forced, owned,
                   armOwner, done, table, serial>>

\* The dispatch table: an address that is a case of some function names the first
\* such function, with itself as the selector; any other emitted address names
\* its own function.  Only emitted functions have cases, so the re-chaining and
\* dropping of rows that follows finds none.
SlipRows == done                    \* Slip: the blocks inside functions get no row.
Rows == done \cup UNION {e[2] : e \in Range(ctx.entries)}
Claimants(a) == {i \in DOMAIN ctx.entries : a \in ctx.entries[i][2]}

EmitDispatch ==
    /\ phase = "dispatch"
    /\ table' = [a \in Rows |->
                    IF Claimants(a) = {} THEN [fn |-> a, sel |-> 0]
                    ELSE [fn |-> ctx.entries[Min(Claimants(a))][1], sel |-> a]]
    /\ phase' = "prune"
    /\ UNCHANGED <<prog, procs, work, ctx, wctx, funcs, seen, todo, forced, owned,
                   armOwner, done, files, serial>>

\* prune_unreachable: the files neither the table nor the entry points lead to.
Live ==
    LET named == {table[a].fn : a \in DOMAIN table} \cup prog.exports
        live[n \in 0..N] ==
            IF n = 0 THEN named \cap DOMAIN files
            ELSE LET prev == live[n - 1]
                 IN  prev \cup UNION {files[f].deps \cap DOMAIN files : f \in prev}
    IN  live[N]

PruneUnreachable ==
    /\ phase = "prune"
    /\ files' = [f \in Live |-> files[f]]
    /\ phase' = "done"
    /\ UNCHANGED <<prog, procs, work, ctx, wctx, funcs, seen, todo, forced, owned,
                   armOwner, done, table, serial>>

-----------------------------------------------------------------------------
\* The tool is run again on the same cache, with -j.
Tree == <<files, table>>

Rebuild ==
    /\ phase = "done" /\ procs = {}
    /\ procs' = Jobs /\ serial' = Tree
    /\ phase' = "closure" /\ work' = Sorted(prog.exports)
    /\ ctx' = NewCtx /\ wctx' = <<>> /\ funcs' = DOMAIN prog.cfg
    /\ seen' = {} /\ todo' = {} /\ owned' = {}
    /\ forced' = [a \in Addr |-> {}] /\ armOwner' = [a \in Addr |-> {}]
    /\ done' = {} /\ files' = <<>> /\ table' = <<>>
    /\ UNCHANGED prog

Finished == phase = "done" /\ procs = Jobs /\ UNCHANGED vars

Next == Closure \/ Analyse \/ Scan \/ HandOver \/ Emit \/ (\E w \in Jobs : EmitOne(w))
        \/ NextRound \/ FoldSubsetFunctions \/ EmitDispatch \/ PruneUnreachable
        \/ Rebuild \/ Finished

Spec == Init /\ [][Next]_vars

-----------------------------------------------------------------------------
Phases == {"closure", "scan", "emit", "dispatch", "prune", "done"}
Moving == {"goto", "call", "dispatch"} \X (1..N + 1)

\* Every variable has the values its comment gives it.
TypeOK ==
    /\ Program(prog) /\ procs \in {{}, Jobs} /\ phase \in Phases
    /\ work \in Seq(Addr) /\ funcs \subseteq Addr /\ seen \subseteq Addr
    /\ todo \subseteq Addr /\ owned \subseteq Addr /\ done \subseteq Addr
    /\ forced \in [Addr -> SUBSET Addr] /\ armOwner \in [Addr -> SUBSET Addr]
    /\ \A c \in {ctx} \cup Range(wctx) :
        /\ c.funcSet \cup c.referenced \cup c.potential \subseteq Addr
        /\ Range(c.order) \subseteq DOMAIN c.blocksOf /\ DOMAIN c.blocksOf \subseteq Addr
        /\ \A f \in DOMAIN c.blocksOf : f \in c.blocksOf[f] /\ c.blocksOf[f] \subseteq Addr
        /\ \A i \in DOMAIN c.entries : c.entries[i] \in Addr \X SUBSET Addr
        /\ c.deps \in [Addr -> SUBSET Addr]
    /\ DOMAIN files \subseteq done
    /\ \A f \in DOMAIN files :
        /\ files[f].labels \subseteq Addr /\ files[f].moves \subseteq Moving
        /\ files[f].deps \subseteq Addr /\ files[f].host \in 0..N
    /\ \A a \in DOMAIN table : table[a] \in [fn : Addr, sel : 0..N]

\* Where the C function of f starts, entered with selector s, or 0 when there is
\* no such function or it has no case for s.  A body of one block ignores its
\* selector; a stub enters its host, which is never a stub.
StartsAt(f, s) ==
    IF f \notin DOMAIN files THEN 0
    ELSE LET h == IF files[f].host = 0 THEN f ELSE files[f].host
             e == IF s = 0 THEN f ELSE s
             labels == IF h \in DOMAIN files THEN files[h].labels ELSE {}
         IN  IF Cardinality(labels) = 1 THEN h ELSE IF e \in labels THEN e ELSE 0

\* A computed transfer that finds a row of the dispatch table starts executing
\* the block it asked for: through the owner's switch and through any fold, in a
\* file the prune has left in the tree.
DispatchLands ==
    phase = "done" => \A a \in DOMAIN table : StartsAt(table[a].fn, table[a].sel) = a

\* In every file of the finished tree a goto names a label of that function, and
\* a call a function that the tree defines and that starts at that address: the
\* tree compiles and links, and no call ends in a stub that traps.
CallsLand ==
    phase = "done" =>
        /\ \A f \in prog.exports : StartsAt(f, 0) = f
        /\ \A f \in DOMAIN files : \A m \in files[f].moves :
            /\ m[1] = "goto" => m[2] \in files[f].labels
            /\ m[1] = "call" => StartsAt(m[2], 0) = m[2]

\* Every recovered jump-table arm and every code address stored in the writable
\* image can be dispatched to, unless it was handed to functions none of which
\* was emitted, or is a false start that no function begins before, which no part
\* of the tool takes up (reattach_false_starts: owner is None).
TargetsHaveRows ==
    phase = "done" =>
        \A a \in prog.arms \cup prog.relocs :
            \/ a \in DOMAIN table
            \/ a \in owned /\ \A f \in done : a \notin forced[f]
            \/ a \in prog.false /\ \A f \in DOMAIN prog.cfg \ prog.false : a <= f

\* The block lists the fold compares are those the functions were written with,
\* whichever process wrote them.
FoldSeesWhatWasWritten ==
    phase = "emit" =>
        \A f \in DOMAIN files : ctx.blocksOf[f] = files[f].labels

\* No function is scanned twice in pass 1 or emitted twice in pass 2, whatever
\* refers to it and whichever worker finds that out, so a round always has new
\* ones: on a finite text both passes reach their fixed point.
EachFunctionOnce ==
    [][/\ phase = "scan" /\ work # <<>> => Head(work) \notin seen
       /\ phase = "emit" /\ work # <<>> => Head(work) \notin DOMAIN files
       /\ phase = "emit" /\ phase' = "emit" /\ work = <<>> => work' # <<>>]_vars

\* elf2c.py:481: with -j the generated C is byte-identical to the serial tree.
SameTree == phase = "done" /\ procs # {} => Tree = serial
=============================================================================
