# A verification project for glslc-nvn-static-recompiler

The repository translates an AArch64 shader compiler (an ELF image) into C, and
links the C with a runtime that gives the translated program what it expects of
its machine: registers in a `cpu_t`, a stack, a C library, C++ exceptions. This
directory holds TLA+ models of it, TLC configurations that check them on small
instances, and TLAPS proofs of what matters most for every value of the
constants.

Line numbers below are those of the repository's files.

## 1. The system and what makes it correct

### The runtime, `runtime/`

| Part | State | Operations | Who calls it |
|---|---|---|---|
| C++ exceptions, `guest_eh.c` | shadow stack `g_eh_top` of `guest_eh_frame`s that live in host frames; `g_caught`, `g_in_flight`, `g_uncaught_count`; heap objects | push, pop, mark; `find_handler`, `unwind_from`, `resume_at`; the `__cxa_` and `_Unwind_` entry points; guards of statics | the wrappers and marks `lib/gen.py` emits; the guest |
| setjmp and longjmp, `guest_va.c` | `g_jbs`, 32 slots per thread | reserve a slot, jump, reset | code expanded inline by `gen.py`; `guest_fini` |
| qsort, `guest_rt.c` | `g_qsort_cmp` | sort, call the guest back from the host's qsort | the guest; the host's C library |
| Entry and exit, `guest_rt.c` | `g_depth`, `g_stack`, `g_current_cpu`, `g_ctors_done` | `guest_init`, `guest_fini` | the entry points `lib/unit.py` emits |
| Condition flags, `guest_rt.c` | the thunk `CC_OP`, `CC_DEP1`, `CC_DEP2`, `CC_NDEP` of the guest state | `arm64g_calculate_flag_n`, `_z`, `_c`, `_v`, `_flags_nzcv`, `_condition` | every translated block |
| Variadic calls, printf, scanf, wide strings | a cursor `va_ctx` over registers and stack, or over a guest's `va_list` | read the next argument, the k-th argument; format, parse | the guest |
| Dispatch, generated `dispatch.c` | constant tables | `guest_dispatch`, `guest_dispatch_addr`, `guest_lookup`, `guest_eh_find` | every computed branch, every throw |
| Scratch buffers, `guest_rt.c` | growing buffers | `guest_scratch` | the formatter |
| Host services, `guest_host.c`, `guest_cxx.c` | none of their own | aligned allocation, files, `strerror_r`, data imports | the guest |

What is hard here is that control leaves a translated function in four ways:
it returns, an exception cuts its host frame away, a longjmp does, or the host's
qsort calls back into the guest above it. Each of them has to leave the other
three's bookkeeping right, and the bookkeeping is a linked list through host
frames that disappear without running any code. Correctness is

* the shadow stack is exactly the live host frames that pushed on it, whatever
  cut them;
* the handler the first phase finds is the one the second phase reaches,
  although cleanups run arbitrary guest code in between;
* the chain of caught exceptions is the catch blocks the guest is in, every
  exception object is freed once and after its last use;
* a jmp_buf jumps to a frame that is there, and a sort calls its own comparator;
* constructors run once and before anything else, and a nested entry disturbs
  nothing of the call it is nested in.

Where there is little state the hard part is arithmetic that has to agree with
somebody else's: the flags with the processor's, the cursor with AAPCS64, the
lookup of a call site with the C++ language, a word in a register with the four
things it may be (a code address, a host pointer into `g_ro` or `g_rw`, a host
function).

### The translator, `elf2c.py` and `lib/`

| Part | State | Operations |
|---|---|---|
| Pipeline, `elf2c.py` | `todo`, `scan`, `done`, `blocks_of`, `func_set`, `entry_blocks`, `referenced`, `potential_entries`, `forced_entries`, `owned_blocks` | scan, discover, assign owners, emit (one process or several), fold, dispatch table, stubs |
| Code generator, `lib/gen.py`, `lib/irtoc.py` | the function being emitted, its blocks, its dependencies | discover blocks, emit a block, a call, a tail call, the local dispatch |
| Output tree, `lib/layout.py`, end of `elf2c.py` | `src/`, `src/fn/`, `include/`, the `Makefile`; names written and changed; `build/` and `libguest.a`, which make keeps | write a file if it differs, prune, prune what is unreachable; compile, archive, rename |
| Lifting cache, `analyze.py`, `lib/cachekey.py`, `Ctx` | `funcs.json`, `indirect.json`, `meta.json` beside a binary | discard, scan, stamp, write; check the stamp, check the base |
| ELF and unwind tables, `lib/elfcompat.py`, `lib/ehframe.py` | none | decode DT_RELR and relocations; frames, call sites, landing pads |
| Dispatch, `lib/gen.py`, `lib/unit.py` | jump tables found, rows | recover arms, emit the switch of a branch, the dispatch of a function, the entry table |

What is hard is order: pass two discovers functions while it emits others, in
several processes whose discoveries are merged; what a function is emitted as
depends on what was known then. Correctness is that every function anything
emitted refers to is emitted, folded or stubbed; that a computed branch reaches
the block it names; that the parallel run's output is the serial run's; and that
pruning drops nothing reachable.

The other hard thing is that every tool works on files an earlier run has left:
an analysis that was stopped, a tree of another binary, a library half archived.
Correctness is that the result of a whole run depends on its input alone, that
nothing of another image is used, and that no leftover blocks the way for good.

### Around them

`tools/glslc_cli.c` compiles a folder of shaders in worker processes: state is
which files were compiled and each worker's exit status. `lib/btdiff*.py`,
`lib/htrace.py`, `lib/vecref.py` and others compare traces by hand.
`runtime/musl/` is vendored number formatting.

## 2. Modules

| Modules | Extends | Checked by |
|---|---|---|
| `GuestEH`, `GuestEHImplements` (a refinement of `CxxUnwind`), `GuestEHProofs`, `GuestEHImplementsProofs` | | `MCGuestEH` |
| `GuestControl` (with `GuestControlProofs`) | `GuestEH` | `MCGuestControl` |
| `Elf2c` (with `Elf2cProofs`) | | `MCElf2c`, `MCParts` |
| `Files`, `LiftCache`, `OutputTree`, `Rebuild` (with `RebuildProofs`) | `LiftCache` and `OutputTree` extend `Files`, `Rebuild` both | `MCRebuild` |
| `Search`, `Image`, `Unwind`, `Dispatch`, `Transfer` (with `TransferProofs`) | `Unwind` extends `Image`, `Dispatch` `Unwind`, `Transfer` `Dispatch` and `Search` | `MCTransfer` |
| `GuestEntry`, `Flags`, `Matching`, `Arguments` (with `RuntimeProofs`), `Workers` (with `WorkersProofs`) | | `MCParts` |

### GuestEH: exceptions

One host thread. `stack` is the host call stack of translated functions, an
activation named by its position, so that a position cut off and pushed again is
the same address with another frame in it: that is how a stale pointer shows.
`ehTop` is `g_eh_top`, `prev` the field of the frame, `site` what `ra` means to
the exception table (the types its action chain catches, whether it has a
cleanup), `NoSite` the frame before its first mark. `exc` is the heap of exception
headers, `caught` the list that `g_caught` heads, `inFlight` and `uncaught` the two
other globals. `mode`, `cursor`, `flying` are the program counter and the locals of
`find_handler` and `unwind_from`: one action per iteration of either loop, so the
walk is seen in all its intermediate states.

| Actions | Code |
|---|---|
| `Enter`, `Call`, `Return`, `TailCall` | wrapper `gen.py:2455-2494`, call `gen.py:2609-2665`, tail call `gen.py:2152-2178`, push and pop `guest_eh.c:120-134`, mark `136-142` |
| `AllocateException`, `PadFreeException`, `Throw`, `Rethrow` | `guest_eh.c:611-640`, `694-705` |
| `SearchNext`, `SearchFound`, `WalkEnds` | `find_handler`, `guest_eh.c:562-567` |
| `UnwindNext`, `UnwindLands`, `Resume` | `unwind_from`, `resume_at`, `guest_unwind_resume`, `guest_eh.c:570-653` |
| `BeginCatch`, `EndCatch`, `PadEndCatch` | `guest_eh.c:655-692` |

The guest program is external: any program made of these operations, subject to
what a C++ compiler guarantees of its own code (`CallSiteOK`: what must be cleaned
up behind a call has a landing pad; `MayThrow`: nothing escapes a destructor or a
cleanup). `fresh`, `hs`, `todo` and `pc` are the guest's own knowledge of where it
is; the unwinder never reads them. `goal` is a history variable: the frame phase
one found. `Rethrows` and `TailCalls` say whether the guest uses them.

Abstracted: registers and the snapshot (the landing pad gets what the mark saved;
the model keeps no register values), selectors and type matching (`catches` is the
set of types that match: `Matching` shows that the lookup computes that), the bytes
of the LSDA.

### CxxUnwind and GuestEHImplements: the abstract specification

`CxxUnwind` has no shadow stack, no phases and no heap. A throw jumps in one step
to the innermost function that acts on it if any function handles it, and ends the
program where it is otherwise; a cleanup that is over hands the same exception to
the next function outwards. `GuestEHImplements` maps the activations that have an
LSDA to its `frames`; `ImplementsCxx` says every behaviour of `GuestEH` (without
rethrow and tail calls, see the findings) is one of `CxxUnwind`.

### GuestControl: setjmp, longjmp and qsort

Adds `jbs` (the slots in table order: the key, the recorded `eh_top`, the
activation), `cmp` (`g_qsort_cmp`) and `sorts` (the host's qsort calls in progress,
each with the `outer` of `guest_qsort` and the `eh_outer` of the comparison it is
in). `EHStep` is any step of `GuestEH`, with what it does to the slots and the sorts:
a landing that cuts the host stack below a sort ends it with no code of
`guest_qsort` run, and the return of the outermost function drops the slots.
`Setjmp`, `Longjmp`, `BeginSort`, `Compare`, `CompareEnds`, `EndSort` are the functions
of `guest_va.c:283-325` and `guest_rt.c:873-900`. `body`, `frame` and `cut` are history.

### GuestEntry: guest_init and guest_fini

Per thread the entries in progress, `g_current_cpu`, `g_depth` and `g_stack`;
process-wide `g_eh_top` and `g_ctors_done`, as declared in `guest_rt.c`. The test of
`g_ctors_done`, its assignment and the constructors are separate steps. A constructor
and any translated code may reach an entry point again. A word of guest stack holds
the depth of the entry that wrote it.

### Elf2c: the translator

The input is a program `prog`: N instructions, the block lists a CFG recovery cached, the
exports, what the analyses of tables and code return (jump-table arms and landing pads,
false starts) and the code addresses in the writable image. `phase` is how far `main()` has
come, `work` the list the phase works off. `ctx` is the `Ctx` of the parent and `wctx` that of
each worker, a copy of it as forked; both have the same fields, those of `_MERGE_SETS` and
`_MERGE_DICTS` that steer control: `func_set`, `referenced`, `potential_entries`, `blocks_of` with
its insertion order, `entry_blocks` as a sequence because its order decides who owns a row,
`file_deps`. `files` is `src/fn`, a file being its labels, its transfers as (goto, call or
dispatch, target), its declarations and, for a stub, its host.

| Actions | Code |
|---|---|
| `Closure` | `closure`, `elf2c.py:66-93` |
| `Analyse` | `elf2c.py:535-588`, `sweep_missed_blocks`, `reattach_false_starts`, `gen.py:1409-1529` |
| `Scan` | pass 1, `elf2c.py:601-631`, `scan_function`, `gen.py:1079-1131` |
| `HandOver` | ownership, `elf2c.py:636-705`; `arms_owned_by`, `gen.py:1720-1729` |
| `Emit` | serial pass 2, `elf2c.py:783-788`; `emit_function`, `gen.py:2365-2592`; `term` and `goto_or_call` |
| `EmitOne` | parallel pass 2, `_emit_one`, `_merge`, `elf2c.py:354-463`, `789-801` |
| `NextRound` | `elf2c.py:770-807` |
| `FoldSubsetFunctions` | `elf2c.py:107-265` |
| `EmitDispatch` | `elf2c.py:837-908` |
| `PruneUnreachable` | `layout.py:324-401` |
| `Rebuild` | the tool run again on the same cache with `-j` |

The second build keeps the first one's tree in `serial`: `SameTree` compares two executions
of the tool within one behaviour. Which worker takes the next function is open. A worker
reads nothing but its own context and `pool.imap` returns results in the order of the batch,
so the emission in the worker and the merge in the parent are one step: no other order of the
two can be told apart.

Abstracted: an instruction is one of seven kinds; addresses differ by one; a data constant is
not an instruction. Functions stay below `TRIM_MIN_BLOCKS`, so trimming is the identity, and
inside 1 KB, so the upper end of the spans of `_plausible_target` and `emit_function` excludes
nothing. The constants and the callees of one function are registered as sets: inside one
function the code registers them one by one, and a constant that is called further down in
the same function is then also a potential entry. What the analyses of tables and of code
conclude is input, whatever it is; the models do not ask whether they are right.

### Files, LiftCache, OutputTree, Rebuild: from a binary to a library

What is on disk outlives the runs that write it. `Files` has the two contents a reader does
not expect, `Absent` and `Torn`, and the budget of runs that are cut short. `LiftCache` keeps
`binary` (which build is at the path), `cache` (three files), `an` (the analysis in progress,
the image it has loaded, the hash it has taken) and `lifted` (history: what the last elf2c.py
made of the cache). `OutputTree` keeps `disk` (contents of each file, with what it declares
and defines), `obj` (of each object what it was made from, and whether a prerequisite is newer
than it or it is newer than the library: all that make asks of times), `lib` and `tmp`, `gen`
and `mk` (the runs in progress; `gen.plan` is the list of steps left), `complete` and `built`
(history).

| Actions | Code |
|---|---|
| `AnalyseStart`, `AnalyseDiscard`, `AnalyseLoad`, `AnalyseStamp`, `AnalyseWrite` | `analyze.py`, `cachekey.stamp` |
| `LoadCache` with `Check`, `Usable`, `LiftBase` | `cachekey.check`, `Ctx.__init__` |
| `ReplaceBinary`, `AnalyseCut`, `GenerateCut`, `MakeCut` | outside: a new build, a stopped run; a cut in a write leaves `Torn` |
| `GenerateStart`, `WriteFile`, `RemoveFile`, `RewriteMakefile`, `Prune`, `PruneUnreachable`, `GenerateEnd` | `FunctionWriter`, `write_tree`, `prune`, `prune_unreachable`, `layout.py:174-413`, end of `main()` in `elf2c.py` |
| `MakeStart`, `Compile`, `CompileFails`, `UpToDate`, `ArchiveBegins`, `ArchiveEnds`, `Rename` | the rules of the Makefile `layout.py` writes |

`Rebuild` composes them: one tool runs at a time, elf2c.py goes on from the check to the tree
of the image the check accepted. Its liveness is about a user who does what the tools say.

Abstracted: the scan is a value naming its binary and base; a source is a text with the names
it defines and refers to; the aggregate files stand for one, the headers for one. A SIGKILL of
a compiler in the middle of an object is left out: make removes what it was building when it is
interrupted, which is what `MakeCut` has.

### Search, Image, Unwind, Dispatch, Transfer: where a word leads

`Image` is what the generator makes of pointers: constants (`ConstAddr`), relocated slots
(`RelocSlot`, `SymbolSlot`, with `Unpack` for DT_RELR), the entries relocations register (`RelocatedEntries`). `Unwind` reads
`.eh_frame` and call sites twice, as `lib/ehframe.py` does and as `guest_eh.c` does. `Dispatch`
recovers the arms of jump tables, with the last comparison before the branch as their length, whatever it compares (`Guard`), registers
the constants a branch of their function could mean (`Plausible`, `ConstantEntries`), and computes blocks, rows and the dispatch inside a function.
`Search` is the binary search of `dispatch.c` as a state machine over any rows. `Transfer` runs one
transfer after another: a pointer is called (`CallPointer`) or jumped to (`JumpPointer`), an arm
of a table is taken (`JumpTable`), an exception lands (`Raise`), and each goes through the code
that is there for it, one action per branch of that code.

| Actions | Code |
|---|---|
| `OnTarget`, `OnOutside`, `OnNoTarget`, `Fallback` | the switch `term` writes for a branch, `gen.py:2667-2713` |
| `Local`, `Enter` | `emit_local_dispatch`, prologue of a function, `gen.py:2261-2362`, `2504-2590` |
| `NullPointer`, `CodeAddress`, `ReadOnlyBased`, `WritableBased`, `NotBased`, `MissReadOnly`, `MissWritable` | `guest_dispatch`, `unit.py:556-600` |
| `HitAddress`, `MissAddress`, `LookAgain` | `guest_dispatch_addr`, `unit.py:501-521` |
| `Below`, `Above`, `Hit`, `Miss` | `guest_lookup`, `guest_eh_find`, `unit.py:470-482`, `675-694` |
| `Raise`, `Land` | `frame_action`, `lsda_lookup`, `guest_eh.c:421-551` |

`meant` is a history variable: what the compiler of the guest meant by the word. Abstracted: bytes
and encodings other than absolute and pc-relative; the switch of a landing pad; one candidate table
for each branch; which constants the instruction stream is taken to make, in which function, and what
the instructions before a branch compare (`Materialised` and the `compares` of a site are given).

### GuestEntry, Flags, Arguments, Matching, Workers

`Flags`: `cc` is the thunk, an operation with its width and operands; `nzcv` is history, the four
bits the processor would have. `Sets` stores an operation (one that uses the carry asks for it
first, which is how a thunk depends on all before it), `Writes` the flags themselves. Every
`FlagN` to `Condition` is the function of `guest_rt.c:17-191` with the bit operations read as
arithmetic: the top bit of an exclusive or is that the top bits differ. The words have `W32` and `W64`
values: nothing but evenness is used of them.

`Arguments`: `Placed` is where AAPCS64 puts the arguments of a call, `Fetched` and `Past` what `va_gp`,
`va_fp` and `va_ld_bits` read and how they move on (`guest_va_int.h:68-153`, both the registers' side and
the va_list's). `CallThunk`, `CallV`, `Pop`, `PopNth`, `ThunkReturns` are the printf and scanf entry points
and the arguments their directives take (`guest_va.c:76-228`, `vfscanf.c:73-143`); `CallGuest`, `GuestArg`,
`GuestReturns` a variadic function of the guest that hands its va_list on.

`Matching`: the second half of `lsda_lookup` (`PureCleanup`, `LookAt`, `ChainEnds`, `guest_eh.c:475-537`) and
`ti_matches` as the recursive function `Matches`, over any hierarchy of classes within the three limits of the code:
`MaxDepth`, `MaxBases` and `MaxRecords`.

`Workers`: the end of `main` in `glslc_cli.c:1201-1307`, with `fork` and without. `StartWorker`, `StartFails`,
`Collect`, `CompileRest` are the parent's, `WorkerCompiles` and `WorkerExits` a worker's, `Stops` the end of one that
dies. That compilations do not disturb each other's files is not part of it (section 4).

`MCParts` puts these five and `Elf2c` side by side. They share no variable, so a behaviour of all six is
one of each, and it is enough to let one move while the others rest.

### Definitions marked `Slip`

Each is the definition below it with one plausible mistake (a dropped guard, a
forgotten reset). No specification uses them. Checking a run with one in the place
of the definition shows that the property it is paired with in `PROJECT.json` can
fail, and for that mistake.

## 3. What is checked

| Run | Instance | Shows |
|---|---|---|
| `GuestEH` | 2 exceptions, 2 types, 5 kinds of site, 4 activations | exceptions: safety, the refinement of `CxxUnwind` |
| `GuestEH_all` | the same with 3 activations, rethrow and tail calls | every walk ends |
| `GuestEH_rethrow`, `GuestEH_tail` | | findings 1 and 2 |
| `GuestControl` | 1 exception, 3 keys and 2 slots, 2 comparators, 2 sorts, 3 activations, rethrow and tail calls | repairs of the shadow stack, slots, comparators |
| `GuestControl_setjmp` | | finding 3 |
| `GuestEntry_share` | 1 thread | finding 4 |
| `Elf2c_jobs` | a few of the programs | finding 5 |
| `Rebuild` | 2 builds, 2 load addresses, 3 functions, 1 run cut short; 689 358 states | nothing of another image is used; what was left half done is repaired |
| `Transfer` | 32 sets of relocations, 64 sets of blocks, words of 512 values, tables of at most 4 | a word leads where the guest's compiler meant |
| `Parts` | 6 modules side by side, 1 521 573 states; of `Elf2c` 15 634 programs of 5 instructions, each built serially and by 2 workers | the tree links and every transfer lands, both passes end; constructors, nesting, flags, arguments, type matching, glslc |
| `Arguments_positional` | the same with `%1$d` | finding 6 |

The properties of `GuestEH`. `ShadowStack`: the list is the live frames in order.
`HandlerAhead`: what phase one found stays there until reached. `HandlersInOrder`: the
chain is the catch blocks, innermost first, and the uncaught count is what is in flight.
`OwnedIffLive`: an object is allocated exactly while somebody is still going to use it, so
there is neither a leak nor a use after free. `NoUseAfterFree`: neither `__cxa_begin_catch` nor
`_Unwind_Resume` is given a freed object. `FallbackAgrees`: the fallback pointer nested
exceptions share. `ImplementsCxx`, `WalksEnd`.

The properties of `GuestControl`. `ShadowStack` again, now that longjmp and sorts cut the
host stack too. `SortUsesItsComparator`: the slot `g_qsort_cmp` is that of the innermost
sort, unless a sort nested in it was cut short (section 4); and a sort further out is not upset by that: it has its own
comparator back when it is the innermost again. `SlotsRestoreTheTop`: a longjmp through a live slot gives back the shadow stack its
function had, and a key has one slot.

The properties of `Elf2c`. `DispatchLands`: a computed transfer that finds a row starts at the
block it asked for, through the selector, the owner's switch and any fold, in a file the prune
has left. `CallsLand`: every goto names a label of its function and every call a function the
tree defines, so the tree compiles, links and holds no trap stub. `TargetsHaveRows`: no arm and
no code pointer is forgotten, but for what the first two limits of section 4 say.
`FoldSeesWhatWasWritten`: the parent's block lists are those the workers wrote the functions
with. `EachFunctionOnce`: no function is scanned or emitted twice and no round is empty, an
action property that on a finite text is the termination of both passes; stated so because
checking it as liveness over this family is out of reach, and stronger, since it needs no
fairness.

The properties of `Rebuild`. `AcceptedIsThisImage`: a cache the check accepts was made of the
bytes at the path and for the load address in use, whatever was analysed, cut or replaced
before. `GoodIsAccepted`: a whole analysis of this binary is not refused. `TreeIsIntended`: a
run of elf2c.py that ends leaves exactly the files of its plan, each with the text it was to
have, whatever tree was there. `LibraryIsTheTree`: make that ends without an error leaves the
library of the sources that are there, and a `libguest.a` is never half written.
`ChangedIsRemade`: no file changes without what was compiled from it being out of date, and
generating the same again makes nothing out of date but what section 4 names. `Recovers`: from
any mess, a user who follows the messages gets the library of the binary at the path.

The properties of `Transfer`. `FindsTheRow`: the binary searches of `dispatch.c` return the row
that covers the key, and none if there is none. `ComparisonsAgree`: two pointers are equal words
just when they mean the same, whether they come from code, a relocated slot or an import.
`LandsWhereMeant`: a pointer that is called or jumped to, an arm of a table and a landing pad
lead to the block or the import the guest's compiler meant, and what is reported is reported by
the guest's address. `ReachableIsTranslated`: every function start, every relative relocation into
the code, every constant a branch of its function could mean, every arm of a table that is read to its end and every landing pad
has a block. What may be reported is null, an unaligned address, and inside a function what `Doubtful` names: arms of tables
read short, constants that are not plausible, symbols a relocation stores with an offset. `DispatchIsTheSwitch`: the subtraction, the cut key and the search
of the local dispatch lose nothing against a switch over the blocks, and jumps inside a function
of several blocks stay inside (of a single block: section 4). `PadsWereRecovered`: a landing pad the runtime finds is one the generator found,
though the two read the tables separately. `TransferEnds`.

The other properties of `Parts`. `CtorsOnceAndFirst` and `NestedEntriesRestore`: constructors run once,
and before what is not called by them; an entry that returns gives its caller `g_depth`, the
stack and `g_eh_top` back. `FlagsAgree`: the four bits computed from the thunk, and the flags a
carry is taken from, are the processor's after any chain of operations. `ComparesDecide`: after a compare the
ten conditions that order operands are the comparisons of the operands. `ArgumentsArrive`: each directive
reads the argument the caller passed for it, through registers, overflow to the stack, and a
va_list handed on. `LookupIsTheSite`: `lsda_lookup` decides for a site what the language does: the first
clause that takes the class or a public base of it, else the cleanup, the same for both walks. `WholeFolder`: no two
processes compile one file, `glslc` exits with 0 only if every file was compiled, and a file
that is rejected keeps no other from its turn.

**Bounds of exceptions and control.** Four activations are a handler, two frames in between
and a thrower: enough for a cleanup that throws and catches on its own while the outer handler
waits, which is where the two walks meet. Two exceptions is one in flight and one nested in its
cleanup, in its destructor or in its catch block; a third would repeat the relation of the first
two one level up. Two types tell a matching frame from one that does not match, and `Destroyed`
tells an object whose destructor is guest code. Sites are all combinations the lookup tells
apart. Two slots and three keys reach the full table; two sorts are an outer one and the nested
one; three activations above a sort are the sorter, a comparator and what it calls. The `VIEW`
of `GuestControl.cfg` identifies states that differ in the contents of a slot whose frame is
gone: nothing reads them. `MaxHandlers` bounds the catch blocks of a function that rethrows in a
loop.

**Programs of `Elf2c`.** Five instructions hold an exported function, a callee, a block in the
middle of one and of both, and a tail they share: two functions with a common block, one
contained in the other, an arm in a function's span and outside it. The block lists are what a
CFG recovery could report for the text: from one to three function starts, complete or with a
block lost. Among the family's trees are stubs, files the prune removes, orphan arms, blocks
owned by another function, and false starts, in some programs one that no function begins before. Two workers suffice for what one knows and the
other does not; they are symmetric. `MCFew` is a part of the family in which the violation is
found quickly.

**Bounds of `Rebuild`.** Two builds at one path, with a function in common, one that differs and
one that is gone; two load addresses. One run may be cut (`MaxCuts`), at any step of any tool;
another tool then meets what it left. A user who replaces the binary does so between runs.

**Bounds of `Transfer`.** The image has three functions, one with a block below its entry and one with a single block;
pointers to code, to read-only and to writable data, to a virtual member, to imports of both
kinds; jump tables relative to the code and to themselves, with a bounds check and without,
longer and shorter than the cap, with arms in other functions; before a branch a comparison with the last index of the table,
with a larger number, with a smaller one and with one over the cap, or none; constants in the span of the function that makes them
and outside it, a symbol inside a function; frames with and without an LSDA,
a call that ends its function, call sites in three encodings. Every word of the 512 is handed to
the local dispatch, and up to six blocks more or less give searches of every parity.

**Bounds of `Parts`.** Words of 4 and 8 values have a sign, a carry, an overflow of either sign
and a zero, and the two widths differ: a theorem covers the rest (section 5). Four general and
two floating registers with five arguments reach the last register, the first stack slot and a
mix of the two. All hierarchies
of three classes with up to two bases each (`MaxBases` and `Width` are 2: a class after the first can have none, one or
several bases, and more than one match among them), public or not, repeated or not, are taken, and all chains of up to three
records. One, four and five files with up to three processes have a worker with more files than
another, none to share, and, where there is no `fork`, the parent compiling for what could not be started. Three nested entries
are one inside another inside a constructor.

**Fairness.** `GuestEH_all` adds weak fairness of `Unwinding` alone: the two loops are straight-line
C on the running thread and nothing interrupts them. No fairness of the guest is assumed; a
guest that never throws or never ends its catch block is a behaviour. `Transfer` adds weak
fairness of its own steps, for the same reason. `Rebuild` adds weak fairness of `GoesOn`, a tool
that has been started goes on, and strong fairness of the user's answers `Advised`, `Needed` and `Wanted`:
somebody who is told to analyse again, or who needs the library, does so in the end, though in
between the binary may be replaced; `Recovers` says what the tools owe to such a user, and says
nothing of one who ignores them. Deadlock is checked in every run: what has ended, a program, a
lookup, a translation, stutters in an action of its own.

## 4. Findings and known limits

1. `GuestEH_rethrow`. `guest_cxa_rethrow` leaves `handler_count`, so the `__cxa_end_catch`
   in the landing pad of the block being left frees the exception in flight. The comment
   at `guest_eh.c:699-701` says that call will not come; compilers emit it.
2. `GuestEH_tail`. A tail call is not marked (`gen.py:2178`) while the frame stays pushed:
   an exception from the callee is matched against the previous call and lands in a
   function that has been left. `guest_eh.c:45-51` says the mark records where control is.
3. `GuestControl_setjmp`. Landing re-enters the body in a new host activation, and a
   jmp_buf made before names the old one (`gen.py:2488`), against `gen.py:2619-2620`.
4. `GuestEntry_share`. A nested entry resets SP to the top of the stack in use
   (`guest_rt.c:734-736`), against `guest_rt.c:564-565`. In the same model `g_current_cpu`
   keeps the state of the nested entry after it has returned (`guest_rt.c:761`).
5. `Elf2c_jobs`. An orphan arm is first walked while it is emitted, and the walk stops at the
   functions known by then: in a serial build all those the batch has called so far, in a
   worker only those it has called itself. Block list, folds and rows differ, against
   `elf2c.py:481-482` and `796-797`. No property of the tree but `SameTree` is lost: the
   parallel tree is another correct one.
6. `Arguments_positional`. `arg_n` of the scanf (`musl/vfscanf.c:78`) works on a copy of the cursor,
   but a cursor over a va_list holds a pointer to it and the copy moves the same list:
   `vsscanf` with `%1$d %2$d` stores the second number through the third pointer, against
   `gvaarg.h:34-35`.

None of the findings in the runtime needs more than a legal guest program; whether the two binaries the
tool is used on contain one is another question, which the models do not answer.

Limits the models name in a guard, an assumption or an exception of a property:

* Blocks owned by a function that is handed over. The owner of a block is looked up first among the
  CFG's functions and then in `ctx.blocks_of` (`elf2c.py:661-664`), which by then holds functions
  pass 1 discovered. One of these may itself be handed over and never be emitted; its block is
  then nobody's case, has no row, and a branch to it traps in the lookup, against
  `elf2c.py:779` and `976`. `TargetsHaveRows` leaves out the blocks owned so.
* A false start with no real function below it. `reattach_false_starts` skips it (`gen.py:1516-1517`), `main` takes
  all false starts out of `todo` and `func_set` (`elf2c.py:581`, `586`), and as it stays in `ctx.funcs` it is
  no orphan arm either. Unless it is also a block of a function that is emitted, an arm or a pointer that names it has no row.
  `TargetsHaveRows` leaves it out; the attempt to prove the property without that exception found it.
* A function of a single block gets no dispatch (`len(blocks) > 1`, `gen.py:2512`), so a computed jump to its own
  start is handed to `guest_dispatch` as a C call and deepens the host stack each time, against `gen.py:2504` (every
  function gets one) and `2705-2708`. It lands where it should: `LandsWhereMeant` does not suffer. The second part of
  `DispatchIsTheSwitch` is about functions of several blocks; the proof of it without `HasLocalDispatch` failed there.
* `g_qsort_cmp` is restored only when qsort returns (`guest_rt.c:899`): after an exception from, or a longjmp out of, an
  inner comparator that an outer one catches, the inner function is in the slot and the outer sort goes on with
  it, against `guest_rt.c:870-871`. `SortUsesItsComparator` does not hold for that sort and leaves it out by name (`cut`);
  it does hold for those further out.
* Tables read short. The recovery takes the last comparison with a constant in the block of the branch or, failing that, in the 0x40 bytes before it,
  whatever register it compares (`gen.py:1216-1242`). If that is with a smaller constant than the real check, the table is read up to that constant and no further, although its later arms
  may lie in the function (`gen.py:1342-1360`): "it is the guest's own guarantee rather than a guess"
  (`gen.py:1331-1335`), but also "a hint, not a contract -- the cmp may bound something other than this table"
  (`gen.py:1350-1354`). A larger constant does no harm: the walk goes on to the first word that leads nowhere.
  `Vouched` leaves the tables read short out; with it reduced to "the arms are in the function or a comparison was found",
  TLC reports such an arm missing. The same goes for a table longer than `jump_table_cap`, and for one without a comparison
  that is left at its first arm outside the function (`gen.py:1361-1379`).
* Constants. `const_addr` makes an entry of an address of code only if a function starts there or the branch could mean it:
  inside the span of the function that makes it and aligned (`gen.py:1731-1743`, `2057-2060`). A pointer to the middle of
  another function, made by instructions, has no row (`StrayConstants`).
* A GLOB_DAT or ABS64 for a function symbol with an offset is read after the blocks are written (`elf2c.py:833`), too late
  to become an entry (`StraySymbols`).
* Code before a function's start that the scan did not find belongs to nobody's CFG; the span of the function below ends at the next
  start (`gen.py:1720-1728`), so it is taken to be that function's. `FunctionsAssumption` says that the scan finds it.
* `Gaps` of `LiftCache`. With a base given to elf2c.py, with an analysis at another base cut while it
  writes, with an earlier build put back at the path, or with the binary replaced during the scan,
  `AcceptedIsThisImage` fails: `check()` compares the base of an unstamped cache only (against
  `gen.py:673-675`), the three files are written one by one, and the stamp hashes the file after it
  was scanned. The run has `Gaps = {}`; putting one of the four names there brings its counterexample.
* Pruning a source leaves its object, and its member in the archive (`layout.py:393-413`).
* The file of a folded function is written twice in each generation, so it is rebuilt each time
  (against `layout.py:268-273`, `315-319`).
* Objects do not depend on the Makefile. `QUICKSTART.sh:43` skips the analysis if `funcs.json` exists, so one
  that was cut after writing it stays refused until the user analyses again by hand.
* `HostAssumption` of `Image`: no host function lies in a window of the code's size below
  `g_ro` or `g_rw`. `guest_dispatch` tells the four kinds of word apart by range alone (`unit.py:545-600`).
* Pointers one past the end of
  a segment are constants (`gen.py:2126-2147`); a jump through a word of the host re-enters as a C call and deepens the host
  stack (`gen.py:2701-2707`); a GLOB_DAT or ABS64 to locally defined data is taken for an import (`gen.py:745-748`);
  `landing_pads` cannot read an LSDA whose base is function-relative (`ehframe.py:170-178` against `guest_eh.c:389`).
* `begin_catch` returns the address of the object also for a base at another offset, `ti_matches` accepts
  an ambiguous base, and a type-table entry of 0 is `catch (...)` (`guest_eh.c:258-281`, `655-666`).
  `LookupIsTheSite` is about which clause is chosen.
* `glslc` names outputs by base name: of two `-I` folders with a file of the same name one output
  is lost, whichever was first if they run in parallel. Workers on Windows read the folder again.

## 5. What is proved

`GuestEHProofs` proves for every number of exceptions, types, sites and activations,
tail calls included, from `GuestEHAssumption` and `~Rethrows`:

* `TypeCorrect`: `Spec => []TypeOK`;
* `ShadowStackIsTheStack`: `Spec => []ShadowStack`;
* `NothingFreedIsUsed`: `Spec => []NoUseAfterFree`;
* `Invariance`: `Spec => []Inv`, from which the three follow.

`ShadowStack` is not inductive alone: landing at `cursor` gives a right shadow stack only
if `cursor` is a live exception frame, and the cursor a cleanup continues from is the
`resume` field of a heap object. So `Inv` says of every object that a cleanup holds that
its `resume` is the nearest frame below that activation, which needs that nobody else is
using the object: distinct holders hold distinct objects (`fresh`, `obj`, `flying` and the
catch blocks), which in turn needs the handler counts. Rethrow breaks exactly that: an
exception caught and in flight at once has two holders, and after finding 1 a freed address
is allocated again. That is why the theorems assume `~Rethrows`, and why the run
`GuestControl` checks `ShadowStack` with rethrow. The proof has one lemma per action, one step per
conjunct the action can disturb, and lemmas on what pushing, popping, marking and cutting do to
`NearestFrame`.

Its second part goes on from there, under the same hypotheses and again for tail calls too:
`HandlerStaysAhead` (`HandlerAhead`), `HandlersStayInOrder` (`HandlersInOrder`), `NothingLeaks`
(`OwnedIffLive`) and `FallbackIsRight` (`FallbackAgrees`), from `HandlerInvariance`, that `Inv /\ HInv` is
inductive. The parts of `HInv` lean on one another:

* `Ahead`: the frame phase one found for an uncaught exception is on the stack, at a call that catches it, and
  no pad or destructor lies between it and whoever carries the exception (`Goals`, `Carried`, `Pending`); a walk
  in progress has not passed it (`PhaseOne`, `PhaseTwo`). This is where the guest's promise that nothing escapes
  a cleanup is used: a throw inside a cleanup finds its own handler above that cleanup.
* `Paid`: a frame a walk goes past is in no catch block and holds no exception (`Passed`), because a function
  that calls with something to clean up has a cleanup there (`Covered`) and a pad leaves its blocks first
  (`PadLeaves`). So cutting the stack takes no block away.
* `Blocks`, `Counts`, `Tally`: `g_caught` is the catch blocks in order, each header counted once,
  `g_uncaught_count` the cardinality of what is uncaught. `BlocksOf` is a recursive function; the lemmas on it
  work from its defining equation and from the least position at which two stacks would differ.
* `Kept` and `Falls`: what is allocated has an owner, and `g_in_flight` is the exception of the innermost pad or nothing.

`GuestEHImplementsProofs`: `UnwindingIsOneJump` (`ImplementsCxx`), that `GuestEH` implements `CxxUnwind`, from
`Inv`, `HInv` and one more invariant, and from `~Rethrows` and `~TailCalls`, the conditions under which the
run `GuestEH` checks it: findings 1 and 2 are that the runtime does not keep the language's promise without them. An
initial state maps to an initial state, and each step to a step or a stutter:

* The walks (`SearchNext`, `SearchFound`, `UnwindNext`) change nothing that shows. What only marks a call
  site (`Marks`: allocating, freeing, throwing, resuming, leaving a block, a call of a function without a table)
  is `At`, or a stutter where the function on top has no table.
* `Enter`, `Call`, `Return` and `BeginCatch` begin a frame, end one, or change the last one.
* A walk that ends is `Terminate`: by `HInv` phase two always finds its handler, so it was phase one, and by `Walked` nobody catches.
* The landing of phase two is `Throw` or `GoOn`. `CxxUnwind` says: in the innermost frame that acts on
  the exception. `HInv` alone would let a walk pass a frame that acts, as long as it is not the handler;
  `Walked` says that neither phase has, and that the cleanup which phase two goes on from is on top of the stack.

The frames are the activations that have a table, so the lemmas underneath are about that list: it is the only
ascending one with all of those positions (`ListsOnce`), and it follows a push, a cut, and a change on top.

`GuestControlProofs`: `ComparatorIsTheSorts` (`SortUsesItsComparator`) holds for any guest, rethrow included. It says of
every sort but one from which a nested sort was cut short that it compares with its own comparator, and of the sorts around that one that
they are not affected; that the one itself goes wrong is a limit of section 4, not a theorem.
Its invariant `Comparators` is only that what each sort saved is the comparator of the sort it is nested in, and
that jumps and landings cut from the top. `SlotsRestore` (`SlotsRestoreTheTop`) and `JumpsKeepTheShadowStack`
(`ShadowStack` with longjmp and comparisons) assume `~Rethrows`, like all that carries `Inv` on; `CInv` adds that
a slot's and a comparison's `eh_top` is what the shadow stack is when the host stack is cut to it.
`JumpsToALiveFrame` is not among them: finding 3 refutes it.

`Elf2cProofs` proves of `Elf2c`, for a text of any length, every program over it (any block lists, exports, arms,
false starts and relocations that `Program` admits) and any set of workers, whichever takes the next function:

* `Elf2cTypes` (`TypeOK`), `RowsLand` (`DispatchLands`), `CallsAreDefined` (`CallsLand`), `TargetsAreInTheTable`
  (`TargetsHaveRows`), `FoldComparesWhatWasWritten` (`FoldSeesWhatWasWritten`);
* `NothingIsDoneTwice`: the action property `EachFunctionOnce`.

`Elf2cAssumption` is the only assumption. None of the six is inductive: most speak of the finished tree, which several parts of
`main()` have made. `Inv` is one conjunct for each part, saying what the later ones rely on:

* `Closing`, `Scanning`: what has to be translated is in `todo` or among the arms; every false start with a
  function before it is forced into one; nothing is queued twice.
* `Emitting`: what pass 2 has taken up is written or queued, once (`done`). A written function keeps the labels it
  was written with (`Written`), its cases are its blocks (`EntriesOK`), and nobody is handed his own start (`Given`). For the workers: of
  every function not yet emitted a worker knows the block list the parent knows (`Agrees`). That is why merging cannot
  overwrite the list of a function others have emitted: only emitting a function changes its list,
  and each is emitted once.
* `Folded`: a file has all the blocks of its function or enters one that has them and is no stub itself. That the best host of a
  host exists and is a root is by rank, the number of functions that are better (`RootFacts`); a chain of stubs would enter nowhere.
* `Dispatching`, `Rowed`: each row names a function that is there and a block of it. That the prune removes none of
  these: a stub declares its host and a call its callee, so both are among what is reached (`LiveFacts`).

Both walks (the blocks of a function, what the prune keeps) are recursive functions of the round. That the round at which
the code stops is closed holds because a set that grows within N addresses has stopped by round N (`RoundsClose`).
`SameTree` is not among the theorems: finding 5 refutes it. That no state is a deadlock is
checked by the runs only.

`TransferProofs` proves of `Transfer`, for any image, any choice of relocated slots and of further blocks, any unwind
tables, jump tables and calls, and words of any width:

* `TransferIsTyped` (`TransferTypeOK`), `PointersCompare` (`ComparisonsAgree`), `TransfersLand` (`LandsWhereMeant`),
  `NothingIsMissed` (`ReachableIsTranslated`), `DispatchIsExact` (`DispatchIsTheSwitch`), `PadsAreBlocks`
  (`PadsWereRecovered`);
* `SearchIsExact` (`SearchSpec => []FindsTheRow`), for every table of distinct ascending addresses and every key, with the
  usual invariant of a binary search: what is left of `lo` is below the key and what is not left of `hi` above it;
  and `SearchesAreExact`, that it holds of the searches `Transfer` makes.

What the properties claim is mostly what operators compute of the data of an image, so the lemmas are about these, in the
order of the code:

* `UnpackPack`: the slots a linker packs as DT_RELR, an address and then bitmaps, are the slots `Unpack` reads. Both are
  recursive functions, and the argument is that reading what is packed so far gives the slots so far and the place where the
  next bitmap begins (`PackKeeps`). It holds for any bitmap width.
* `RelocatedSlot`, `StoredSlot`: a slot has one relocation that counts, so what is in it is not a matter of order.
  `PointersMean` follows: every word the guest holds is what `Means` says; and `WordsDecide`, two of them are equal just
  when their meanings are.
* `SearchedFinds`, `LocalIsPlain`: the `if` tree of the generated search finds the blocks there are and nothing
  else, by the least number of cases for which it does not; and the subtraction, the test of alignment and the cut key lose nothing while the
  blocks of a function span less than the key holds.
* `ArmsAim`: an arm that is taken is the word of what the table means by it, relative to the code or to the table, with a sign or
  without. `VouchedArmsAreRecovered`: an arm is recovered if no comparison the look-back finds,
  of whatever it may be, is too small for the table, or, where there is none, if the arms lie in the function.
* `RelocatedMustBe`, `ConstantMustBe`, `StartsAre`: a relative relocation and a plausible constant are entries, and
  each function has a block at its start. `PointersReach` and `ArmReaches` put these together: what is meant has a block or is `Doubtful`.
* `EntriesFacts`, `RegionsFacts`: the rows of both tables are in order and apart, each block has one row, and no two regions meet.
  `PadIsMeant`: the site `lsda_lookup` stops at is the one around the call.

Of the properties of a transfer none is inductive: each speaks of where it ends. `TransferInv` says what is known on the way.
`OnItsWay`: what is left of the word still aims at what is meant (`Aims`), until it is an address, which the table is asked for;
once the first of two searches has missed, the other must not find something else, because at most one of the arrays can
have been meant. `Reaches`: what is meant has a block, or is `Doubtful`. `Outside`: a jump that the dispatch of its function let
through is to none of its blocks. There is one lemma for each action.

The assumptions are those on an image and a program that fit together, each named in its module and evaluated by TLC on the
instance of the run: `ImageAssumption` (segments in order, slots aligned, one relocation a slot), `HostAssumption` (no host
function in the window below an array, section 4) and `PlacesAssumption` (the host keeps the arrays and the imports apart),
`TablesAssumption` (functions with a frame description and call sites do not overlap), `FunctionsAssumption` (the functions are a
partition of the code, none is longer than the key of the dispatch can tell, a constant is made by a function there is, and code before
a function's start was found by the scan), `SitesAssumption` (a compiler's tables: two or more
arms, on instructions; of the comparisons before a branch only that they are numbers) and `GuestAssumption` (a call has the pad that its
function's table says). `HostAssumption`, the length of a function and
that the scan found the code before a function's start are the three of these the code does not see to.

`RuntimeProofs` has four parts.

Of `Flags` it proves, for all even `W32` and `W64`, so for 2^32 and 2^64: `FlagsAreTheArchitectures`
and `ConditionsCompare`, that `FlagsAgree` and `ComparesDecide` always hold. The inductive invariant is
`FlagsTypeOK /\ FlagsAgree`: the carry an ADC or SBC stores comes from the thunk before it, so the
flags of a chain are right because all before were. One lemma for each kind of operation compares
sums modulo the width with sums of integers, split on the signs of the operands.

Of `GuestEntry` it proves, for every depth of nesting, in a process with one thread: `ConstructorsComeFirst`
and `EntriesRestore`, that `CtorsOnceAndFirst` and `NestedEntriesRestore` always hold. Neither is inductive:
the one needs that there is a single call, the outermost, until `g_ctors_done` is set; the other that the
value each frame has saved is the innermost frame below it, which is what a pop puts back. `g_ctors_done`
and `g_eh_top` belong to the process (`guest_rt.c:747`, `guest_eh.c`), so with two threads both
theorems would be false; `OneThread` is their only assumption on the constants besides their types.

Of `Matching` it proves, for every hierarchy, however many bases its classes have up to the limit of the code, and every chain of records that `MatchingAssumption` allows,
`LookupIsRight` (`LookupIsTheSite`). The reference says which classes are derived from the one caught as the
least set closed under public bases; the code searches to a depth. That the two agree: the rows of the search
exist, from the deepest up (`RowsExist`); what is derived is derived through a base (`DerivedComesFrom`); and
since bases are smaller than what is derived from them, a search at depth `d` is right for every class `c`
with `d + c <= MaxDepth + 2` (`DeepEnough`, by the least class for which it is not). `MatchingAssumption` bounds the depth of
the hierarchy, the bases of each class and the records by `MaxDepth`, `MaxBases` and `MaxRecords`, which in the code are 32, 1024
(`guest_eh.c:270-277`) and 4096: beyond those `lsda_lookup` would miss a handler. The bases of a class are otherwise any
sequence. The invariant of the loop is that what is left are the records after the first `guard`,
that none of those looked at takes the exception, and that `sawCleanup` says whether one was a cleanup.

Of `Arguments` it proves, for any number of arguments of any kinds and of registers, `ArgumentsAreRead`
(`ArgumentsArrive`), from `~Positional`: finding 6 is that numbered arguments of `vsscanf` are read wrong. Where
the caller puts the arguments is a recursive function of how many are placed (`PlacesExist`, `PlacesOK`), and what is placed
stays (`PlacesKeep`). A cursor or a `va_list` that has the first `i - 1` behind it (`ReadsNext`) has the sizes of the
three areas at that point as its position: there `Fetched` gives the bytes of argument `i` (`FetchedIsThere`), and `Past` the
position at argument `i + 1` (`PastGoesOn`), the rounding of the stack before a long double included. The
invariant is that every reader is at its next argument (`ReadersAreThere`), through calls, copies and returns.

`WorkersProofs` proves, for folders of any size and any number of processes, `EveryFileHasItsTurn`
(`WholeFolder`). Every file is in the shard of exactly one worker (`SomeShard`, `OneShard`), and the step
from a file to the next of its shard leaves none out (`NextInShard`, `NoneBetween`). So one number for each
worker, `Past(w)`, says which files of its shard were compiled, by itself or by a parent that does the rest (`Tried`).
The other parts of `WorkInv` tie the exit statuses to it: a worker that exits with 0 has been through its shard
and met no bad file (`WorkerEnds`); a parent's status is 0 only while that of all it waited for is (`Waited`, `Rested`).

`RebuildProofs` proves of `Rebuild`, for any builds, load addresses, functions and texts, any number of runs
and any bound on how many are cut short:

* `RebuildTypes` (`RebuildTypeOK`).
* `GoodCacheIsAccepted` (`GoodIsAccepted`), and `AcceptedCacheAgrees` (`AcceptedIsThisImage`) from `Gaps = {}`,
  that is unless one of the four things of section 4 happens. The invariant: a stamp has the length of its
  binary (`Sized`) and is not of a later build (`Dated`); an analysis discards only what is not its own and
  has nothing else left when it scans (`Discards`, `Keeps`); what it writes is the scan of the binary at the path
  (`Scanned`); the scans are those of the stamp, but for those just written (`Together`).
* `LibraryHoldsTheTree` (`LibraryIsTheTree`): an object make thinks up to date was made from the files as they
  are (`MadeOf`) and is in the library unless newer than it (`Inside`); what is old is on make's list
  (`ToDo`); the archive is complete before it has its name (`Archive`).
* `WholeRunLeavesItsTree` (`TreeIsIntended`) and `ReportIsWhatMakeRebuilds` (`ChangedIsRemade`). The invariant
  `RunInv` follows the plan of a run step by step: bodies written so far, replaced by the stubs written so
  far, each other file after its turn, no other function once the rest is pruned. That what
  `prune_unreachable` computes by rounds is the least set closed under references needs that the rounds grow until they
  stop (`ReachInShut`, `ReachGrows`, `LiveIsReached`).

The assumptions these proofs need on the constants, each named in the module of its constants: a missing file is not
a torn one, and neither is a scan, a stamp or an archive; there is a binary; functions are finitely many and
none has the name of an aggregate file; every stub belongs to a body, and its text differs from that body's,
since it is a call of another function.

Only model-checked are the liveness properties (`WalksEnd`, `Recovers`, `TransferEnds`), since fairness and ENABLED are out
of the prover's reach, and the absence of deadlock. `SameTree` and the other properties of runs
that expect a violation are refuted, not proved. Induction over data, where a proof needed it, is an argument by a least counterexample
over a recursive function, as in `BlocksOf`, `Reach`, `Matches`, `Packing` and `Searched`: the library's induction theorems
take an operator as a parameter and cannot be used.

## 6. What is not modelled

* The guards of function-local statics (`guest_eh.c:741-768`): three functions of one byte each,
  in a program the runtime supports on one thread. What an exception or a recursive declaration does to
  them is a matter of the guest's code.
* Host services and `guest_scratch` (`guest_host.c`, `guest_cxx.c`, `guest_rt.c:585-610`): aligned
  allocation, files, `strerror_r` are single calls into the host's library, each with its own
  arithmetic and no state of the program.
* Formatting and parsing of numbers (`runtime/musl/`): vendored, compared with a C library by `tests/`.
* Floating point and vector helpers, and `irtoc.py`: a table from VEX operations to C text that
  `vecref.py` and `ccref.py` compare with a reference.
* Of the generator: the C text itself, the folding of immediates (`gen.py:1953`), trimming and false
  starts, which depend on heuristics over instruction patterns.
* Of the ELF readers: bytes and headers. Of `glslc_cli.c`: options, and what one compilation does.
* The diagnostic tools, the build scripts and the tests.
