----------------------------- MODULE OutputTree -----------------------------
(* The tree elf2c.py writes and the library make builds from it (layout.py and *)
(* the end of main in elf2c.py).  Files are rewritten in place and only when    *)
(* they differ; make decides by their times alone; either may be cut short.    *)
EXTENDS Files, SequencesExt, FiniteSets

CONSTANTS
    Fn,             \* functions, each with a file src/fn/f_<address>.c of its own
    Input,          \* what elf2c.py can be given
    Gen,            \* for each input: what the run writes
    NoInput

\* Gen[g]: for each function the body of pass 2 and, if it is folded into another,
\* the stub that then replaces it; and the contents of the other files.  "dispatch"
\* stands for the aggregate files, "header" for include/*.h, "image" for data_ro.bin.
Src == Fn \cup {"dispatch", "data_ro", "data_text"}
File == Src \cup {"header", "image", "Makefile"}

\* What a file can hold, and what an object is made from (Snapshot below).
Texts(g) ==
    {Gen[g].body[f] : f \in DOMAIN Gen[g].body} \cup {Gen[g].stub[f] : f \in DOMAIN Gen[g].stub}
        \cup {Gen[g].header, Gen[g].image, Gen[g].data_ro, Gen[g].data_text,
              Gen[g].dispatch, Gen[g].makefile}
Content == {Absent, Torn} \cup UNION {Texts(g) : g \in Input}
Made == {<<>>} \cup (Content \X Content \X Content)

\* The stub of a function is never the text of its body: one calls another
\* function, the other is the function.
ASSUME OutputTreeAssumption ==
    /\ IsFiniteSet(Fn)
    /\ Fn \cap {"dispatch", "data_ro", "data_text", "header", "image", "Makefile"} = {}
    /\ NoInput \notin Input
    /\ \A g \in Input :
          /\ DOMAIN Gen[g].body \subseteq Fn
          /\ DOMAIN Gen[g].stub \subseteq DOMAIN Gen[g].body
          /\ \A f \in DOMAIN Gen[g].body : Gen[g].body[f] # Absent
          /\ \A f \in DOMAIN Gen[g].stub : Gen[g].stub[f] \notin {Absent, Gen[g].body[f]}
    /\ \A ss \in SUBSET Src : Torn \notin [ss -> Made]

VARIABLES
    disk,       \* the contents of each file of the tree
    obj,        \* build/: for each source its object file
    lib, tmp,   \* libguest.a and libguest.a.tmp: for each member what it was made of
    gen,        \* the run of elf2c.py in progress
    mk,         \* the run of make in progress
    complete,   \* (history) the input of the last run, if the tree is all its work
    built       \* (history) make has finished since

treeVars == <<disk, obj, lib, tmp, gen, mk, complete, built>>

\* What a file declares, and so refers to, and what it defines.
Refs(c) == IF c \in {Absent, Torn} THEN {} ELSE c.refs
Defs(c) == IF c \in {Absent, Torn} THEN {} ELSE c.defs

\* $(wildcard src/*.c) $(wildcard src/fn/*.c): what make compiles.
Sources == {s \in Src : disk[s] # Absent}

\* Everything the object of s is made from.  All sources include the header; the
\* image is embedded in data_ro.c, and is a prerequisite by a rule of its own.
Snapshot(s) == <<disk[s], disk["header"], IF s = "data_ro" THEN disk["image"] ELSE Absent>>
ByDepfile(s, f) == f \in {s, "header"}      \* Slip: #embed is not visible to -MMD.
Needs(s, f) == f \in {s, "header"} \/ (s = "data_ro" /\ f = "image")

\* An object: what it was made from, whether a prerequisite is newer than it, and
\* whether it is newer than the library.
NoObj == [of |-> <<>>, old |-> TRUE, late |-> TRUE]

\* The times of the files fs move.
Touch(fs) ==
    obj' = [s \in Src |-> IF \E f \in fs : Needs(s, f) THEN [obj[s] EXCEPT !.old = TRUE]
                          ELSE obj[s]]

\* A run of elf2c.py: its input, the steps it has left, the names it has written,
\* those whose files changed, and (history) the files it has touched, the input
\* whose intact tree it started from and whether that tree was built.
NoRun == [input |-> NoInput, plan |-> <<>>, written |-> {}, changed |-> {},
          touched |-> {}, was |-> NoInput, built |-> FALSE]
NoMake == [pc |-> "idle", todo |-> {}]

TreeInit ==
    /\ disk = [f \in File |-> Absent]
    /\ obj = [s \in Src |-> NoObj]
    /\ lib = Absent /\ tmp = Absent
    /\ gen = NoRun /\ mk = NoMake
    /\ complete = NoInput /\ built = FALSE

TreeIdle == gen.input = NoInput /\ mk.pc = "idle"

-----------------------------------------------------------------------------
(* elf2c.py.                                                                   *)

Step(do, f, c) == [do |-> do, file |-> f, is |-> c]
WriteAll(files) == [i \in 1..Cardinality(DOMAIN files) |->
                       LET f == SetToSeq(DOMAIN files)[i] IN Step("write", f, files[f])]

\* Pass 2, the folds, then write_tree, whose argument prunes, and at last the
\* files nothing reaches.
Plan(g) ==
    WriteAll(Gen[g].body) \o WriteAll(Gen[g].stub)
    \o <<Step("prune", "", Absent),
         Step("write", "header", Gen[g].header),
         Step("write", "image", Gen[g].image),
         Step("write", "data_ro", Gen[g].data_ro),
         Step(IF Gen[g].data_text = Absent THEN "remove" ELSE "write",
              "data_text", Gen[g].data_text),
         Step("write", "dispatch", Gen[g].dispatch),
         Step("rewrite", "Makefile", Gen[g].makefile),
         Step("unreachable", "", Absent)>>

GenerateStart(g) ==
    /\ TreeIdle
    /\ gen' = [NoRun EXCEPT !.input = g, !.plan = Plan(g), !.was = complete, !.built = built]
    /\ complete' = NoInput
    /\ built' = FALSE
    /\ UNCHANGED <<disk, obj, lib, tmp, mk>>

Now == Head(gen.plan)
Running == gen.plan # <<>>
Reporting == gen.input # NoInput /\ ~Running
Doing(do) == Running /\ Now.do = do

\* _write, and FunctionWriter.write around it for a function.
CountsAll(f, differs) == gen.changed \cup {f}           \* Slip.
Changed(f, differs) ==
    IF differs THEN gen.changed \cup {f} ELSE gen.changed \ {f}

Differs(f, c) == disk[f] # c

WriteFile ==
    /\ Doing("write")
    /\ LET f == Now.file
           c == Now.is
           differs == Differs(f, c)
       IN  /\ disk' = [disk EXCEPT ![f] = c]
           /\ IF differs THEN Touch({f}) ELSE UNCHANGED obj
           /\ gen' = [gen EXCEPT
                         !.plan = Tail(@),
                         !.written = IF f \in Fn THEN @ \cup {f} ELSE @,
                         !.changed = IF f \in Fn THEN Changed(f, differs) ELSE @,
                         !.touched = IF differs THEN @ \cup {f} ELSE @]
    /\ UNCHANGED <<lib, tmp, mk, complete, built>>

\* write_tree removes a data_text.c it has no use for.
RemoveFile ==
    /\ Doing("remove")
    /\ disk' = [disk EXCEPT ![Now.file] = Absent]
    /\ gen' = [gen EXCEPT !.plan = Tail(@)]
    /\ UNCHANGED <<obj, lib, tmp, mk, complete, built>>

\* The Makefile is written each time.
RewriteMakefile ==
    /\ Doing("rewrite")
    /\ disk' = [disk EXCEPT !["Makefile"] = Now.is]
    /\ gen' = [gen EXCEPT !.plan = Tail(@)]
    /\ UNCHANGED <<obj, lib, tmp, mk, complete, built>>

\* The files gone after their removal.  Objects are in build/ and stay there.
Without(fs) == [f \in File |-> IF f \in fs THEN Absent ELSE disk[f]]

\* FunctionWriter.prune: files of functions this run has not written.
KeepAll == {}                                           \* Slip.
Stale == {f \in Fn : disk[f] # Absent} \ gen.written

Prune ==
    /\ Doing("prune")
    /\ disk' = Without(Stale)
    /\ gen' = [gen EXCEPT !.plan = Tail(@)]
    /\ UNCHANGED <<obj, lib, tmp, mk, complete, built>>

\* FunctionWriter.prune_unreachable: the functions the aggregate files name, and
\* those reached from them by the declarations in the files on disk.
Roots == Refs(disk["dispatch"]) \cup Refs(disk["data_text"])
Reach[n \in 0..Cardinality(Fn)] ==
    {f \in Fn : disk[f] # Absent}
        \cap (IF n = 0 THEN Roots
              ELSE Reach[n - 1] \cup UNION {Refs(disk[f]) : f \in Reach[n - 1]})
Live == Reach[Cardinality(Fn)]
Unreachable == {f \in Fn : disk[f] # Absent} \ Live

PruneUnreachable ==
    /\ Doing("unreachable")
    /\ disk' = Without(Unreachable)
    /\ gen' = [gen EXCEPT !.plan = Tail(@),
                          !.written = @ \ Unreachable,
                          !.changed = @ \ Unreachable]
    /\ UNCHANGED <<obj, lib, tmp, mk, complete, built>>

\* The audit, the report, and the end.
GenerateEnd ==
    /\ Reporting
    /\ complete' = gen.input
    /\ gen' = NoRun
    /\ UNCHANGED <<disk, obj, lib, tmp, mk, built>>

\* elf2c.py is stopped: between two steps, with a file half written, or with
\* some of the files it removes still there.
GenerateCut ==
    /\ Running
    /\ Cut
    /\ \/ UNCHANGED <<disk, obj>>
       \/ /\ Now.do = "rewrite" \/ (Now.do = "write" /\ Differs(Now.file, Now.is))
          /\ disk' = [disk EXCEPT ![Now.file] = Torn]
          /\ Touch({Now.file})
       \/ \E fs \in SUBSET (IF Now.do = "prune" THEN Stale
                            ELSE IF Now.do = "unreachable" THEN Unreachable ELSE {}) :
             disk' = Without(fs) /\ UNCHANGED obj
    /\ gen' = NoRun
    /\ UNCHANGED <<lib, tmp, mk, complete, built>>

Generate ==
    WriteFile \/ RemoveFile \/ Prune \/ RewriteMakefile \/ PruneUnreachable \/ GenerateEnd

-----------------------------------------------------------------------------
(* The Makefile.                                                               *)

\* make reads the tree: the objects that are missing or older than a prerequisite.
Unlisted ==                 \* Slip: the sources are not looked for.
    /\ TreeIdle
    /\ disk["Makefile"] \notin {Absent, Torn}
    /\ mk' = [pc |-> "compile", todo |-> {s \in Src : obj[s].old}]
    /\ UNCHANGED <<disk, obj, lib, tmp, gen, complete, built>>
MakeStart ==
    /\ TreeIdle
    /\ disk["Makefile"] \notin {Absent, Torn}
    /\ mk' = [pc |-> "compile", todo |-> {s \in Sources : obj[s].old}]
    /\ UNCHANGED <<disk, obj, lib, tmp, gen, complete, built>>

\* $(CC) -c: the rules of the objects, in any order.
Compile(s) ==
    /\ mk.pc = "compile"
    /\ s \in mk.todo
    /\ obj' = [obj EXCEPT ![s] = [of |-> Snapshot(s), old |-> FALSE, late |-> TRUE]]
    /\ mk' = [mk EXCEPT !.todo = @ \ {s}]
    /\ UNCHANGED <<disk, lib, tmp, gen, complete, built>>

\* A file cut short may compile or not.
CompileFails(s) ==
    /\ mk.pc = "compile"
    /\ s \in mk.todo
    /\ Torn \in {Snapshot(s)[i] : i \in 1..3}
    /\ mk' = NoMake
    /\ UNCHANGED <<disk, obj, lib, tmp, gen, complete, built>>

\* $(LIB): $(OBJS).  The archive is made again when an object is newer than it.
Relink == lib = Absent \/ \E s \in Sources : obj[s].late

UpToDate ==
    /\ mk.pc = "compile" /\ mk.todo = {}
    /\ ~Relink
    /\ mk' = NoMake
    /\ built' = (complete # NoInput)
    /\ UNCHANGED <<disk, obj, lib, tmp, gen, complete>>

\* $(RM_LIB_TMP), and $(AR) begins to write.
ArchiveBegins ==
    /\ mk.pc = "compile" /\ mk.todo = {}
    /\ Relink
    /\ tmp' = Torn
    /\ mk' = [mk EXCEPT !.pc = "archive"]
    /\ UNCHANGED <<disk, obj, lib, gen, complete, built>>

\* $(AR) is done with the objects of the response file.
ArchiveEnds ==
    /\ mk.pc = "archive"
    /\ tmp' = [s \in Sources |-> obj[s].of]
    /\ mk' = [mk EXCEPT !.pc = "rename"]
    /\ UNCHANGED <<disk, obj, lib, gen, complete, built>>

\* $(MV_LIB_TMP).
Rename ==
    /\ mk.pc = "rename"
    /\ lib' = tmp /\ tmp' = Absent
    /\ obj' = [s \in Src |-> [obj[s] EXCEPT !.late = FALSE]]
    /\ mk' = NoMake
    /\ built' = (complete # NoInput)
    /\ UNCHANGED <<disk, gen, complete>>

\* make is stopped: it removes the targets whose recipes it was running.  What ar
\* has written is under the temporary name.
MakeCut ==
    /\ mk.pc # "idle"
    /\ Cut
    /\ \E ss \in SUBSET mk.todo :
          obj' = [s \in Src |-> IF s \in ss THEN NoObj ELSE obj[s]]
    /\ mk' = NoMake
    /\ UNCHANGED <<disk, lib, tmp, gen, complete, built>>

Make ==
    \/ \E s \in Src : Compile(s) \/ CompileFails(s)
    \/ UpToDate \/ ArchiveBegins \/ ArchiveEnds \/ Rename

TreeNext ==
    \/ /\ Generate \/ Make \/ MakeStart \/ \E g \in Input : GenerateStart(g)
       /\ UNCHANGED cuts
    \/ GenerateCut \/ MakeCut

TreeSpec == TreeInit /\ cuts = 0 /\ [][TreeNext]_<<treeVars, cuts>>

-----------------------------------------------------------------------------
(* Properties.                                                                 *)

TreeTypeOK ==
    /\ disk \in [File -> Content]
    /\ obj \in [Src -> [of : Made, old : BOOLEAN, late : BOOLEAN]]
    /\ gen.input \in Input \cup {NoInput}
    /\ gen.written \subseteq Fn /\ gen.changed \subseteq Fn /\ gen.touched \subseteq File
    /\ mk.pc \in {"idle", "compile", "archive", "rename"} /\ mk.todo \subseteq Sources
    /\ complete \in Input \cup {NoInput} /\ built \in BOOLEAN
    /\ cuts \in 0..MaxCuts

\* What a run on g is to leave, whatever it found: the last text of each function
\* the aggregate files reach, and nothing else in the directories make compiles.
LastText(g, f) ==
    IF f \in DOMAIN Gen[g].stub THEN Gen[g].stub[f]
    ELSE IF f \in DOMAIN Gen[g].body THEN Gen[g].body[f] ELSE Absent
Closed(g, fs) ==
    Fn \cap (Refs(Gen[g].dispatch) \cup Refs(Gen[g].data_text) \cup UNION {Refs(LastText(g, f)) : f \in fs}) \cap
        DOMAIN Gen[g].body \subseteq fs
Reached(g) == {f \in DOMAIN Gen[g].body : \A fs \in SUBSET Fn : Closed(g, fs) => f \in fs}
Intended ==
    [g \in Input |-> [f \in File |->
        IF f \in Fn THEN IF f \in Reached(g) THEN LastText(g, f) ELSE Absent
        ELSE CASE f = "dispatch" -> Gen[g].dispatch
               [] f = "data_ro" -> Gen[g].data_ro
               [] f = "data_text" -> Gen[g].data_text
               [] f = "header" -> Gen[g].header
               [] f = "image" -> Gen[g].image
               [] f = "Makefile" -> Gen[g].makefile]]

\* A run that is not cut short leaves the tree of its input, whatever runs on
\* other inputs and cut short at any point have left there before.
TreeIsIntended == complete # NoInput => disk = Intended[complete]

\* make, after a whole run, leaves a library whose members are made from the
\* files of the tree as they are, however many builds were interrupted before:
\* no source, header or image has changed under an object thought up to date.  "The
\* archive appears only when it is complete."
LibraryIsTheTree ==
    /\ built => \A s \in Sources : s \in DOMAIN lib /\ lib[s] = Snapshot(s)
    /\ lib # Torn

\* changed_files "is exactly the set make will rebuild" of the function files, if
\* everything was built and no header has changed; and generating the same tree again
\* leaves the times of its files alone, but for the functions that are folded.
ChangedIsRemade ==
    /\ Reporting /\ gen.built /\ "header" \notin gen.touched =>
           gen.changed = {f \in Fn : f \in Sources /\ obj[f].old}
    /\ Reporting /\ gen.was = gen.input =>
           gen.touched \cap {f \in File : disk[f] # Absent} \subseteq DOMAIN Gen[gen.input].stub
=============================================================================
