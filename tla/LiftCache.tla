----------------------------- MODULE LiftCache ------------------------------
(* The cache of the control-flow recovery (analyze.py, lib/cachekey.py) and    *)
(* the check its reader makes (Ctx in lib/gen.py).  Three files, written one   *)
(* after the other, are keyed by the addresses of one binary mapped at one     *)
(* base; the binary may be replaced, and a run may be cut short at any step.   *)
EXTENDS Files, Sequences

CONSTANTS
    Binary,         \* builds of the guest library, a later one has a larger number
    Size, Span,     \* of a binary: its length, and its text span less the base
    Base,           \* addresses an image can be mapped at
    DefaultBase,    \* the loader's choice
    NoBase, NoSpan, \* None
    NoHash,         \* a meta.json from before cachekey.py has no sha256
    Gaps            \* what is allowed of the four things the check cannot see

\* funcs.json and indirect.json: the scan of a binary mapped at a base.
Scan == [bin : Binary, base : Base]

\* meta.json.
Meta == [sha : Binary \cup {NoHash}, size : {Size[b] : b \in Binary},
         base : Base, span : {Span[b] : b \in Binary}]

ASSUME LiftCacheAssumption ==
    /\ Binary \subseteq Nat /\ Binary # {}
    /\ {Absent, Torn} \cap (Scan \cup Meta) = {}
    /\ DefaultBase \in Base
    /\ NoBase \notin Base
    /\ NoHash \notin Binary
    /\ Gaps \subseteq {"explicit base", "rebase cut", "restored", "replaced in a scan"}

VARIABLES
    binary,     \* the bytes at the path of the binary
    cache,      \* the files of the cache directory
    an,         \* the analysis in progress
    lifted      \* what the last elf2c.py made of the cache

cacheVars == <<binary, cache, an, lifted>>

MetaFirst == <<"meta", "funcs", "indirect">>    \* Slip: the stamp is written first.
FILES == <<"funcs", "indirect", "meta">>
CacheFile == {"funcs", "indirect", "meta"}

FirstBinary == CHOOSE b \in Binary : \A c \in Binary : b <= c

CacheDir ==
    {c \in [CacheFile -> Scan \cup Meta \cup {Absent, Torn}] :
        /\ c["funcs"] \in Scan \cup {Absent, Torn}
        /\ c["indirect"] \in Scan \cup {Absent, Torn}
        /\ c["meta"] \in Meta \cup {Absent, Torn}}

\* An analysis: the files it has left to remove or to write, its third argument,
\* the image it has loaded and the hash it has taken.
Analysis == [pc : {"idle", "discard", "load", "scan", "write"}, left : Seq(CacheFile),
             base : Base, image : Scan, sha : Binary]

Idle == [pc |-> "idle", left |-> <<>>, base |-> DefaultBase,
         image |-> [bin |-> FirstBinary, base |-> DefaultBase], sha |-> FirstBinary]

NotLifted == [verdict |-> "none", verified |-> FALSE, image |-> Absent, from |-> Absent]

\* A cache from before the hash, of the first binary, or none yet.
OldCache(b, base) ==
    [f \in CacheFile |-> IF f = "meta"
                    THEN [sha |-> NoHash, size |-> Size[b], base |-> base, span |-> Span[b]]
                    ELSE [bin |-> b, base |-> base]]

CacheInit ==
    /\ binary = FirstBinary
    /\ \/ cache = [f \in CacheFile |-> Absent]
       \/ \E base \in Base : cache = OldCache(binary, base)
    /\ an = Idle
    /\ lifted = NotLifted

-----------------------------------------------------------------------------
(* cachekey.py.                                                                *)

\* load_meta: None unless meta.json is there and parses.
Readable(meta) == meta \in Meta

\* check: is the cache usable, and was that verified by a hash?  A pre-hash
\* cache is compared by base and span, as far as the caller gives them.
Check(meta, b, base, span) ==
    IF ~Readable(meta) THEN [ok |-> FALSE, verified |-> FALSE]
    ELSE IF meta.sha # NoHash
         THEN LET same == meta.size = Size[b] /\ meta.sha = b
              IN  [ok |-> same, verified |-> same]
         ELSE [ok |-> base \in {NoBase, meta.base} /\ span \in {NoSpan, meta.span},
               verified |-> FALSE]

-----------------------------------------------------------------------------
(* analyze.py.                                                                 *)

\* main, up to the loader: a cache that does not match the binary is discarded.
RefuseStale(base) ==                            \* Slip: it stops, as elf2c.py does.
    /\ an.pc = "idle"
    /\ cache["meta"] # Absent => Check(cache["meta"], binary, NoBase, NoSpan).ok
    /\ an' = [an EXCEPT !.pc = "load", !.left = <<>>, !.base = base]
    /\ lifted' = NotLifted
    /\ UNCHANGED <<binary, cache>>

AnalyseStart(base) ==
    /\ an.pc = "idle"
    /\ LET stale == /\ cache["meta"] # Absent
                    /\ ~Check(cache["meta"], binary, NoBase, NoSpan).ok
       IN  an' = [an EXCEPT !.pc = IF stale THEN "discard" ELSE "load",
                            !.left = IF stale THEN FILES ELSE <<>>,
                            !.base = base]
    /\ lifted' = NotLifted
    /\ UNCHANGED <<binary, cache>>

\* discard: one os.remove after the other.
AnalyseDiscard ==
    /\ an.pc = "discard"
    /\ cache' = [cache EXCEPT ![Head(an.left)] = Absent]
    /\ an' = [an EXCEPT !.left = Tail(@), !.pc = IF Len(an.left) = 1 THEN "load" ELSE @]
    /\ UNCHANGED <<binary, lifted>>

\* angr.Project reads the binary; CFGFast then works on what was read.
AnalyseLoad ==
    /\ an.pc = "load"
    /\ an' = [an EXCEPT !.pc = "scan", !.image = [bin |-> binary, base |-> an.base]]
    /\ UNCHANGED <<binary, cache, lifted>>

\* stamp: the hash is that of the file when the scan is over.
AnalyseStamp ==
    /\ an.pc = "scan"
    /\ an' = [an EXCEPT !.pc = "write", !.left = FILES, !.sha = binary]
    /\ UNCHANGED <<binary, cache, lifted>>

\* The three json.dump calls.
Contents(f) ==
    IF f = "meta" THEN [sha |-> an.sha, size |-> Size[an.sha], base |-> an.image.base,
                        span |-> Span[an.image.bin]]
    ELSE an.image

AnalyseWrite ==
    /\ an.pc = "write"
    /\ cache' = [cache EXCEPT ![Head(an.left)] = Contents(Head(an.left))]
    /\ an' = IF Len(an.left) = 1 THEN Idle ELSE [an EXCEPT !.left = Tail(@)]
    /\ UNCHANGED <<binary, lifted>>

Analyse == AnalyseDiscard \/ AnalyseLoad \/ AnalyseStamp \/ AnalyseWrite

\* The analysis is stopped, between two steps or with a file open for writing.
\* (Gap: files of one base beside the meta.json of another.)
AnalyseCut ==
    /\ an.pc # "idle"
    /\ Cut
    /\ an.pc = "write" /\ cache["meta"] \in Meta /\ cache["meta"].base # an.base
          => "rebase cut" \in Gaps
    /\ \/ UNCHANGED cache
       \/ an.pc = "write" /\ cache' = [cache EXCEPT ![Head(an.left)] = Torn]
    /\ an' = Idle
    /\ UNCHANGED <<binary, lifted>>

\* Another build takes the binary's place: a later one, and not during a scan.
ReplaceBinary(b) ==
    /\ b # binary
    /\ b < binary => "restored" \in Gaps
    /\ an.pc # "idle" => "replaced in a scan" \in Gaps
    /\ binary' = b
    /\ lifted' = NotLifted
    /\ UNCHANGED <<cache, an>>

-----------------------------------------------------------------------------
(* gen.py: Ctx.__init__, _check_cache and _load_cache, for elf2c.py run with   *)
(* --base b, or without.                                                       *)

\* The two halves of the check: a stamped cache is settled before the image is
\* loaded, a pre-hash one by base and span once it is.
StampedOnly(b, base) ==                         \* Slip: the second half is not made.
    Check(cache["meta"], b, NoBase, NoSpan).verified
Usable(b, base) ==
    LET early == Check(cache["meta"], b, NoBase, NoSpan)
    IN  /\ Readable(cache["meta"]) /\ ~early.ok => cache["meta"].sha = NoHash
        /\ early.verified \/ Check(cache["meta"], b, base, Span[b]).ok

\* json.load raises on a torn file; a file that is not there is passed over.
Loads == cache["funcs"] # Torn /\ cache["indirect"] # Torn

LiftBase(given) ==
    IF given # NoBase THEN given
    ELSE IF Readable(cache["meta"]) THEN cache["meta"].base ELSE DefaultBase

LoadCache(given) ==
    /\ an.pc = "idle"
    /\ given # NoBase => "explicit base" \in Gaps
    /\ LET base == LiftBase(given)
           ok == Usable(binary, base) /\ Loads
       IN  lifted' = [verdict |-> IF ok THEN "accepted" ELSE "refused",
                      verified |-> ok /\ Check(cache["meta"], binary, NoBase, NoSpan).verified,
                      image |-> [bin |-> binary, base |-> base],
                      from |-> cache]
    /\ UNCHANGED <<binary, cache, an>>

CacheNext ==
    \/ /\ \/ Analyse
          \/ \E b \in Base : AnalyseStart(b)
          \/ \E b \in Binary : ReplaceBinary(b)
          \/ \E b \in Base \cup {NoBase} : LoadCache(b)
       /\ UNCHANGED cuts
    \/ AnalyseCut

CacheSpec == CacheInit /\ cuts = 0 /\ [][CacheNext]_<<cacheVars, cuts>>

-----------------------------------------------------------------------------
(* Properties.                                                                 *)

CacheTypeOK ==
    /\ binary \in Binary
    /\ cache \in CacheDir
    /\ an \in Analysis
    /\ lifted.verdict \in {"none", "accepted", "refused"}
    /\ lifted.verdict # "none" => lifted.image \in Scan /\ lifted.from \in CacheDir
    /\ cuts \in 0..MaxCuts

\* A cache elf2c.py accepts as verified holds, all of it, the scan of the binary
\* it translates at the base it maps it at: "the base is taken from the cache, so
\* the two can never silently disagree".  A pre-hash cache is of that base too.
AcceptedIsThisImage ==
    lifted.verdict = "accepted" =>
        \A f \in {"funcs", "indirect"} :
            /\ lifted.from[f] \in Scan
            /\ lifted.from[f].base = lifted.image.base
            /\ lifted.verified => lifted.from[f].bin = lifted.image.bin

\* No good cache is refused: analyze.py's half hour is not thrown away, and what
\* it has just written for this binary is accepted at the base it was given.  One
\* without a hash "is not rejected" either when base and text span are the same.
GoodIsAccepted ==
    lifted.verdict = "refused" =>
        \E f \in CacheFile :
            \/ lifted.from[f] \in {Absent, Torn}
            \/ lifted.from[f].base # lifted.image.base
            \/ IF f = "meta"
               THEN IF lifted.from[f].sha = NoHash
                    THEN lifted.from[f].span # Span[lifted.image.bin]
                    ELSE lifted.from[f].sha # lifted.image.bin
               ELSE lifted.from[f].bin # lifted.image.bin
=============================================================================
