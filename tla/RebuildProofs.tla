---------------------------- MODULE RebuildProofs ----------------------------
(* That analyze.py, elf2c.py and make leave what they are to leave: a cache that *)
(* is of one image, the tree of the last input and no other, and a library that *)
(* is made of the files as they are.  For any binaries and bases, any inputs    *)
(* and any functions, however many runs are cut short and wherever.             *)
(*                                                                             *)
(* The three programs share files alone.  Parts takes a step of the whole apart *)
(* into the cache's and the tree's; the cache, the library and the tree then    *)
(* have an invariant each, of which the tree's and the library's need only that *)
(* the cache is well formed.                                                    *)
EXTENDS Rebuild, FiniteSetTheorems, SequenceTheorems, WellFoundedInduction, TLAPS

-----------------------------------------------------------------------------
(* The whole and its parts.                                                     *)

\* Of a set of natural numbers that is not empty, one is the least.
LEMMA LeastNumber ==
    ASSUME NEW T \in SUBSET Nat, T # {}
    PROVE  \E m \in T : \A k \in T : m <= k
<1> DEFINE R == {xy \in Nat \X Nat : xy[1] < xy[2]}
<1>1. IsWellFoundedOn(R, Nat)
  BY NatLessThanWellFounded DEF OpToRel
<1>2. \A k, m \in Nat : k < m => <<k, m>> \in R
  OBVIOUS
<1> HIDE DEF R
<1>3. PICK m \in T : \A k \in T : <<k, m>> \notin R
  BY <1>1, WFMin
<1>4. ASSUME NEW k \in T PROVE m <= k
  <2>1. k \in Nat /\ m \in Nat /\ ~(k < m)
    BY <1>2, <1>3
  <2> QED BY <2>1
<1> QED BY <1>4

\* A step of the whole is a step of one program on its files: the cache's part,
CacheMove ==
    \/ \E b \in Base : AnalyseStart(b)
    \/ Analyse
    \/ AnalyseCut
    \/ \E b \in Binary : ReplaceBinary(b)
    \/ \E b \in Base \cup {NoBase} : LoadCache(b)

\* the tree's,
TreeMove ==
    \/ \E g \in Input : GenerateStart(g)
    \/ Generate
    \/ GenerateCut
    \/ MakeStart
    \/ Make
    \/ MakeCut

\* and the bound's.
CutsMove == Cut \/ UNCHANGED cuts

\* What a cache file can hold is told apart.
LEMMA Kinds ==
    /\ Absent \notin Scan /\ Torn \notin Scan /\ Absent \notin Meta /\ Torn \notin Meta
    /\ \A m \in Meta : m \notin Scan
    /\ FirstBinary \in Binary
<1>1. \A m \in Meta : m \notin Scan
  BY DEF Meta, Scan
<1>2. FirstBinary \in Binary
  <2>1. Binary \in SUBSET Nat /\ Binary # {}
    BY LiftCacheAssumption
  <2>2. \E b \in Binary : \A c \in Binary : b <= c
    BY <2>1, LeastNumber
  <2> QED BY <2>2 DEF FirstBinary
<1> QED BY <1>1, <1>2, LiftCacheAssumption

\* A cache is of what its three files may be.
LEMMA Dir ==
    ASSUME NEW c
    PROVE  c \in CacheDir <=>
             /\ c = [f \in CacheFile |-> c[f]]
             /\ c["funcs"] \in Scan \cup {Absent, Torn}
             /\ c["indirect"] \in Scan \cup {Absent, Torn}
             /\ c["meta"] \in Meta \cup {Absent, Torn}
BY DEF CacheDir, CacheFile

\* The bound on the runs cut short is kept to, whatever else goes on.
LEMMA Bounded ==
    ASSUME cuts \in 0..MaxCuts, CutsMove PROVE cuts' \in 0..MaxCuts
BY FilesAssumption DEF CutsMove, Cut

\* The next-state relation taken apart.  The two parts of a step go together in
\* Elf2cStart alone: the cache is accepted and a run is started on its image.
LEMMA Parts ==
    ASSUME RNext, binary \in Binary, cache \in CacheDir
    PROVE  /\ CutsMove
           /\ CacheMove \/ UNCHANGED cacheVars
           /\ TreeMove \/ UNCHANGED treeVars
<1>1. CASE Analyze
  BY <1>1 DEF Analyze, CutsMove, CacheMove
<1>2. CASE MakeRuns
  BY <1>2 DEF MakeRuns, CutsMove, TreeMove
<1>3. CASE Replace
  BY <1>3 DEF Replace, CutsMove, CacheMove, ReplaceBinary
<1>4. CASE CutShort
  <2>1. CASE AnalyseCut /\ UNCHANGED treeVars
    BY <2>1 DEF CutsMove, CacheMove, AnalyseCut
  <2>2. CASE (GenerateCut \/ MakeCut) /\ UNCHANGED cacheVars
    BY <2>2 DEF CutsMove, TreeMove, GenerateCut, MakeCut
  <2> QED BY <1>4, <2>1, <2>2 DEF CutShort
<1>5. CASE Elf2c
  <2>1. CASE Generate /\ UNCHANGED cacheVars
    BY <1>5, <2>1 DEF Elf2c, CutsMove, TreeMove
  <2>2. ASSUME NEW given \in Base \cup {NoBase}, Elf2cStart(given)
        PROVE  CacheMove /\ (TreeMove \/ UNCHANGED treeVars)
    <3>1. LoadCache(given)
      BY <2>2 DEF Elf2cStart
    <3>2. LiftBase(given) \in Base /\ binary \in Binary
      BY <2>2, LiftCacheAssumption DEF LiftBase, Readable, Meta
    <3>3. lifted'.image.base = LiftBase(given)
      BY <3>1 DEF LoadCache
    <3>4. InputOf[binary][lifted'.image.base] \in Input
      BY <3>2, <3>3, RebuildAssumption
    <3>5. \/ GenerateStart(InputOf[binary][lifted'.image.base])
          \/ UNCHANGED treeVars
      BY <2>2 DEF Elf2cStart
    <3> QED BY <3>1, <3>4, <3>5 DEF CacheMove, TreeMove
  <2> QED BY <1>5, <2>1, <2>2 DEF Elf2c, CutsMove
<1> QED BY <1>1, <1>2, <1>3, <1>4, <1>5 DEF RNext

-----------------------------------------------------------------------------
(* The cache.                                                                  *)

Stamp == cache["meta"]
Scans == {"funcs", "indirect"}

\* The next analysis of the binary keeps this cache: it is of the binary, or it
\* does not say what it is of.
Ours == Stamp \in Meta /\ Stamp.sha \in {NoHash, binary}

\* A scan beside the stamp: of the stamp's base, and of its binary when it says.
OfStamp(f) ==
    \/ cache[f] = Torn
    \/ /\ cache[f] \in Scan /\ cache[f].base = Stamp.base
       /\ Stamp.sha # NoHash => cache[f].bin = Stamp.sha

\* What is left of FILES in the middle of a discard or of the writing.
Rests == {<<"funcs", "indirect", "meta">>, <<"indirect", "meta">>, <<"meta">>}
InRest(f) == (f = "funcs" /\ an.left = FILES) \/ (f = "indirect" /\ an.left # <<"meta">>)

\* A stamp has the length of its binary,
Sized == Stamp \in Meta /\ Stamp.sha # NoHash => Stamp.size = Size[Stamp.sha]
\* and is not of a build that is yet to come.
Dated == Stamp \in Meta /\ Stamp.sha # NoHash => Stamp.sha <= binary
Queued == an.pc \in {"discard", "write"} => an.left \in Rests
\* The analysis discards what does not match, and after that nothing is left of it.
Discards == an.pc = "discard" => ~Ours
Keeps == an.pc \in {"load", "scan", "write"} => Stamp = Absent \/ Ours
\* What is written is the scan of the binary at the base that was asked for.
Scanned ==
    /\ an.pc \in {"scan", "write"} => an.image = [bin |-> binary, base |-> an.base]
    /\ an.pc = "write" =>
          /\ an.sha = binary
          /\ \A f \in Scans : ~InRest(f) => cache[f] = an.image
\* The scans are those of the stamp, but for what the analysis has just written.
Together ==
    Ours => \A f \in Scans : OfStamp(f) \/ (an.pc = "write" /\ ~InRest(f))

LEMMA RestFacts ==
    /\ FILES \in Rests /\ Rests \subseteq Seq(CacheFile) /\ <<>> \in Seq(CacheFile)
    /\ FILES # <<"meta">>
    /\ \A l \in Rests :
          /\ Head(l) \in CacheFile
          /\ Head(l) = "funcs" => l = FILES
          /\ Head(l) = "meta" <=> Len(l) = 1
          /\ Head(l) = "meta" <=> l = <<"meta">>
          /\ Len(l) # 1 => Tail(l) \in Rests /\ Tail(l) # FILES
          /\ Head(l) = "indirect" => Tail(l) = <<"meta">>
          /\ Head(l) = "funcs" => Tail(l) # <<"meta">>
          /\ l # FILES /\ Len(l) # 1 => Head(l) = "indirect"
<1> DEFINE a == <<"funcs", "indirect", "meta">>
           b == <<"indirect", "meta">>
           c == <<"meta">>
<1>1. /\ Len(a) = 3 /\ Len(b) = 2 /\ Len(c) = 1
      /\ Head(a) = "funcs" /\ Head(b) = "indirect" /\ Head(c) = "meta"
      /\ Tail(a) = b /\ Tail(b) = c
  OBVIOUS
<1>2. /\ a \in Seq(CacheFile) /\ b \in Seq(CacheFile) /\ c \in Seq(CacheFile)
      /\ <<>> \in Seq(CacheFile)
  BY DEF CacheFile
<1>3. FILES = a /\ Rests = {a, b, c}
  BY DEF FILES, Rests
<1> HIDE DEF a, b, c
<1>4. a # b /\ a # c /\ b # c
  BY <1>1
<1>5. c = <<"meta">>
  BY DEF c
<1>6. /\ FILES \in Rests /\ Rests \subseteq Seq(CacheFile) /\ <<>> \in Seq(CacheFile)
      /\ FILES # <<"meta">>
  BY <1>2, <1>3, <1>4, <1>5
<1>7. ASSUME NEW l \in Rests
      PROVE  /\ Head(l) \in CacheFile
             /\ Head(l) = "funcs" => l = FILES
             /\ Head(l) = "meta" <=> Len(l) = 1
             /\ Head(l) = "meta" <=> l = <<"meta">>
             /\ Len(l) # 1 => Tail(l) \in Rests /\ Tail(l) # FILES
             /\ Head(l) = "indirect" => Tail(l) = <<"meta">>
             /\ Head(l) = "funcs" => Tail(l) # <<"meta">>
             /\ l # FILES /\ Len(l) # 1 => Head(l) = "indirect"
  <2>1. CASE l = a
    <3>1. /\ Head(l) = "funcs" /\ Len(l) = 3 /\ l = FILES /\ l # <<"meta">>
          /\ Tail(l) \in Rests /\ Tail(l) # FILES /\ Tail(l) # <<"meta">>
      BY <2>1, <1>1, <1>3, <1>4, <1>5
    <3> QED BY <3>1 DEF CacheFile
  <2>2. CASE l = b
    <3>1. /\ Head(l) = "indirect" /\ Len(l) = 2 /\ l # FILES /\ l # <<"meta">>
          /\ Tail(l) \in Rests /\ Tail(l) # FILES /\ Tail(l) = <<"meta">>
      BY <2>2, <1>1, <1>3, <1>4, <1>5
    <3> QED BY <3>1 DEF CacheFile
  <2>3. CASE l = c
    <3>1. Head(l) = "meta" /\ Len(l) = 1 /\ l = <<"meta">> /\ l # FILES
      BY <2>3, <1>1, <1>3, <1>4, <1>5
    <3> QED BY <3>1 DEF CacheFile
  <2> QED BY <1>3, <2>1, <2>2, <2>3
<1> QED BY <1>6, <1>7

\* One file of the cache is written, or removed.
LEMMA PutCache ==
    ASSUME cache \in CacheDir, NEW f \in CacheFile,
           NEW x \in Scan \cup Meta \cup {Absent, Torn}, cache' = [cache EXCEPT ![f] = x],
           f # "meta" => x \in Scan \cup {Absent, Torn},
           f = "meta" => x \in Meta \cup {Absent, Torn}
    PROVE  /\ cache' \in CacheDir /\ cache'[f] = x
           /\ \A e \in CacheFile : e # f => cache'[e] = cache[e]
           /\ Stamp' = IF f = "meta" THEN x ELSE Stamp
<1>1. CacheFile = {"funcs", "indirect", "meta"} /\ DOMAIN cache = CacheFile
  BY DEF CacheDir, CacheFile
<1>2. cache'[f] = x /\ \A e \in CacheFile : e # f => cache'[e] = cache[e]
  BY <1>1
<1>3. /\ cache["funcs"] \in Scan \cup {Absent, Torn}
      /\ cache["indirect"] \in Scan \cup {Absent, Torn}
      /\ cache["meta"] \in Meta \cup {Absent, Torn}
  BY DEF CacheDir
<1>4. cache' = [e \in CacheFile |-> cache'[e]]
  BY <1>1
<1>5. /\ cache'["funcs"] \in Scan \cup {Absent, Torn}
      /\ cache'["indirect"] \in Scan \cup {Absent, Torn}
      /\ cache'["meta"] \in Meta \cup {Absent, Torn}
  BY <1>1, <1>2, <1>3
<1>6. cache' \in CacheDir
  BY <1>4, <1>5, Dir
<1> QED BY <1>1, <1>2, <1>6 DEF Stamp

-----------------------------------------------------------------------------
(* What holds of the cache whatever else is done to the binary.                *)

CacheFields ==
    /\ binary \in Binary
    /\ cache \in CacheDir
    /\ an \in Analysis
    /\ lifted.verdict \in {"none", "accepted", "refused"}
    /\ lifted.verdict # "none" => lifted.image \in Scan /\ lifted.from \in CacheDir

LEMMA AnalysisFields ==
    ASSUME NEW a \in Analysis
    PROVE  /\ a.pc \in {"idle", "discard", "load", "scan", "write"} /\ a.left \in Seq(CacheFile)
           /\ a.base \in Base /\ a.image \in Scan /\ a.sha \in Binary
BY DEF Analysis

LEMMA IdleTyped == Idle \in Analysis /\ Idle.pc = "idle" /\ NotLifted.verdict = "none"
<1>1. [bin |-> FirstBinary, base |-> DefaultBase] \in Scan
  BY Kinds, LiftCacheAssumption DEF Scan
<1> QED BY <1>1, Kinds, RestFacts, LiftCacheAssumption DEF Idle, Analysis, NotLifted

\* What is written has the type of its file, and a length that is its binary's.
LEMMA ContentsTyped ==
    ASSUME CacheFields, NEW f \in CacheFile
    PROVE  /\ f # "meta" => Contents(f) \in Scan
           /\ f = "meta" => Contents(f) \in Meta /\ Contents(f).size = Size[Contents(f).sha]
<1>1. an.image \in Scan /\ an.sha \in Binary
  BY AnalysisFields DEF CacheFields
<1>2. an.image.bin \in Binary /\ an.image.base \in Base
  BY <1>1 DEF Scan
<1> QED BY <1>1, <1>2 DEF Contents, Meta

LEMMA CacheFieldsStep ==
    ASSUME CacheFields, Sized, Queued, CacheMove
    PROVE  (CacheFields /\ Sized /\ Queued)'
<1> USE DEF CacheFields, Stamp
<1>1. an \in Analysis /\ cache \in CacheDir /\ NotLifted.verdict = "none"
  BY IdleTyped
<1>2. ASSUME NEW b \in Base, AnalyseStart(b) PROVE (CacheFields /\ Sized /\ Queued)'
  <2>1. /\ an'.pc \in {"discard", "load"} /\ an'.base = b /\ an' \in Analysis
        /\ an'.pc = "discard" => an'.left = FILES
    <3>1. PICK a \in Analysis : a = an
      BY <1>1
    <3>2. PICK p \in {"discard", "load"}, l \in Seq(CacheFile) :
             an' = [a EXCEPT !.pc = p, !.left = l, !.base = b] /\ (p = "discard" => l = FILES)
      BY <1>2, <3>1, RestFacts DEF AnalyseStart
    <3> QED BY <3>2 DEF Analysis
  <2>2. UNCHANGED <<binary, cache>> /\ lifted' = NotLifted
    BY <1>2 DEF AnalyseStart
  <2> QED BY <1>1, <2>1, <2>2, RestFacts DEF Sized, Queued
<1>3. CASE AnalyseDiscard
  <2>1. /\ an.pc = "discard" /\ cache' = [cache EXCEPT ![Head(an.left)] = Absent]
        /\ UNCHANGED <<binary, lifted>>
        /\ an' = [an EXCEPT !.left = Tail(@), !.pc = IF Len(an.left) = 1 THEN "load" ELSE @]
    BY <1>3 DEF AnalyseDiscard
  <2>2. an.left \in Rests
    BY <2>1 DEF Queued
  <2>3. /\ cache' \in CacheDir /\ (Stamp' = Stamp \/ Stamp' = Absent)
    <3>1. PICK f \in CacheFile : f = Head(an.left)
      BY <2>2, RestFacts
    <3>2. "meta" \in CacheFile /\ cache' = [cache EXCEPT ![f] = Absent]
      BY <2>1, <3>1 DEF CacheFile
    <3>3. cache' \in CacheDir /\ (f = "meta" => Stamp' = Absent) /\ (f # "meta" => Stamp' = Stamp)
      BY <1>1, <3>2, PutCache
    <3> QED BY <3>3
  <2>4. an' \in Analysis /\ (an'.pc = "load" \/ (an'.pc = "discard" /\ an'.left \in Rests))
    <3>1. PICK a \in Analysis : a = an
      BY <1>1
    <3>2. Tail(a.left) \in Seq(CacheFile) /\ (Len(a.left) # 1 => Tail(a.left) \in Rests)
      BY <2>2, <3>1, RestFacts, HeadTailProperties
    <3>3. PICK t \in Seq(CacheFile) : t = Tail(a.left)
      BY <3>2
    <3>4. PICK p \in {"load", "discard"} :
             p = (IF Len(a.left) = 1 THEN "load" ELSE a.pc) /\ (p = "load" \/ Len(a.left) # 1)
      BY <2>1, <3>1
    <3>5. an' = [a EXCEPT !.left = t, !.pc = p]
      BY <2>1, <3>1, <3>3, <3>4
    <3>6. an' \in Analysis /\ an'.pc = p /\ an'.left = t
      BY <3>5 DEF Analysis
    <3> QED BY <3>2, <3>3, <3>4, <3>6
  <2>5. Sized'
    BY <2>1, <2>3, Kinds DEF Sized
  <2> QED BY <2>1, <2>3, <2>4, <2>5 DEF Queued
<1>4. CASE AnalyseLoad
  <2>1. /\ UNCHANGED <<binary, cache, lifted>>
        /\ an' = [an EXCEPT !.pc = "scan", !.image = [bin |-> binary, base |-> an.base]]
    BY <1>4 DEF AnalyseLoad
  <2>2. an' \in Analysis /\ an'.pc = "scan"
    <3>1. PICK a \in Analysis : a = an
      BY <1>1
    <3>2. PICK i \in Scan : i = [bin |-> binary, base |-> an.base]
      BY <1>1, AnalysisFields DEF Scan
    <3>3. an' = [a EXCEPT !.pc = "scan", !.image = i]
      BY <2>1, <3>1, <3>2
    <3> QED BY <3>3 DEF Analysis
  <2> QED BY <2>1, <2>2 DEF Sized, Queued
<1>5. CASE AnalyseStamp
  <2>1. /\ UNCHANGED <<binary, cache, lifted>>
        /\ an' = [an EXCEPT !.pc = "write", !.left = FILES, !.sha = binary]
    BY <1>5 DEF AnalyseStamp
  <2>2. an' \in Analysis /\ an'.pc = "write" /\ an'.left = FILES
    <3>1. PICK a \in Analysis : a = an
      BY <1>1
    <3>2. PICK l \in Seq(CacheFile) : l = FILES
      BY RestFacts
    <3>3. an' = [a EXCEPT !.pc = "write", !.left = l, !.sha = binary]
      BY <2>1, <3>1, <3>2
    <3> QED BY <3>2, <3>3 DEF Analysis
  <2> QED BY <2>1, <2>2, RestFacts DEF Sized, Queued
<1>6. CASE AnalyseWrite
  <2>1. /\ an.pc = "write" /\ UNCHANGED <<binary, lifted>>
        /\ cache' = [cache EXCEPT ![Head(an.left)] = Contents(Head(an.left))]
        /\ an' = IF Len(an.left) = 1 THEN Idle ELSE [an EXCEPT !.left = Tail(@)]
    BY <1>6 DEF AnalyseWrite
  <2>2. an.left \in Rests /\ Head(an.left) \in CacheFile /\ "meta" \in CacheFile
    BY <2>1, RestFacts DEF Queued, CacheFile
  <2>3. /\ cache' \in CacheDir
        /\ Head(an.left) # "meta" => Stamp' = Stamp
        /\ Head(an.left) = "meta" => Stamp' = Contents("meta")
    <3>1. PICK f \in CacheFile : f = Head(an.left)
      BY <2>2
    <3>2. cache' = [cache EXCEPT ![f] = Contents(f)]
      BY <2>1, <3>1
    <3>3. (f # "meta" => Contents(f) \in Scan) /\ (f = "meta" => Contents(f) \in Meta)
      BY ContentsTyped
    <3>4. PICK x \in Scan \cup Meta : x = Contents(f)
      BY <3>3
    <3>5. cache' \in CacheDir /\ Stamp' = IF f = "meta" THEN x ELSE Stamp
      BY <1>1, <3>2, <3>3, <3>4, PutCache
    <3> QED BY <3>1, <3>4, <3>5
  <2>4. an' \in Analysis /\ (an'.pc = "write" => an'.left \in Rests) /\ an'.pc # "discard"
    <3>1. CASE Len(an.left) = 1
      BY <2>1, <3>1, IdleTyped
    <3>2. CASE Len(an.left) # 1
      <4>1. Tail(an.left) \in Rests /\ Tail(an.left) \in Seq(CacheFile)
        BY <2>2, <3>2, RestFacts
      <4>2. an' = [an EXCEPT !.left = Tail(an.left)]
        BY <2>1, <3>2
      <4>3. PICK a \in Analysis : a = an
        BY <1>1
      <4>4. PICK t \in Seq(CacheFile) : t = Tail(a.left)
        BY <4>1, <4>3
      <4>5. an' = [a EXCEPT !.left = t] /\ a.pc = "write"
        BY <2>1, <4>2, <4>3, <4>4
      <4>6. an' \in Analysis /\ an'.pc = "write" /\ an'.left = t
        BY <4>5 DEF Analysis
      <4> QED BY <4>1, <4>3, <4>4, <4>6
    <3> QED BY <3>1, <3>2
  <2>5. Sized'
    BY <2>2, <2>3, ContentsTyped DEF Sized
  <2> QED BY <2>1, <2>3, <2>4, <2>5 DEF Queued
<1>7. CASE AnalyseCut
  <2>1. an' = Idle /\ UNCHANGED <<binary, lifted>>
    BY <1>7 DEF AnalyseCut
  <2>2. cache' = cache \/ (an.pc = "write" /\ cache' = [cache EXCEPT ![Head(an.left)] = Torn])
    BY <1>7 DEF AnalyseCut
  <2>3. cache' \in CacheDir /\ (Stamp' = Stamp \/ Stamp' = Torn)
    <3>1. CASE cache' = cache
      BY <1>1, <3>1
    <3>2. CASE an.pc = "write" /\ cache' = [cache EXCEPT ![Head(an.left)] = Torn]
      <4>1. Head(an.left) \in CacheFile /\ "meta" \in CacheFile
        BY <3>2, RestFacts DEF Queued, CacheFile
      <4>2. PICK f \in CacheFile : f = Head(an.left)
        BY <4>1
      <4>3. PICK x \in {Absent, Torn} : x = Torn /\ cache' = [cache EXCEPT ![f] = x]
        BY <3>2, <4>2
      <4>4. cache' \in CacheDir /\ Stamp' = IF f = "meta" THEN x ELSE Stamp
        BY <1>1, <4>3, PutCache
      <4> QED BY <4>3, <4>4
    <3> QED BY <2>2, <3>1, <3>2
  <2>4. Sized'
    BY <2>1, <2>3, Kinds DEF Sized
  <2> QED BY <2>1, <2>3, <2>4, IdleTyped DEF Queued
<1>8. ASSUME NEW b \in Binary, ReplaceBinary(b) PROVE (CacheFields /\ Sized /\ Queued)'
  BY <1>1, <1>8 DEF ReplaceBinary, Sized, Queued
<1>9. ASSUME NEW given \in Base \cup {NoBase}, LoadCache(given)
      PROVE  (CacheFields /\ Sized /\ Queued)'
  <2>1. LiftBase(given) \in Base
    BY <1>9, LiftCacheAssumption DEF LiftBase, Readable, Meta
  <2>2. /\ lifted'.verdict \in {"accepted", "refused"}
        /\ lifted'.image = [bin |-> binary, base |-> LiftBase(given)] /\ lifted'.from = cache
        /\ UNCHANGED <<binary, cache, an>>
    BY <1>9 DEF LoadCache
  <2>3. lifted'.image \in Scan
    BY <2>1, <2>2 DEF Scan
  <2> QED BY <1>1, <2>2, <2>3 DEF Sized, Queued
<1> QED
  <2> HIDE DEF CacheFields
  <2> QED BY <1>2, <1>3, <1>4, <1>5, <1>6, <1>7, <1>8, <1>9 DEF CacheMove, Analyse

-----------------------------------------------------------------------------
(* What holds when the binary is replaced by later builds alone, and not in    *)
(* the middle of an analysis, and no analysis of another base is cut short.    *)

Kept == Dated /\ Discards /\ Keeps /\ Scanned /\ Together

\* The check of a stamp against the binary, with nothing given of the image.
LEMMA CheckIsOurs ==
    ASSUME CacheFields, Sized
    PROVE  Check(Stamp, binary, NoBase, NoSpan).ok <=> Ours
<1>1. CASE Stamp \notin Meta
  BY <1>1 DEF Check, Readable, Ours
<1>2. CASE Stamp \in Meta /\ Stamp.sha = NoHash
  BY <1>2 DEF Check, Readable, Ours
<1>3. CASE Stamp \in Meta /\ Stamp.sha # NoHash
  BY <1>3 DEF Check, Readable, Ours, Sized
<1> QED BY <1>1, <1>2, <1>3

LEMMA KeptStep ==
    ASSUME CacheFields, Sized, Queued, Kept, Gaps = {}, CacheMove, CacheFields'
    PROVE  Kept'
<1> USE DEF Kept
<1>1. /\ an \in Analysis /\ cache \in CacheDir /\ binary \in Binary
      /\ "meta" \in CacheFile /\ Scans \subseteq CacheFile \ {"meta"}
      /\ Scans = {"funcs", "indirect"}
  BY DEF CacheFields, CacheFile, Scans
<1>2. ASSUME NEW b \in Base, AnalyseStart(b) PROVE Kept'
  <2>1. UNCHANGED <<binary, cache>> /\ an.pc = "idle" /\ an'.pc \in {"discard", "load"}
    BY <1>1, <1>2 DEF AnalyseStart, Analysis
  <2>2. /\ an'.pc = "discard" => ~Ours
        /\ an'.pc = "load" => Stamp = Absent \/ Ours
    <3>1. an'.pc = IF Stamp # Absent /\ ~Check(Stamp, binary, NoBase, NoSpan).ok
                   THEN "discard" ELSE "load"
      BY <1>1, <1>2 DEF AnalyseStart, Analysis, Stamp
    <3> QED BY <3>1, CheckIsOurs
  <2>3. (Stamp' = Stamp) /\ (Ours' <=> Ours) /\ \A f \in Scans : OfStamp(f)' <=> OfStamp(f)
    BY <2>1 DEF Stamp, Ours, OfStamp
  <2> QED BY <2>1, <2>2, <2>3 DEF Dated, Discards, Keeps, Scanned, Together
<1>3. CASE AnalyseDiscard
  <2>1. /\ an.pc = "discard" /\ an.left \in Rests /\ binary' = binary
        /\ cache' = [cache EXCEPT ![Head(an.left)] = Absent]
        /\ an'.pc = IF Len(an.left) = 1 THEN "load" ELSE "discard"
    BY <1>1, <1>3 DEF AnalyseDiscard, Queued, Analysis
  <2>2. PICK f \in CacheFile : f = Head(an.left) /\ (f = "meta" <=> Len(an.left) = 1)
    BY <2>1, RestFacts
  <2>3. Stamp' = IF f = "meta" THEN Absent ELSE Stamp
    BY <1>1, <2>1, <2>2, PutCache
  <2>4. Ours' => Ours /\ f # "meta"
    BY <2>1, <2>3, Kinds DEF Ours
  <2> QED BY <2>1, <2>2, <2>3, <2>4, Kinds DEF Dated, Discards, Keeps, Scanned, Together
<1>4. CASE AnalyseLoad
  <2>1. /\ UNCHANGED <<binary, cache>> /\ an.pc = "load" /\ an'.pc = "scan" /\ an'.base = an.base
        /\ an'.image = [bin |-> binary, base |-> an.base]
    BY <1>1, <1>4 DEF AnalyseLoad, Analysis
  <2>2. (Stamp' = Stamp) /\ (Ours' <=> Ours) /\ \A f \in Scans : OfStamp(f)' <=> OfStamp(f)
    BY <2>1 DEF Stamp, Ours, OfStamp
  <2> QED BY <2>1, <2>2 DEF Dated, Discards, Keeps, Scanned, Together
<1>5. CASE AnalyseStamp
  <2>1. /\ UNCHANGED <<binary, cache>> /\ an.pc = "scan" /\ an'.pc = "write"
        /\ an'.base = an.base /\ an'.image = an.image /\ an'.sha = binary /\ an'.left = FILES
    BY <1>1, <1>5 DEF AnalyseStamp, Analysis
  <2>2. (Stamp' = Stamp) /\ (Ours' <=> Ours) /\ \A f \in Scans : OfStamp(f)' <=> OfStamp(f)
    BY <2>1 DEF Stamp, Ours, OfStamp
  <2>3. \A f \in Scans : InRest(f)'
    BY <1>1, <2>1, RestFacts DEF InRest
  <2> QED BY <2>1, <2>2, <2>3 DEF Dated, Discards, Keeps, Scanned, Together
<1>6. CASE AnalyseWrite
  <2>1. /\ an.pc = "write" /\ an.left \in Rests /\ binary' = binary
        /\ cache' = [cache EXCEPT ![Head(an.left)] = Contents(Head(an.left))]
        /\ an.image = [bin |-> binary, base |-> an.base] /\ an.sha = binary
    BY <1>6 DEF AnalyseWrite, Queued, Scanned
  <2>2. PICK f \in CacheFile :
           /\ f = Head(an.left) /\ (f = "meta" <=> Len(an.left) = 1)
           /\ f = "meta" <=> an.left = <<"meta">>
           /\ f = "funcs" => an.left = FILES
           /\ an.left # FILES /\ f # "meta" => f = "indirect"
    BY <2>1, RestFacts
  <2>3. PICK x \in Scan \cup Meta \cup {Absent, Torn} : x = Contents(f)
    BY ContentsTyped
  <2>4. /\ cache'[f] = x /\ \A e \in CacheFile : e # f => cache'[e] = cache[e]
        /\ Stamp' = IF f = "meta" THEN x ELSE Stamp
    <3>1. /\ cache' = [cache EXCEPT ![f] = x]
          /\ f # "meta" => x \in Scan \cup {Absent, Torn}
          /\ f = "meta" => x \in Meta \cup {Absent, Torn}
      BY <2>1, <2>2, <2>3, ContentsTyped
    <3> QED BY <1>1, <3>1, PutCache
  <2>5. CASE f = "meta"
    <3>1. an' = Idle /\ an'.pc = "idle"
      BY <1>6, <2>2, <2>5, IdleTyped DEF AnalyseWrite
    <3>2. Stamp' = [sha |-> binary, size |-> Size[binary], base |-> an.base, span |-> Span[binary]]
      BY <2>1, <2>3, <2>4, <2>5 DEF Contents
    <3>3. \A e \in Scans : cache'[e] = an.image
      <4>1. \A e \in Scans : ~InRest(e)
        BY <1>1, <2>2, <2>5, RestFacts DEF InRest
      <4> QED BY <1>1, <2>1, <2>4, <2>5, <4>1 DEF Scanned
    <3>4. an.image \in Scan /\ binary \in Nat
      BY <1>1, AnalysisFields, LiftCacheAssumption
    <3>5. \A e \in Scans : OfStamp(e)'
      BY <2>1, <3>2, <3>3, <3>4 DEF OfStamp
    <3> QED BY <2>1, <3>1, <3>2, <3>4, <3>5 DEF Dated, Discards, Keeps, Scanned, Together
  <2>6. CASE f # "meta"
    <3>1. an'.pc = "write" /\ an'.left = Tail(an.left) /\ an'.image = an.image
          /\ an'.sha = an.sha /\ an'.base = an.base
      BY <1>1, <1>6, <2>1, <2>2, <2>6 DEF AnalyseWrite, Analysis
    <3>2. Stamp' = Stamp /\ (Ours' <=> Ours)
      BY <2>1, <2>4, <2>6 DEF Ours
    <3>3. cache'[f] = an.image /\ f \in Scans
      BY <1>1, <2>3, <2>4, <2>6 DEF Contents, Scans, CacheFile
    <3>4. \A e \in Scans : ~InRest(e)' <=> ~InRest(e) \/ e = f
      <4>1. CASE f = "funcs"
        <5>1. an.left = FILES /\ Tail(an.left) # FILES /\ Tail(an.left) # <<"meta">>
              /\ FILES # <<"meta">>
          BY <2>1, <2>2, <4>1, RestFacts
        <5> QED BY <1>1, <3>1, <4>1, <5>1 DEF InRest
      <4>2. CASE f = "indirect"
        <5>1. an.left # FILES /\ an.left # <<"meta">> /\ Tail(an.left) = <<"meta">>
              /\ Tail(an.left) # FILES
          <6>1. Head(FILES) = "funcs"
            BY DEF FILES
          <6> QED BY <2>1, <2>2, <4>2, <6>1, RestFacts
        <5> QED BY <1>1, <3>1, <4>2, <5>1 DEF InRest
      <4> QED BY <1>1, <3>3, <4>1, <4>2
    <3>5. \A e \in Scans : e # f => cache'[e] = cache[e] /\ (OfStamp(e)' <=> OfStamp(e))
      BY <1>1, <2>4, <3>2 DEF OfStamp
    <3>6. Dated' /\ Discards' /\ Keeps'
      BY <2>1, <3>1, <3>2 DEF Dated, Discards, Keeps
    <3>7. Scanned'
      BY <2>1, <3>1, <3>3, <3>4, <3>5 DEF Scanned
    <3>8. Together'
      BY <2>1, <3>1, <3>2, <3>4, <3>5 DEF Together
    <3> QED BY <3>6, <3>7, <3>8
  <2> QED BY <2>5, <2>6
<1>7. CASE AnalyseCut
  <2>1. an' = Idle /\ an'.pc = "idle" /\ binary' = binary
    BY <1>7, IdleTyped DEF AnalyseCut
  <2>2. CASE cache' = cache
    <3>1. Stamp' = Stamp /\ (Ours' <=> Ours) /\ \A f \in Scans : OfStamp(f)' <=> OfStamp(f)
      BY <2>1, <2>2 DEF Stamp, Ours, OfStamp
    <3>2. Ours => \A f \in Scans : OfStamp(f)
      <4> SUFFICES ASSUME Ours, NEW f \in Scans, an.pc = "write", ~InRest(f)
                   PROVE  OfStamp(f)
        BY DEF Together
      <4>1. cache[f] = an.image /\ an.image = [bin |-> binary, base |-> an.base]
        BY DEF Scanned
      <4>2. Stamp.base = an.base
        BY <1>7 DEF AnalyseCut, Ours, Stamp
      <4>3. cache[f] \in Scan
        BY <1>1, <4>1, AnalysisFields
      <4> QED BY <4>1, <4>2, <4>3 DEF OfStamp, Ours
    <3> QED BY <2>1, <3>1, <3>2 DEF Dated, Discards, Keeps, Scanned, Together
  <2>3. CASE an.pc = "write" /\ cache' = [cache EXCEPT ![Head(an.left)] = Torn]
    <3>1. PICK f \in CacheFile : f = Head(an.left)
      BY <2>3, RestFacts DEF Queued
    <3>2. /\ cache'[f] = Torn /\ \A e \in CacheFile : e # f => cache'[e] = cache[e]
          /\ Stamp' = IF f = "meta" THEN Torn ELSE Stamp
      BY <1>1, <2>3, <3>1, PutCache
    <3>3. Ours' => f # "meta" /\ Ours /\ Stamp' = Stamp
      BY <2>1, <3>2, Kinds DEF Ours
    <3>4. ASSUME Ours', NEW e \in Scans PROVE OfStamp(e)'
      <4>1. CASE e = f
        BY <3>2, <4>1 DEF OfStamp
      <4>2. CASE e # f /\ ~InRest(e)
        <5>1. cache'[e] = an.image /\ an.image = [bin |-> binary, base |-> an.base]
          BY <1>1, <2>3, <3>2, <4>2 DEF Scanned
        <5>2. Stamp'.base = an.base
          BY <1>7, <2>3, <3>3, <3>4 DEF AnalyseCut, Ours, Stamp
        <5>3. cache'[e] \in Scan
          BY <1>1, <5>1, AnalysisFields
        <5> QED BY <2>1, <3>4, <5>1, <5>2, <5>3 DEF OfStamp, Ours
      <4>3. CASE e # f /\ InRest(e)
        <5>1. OfStamp(e)
          BY <3>3, <3>4, <4>3 DEF Together
        <5> QED BY <1>1, <3>2, <3>3, <3>4, <4>3, <5>1 DEF OfStamp
      <4> QED BY <4>1, <4>2, <4>3
    <3>5. Dated'
      BY <2>1, <3>2, Kinds DEF Dated
    <3> QED BY <2>1, <3>4, <3>5 DEF Discards, Keeps, Scanned, Together
  <2> QED BY <1>7, <2>2, <2>3 DEF AnalyseCut
<1>8. ASSUME NEW b \in Binary, ReplaceBinary(b) PROVE Kept'
  <2>1. /\ b # binary /\ ~(b < binary) /\ an.pc = "idle" /\ binary' = b /\ UNCHANGED <<cache, an>>
    BY <1>8 DEF ReplaceBinary
  <2>2. b \in Nat /\ binary \in Nat /\ binary < b
    BY <1>1, <2>1, LiftCacheAssumption
  <2>3. Stamp' = Stamp /\ \A f \in Scans : OfStamp(f)' <=> OfStamp(f)
    BY <2>1 DEF Stamp, OfStamp
  <2>4. Stamp \in Meta /\ Stamp.sha # NoHash => Stamp.sha \in Nat /\ Stamp.sha <= binary
    BY LiftCacheAssumption DEF Dated, Meta
  <2>5. Dated' /\ (Ours' => Ours)
    BY <2>1, <2>2, <2>3, <2>4 DEF Dated, Ours
  <2> QED BY <2>1, <2>3, <2>5 DEF Discards, Keeps, Scanned, Together
<1>9. ASSUME NEW given \in Base \cup {NoBase}, LoadCache(given) PROVE Kept'
  <2>1. UNCHANGED <<binary, cache, an>>
    BY <1>9 DEF LoadCache
  <2> QED BY <2>1 DEF Dated, Discards, Keeps, Scanned, Together, InRest, Ours, OfStamp, Stamp
<1> QED
  <2> HIDE DEF Kept
  <2> QED BY <1>2, <1>3, <1>4, <1>5, <1>6, <1>7, <1>8, <1>9 DEF CacheMove, Analyse

-----------------------------------------------------------------------------
(* What elf2c.py makes of the cache.                                           *)

LEMMA AcceptedStep ==
    ASSUME CacheFields, Sized, Queued, Kept, Gaps = {}, AcceptedIsThisImage, CacheMove
    PROVE  AcceptedIsThisImage'
<1>1. CASE lifted' = lifted \/ lifted' = NotLifted
  BY <1>1 DEF AcceptedIsThisImage, NotLifted
<1>2. ASSUME NEW given \in Base \cup {NoBase}, LoadCache(given), lifted'.verdict = "accepted",
             NEW f \in Scans
      PROVE  /\ lifted'.from[f] \in Scan
             /\ lifted'.from[f].base = lifted'.image.base
             /\ lifted'.verified => lifted'.from[f].bin = lifted'.image.bin
  <2>1. given = NoBase /\ an.pc = "idle"
    BY <1>2 DEF LoadCache
  <2>2. /\ lifted'.from = cache
        /\ lifted'.image = [bin |-> binary, base |-> LiftBase(NoBase)]
        /\ Usable(binary, LiftBase(NoBase)) /\ Loads
        /\ lifted'.verified => Check(Stamp, binary, NoBase, NoSpan).verified
    BY <1>2, <2>1 DEF LoadCache, Stamp
  <2>3. Stamp \in Meta
    BY <2>2 DEF Usable, Check, Readable, Stamp
  <2>4. Check(Stamp, binary, NoBase, NoSpan).verified => Stamp.sha = binary /\ Stamp.sha # NoHash
    BY <2>3 DEF Check, Readable
  <2>5. Ours
    BY <2>2, <2>3, <2>4 DEF Usable, Check, Readable, Ours, Stamp
  <2>6. LiftBase(NoBase) = Stamp.base
    BY <2>3 DEF LiftBase, Readable, Stamp
  <2>7. cache[f] # Torn
    BY <2>2 DEF Loads, Scans
  <2>8. /\ cache[f] \in Scan /\ cache[f].base = Stamp.base
        /\ Stamp.sha # NoHash => cache[f].bin = Stamp.sha
    BY <2>1, <2>5, <2>7 DEF Kept, Together, OfStamp
  <2> QED BY <2>2, <2>4, <2>6, <2>8
<1>3. ASSUME NEW given \in Base \cup {NoBase}, LoadCache(given) PROVE AcceptedIsThisImage'
  BY <1>2, <1>3 DEF AcceptedIsThisImage, Scans
<1>4. lifted' = lifted \/ lifted' = NotLifted
      \/ \E given \in Base \cup {NoBase} : LoadCache(given)
  BY DEF CacheMove, Analyse, AnalyseStart, AnalyseDiscard, AnalyseLoad, AnalyseStamp,
         AnalyseWrite, AnalyseCut, ReplaceBinary
<1> QED BY <1>1, <1>3, <1>4

LEMMA GoodStep ==
    ASSUME CacheFields, Sized, GoodIsAccepted, CacheMove
    PROVE  GoodIsAccepted'
<1>1. CASE lifted' = lifted \/ lifted' = NotLifted
  BY <1>1 DEF GoodIsAccepted, NotLifted
<1>2. ASSUME NEW given \in Base \cup {NoBase}, LoadCache(given), lifted'.verdict = "refused",
             \A f \in CacheFile :
                /\ cache[f] \notin {Absent, Torn} /\ cache[f].base = LiftBase(given)
                /\ f = "meta" => IF cache[f].sha = NoHash THEN cache[f].span = Span[binary]
                                 ELSE cache[f].sha = binary
      PROVE  FALSE
  <2>1. ~(Usable(binary, LiftBase(given)) /\ Loads)
    BY <1>2 DEF LoadCache
  <2>2. Loads
    BY <1>2 DEF Loads, CacheFile
  <2>3. /\ Stamp \in Meta /\ Stamp.base = LiftBase(given)
        /\ IF Stamp.sha = NoHash THEN Stamp.span = Span[binary] ELSE Stamp.sha = binary
    BY <1>2 DEF CacheFields, CacheDir, CacheFile, Stamp
  <2>4. Usable(binary, LiftBase(given))
    <3>1. CASE Stamp.sha = NoHash
      <4>1. Check(Stamp, binary, LiftBase(given), Span[binary]).ok
        BY <2>3, <3>1 DEF Check, Readable
      <4> QED BY <3>1, <4>1 DEF Usable, Stamp
    <3>2. CASE Stamp.sha # NoHash
      <4>1. /\ Check(Stamp, binary, NoBase, NoSpan).ok
            /\ Check(Stamp, binary, NoBase, NoSpan).verified
        BY <2>3, <3>2 DEF Check, Readable, Sized
      <4> QED BY <4>1 DEF Usable, Stamp
    <3> QED BY <3>1, <3>2
  <2> QED BY <2>1, <2>2, <2>4
<1>3. ASSUME NEW given \in Base \cup {NoBase}, LoadCache(given) PROVE GoodIsAccepted'
  <2>1. lifted'.from = cache /\ lifted'.image = [bin |-> binary, base |-> LiftBase(given)]
    BY <1>3 DEF LoadCache
  <2>2. SUFFICES ASSUME lifted'.verdict = "refused",
                        ~ \E f \in CacheFile :
                            \/ cache[f] \in {Absent, Torn}
                            \/ cache[f].base # LiftBase(given)
                            \/ IF f = "meta"
                               THEN IF cache[f].sha = NoHash THEN cache[f].span # Span[binary]
                                    ELSE cache[f].sha # binary
                               ELSE cache[f].bin # binary
                 PROVE  FALSE
    BY <2>1 DEF GoodIsAccepted
  <2> QED BY <1>2, <1>3, <2>2
<1>4. lifted' = lifted \/ lifted' = NotLifted
      \/ \E given \in Base \cup {NoBase} : LoadCache(given)
  BY DEF CacheMove, Analyse, AnalyseStart, AnalyseDiscard, AnalyseLoad, AnalyseStamp,
         AnalyseWrite, AnalyseCut, ReplaceBinary
<1> QED BY <1>1, <1>3, <1>4

-----------------------------------------------------------------------------
(* The theorems about the cache.                                               *)

LEMMA CacheStart ==
    ASSUME CacheInit
    PROVE  CacheFields /\ Sized /\ Queued /\ Kept /\ AcceptedIsThisImage /\ GoodIsAccepted
<1>1. binary \in Binary /\ an = Idle /\ lifted = NotLifted
  BY Kinds DEF CacheInit
<1>2. \/ cache = [f \in CacheFile |-> Absent]
      \/ \E base \in Base : cache = OldCache(binary, base)
  BY DEF CacheInit
<1>3. /\ cache \in CacheDir
      /\ \/ Stamp = Absent
         \/ Stamp \in Meta /\ Stamp.sha = NoHash /\ \A f \in Scans : OfStamp(f)
  <2>1. CASE cache = [f \in CacheFile |-> Absent]
    BY <2>1 DEF CacheDir, CacheFile, Stamp
  <2>2. ASSUME NEW base \in Base, cache = OldCache(binary, base)
        PROVE  cache \in CacheDir /\ Stamp \in Meta /\ Stamp.sha = NoHash /\ \A f \in Scans : OfStamp(f)
    <3>1. /\ cache = [f \in CacheFile |-> cache[f]]
          /\ \A f \in Scans : cache[f] = [bin |-> binary, base |-> base]
          /\ Stamp = [sha |-> NoHash, size |-> Size[binary], base |-> base, span |-> Span[binary]]
      BY <2>2 DEF OldCache, CacheFile, Scans, Stamp
    <3>2. [bin |-> binary, base |-> base] \in Scan
      BY <1>1 DEF Scan
    <3>3. Stamp \in Meta /\ Stamp.sha = NoHash /\ Stamp.base = base
      BY <1>1, <3>1 DEF Meta
    <3>4. \A f \in Scans : cache[f] \in Scan /\ cache[f].base = base
      BY <3>1, <3>2
    <3>5. cache \in CacheDir
      BY <3>1, <3>3, <3>4, Dir DEF Scans, Stamp
    <3> QED BY <3>3, <3>4, <3>5 DEF OfStamp
  <2> QED BY <1>2, <2>1, <2>2
<1>4. CacheFields /\ Queued
  BY <1>1, <1>3, IdleTyped DEF CacheFields, Queued
<1>5. Sized /\ Kept
  BY <1>1, <1>3, IdleTyped, Kinds
  DEF Sized, Kept, Dated, Discards, Keeps, Scanned, Together, Ours
<1> QED BY <1>1, <1>4, <1>5 DEF AcceptedIsThisImage, GoodIsAccepted, NotLifted

\* The cache under every step, its own or not.
CacheSound == CacheFields /\ Sized /\ Queued /\ GoodIsAccepted /\ cuts \in 0..MaxCuts
CacheAgrees == Kept /\ AcceptedIsThisImage

LEMMA CacheSoundStep ==
    ASSUME CacheSound, [RNext]_rebuildVars PROVE CacheSound'
<1>1. CASE CutsMove /\ CacheMove
  BY <1>1, CacheFieldsStep, GoodStep, Bounded DEF CacheSound
<1>2. CASE CutsMove /\ UNCHANGED cacheVars
  BY <1>2, Bounded
  DEF CacheSound, cacheVars, CacheFields, Sized, Queued, GoodIsAccepted, Stamp
<1>3. CASE UNCHANGED rebuildVars
  BY <1>2, <1>3 DEF rebuildVars, CutsMove
<1> QED BY <1>1, <1>2, <1>3, Parts DEF CacheSound, CacheFields

LEMMA CacheAgreesStep ==
    ASSUME Gaps = {}, CacheSound, CacheAgrees, [RNext]_rebuildVars PROVE CacheAgrees'
<1>1. CASE CacheMove /\ CacheSound'
  BY <1>1, KeptStep, AcceptedStep DEF CacheSound, CacheAgrees
<1>2. CASE UNCHANGED cacheVars
  BY <1>2 DEF CacheAgrees, cacheVars, Kept, Dated, Discards, Keeps, Scanned, Together, Ours,
              OfStamp, InRest, Stamp, AcceptedIsThisImage
<1>3. CASE UNCHANGED rebuildVars
  BY <1>2, <1>3 DEF rebuildVars
<1> QED BY <1>1, <1>2, <1>3, CacheSoundStep, Parts DEF CacheSound, CacheFields

\* A cache that elf2c.py refuses is incomplete, cut short, of another base or of
\* another binary: analyze.py's work is not thrown away, whatever is done to the
\* binary, at any base and wherever a run is cut short.
THEOREM GoodCacheIsAccepted == RSpec => []GoodIsAccepted
<1>1. RInit => CacheSound
  <2> SUFFICES ASSUME RInit PROVE CacheSound
    OBVIOUS
  <2>1. CacheFields /\ Sized /\ Queued /\ GoodIsAccepted /\ cuts = 0
    BY CacheStart DEF RInit
  <2> QED BY <2>1, FilesAssumption DEF CacheSound
<1>2. CacheSound /\ [RNext]_rebuildVars => CacheSound'
  BY CacheSoundStep
<1>3. CacheSound => GoodIsAccepted
  BY DEF CacheSound
<1> QED BY <1>1, <1>2, <1>3, PTL DEF RSpec

\* An accepted cache is, all of it, of the base elf2c.py maps the image at, and of
\* its binary when it was verified, unless one of the four things happens that the
\* check cannot see.
THEOREM AcceptedCacheAgrees == ASSUME Gaps = {} PROVE RSpec => []AcceptedIsThisImage
<1>1. RInit => CacheSound /\ CacheAgrees
  <2> SUFFICES ASSUME RInit PROVE CacheSound /\ CacheAgrees
    OBVIOUS
  <2>1. /\ CacheFields /\ Sized /\ Queued /\ GoodIsAccepted /\ cuts = 0
        /\ Kept /\ AcceptedIsThisImage
    BY CacheStart DEF RInit
  <2> QED BY <2>1, FilesAssumption DEF CacheSound, CacheAgrees
<1>2. CacheSound /\ CacheAgrees /\ [RNext]_rebuildVars => (CacheSound /\ CacheAgrees)'
  BY CacheSoundStep, CacheAgreesStep
<1>3. CacheSound /\ CacheAgrees => AcceptedIsThisImage
  BY DEF CacheAgrees
<1> QED BY <1>1, <1>2, <1>3, PTL DEF RSpec

-----------------------------------------------------------------------------
(* The tree: what its files are and what a run of elf2c.py has to do.          *)

Others == {"dispatch", "data_ro", "data_text", "header", "image", "Makefile"}

LEMMA FileFacts ==
    /\ File = Fn \cup Others /\ Fn \cap Others = {} /\ IsFiniteSet(Fn)
    /\ Src = Fn \cup {"dispatch", "data_ro", "data_text"} /\ Src \subseteq File
    /\ Absent \in Content /\ Torn \in Content /\ <<>> \in Made
<1>1. Fn \cap Others = {} /\ IsFiniteSet(Fn)
  BY OutputTreeAssumption DEF Others
<1>2. /\ File = Fn \cup Others /\ Src \subseteq File
      /\ Src = Fn \cup {"dispatch", "data_ro", "data_text"}
  BY DEF File, Src, Others
<1>3. Absent \in Content /\ Torn \in Content /\ <<>> \in Made
  <2>1. Absent \in Content /\ Torn \in Content
    BY DEF Content
  <2>2. <<>> \in Made
    BY DEF Made
  <2> QED BY <2>1, <2>2
<1> QED BY <1>1, <1>2, <1>3

LEMMA TextFacts ==
    ASSUME NEW g \in Input
    PROVE  /\ DOMAIN Gen[g].body \subseteq Fn /\ DOMAIN Gen[g].stub \subseteq DOMAIN Gen[g].body
           /\ \A f \in DOMAIN Gen[g].body : Gen[g].body[f] \in Content /\ Gen[g].body[f] # Absent
           /\ \A f \in DOMAIN Gen[g].stub : Gen[g].stub[f] \in Content
                /\ Gen[g].stub[f] # Absent /\ Gen[g].stub[f] # Gen[g].body[f]
           /\ {Gen[g].header, Gen[g].image, Gen[g].data_ro, Gen[g].data_text,
               Gen[g].dispatch, Gen[g].makefile} \subseteq Content
<1>1. Texts(g) \subseteq Content
  BY DEF Content
<1>2. /\ \A f \in DOMAIN Gen[g].body : Gen[g].body[f] \in Texts(g)
      /\ \A f \in DOMAIN Gen[g].stub : Gen[g].stub[f] \in Texts(g)
      /\ {Gen[g].header, Gen[g].image, Gen[g].data_ro, Gen[g].data_text,
          Gen[g].dispatch, Gen[g].makefile} \subseteq Texts(g)
  BY DEF Texts
<1> QED BY <1>1, <1>2, OutputTreeAssumption

\* The steps of a plan.
PlanStep ==
    {s \in [do : {"write", "remove", "rewrite", "prune", "unreachable"},
            file : File \cup {""}, is : Content] :
        /\ s.do = "write" => s.file \in File
        /\ s.do = "rewrite" => s.file = "Makefile"
        /\ s.do = "remove" => s.file = "data_text"}

LEMMA StepTyped ==
    ASSUME NEW do \in {"write", "remove", "rewrite", "prune", "unreachable"},
           NEW f \in File \cup {""}, NEW c \in Content,
           do = "write" => f \in File, do = "rewrite" => f = "Makefile",
           do = "remove" => f = "data_text"
    PROVE  /\ Step(do, f, c) \in PlanStep
           /\ Step(do, f, c).do = do /\ Step(do, f, c).file = f /\ Step(do, f, c).is = c
BY DEF Step, PlanStep

\* SetToSeq lists a finite set, each element once.
LEMMA Listing ==
    ASSUME NEW S, IsFiniteSet(S)
    PROVE  /\ Cardinality(S) \in Nat
           /\ SetToSeq(S) \in [1..Cardinality(S) -> S]
           /\ \A i, j \in 1..Cardinality(S) : SetToSeq(S)[i] = SetToSeq(S)[j] => i = j
           /\ \A x \in S : \E i \in 1..Cardinality(S) : SetToSeq(S)[i] = x
<1> DEFINE n == Cardinality(S)
           l == SetToSeq(S)
<1>1. n \in Nat /\ ExistsBijection(1..n, S)
  BY FS_CardinalityType
<1>2. \E f \in [1..n -> S] : IsInjective(f)
  BY <1>1 DEF ExistsBijection, Bijection, Injection, IsInjective
<1>3. l \in [1..n -> S] /\ IsInjective(l)
  BY <1>2 DEF SetToSeq
<1>4. \A i, j \in 1..n : l[i] = l[j] => i = j
  BY <1>3 DEF IsInjective
<1>5. l \in Injection(1..n, S) /\ Cardinality(1..n) = n
  BY <1>1, <1>3, <1>4, FS_Interval DEF Injection
<1>6. l \in Surjection(1..n, S)
  BY <1>5, FS_Injection
<1>7. \A x \in S : \E i \in 1..n : l[i] = x
  BY <1>6 DEF Surjection
<1> QED BY <1>1, <1>3, <1>4, <1>7

LEMMA WriteAllTyped ==
    ASSUME NEW files, DOMAIN files \subseteq Fn, \A f \in DOMAIN files : files[f] \in Content
    PROVE  /\ WriteAll(files) \in Seq(PlanStep) /\ Len(WriteAll(files)) = Cardinality(DOMAIN files)
           /\ \A i \in 1..Cardinality(DOMAIN files) :
                 WriteAll(files)[i] = Step("write", SetToSeq(DOMAIN files)[i],
                                           files[SetToSeq(DOMAIN files)[i]])
<1> DEFINE n == Cardinality(DOMAIN files)
           l == SetToSeq(DOMAIN files)
<1>1. IsFiniteSet(DOMAIN files)
  BY FileFacts, FS_Subset
<1>2. n \in Nat /\ l \in [1..n -> DOMAIN files]
  BY <1>1, Listing
<1> HIDE DEF n, l
<1>3. WriteAll(files) = [i \in 1..n |-> Step("write", l[i], files[l[i]])]
  BY DEF WriteAll, n, l
<1>4. \A i \in 1..n : Step("write", l[i], files[l[i]]) \in PlanStep
  <2> SUFFICES ASSUME NEW i \in 1..n PROVE Step("write", l[i], files[l[i]]) \in PlanStep
    OBVIOUS
  <2>1. l[i] \in DOMAIN files /\ files[l[i]] \in Content /\ l[i] \in File
    BY <1>2, FileFacts
  <2> QED BY <2>1, StepTyped
<1>5. WriteAll(files) \in Seq(PlanStep) /\ Len(WriteAll(files)) = n
  <2>1. WriteAll(files) \in [1..n -> PlanStep]
    BY <1>3, <1>4
  <2> QED BY <1>2, <2>1, SeqDef, LenProperties
<1> QED BY <1>3, <1>5 DEF n, l

\* How many bodies, stubs, and both.
Bodies(g) == Cardinality(DOMAIN Gen[g].body)
Stubs(g) == Cardinality(DOMAIN Gen[g].stub)
Fns(g) == Bodies(g) + Stubs(g)

\* What follows them.
Ends(g) ==
    <<Step("prune", "", Absent),
      Step("write", "header", Gen[g].header),
      Step("write", "image", Gen[g].image),
      Step("write", "data_ro", Gen[g].data_ro),
      Step(IF Gen[g].data_text = Absent THEN "remove" ELSE "write",
           "data_text", Gen[g].data_text),
      Step("write", "dispatch", Gen[g].dispatch),
      Step("rewrite", "Makefile", Gen[g].makefile),
      Step("unreachable", "", Absent)>>

LEMMA EndsFacts ==
    ASSUME NEW g \in Input
    PROVE  /\ Ends(g) \in Seq(PlanStep) /\ Len(Ends(g)) = 8
           /\ Ends(g)[1] = Step("prune", "", Absent)
           /\ Ends(g)[2] = Step("write", "header", Gen[g].header)
           /\ Ends(g)[3] = Step("write", "image", Gen[g].image)
           /\ Ends(g)[4] = Step("write", "data_ro", Gen[g].data_ro)
           /\ Ends(g)[5] = Step(IF Gen[g].data_text = Absent THEN "remove" ELSE "write",
                                "data_text", Gen[g].data_text)
           /\ Ends(g)[6] = Step("write", "dispatch", Gen[g].dispatch)
           /\ Ends(g)[7] = Step("rewrite", "Makefile", Gen[g].makefile)
           /\ Ends(g)[8] = Step("unreachable", "", Absent)
<1>1. /\ Gen[g].header \in Content /\ Gen[g].image \in Content /\ Gen[g].data_ro \in Content
      /\ Gen[g].data_text \in Content /\ Gen[g].dispatch \in Content /\ Gen[g].makefile \in Content
      /\ Absent \in Content
      /\ {"header", "image", "data_ro", "data_text", "dispatch", "Makefile"} \subseteq File
  BY TextFacts, FileFacts DEF Others
<1> DEFINE d == IF Gen[g].data_text = Absent THEN "remove" ELSE "write"
<1>2. d \in {"remove", "write"}
  OBVIOUS
<1>3. Ends(g) = <<Step("prune", "", Absent), Step("write", "header", Gen[g].header),
                  Step("write", "image", Gen[g].image), Step("write", "data_ro", Gen[g].data_ro),
                  Step(d, "data_text", Gen[g].data_text),
                  Step("write", "dispatch", Gen[g].dispatch),
                  Step("rewrite", "Makefile", Gen[g].makefile),
                  Step("unreachable", "", Absent)>>
  BY DEF Ends
<1> HIDE DEF d
<1>4. /\ Step("prune", "", Absent) \in PlanStep
      /\ Step("write", "header", Gen[g].header) \in PlanStep
      /\ Step("write", "image", Gen[g].image) \in PlanStep
      /\ Step("write", "data_ro", Gen[g].data_ro) \in PlanStep
      /\ Step(d, "data_text", Gen[g].data_text) \in PlanStep
      /\ Step("write", "dispatch", Gen[g].dispatch) \in PlanStep
      /\ Step("rewrite", "Makefile", Gen[g].makefile) \in PlanStep
      /\ Step("unreachable", "", Absent) \in PlanStep
  BY <1>1, <1>2 DEF Step, PlanStep
<1>5. PICK e1, e2, e3, e4, e5, e6, e7, e8 \in PlanStep :
         Ends(g) = <<e1, e2, e3, e4, e5, e6, e7, e8>>
  BY <1>3, <1>4
<1>6. Ends(g) \in Seq(PlanStep) /\ Len(Ends(g)) = 8
  BY <1>5
<1>7. /\ Ends(g)[1] = Step("prune", "", Absent)
      /\ Ends(g)[2] = Step("write", "header", Gen[g].header)
      /\ Ends(g)[3] = Step("write", "image", Gen[g].image)
      /\ Ends(g)[4] = Step("write", "data_ro", Gen[g].data_ro)
  BY DEF Ends
<1>8. /\ Ends(g)[5] = Step(IF Gen[g].data_text = Absent THEN "remove" ELSE "write",
                            "data_text", Gen[g].data_text)
      /\ Ends(g)[6] = Step("write", "dispatch", Gen[g].dispatch)
      /\ Ends(g)[7] = Step("rewrite", "Makefile", Gen[g].makefile)
      /\ Ends(g)[8] = Step("unreachable", "", Absent)
  BY DEF Ends
<1> QED BY <1>6, <1>7, <1>8

LEMMA TwoParts ==
    ASSUME NEW a \in Seq(PlanStep), NEW b \in Seq(PlanStep)
    PROVE  /\ a \o b \in Seq(PlanStep) /\ Len(a \o b) = Len(a) + Len(b)
           /\ \A i \in 1..Len(a) : (a \o b)[i] = a[i]
           /\ \A i \in 1..Len(b) : (a \o b)[Len(a) + i] = b[i]
<1>1. /\ a \o b \in Seq(PlanStep) /\ Len(a \o b) = Len(a) + Len(b)
      /\ \A i \in 1..Len(a) + Len(b) : (a \o b)[i] = IF i <= Len(a) THEN a[i] ELSE b[i - Len(a)]
  BY ConcatProperties
<1>2. Len(a) \in Nat /\ Len(b) \in Nat
  BY LenProperties
<1>3. ASSUME NEW i \in 1..Len(a) PROVE (a \o b)[i] = a[i]
  BY <1>1, <1>2
<1>4. ASSUME NEW i \in 1..Len(b) PROVE (a \o b)[Len(a) + i] = b[i]
  <2>1. /\ Len(a) + i \in 1..Len(a) + Len(b)
        /\ ~(Len(a) + i <= Len(a)) /\ Len(a) + i - Len(a) = i
    BY <1>2
  <2> QED BY <1>1, <2>1
<1> QED BY <1>1, <1>3, <1>4

LEMMA ThreeParts ==
    ASSUME NEW a \in Seq(PlanStep), NEW b \in Seq(PlanStep), NEW c \in Seq(PlanStep)
    PROVE  /\ a \o b \o c \in Seq(PlanStep) /\ Len(a \o b \o c) = Len(a) + Len(b) + Len(c)
           /\ \A i \in 1..Len(a) : (a \o b \o c)[i] = a[i]
           /\ \A i \in 1..Len(b) : (a \o b \o c)[Len(a) + i] = b[i]
           /\ \A i \in 1..Len(c) : (a \o b \o c)[Len(a) + Len(b) + i] = c[i]
<1>1. a \o b \in Seq(PlanStep)
  BY TwoParts
<1>2. PICK d \in Seq(PlanStep) : d = a \o b
  BY <1>1
<1>3. /\ Len(d) = Len(a) + Len(b)
      /\ \A i \in 1..Len(a) : d[i] = a[i]
      /\ \A i \in 1..Len(b) : d[Len(a) + i] = b[i]
  BY <1>2, TwoParts
<1>4. /\ d \o c \in Seq(PlanStep) /\ Len(d \o c) = Len(d) + Len(c)
      /\ \A i \in 1..Len(d) : (d \o c)[i] = d[i]
      /\ \A i \in 1..Len(c) : (d \o c)[Len(d) + i] = c[i]
  BY TwoParts
<1>5. Len(a) \in Nat /\ Len(b) \in Nat
  BY LenProperties
<1>6. /\ \A i \in 1..Len(a) : i \in 1..Len(d)
      /\ \A i \in 1..Len(b) : Len(a) + i \in 1..Len(d)
  BY <1>3, <1>5
<1> QED BY <1>2, <1>3, <1>4, <1>6

LEMMA PlanFacts ==
    ASSUME NEW g \in Input
    PROVE  /\ Bodies(g) \in Nat /\ Stubs(g) \in Nat /\ Fns(g) \in Nat
           /\ Plan(g) \in Seq(PlanStep) /\ Len(Plan(g)) = Fns(g) + 8
           /\ \A i \in 1..Bodies(g) :
                 Plan(g)[i] = Step("write", SetToSeq(DOMAIN Gen[g].body)[i],
                                   Gen[g].body[SetToSeq(DOMAIN Gen[g].body)[i]])
           /\ \A i \in 1..Stubs(g) :
                 Plan(g)[Bodies(g) + i] =
                     Step("write", SetToSeq(DOMAIN Gen[g].stub)[i],
                          Gen[g].stub[SetToSeq(DOMAIN Gen[g].stub)[i]])
           /\ \A i \in 1..8 : Plan(g)[Fns(g) + i] = Ends(g)[i]
<1> DEFINE a == WriteAll(Gen[g].body)
           b == WriteAll(Gen[g].stub)
           c == Ends(g)
           nb == Bodies(g)
           ns == Stubs(g)
<1>1. IsFiniteSet(DOMAIN Gen[g].body) /\ IsFiniteSet(DOMAIN Gen[g].stub)
  BY TextFacts, FileFacts, FS_Subset
<1>2. nb \in Nat /\ ns \in Nat
  BY <1>1, FS_CardinalityType DEF Bodies, Stubs
<1>3. a \in Seq(PlanStep) /\ Len(a) = nb
      /\ \A i \in 1..nb : a[i] = Step("write", SetToSeq(DOMAIN Gen[g].body)[i],
                                      Gen[g].body[SetToSeq(DOMAIN Gen[g].body)[i]])
  BY TextFacts, WriteAllTyped DEF Bodies
<1>4. b \in Seq(PlanStep) /\ Len(b) = ns
      /\ \A i \in 1..ns : b[i] = Step("write", SetToSeq(DOMAIN Gen[g].stub)[i],
                                      Gen[g].stub[SetToSeq(DOMAIN Gen[g].stub)[i]])
  BY TextFacts, WriteAllTyped DEF Stubs
<1>5. c \in Seq(PlanStep) /\ Len(c) = 8
  BY EndsFacts
<1>6. Plan(g) = (a \o b) \o c
  BY DEF Plan, Ends
<1> HIDE DEF a, b, c, nb, ns
<1> DEFINE p == a \o b \o c
<1>7. /\ p \in Seq(PlanStep) /\ Len(p) = nb + ns + 8
      /\ \A i \in 1..nb : p[i] = a[i]
      /\ \A i \in 1..ns : p[nb + i] = b[i]
      /\ \A i \in 1..8 : p[nb + ns + i] = c[i]
  <2>1. PICK x \in Seq(PlanStep), y \in Seq(PlanStep), z \in Seq(PlanStep) : x = a /\ y = b /\ z = c
    BY <1>3, <1>4, <1>5
  <2>2. Len(x) = nb /\ Len(y) = ns /\ Len(z) = 8
    BY <1>3, <1>4, <1>5, <2>1
  <2>3. /\ x \o y \o z \in Seq(PlanStep) /\ Len(x \o y \o z) = Len(x) + Len(y) + Len(z)
        /\ \A i \in 1..Len(x) : (x \o y \o z)[i] = x[i]
        /\ \A i \in 1..Len(y) : (x \o y \o z)[Len(x) + i] = y[i]
        /\ \A i \in 1..Len(z) : (x \o y \o z)[Len(x) + Len(y) + i] = z[i]
    BY ThreeParts
  <2> QED BY <2>1, <2>2, <2>3
<1>8. p = Plan(g)
  BY <1>6
<1> HIDE DEF p
<1>9. \A i \in 1..nb : p[i] = Step("write", SetToSeq(DOMAIN Gen[g].body)[i],
                                   Gen[g].body[SetToSeq(DOMAIN Gen[g].body)[i]])
  <2>1. \A i \in 1..nb : p[i] = a[i]
    BY <1>7
  <2> QED BY <1>3, <2>1
<1>10. \A i \in 1..ns : p[nb + i] = Step("write", SetToSeq(DOMAIN Gen[g].stub)[i],
                                         Gen[g].stub[SetToSeq(DOMAIN Gen[g].stub)[i]])
  <2>1. \A i \in 1..ns : p[nb + i] = b[i]
    BY <1>7
  <2> QED BY <1>4, <2>1
<1>11. nb + ns \in Nat
  BY <1>2
<1> QED BY <1>2, <1>7, <1>8, <1>9, <1>10, <1>11 DEF nb, ns, c, Fns

-----------------------------------------------------------------------------
(* The domains of the tree's variables, and who runs: elf2c.py or make.        *)

Object == [of : Made, old : BOOLEAN, late : BOOLEAN]
Run == [input : Input \cup {NoInput}, plan : Seq(PlanStep), written : SUBSET Fn,
        changed : SUBSET Fn, touched : SUBSET File, was : Input \cup {NoInput},
        built : BOOLEAN]
Making == [pc : {"idle", "compile", "archive", "rename"}, todo : SUBSET Src]

TreeFields ==
    /\ disk \in [File -> Content]
    /\ obj \in [Src -> Object]
    /\ gen \in Run
    /\ mk \in Making
    /\ complete \in Input \cup {NoInput} /\ built \in BOOLEAN

Alone ==
    /\ gen.input = NoInput => gen = NoRun
    /\ gen.input # NoInput => mk = NoMake /\ complete = NoInput /\ built = FALSE
    /\ mk.pc = "idle" => mk = NoMake

LEMMA NoRunTyped ==
    /\ NoRun \in Run /\ NoRun.input = NoInput /\ NoRun.plan = <<>> /\ NoRun.built = FALSE
    /\ NoMake \in Making /\ NoMake.pc = "idle" /\ NoMake.todo = {}
    /\ NoObj \in Object /\ NoObj.old = TRUE /\ NoObj.late = TRUE
BY FileFacts DEF NoRun, Run, NoMake, Making, NoObj, Object

LEMMA RunFields ==
    ASSUME NEW r \in Run
    PROVE  /\ r.input \in Input \cup {NoInput} /\ r.plan \in Seq(PlanStep)
           /\ r.written \subseteq Fn /\ r.changed \subseteq Fn /\ r.touched \subseteq File
           /\ r.was \in Input \cup {NoInput} /\ r.built \in BOOLEAN
BY DEF Run

\* The step at hand.
LEMMA NowTyped ==
    ASSUME gen \in Run, Running
    PROVE  /\ Now \in PlanStep /\ Tail(gen.plan) \in Seq(PlanStep)
           /\ Now.do \in {"write", "rewrite"} => Now.file \in File
           /\ Now.is \in Content
           /\ Now.do = "remove" => Now.file = "data_text"
<1>1. gen.plan \in Seq(PlanStep) /\ gen.plan # <<>>
  BY RunFields DEF Running
<1>2. Now \in PlanStep /\ Tail(gen.plan) \in Seq(PlanStep)
  BY <1>1, HeadTailProperties DEF Now
<1> QED BY <1>2, FileFacts DEF PlanStep, Others

\* What a run leaves of a source that is not made again: make may rely on it.
Honest ==
    \A s \in Sources' :
        \/ obj'[s].old
        \/ s \in Sources /\ Snapshot(s)' = Snapshot(s) /\ obj'[s] = obj[s]

\* A file is written, or cut short in the writing.
LEMMA Put ==
    ASSUME disk \in [File -> Content], obj \in [Src -> Object],
           NEW f \in File, NEW c \in Content, disk' = [disk EXCEPT ![f] = c], Touch({f})
    PROVE  /\ disk' \in [File -> Content] /\ obj' \in [Src -> Object]
           /\ disk'[f] = c /\ \A e \in File : e # f => disk'[e] = disk[e]
           /\ \A s \in Src : obj'[s].old <=> obj[s].old \/ Needs(s, f)
           /\ Honest
<1>1. /\ disk' \in [File -> Content] /\ disk'[f] = c
      /\ \A e \in File : e # f => disk'[e] = disk[e]
  OBVIOUS
<1>2. ASSUME NEW s \in Src
      PROVE  /\ obj'[s] \in Object
             /\ obj'[s].old <=> obj[s].old \/ Needs(s, f)
             /\ ~Needs(s, f) => obj'[s] = obj[s]
  <2>1. PICK o \in Object : o = obj[s]
    OBVIOUS
  <2>2. obj'[s] = IF Needs(s, f) THEN [o EXCEPT !.old = TRUE] ELSE o
    BY <2>1 DEF Touch
  <2>3. /\ [o EXCEPT !.old = TRUE] \in Object /\ [o EXCEPT !.old = TRUE].old = TRUE
        /\ o.old \in BOOLEAN
    BY DEF Object
  <2>4. CASE Needs(s, f)
    BY <2>2, <2>3, <2>4
  <2>5. CASE ~Needs(s, f)
    BY <2>1, <2>2, <2>5
  <2> QED BY <2>4, <2>5
<1>3. obj' \in [Src -> Object]
  <2>1. obj' = [s \in Src |-> obj'[s]]
    BY DEF Touch
  <2> QED BY <1>2, <2>1
<1>4. Honest
  <2> SUFFICES ASSUME NEW s \in Src, disk'[s] # Absent, ~Needs(s, f)
               PROVE  s \in Sources /\ Snapshot(s)' = Snapshot(s) /\ obj'[s] = obj[s]
    BY <1>2 DEF Honest, Sources
  <2>1. s # f /\ f # "header" /\ (s = "data_ro" => f # "image")
    BY DEF Needs
  <2>2. s \in File /\ "header" \in File /\ "image" \in File
    BY FileFacts DEF Others
  <2>3. disk'[s] = disk[s] /\ disk'["header"] = disk["header"]
        /\ (s = "data_ro" => disk'["image"] = disk["image"])
    BY <1>1, <2>1, <2>2
  <2> QED BY <1>2, <2>3 DEF Sources, Snapshot
<1> QED BY <1>1, <1>2, <1>3, <1>4

\* Files of functions, or data_text.c, are removed: their objects stay behind.
LEMMA Gone ==
    ASSUME disk \in [File -> Content], obj \in [Src -> Object],
           NEW fs \in SUBSET (Fn \cup {"data_text"}), disk' = Without(fs), UNCHANGED obj
    PROVE  /\ disk' \in [File -> Content]
           /\ \A e \in File : disk'[e] = IF e \in fs THEN Absent ELSE disk[e]
           /\ Honest
<1>1. /\ disk' \in [File -> Content]
      /\ \A e \in File : disk'[e] = IF e \in fs THEN Absent ELSE disk[e]
  BY FileFacts DEF Without
<1>2. Honest
  <2> SUFFICES ASSUME NEW s \in Src, disk'[s] # Absent
               PROVE  s \in Sources /\ Snapshot(s)' = Snapshot(s)
    BY DEF Honest, Sources
  <2>1. /\ s \in File /\ "header" \in File /\ "image" \in File
        /\ "header" \notin fs /\ "image" \notin fs
    BY FileFacts DEF Others
  <2>2. disk'[s] = disk[s] /\ disk'["header"] = disk["header"] /\ disk'["image"] = disk["image"]
    BY <1>1, <2>1
  <2> QED BY <2>2 DEF Sources, Snapshot
<1> QED BY <1>1, <1>2

\* The Makefile is not compiled.
LEMMA Rules ==
    ASSUME disk \in [File -> Content], obj \in [Src -> Object],
           NEW c \in Content, disk' = [disk EXCEPT !["Makefile"] = c], UNCHANGED obj
    PROVE  /\ disk' \in [File -> Content] /\ disk'["Makefile"] = c
           /\ \A e \in File : e # "Makefile" => disk'[e] = disk[e]
           /\ Honest
<1>1. "Makefile" \in File /\ "Makefile" \notin Src /\ Src \subseteq File
      /\ {"header", "image"} \subseteq File
  BY FileFacts DEF Others
<1>2. /\ disk' \in [File -> Content] /\ disk'["Makefile"] = c
      /\ \A e \in File : e # "Makefile" => disk'[e] = disk[e]
  BY <1>1
<1>3. \A s \in Src : disk'[s] = disk[s] /\ Snapshot(s)' = Snapshot(s)
  BY <1>1, <1>2 DEF Snapshot
<1> QED BY <1>2, <1>3 DEF Honest, Sources

LEMMA RunsHaveInput ==
    ASSUME gen \in Run, Alone, Running \/ Reporting
    PROVE  gen.input # NoInput /\ gen.input \in Input /\ mk = NoMake
           /\ complete = NoInput /\ built = FALSE
<1>1. gen.input # NoInput
  BY NoRunTyped DEF Alone, Running, Reporting
<1> QED BY <1>1, RunFields DEF Alone

\* A step of a run: its files and its record stay typed, what it leaves is honest,
\* and make and its library are not touched.
Steps ==
    /\ disk' \in [File -> Content] /\ obj' \in [Src -> Object] /\ Honest
    /\ gen' \in Run
    /\ gen'.input = gen.input \/ gen' = NoRun

LEMMA WriteFileSteps ==
    ASSUME TreeFields, Alone, WriteFile PROVE Steps
<1>1. gen \in Run /\ Running /\ Now.do = "write"
  BY DEF TreeFields, WriteFile, Doing
<1>2. Now.file \in File /\ Now.is \in Content /\ Tail(gen.plan) \in Seq(PlanStep)
  BY <1>1, NowTyped
<1>3. PICK f \in File, c \in Content : f = Now.file /\ c = Now.is
  BY <1>2
<1>4. disk \in [File -> Content] /\ obj \in [Src -> Object]
  BY DEF TreeFields
<1>5. disk' = [disk EXCEPT ![f] = c] /\ IF Differs(f, c) THEN Touch({f}) ELSE UNCHANGED obj
  BY <1>3 DEF WriteFile
<1>6. disk' \in [File -> Content] /\ obj' \in [Src -> Object] /\ Honest
  <2>1. CASE Differs(f, c)
    BY <1>4, <1>5, <2>1, Put
  <2>2. CASE ~Differs(f, c)
    <3>1. disk' = disk /\ obj' = obj
      BY <1>4, <1>5, <2>2 DEF Differs
    <3> QED BY <1>4, <3>1 DEF Honest, Sources, Snapshot
  <2> QED BY <2>1, <2>2
<1>7. gen' \in Run /\ gen'.input = gen.input
  <2>1. PICK r \in Run : r = gen
    BY <1>1
  <2>2. PICK t \in Seq(PlanStep) : t = Tail(r.plan)
    BY <1>2, <2>1
  <2>3. PICK w \in SUBSET Fn : w = IF f \in Fn THEN r.written \cup {f} ELSE r.written
    BY RunFields
  <2>4. PICK x \in SUBSET Fn : x = IF f \in Fn THEN Changed(f, Differs(f, c)) ELSE r.changed
    BY <2>1, RunFields DEF Changed
  <2>5. PICK y \in SUBSET File : y = IF Differs(f, c) THEN r.touched \cup {f} ELSE r.touched
    BY RunFields
  <2>6. gen' = [r EXCEPT !.plan = t, !.written = w, !.changed = x, !.touched = y]
    BY <1>3, <2>1, <2>2, <2>3, <2>4, <2>5 DEF WriteFile
  <2>7. gen' \in Run /\ gen'.input = r.input
    BY <2>6 DEF Run
  <2> QED BY <2>1, <2>7
<1> QED BY <1>6, <1>7 DEF Steps

LEMMA NextPlan ==
    ASSUME gen \in Run, Running, gen' = [gen EXCEPT !.plan = Tail(@)]
    PROVE  gen' \in Run /\ gen'.input = gen.input
<1>1. PICK r \in Run : r = gen
  OBVIOUS
<1>2. PICK t \in Seq(PlanStep) : t = Tail(r.plan)
  BY <1>1, NowTyped
<1>3. gen' = [r EXCEPT !.plan = t]
  BY <1>1, <1>2
<1>4. gen' \in Run /\ gen'.input = r.input
  BY <1>3 DEF Run
<1> QED BY <1>1, <1>4

LEMMA GenerateSteps ==
    ASSUME TreeFields, Alone, Generate \/ GenerateCut PROVE Steps
<1>1. disk \in [File -> Content] /\ obj \in [Src -> Object] /\ gen \in Run
  BY DEF TreeFields
<1>2. CASE WriteFile
  BY <1>2, WriteFileSteps
<1>3. CASE RemoveFile
  <2>1. Running /\ Now.file = "data_text" /\ gen' = [gen EXCEPT !.plan = Tail(@)]
        /\ disk' = [disk EXCEPT !["data_text"] = Absent] /\ obj' = obj
    BY <1>1, <1>3, NowTyped DEF RemoveFile, Doing
  <2>2. disk' = Without({"data_text"}) /\ {"data_text"} \subseteq Fn \cup {"data_text"}
    BY <1>1, <2>1 DEF Without
  <2>3. disk' \in [File -> Content] /\ Honest
    BY <1>1, <2>1, <2>2, Gone
  <2> QED BY <1>1, <2>1, <2>3, NextPlan DEF Steps
<1>4. CASE RewriteMakefile
  <2>1. Running /\ Now.is \in Content /\ gen' = [gen EXCEPT !.plan = Tail(@)]
        /\ disk' = [disk EXCEPT !["Makefile"] = Now.is] /\ obj' = obj
    BY <1>1, <1>4, NowTyped DEF RewriteMakefile, Doing
  <2>2. PICK c \in Content : c = Now.is
    BY <2>1
  <2>3. disk' \in [File -> Content] /\ Honest
    BY <1>1, <2>1, <2>2, Rules
  <2> QED BY <1>1, <2>1, <2>3, NextPlan DEF Steps
<1>5. CASE Prune
  <2>1. Running /\ gen' = [gen EXCEPT !.plan = Tail(@)] /\ disk' = Without(Stale) /\ obj' = obj
    BY <1>5 DEF Prune, Doing
  <2>2. PICK fs \in SUBSET (Fn \cup {"data_text"}) : fs = Stale
    BY DEF Stale
  <2>3. disk' \in [File -> Content] /\ Honest
    BY <1>1, <2>1, <2>2, Gone
  <2> QED BY <1>1, <2>1, <2>3, NextPlan DEF Steps
<1>6. CASE PruneUnreachable
  <2>1. Running /\ disk' = Without(Unreachable) /\ obj' = obj
    BY <1>6 DEF PruneUnreachable, Doing
  <2>2. PICK fs \in SUBSET (Fn \cup {"data_text"}) : fs = Unreachable
    BY DEF Unreachable
  <2>3. disk' \in [File -> Content] /\ Honest
    BY <1>1, <2>1, <2>2, Gone
  <2>4. gen' \in Run /\ gen'.input = gen.input
    <3>1. PICK r \in Run : r = gen
      BY <1>1
    <3>2. PICK t \in Seq(PlanStep) : t = Tail(r.plan)
      BY <2>1, <3>1, NowTyped
    <3>3. PICK w \in SUBSET Fn : w = r.written \ Unreachable
      BY RunFields
    <3>4. PICK x \in SUBSET Fn : x = r.changed \ Unreachable
      BY RunFields
    <3>5. gen' = [r EXCEPT !.plan = t, !.written = w, !.changed = x]
      BY <1>6, <3>1, <3>2, <3>3, <3>4 DEF PruneUnreachable
    <3>6. gen' \in Run /\ gen'.input = r.input
      BY <3>5 DEF Run
    <3> QED BY <3>1, <3>6
  <2> QED BY <1>1, <2>1, <2>3, <2>4 DEF Steps
<1>7. CASE GenerateEnd
  BY <1>1, <1>7, NoRunTyped DEF GenerateEnd, Steps, Honest, Sources, Snapshot
<1>8. CASE GenerateCut
  <2>1. Running /\ gen' = NoRun
    BY <1>8 DEF GenerateCut
  <2>2. CASE UNCHANGED <<disk, obj>>
    BY <1>1, <2>1, <2>2, NoRunTyped DEF Steps, Honest, Sources, Snapshot
  <2>3. CASE (Now.do = "rewrite" \/ (Now.do = "write" /\ Differs(Now.file, Now.is)))
             /\ disk' = [disk EXCEPT ![Now.file] = Torn] /\ Touch({Now.file})
    <3>1. PICK f \in File, c \in Content : f = Now.file /\ c = Torn
      BY <1>1, <2>1, <2>3, NowTyped, FileFacts
    <3>2. disk' = [disk EXCEPT ![f] = c] /\ Touch({f})
      BY <2>3, <3>1
    <3> QED BY <1>1, <2>1, <3>2, Put, NoRunTyped DEF Steps
  <2>4. ASSUME NEW fs \in SUBSET (IF Now.do = "prune" THEN Stale
                                  ELSE IF Now.do = "unreachable" THEN Unreachable ELSE {}),
               disk' = Without(fs), UNCHANGED obj
        PROVE  Steps
    <3>1. fs \in SUBSET (Fn \cup {"data_text"})
      BY DEF Stale, Unreachable
    <3>2. disk' \in [File -> Content] /\ Honest
      BY <1>1, <2>4, <3>1, Gone
    <3> QED BY <1>1, <2>1, <2>4, <3>2, NoRunTyped DEF Steps
  <2> QED BY <1>8, <2>2, <2>3, <2>4 DEF GenerateCut
<1> QED BY <1>2, <1>3, <1>4, <1>5, <1>6, <1>7, <1>8 DEF Generate

-----------------------------------------------------------------------------
(* The library.                                                                *)

\* An object thought up to date is made from the files as they are,
MadeOf == \A s \in Sources : ~obj[s].old => obj[s].of = Snapshot(s)
\* and is in the library if it is older than that.
Inside == \A s \in Sources : ~obj[s].old /\ ~obj[s].late => s \in DOMAIN lib /\ lib[s] = obj[s].of
\* What make has to compile is what is old, and the archive waits for all of it.
ToDo ==
    /\ mk.pc # "idle" => mk.todo = {s \in Sources : obj[s].old}
    /\ mk.pc \in {"archive", "rename"} => mk.todo = {}
\* The archive is complete before it has its name.
Archive == mk.pc = "rename" => tmp = [s \in Sources |-> obj[s].of]
\* After a make, and until the next run of elf2c.py, nothing is left to make.
Fresh == built => \A s \in Sources : ~obj[s].old /\ ~obj[s].late

LibraryInv == MadeOf /\ Inside /\ ToDo /\ Archive /\ Fresh /\ lib # Torn

Tree == TreeFields /\ Alone /\ LibraryInv

\* The archive is never the half-written one.
LEMMA WholeArchive ==
    ASSUME obj \in [Src -> Object] PROVE [s \in Sources |-> obj[s].of] # Torn
<1>1. Sources \in SUBSET Src
  BY DEF Sources
<1>2. [s \in Sources |-> obj[s].of] \in [Sources -> Made]
  BY <1>1 DEF Object
<1> QED BY <1>1, <1>2, OutputTreeAssumption

LEMMA LibraryUnderGenerate ==
    ASSUME Tree, Generate \/ GenerateCut PROVE Tree'
<1>1. TreeFields /\ Alone /\ LibraryInv /\ gen \in Run /\ obj \in [Src -> Object]
  BY DEF Tree, TreeFields
<1>2. Steps
  BY <1>1, GenerateSteps
<1>3. Running \/ Reporting
  BY DEF Generate, GenerateCut, WriteFile, RemoveFile, RewriteMakefile, Prune,
         PruneUnreachable, GenerateEnd, Doing
<1>4. gen.input \in Input /\ gen.input # NoInput /\ mk = NoMake /\ complete = NoInput /\ built = FALSE
  BY <1>1, <1>3, RunsHaveInput
<1>5. /\ UNCHANGED <<lib, tmp, mk, built>>
      /\ complete' = complete \/ (complete' = gen.input /\ gen' = NoRun)
  BY DEF Generate, GenerateCut, WriteFile, RemoveFile, RewriteMakefile, Prune,
         PruneUnreachable, GenerateEnd
<1>6. TreeFields'
  BY <1>1, <1>2, <1>4, <1>5 DEF TreeFields, Steps
<1>7. Alone'
  BY <1>2, <1>4, <1>5, NoRunTyped DEF Alone, Steps
<1>8. MadeOf' /\ Inside'
  <2> SUFFICES ASSUME NEW s \in Sources', obj'[s].old # TRUE, obj'[s].old = FALSE
               PROVE  /\ obj'[s].of = Snapshot(s)'
                      /\ ~obj'[s].late => s \in DOMAIN lib /\ lib[s] = obj'[s].of
    <3>1. \A s \in Sources' : obj'[s].old \in BOOLEAN
      BY <1>6 DEF TreeFields, Object, Sources
    <3> QED BY <1>5, <3>1 DEF MadeOf, Inside
  <2>1. s \in Sources /\ Snapshot(s)' = Snapshot(s) /\ obj'[s] = obj[s]
    BY <1>2 DEF Steps, Honest
  <2> QED BY <1>1, <2>1 DEF LibraryInv, MadeOf, Inside
<1>9. ToDo' /\ Archive' /\ Fresh' /\ lib' # Torn
  BY <1>1, <1>4, <1>5, NoRunTyped DEF ToDo, Archive, Fresh, LibraryInv
<1> QED BY <1>6, <1>7, <1>8, <1>9 DEF Tree, LibraryInv

LEMMA LibraryUnderMake ==
    ASSUME Tree, Make \/ MakeStart \/ MakeCut PROVE Tree'
<1>1. /\ disk \in [File -> Content] /\ obj \in [Src -> Object] /\ gen \in Run /\ mk \in Making
      /\ Alone /\ MadeOf /\ Inside /\ ToDo /\ Archive /\ Fresh /\ lib # Torn
      /\ complete \in Input \cup {NoInput} /\ built \in BOOLEAN /\ Sources \subseteq Src
  BY DEF Tree, TreeFields, LibraryInv, Sources
<1>2. MakeStart \/ mk.pc # "idle"
  BY DEF Make, MakeCut, Compile, CompileFails, UpToDate, ArchiveBegins, ArchiveEnds, Rename
<1>3. gen.input = NoInput /\ gen = NoRun
  BY <1>1, <1>2, NoRunTyped DEF Alone, MakeStart, TreeIdle
<1>4. UNCHANGED <<disk, gen, complete>> /\ Sources' = Sources /\ \A s \in Src : Snapshot(s)' = Snapshot(s)
  BY DEF Make, MakeStart, MakeCut, Compile, CompileFails, UpToDate, ArchiveBegins, ArchiveEnds,
         Rename, Sources, Snapshot
<1>5. \A s \in Src : obj[s] \in Object /\ obj[s].old \in BOOLEAN /\ obj[s].late \in BOOLEAN
  BY <1>1 DEF Object
<1>6. CASE MakeStart
  <2>1. mk' = [pc |-> "compile", todo |-> {s \in Sources : obj[s].old}]
        /\ UNCHANGED <<obj, lib, tmp, built>>
    BY <1>6 DEF MakeStart
  <2>2. mk' \in Making /\ mk'.pc = "compile" /\ mk'.todo = {s \in Sources : obj[s].old}
    BY <1>1, <2>1 DEF Making
  <2> QED BY <1>1, <1>3, <1>4, <2>1, <2>2, NoRunTyped
      DEF Tree, TreeFields, Alone, LibraryInv, MadeOf, Inside, ToDo, Archive, Fresh
<1>7. ASSUME NEW s \in Src, Compile(s) PROVE Tree'
  <2>1. /\ mk.pc = "compile" /\ s \in mk.todo /\ UNCHANGED <<lib, tmp, built>>
        /\ obj' = [obj EXCEPT ![s] = [of |-> Snapshot(s), old |-> FALSE, late |-> TRUE]]
        /\ mk' = [mk EXCEPT !.todo = @ \ {s}]
    BY <1>7 DEF Compile
  <2>2. s \in Sources /\ obj[s].old /\ mk.todo = {t \in Sources : obj[t].old}
    BY <1>1, <2>1 DEF ToDo
  <2>3. Snapshot(s) \in Made
    <3>1. s \in File /\ "header" \in File /\ "image" \in File /\ Absent \in Content
      BY FileFacts DEF Others
    <3>2. disk[s] \in Content /\ disk["header"] \in Content
          /\ (IF s = "data_ro" THEN disk["image"] ELSE Absent) \in Content
      BY <1>1, <3>1
    <3> QED BY <3>2 DEF Snapshot, Made
  <2>4. PICK o \in Object : o = [of |-> Snapshot(s), old |-> FALSE, late |-> TRUE]
    BY <2>3 DEF Object
  <2>5. /\ obj' = [obj EXCEPT ![s] = o] /\ obj' \in [Src -> Object]
        /\ obj'[s] = o /\ \A t \in Src : t # s => obj'[t] = obj[t]
    BY <1>1, <2>1, <2>4
  <2>6. o.of = Snapshot(s) /\ o.old = FALSE /\ o.late = TRUE
    BY <2>4
  <2>7. mk' \in Making /\ mk'.pc = "compile" /\ mk'.todo = mk.todo \ {s}
    <3>1. PICK m \in Making : m = mk
      BY <1>1
    <3>2. mk' = [m EXCEPT !.todo = m.todo \ {s}]
      BY <2>1, <3>1
    <3> QED BY <2>1, <3>1, <3>2 DEF Making
  <2>8. mk'.todo = {t \in Sources : obj'[t].old}
    BY <1>1, <2>2, <2>5, <2>6, <2>7
  <2>9. built = FALSE \/ built' = FALSE
    BY <1>1, <2>2 DEF Fresh
  <2>10. MadeOf' /\ Inside'
    BY <1>1, <1>4, <2>1, <2>5, <2>6 DEF MadeOf, Inside
  <2>11. TreeFields' /\ Alone'
    BY <1>1, <1>3, <1>4, <2>1, <2>5, <2>7, NoRunTyped DEF TreeFields, Alone
  <2>12. ToDo' /\ Archive' /\ Fresh' /\ lib' # Torn
    BY <1>1, <1>4, <2>1, <2>7, <2>8, <2>9 DEF ToDo, Archive, Fresh
  <2> QED BY <2>10, <2>11, <2>12 DEF Tree, LibraryInv
<1>8. ASSUME NEW s \in Src, CompileFails(s) PROVE Tree'
  BY <1>1, <1>3, <1>4, <1>8, NoRunTyped
  DEF CompileFails, Tree, TreeFields, Alone, LibraryInv, MadeOf, Inside, ToDo, Archive, Fresh
<1>9. CASE UpToDate
  <2>1. /\ mk.pc = "compile" /\ mk.todo = {} /\ ~Relink /\ mk' = NoMake
        /\ built' = (complete # NoInput) /\ UNCHANGED <<obj, lib, tmp>>
    BY <1>9 DEF UpToDate
  <2>2. \A s \in Sources : ~obj[s].old /\ ~obj[s].late
    BY <1>1, <2>1 DEF ToDo, Relink
  <2>3. built' \in BOOLEAN
    BY <2>1
  <2> QED BY <1>1, <1>3, <1>4, <2>1, <2>2, <2>3, NoRunTyped
      DEF Tree, TreeFields, Alone, LibraryInv, MadeOf, Inside, ToDo, Archive, Fresh
<1>10. CASE ArchiveBegins
  <2>1. /\ mk.pc = "compile" /\ mk.todo = {} /\ mk' = [mk EXCEPT !.pc = "archive"]
        /\ UNCHANGED <<obj, lib, built>>
    BY <1>10 DEF ArchiveBegins
  <2>2. mk' \in Making /\ mk'.pc = "archive" /\ mk'.todo = {}
    <3>1. PICK m \in Making : m = mk
      BY <1>1
    <3>2. mk' = [m EXCEPT !.pc = "archive"]
      BY <2>1, <3>1
    <3> QED BY <2>1, <3>1, <3>2 DEF Making
  <2> QED BY <1>1, <1>3, <1>4, <2>1, <2>2, NoRunTyped
      DEF Tree, TreeFields, Alone, LibraryInv, MadeOf, Inside, ToDo, Archive, Fresh
<1>11. CASE ArchiveEnds
  <2>1. /\ mk.pc = "archive" /\ mk' = [mk EXCEPT !.pc = "rename"]
        /\ tmp' = [s \in Sources |-> obj[s].of] /\ UNCHANGED <<obj, lib, built>>
    BY <1>11 DEF ArchiveEnds
  <2>2. mk' \in Making /\ mk'.pc = "rename" /\ mk'.todo = mk.todo
    <3>1. PICK m \in Making : m = mk
      BY <1>1
    <3>2. mk' = [m EXCEPT !.pc = "rename"]
      BY <2>1, <3>1
    <3> QED BY <3>1, <3>2 DEF Making
  <2> QED BY <1>1, <1>3, <1>4, <2>1, <2>2, NoRunTyped
      DEF Tree, TreeFields, Alone, LibraryInv, MadeOf, Inside, ToDo, Archive, Fresh
<1>12. CASE Rename
  <2>1. /\ mk.pc = "rename" /\ lib' = tmp /\ mk' = NoMake /\ built' = (complete # NoInput)
        /\ obj' = [s \in Src |-> [obj[s] EXCEPT !.late = FALSE]]
    BY <1>12 DEF Rename
  <2>2. tmp = [s \in Sources |-> obj[s].of] /\ \A s \in Sources : ~obj[s].old
    BY <1>1, <2>1 DEF ToDo, Archive
  <2>3. ASSUME NEW s \in Src
        PROVE  obj'[s] \in Object /\ obj'[s].of = obj[s].of /\ obj'[s].old = obj[s].old
               /\ obj'[s].late = FALSE
    <3>1. PICK o \in Object : o = obj[s]
      BY <1>1
    <3>2. obj'[s] = [o EXCEPT !.late = FALSE]
      BY <2>1, <3>1
    <3> QED BY <3>1, <3>2 DEF Object
  <2>4. obj' \in [Src -> Object]
    BY <2>1, <2>3
  <2>5. lib' # Torn
    BY <1>1, <2>1, <2>2, WholeArchive
  <2>6. \A s \in Sources : s \in DOMAIN lib' /\ lib'[s] = obj'[s].of
    BY <1>1, <2>1, <2>2, <2>3
  <2>7. MadeOf' /\ Inside' /\ Fresh'
    BY <1>1, <1>4, <2>2, <2>3, <2>6 DEF MadeOf, Inside, Fresh
  <2>8. built' \in BOOLEAN
    BY <2>1
  <2> QED BY <1>1, <1>3, <1>4, <2>1, <2>4, <2>5, <2>7, <2>8, NoRunTyped
      DEF Tree, TreeFields, Alone, LibraryInv, ToDo, Archive
<1>13. CASE MakeCut
  <2>1. PICK ss \in SUBSET mk.todo : obj' = [s \in Src |-> IF s \in ss THEN NoObj ELSE obj[s]]
    BY <1>13 DEF MakeCut
  <2>2. mk' = NoMake /\ UNCHANGED <<lib, tmp, built>> /\ mk.todo = {s \in Sources : obj[s].old}
    BY <1>1, <1>13 DEF MakeCut, ToDo
  <2>3. /\ obj' \in [Src -> Object]
        /\ \A s \in Src : obj'[s] = obj[s] \/ (s \in mk.todo /\ obj'[s] = NoObj)
    BY <1>1, <2>1, NoRunTyped
  <2>4. MadeOf' /\ Inside'
    BY <1>1, <1>4, <2>2, <2>3, NoRunTyped DEF MadeOf, Inside
  <2>5. Fresh'
    BY <1>1, <1>4, <2>2, <2>3 DEF Fresh
  <2> QED BY <1>1, <1>3, <1>4, <2>2, <2>3, <2>4, <2>5, NoRunTyped
      DEF Tree, TreeFields, Alone, LibraryInv, ToDo, Archive
<1> QED BY <1>6, <1>7, <1>8, <1>9, <1>10, <1>11, <1>12, <1>13 DEF Make

LEMMA LibraryUnderStart ==
    ASSUME Tree, NEW g \in Input, GenerateStart(g) PROVE Tree'
<1>1. /\ gen = NoRun /\ mk = NoMake /\ UNCHANGED <<disk, obj, lib, tmp, mk>>
      /\ gen' = [NoRun EXCEPT !.input = g, !.plan = Plan(g), !.was = complete, !.built = built]
      /\ complete' = NoInput /\ built' = FALSE
  BY NoRunTyped DEF GenerateStart, TreeIdle, Tree, Alone
<1>2. gen' \in Run /\ gen'.input = g /\ g # NoInput
  <2>1. Plan(g) \in Seq(PlanStep) /\ complete \in Input \cup {NoInput} /\ built \in BOOLEAN
        /\ g # NoInput
    BY PlanFacts, OutputTreeAssumption DEF Tree, TreeFields
  <2>2. gen' = [input |-> g, plan |-> Plan(g), written |-> {}, changed |-> {},
                touched |-> {}, was |-> complete, built |-> built]
    BY <1>1 DEF NoRun
  <2> QED BY <2>1, <2>2 DEF Run
<1> QED BY <1>1, <1>2, NoRunTyped
    DEF Tree, TreeFields, Alone, LibraryInv, MadeOf, Inside, ToDo, Archive, Fresh, Sources, Snapshot

-----------------------------------------------------------------------------
(* The whole: the tree and the library under every step.                       *)

LEMMA TreeStart ==
    ASSUME TreeInit PROVE Tree
<1>1. /\ disk \in [File -> Content] /\ obj \in [Src -> Object] /\ Sources = {}
  BY FileFacts, NoRunTyped DEF TreeInit, Sources
<1>2. gen = NoRun /\ mk = NoMake /\ complete = NoInput /\ built = FALSE /\ lib = Absent
  BY DEF TreeInit
<1>3. TreeFields /\ Alone
  BY <1>1, <1>2, NoRunTyped DEF TreeFields, Alone
<1>4. Absent # Torn
  BY FilesAssumption
<1>5. LibraryInv
  BY <1>1, <1>2, <1>4, NoRunTyped DEF LibraryInv, MadeOf, Inside, ToDo, Archive, Fresh
<1> QED BY <1>3, <1>5 DEF Tree

LEMMA TreeStep ==
    ASSUME CacheSound, Tree, [RNext]_rebuildVars PROVE Tree'
<1>1. CASE TreeMove
  BY <1>1, LibraryUnderGenerate, LibraryUnderMake, LibraryUnderStart DEF TreeMove
<1>2. CASE UNCHANGED treeVars
  BY <1>2 DEF treeVars, Tree, TreeFields, Alone, LibraryInv, MadeOf, Inside, ToDo, Archive,
              Fresh, Sources, Snapshot
<1>3. CASE UNCHANGED rebuildVars
  BY <1>2, <1>3 DEF rebuildVars
<1> QED BY <1>1, <1>2, <1>3, Parts DEF CacheSound, CacheFields

LEMMA TreeStays == RSpec => [](CacheSound /\ Tree)
<1>1. RInit => CacheSound /\ Tree
  <2> SUFFICES ASSUME RInit PROVE CacheSound /\ Tree
    OBVIOUS
  <2>1. CacheFields /\ Sized /\ Queued /\ GoodIsAccepted /\ cuts = 0 /\ Tree
    BY CacheStart, TreeStart DEF RInit
  <2> QED BY <2>1, FilesAssumption DEF CacheSound
<1>2. CacheSound /\ Tree /\ [RNext]_rebuildVars => (CacheSound /\ Tree)'
  BY CacheSoundStep, TreeStep
<1> QED BY <1>1, <1>2, PTL DEF RSpec

\* The variables of both modules stay in their domains: no step leaves a file, an
\* object, a run or a list of things to make that is none.
THEOREM RebuildTypes == RSpec => []RebuildTypeOK
<1>1. CacheSound /\ Tree => RebuildTypeOK
  <2> SUFFICES ASSUME CacheSound, Tree PROVE RebuildTypeOK
    OBVIOUS
  <2>1. CacheTypeOK
    BY DEF CacheSound, CacheFields, CacheTypeOK
  <2>2. /\ disk \in [File -> Content] /\ obj \in [Src -> Object] /\ gen \in Run /\ mk \in Making
        /\ complete \in Input \cup {NoInput} /\ built \in BOOLEAN /\ Alone /\ ToDo
        /\ cuts \in 0..MaxCuts
    BY DEF CacheSound, Tree, TreeFields, LibraryInv
  <2>3. mk.todo \subseteq Sources
    BY <2>2, NoRunTyped DEF Alone, ToDo
  <2>4. mk.pc \in {"idle", "compile", "archive", "rename"}
    BY <2>2 DEF Making
  <2> QED BY <2>1, <2>2, <2>3, <2>4, RunFields DEF RebuildTypeOK, TreeTypeOK, Object
<1> QED BY <1>1, TreeStays, PTL

\* After a make that follows a whole run of elf2c.py, every source of the tree is
\* in the library, made from the files as they are; and libguest.a is never an
\* archive half written, however many runs of either were cut short.
THEOREM LibraryHoldsTheTree == RSpec => []LibraryIsTheTree
<1>1. CacheSound /\ Tree => LibraryIsTheTree
  BY DEF Tree, TreeFields, LibraryInv, MadeOf, Inside, Fresh, LibraryIsTheTree, Sources
<1> QED BY <1>1, TreeStays, PTL

-----------------------------------------------------------------------------
(* What prune_unreachable reaches is the least set that holds the roots and    *)
(* what its files declare.                                                     *)

Present == {f \in Fn : disk[f] # Absent}
Named(S) == UNION {Refs(disk[f]) : f \in S}

\* The recursion of Reach, up to a depth.
Levels(h, n) ==
    \A i \in 0..n : h[i] = Present \cap (IF i = 0 THEN Roots ELSE h[i - 1] \cup Named(h[i - 1]))

\* It has a solution,
LEMMA LevelsExist == \A n \in Nat : \E h : h = [i \in 0..n |-> h[i]] /\ Levels(h, n)
<1> DEFINE T == {n \in Nat : ~ \E h : h = [i \in 0..n |-> h[i]] /\ Levels(h, n)}
<1>1. SUFFICES ASSUME T # {} PROVE FALSE
  OBVIOUS
<1>2. PICK m \in T : \A k \in T : m <= k
  <2>1. T \in SUBSET Nat
    OBVIOUS
  <2> HIDE DEF T
  <2> QED BY <1>1, <2>1, LeastNumber
<1>3. CASE m = 0
  <2> DEFINE h == [i \in 0..0 |-> Present \cap Roots]
  <2>1. h = [i \in 0..0 |-> h[i]] /\ Levels(h, 0)
    BY DEF Levels
  <2> QED BY <1>2, <1>3, <2>1
<1>4. CASE m # 0
  <2>1. m - 1 \in Nat /\ m \in Nat /\ ~(m <= m - 1)
    BY <1>2, <1>4
  <2>2. PICK f : f = [i \in 0..m - 1 |-> f[i]] /\ Levels(f, m - 1)
    BY <1>2, <2>1
  <2> DEFINE x == Present \cap (f[m - 1] \cup Named(f[m - 1]))
             h == [i \in 0..m |-> IF i = m THEN x ELSE f[i]]
  <2>3. h[m] = x /\ \A i \in 0..m - 1 : h[i] = f[i]
    <3> HIDE DEF x
    <3> QED BY <2>1
  <2>4. h = [i \in 0..m |-> h[i]]
    <3> HIDE DEF x
    <3> QED OBVIOUS
  <2> HIDE DEF h
  <2>5. Levels(h, m)
    <3> SUFFICES ASSUME NEW i \in 0..m
                 PROVE  h[i] = Present \cap (IF i = 0 THEN Roots ELSE h[i - 1] \cup Named(h[i - 1]))
      BY DEF Levels
    <3>1. CASE i = m
      <4>1. m - 1 \in 0..m - 1 /\ m # 0
        BY <2>1, <1>4
      <4>2. h[m] = x /\ h[m - 1] = f[m - 1]
        BY <2>3, <4>1
      <4> QED BY <3>1, <4>1, <4>2
    <3>2. CASE i # m
      <4>1. i \in 0..m - 1 /\ (i # 0 => i - 1 \in 0..m - 1)
        BY <2>1, <3>2
      <4>2. h[i] = f[i] /\ (i # 0 => h[i - 1] = f[i - 1])
        BY <2>3, <4>1
      <4>3. f[i] = Present \cap (IF i = 0 THEN Roots ELSE f[i - 1] \cup Named(f[i - 1]))
        BY <2>2, <4>1 DEF Levels
      <4> QED BY <4>2, <4>3
    <3> QED BY <3>1, <3>2
  <2> QED BY <1>2, <2>4, <2>5
<1> QED BY <1>3, <1>4

\* and Reach is one.
LEMMA ReachLevels == Cardinality(Fn) \in Nat /\ Levels(Reach, Cardinality(Fn))
<1> DEFINE n == Cardinality(Fn)
           Eqn(h) == h = [i \in 0..n |->
                             {f \in Fn : disk[f] # Absent}
                               \cap (IF i = 0 THEN Roots
                                     ELSE h[i - 1] \cup UNION {Refs(disk[f]) : f \in h[i - 1]})]
<1>1. n \in Nat
  BY FileFacts, FS_CardinalityType
<1>2. PICK h : h = [i \in 0..n |-> h[i]] /\ Levels(h, n)
  BY <1>1, LevelsExist
<1>3. Eqn(h)
  <2>1. \A i \in 0..n : h[i] = {f \in Fn : disk[f] # Absent}
                               \cap (IF i = 0 THEN Roots
                                     ELSE h[i - 1] \cup UNION {Refs(disk[f]) : f \in h[i - 1]})
    BY <1>2 DEF Levels, Present, Named
  <2> HIDE DEF n
  <2> QED BY <1>2, <2>1
<1>4. Reach = CHOOSE r : Eqn(r)
  BY DEF Reach
<1>5. Eqn(Reach)
  BY <1>3, <1>4
<1>6. Levels(Reach, n)
  <2>1. \A i \in 0..n : Reach[i] = {f \in Fn : disk[f] # Absent}
                               \cap (IF i = 0 THEN Roots
                                     ELSE Reach[i - 1] \cup UNION {Refs(disk[f]) : f \in Reach[i - 1]})
    <3> HIDE DEF n
    <3> QED BY <1>5
  <2> QED BY <2>1 DEF Levels, Present, Named
<1> QED BY <1>1, <1>6

\* A set no file of which declares a function outside it, and the roots are in it.
Shut(fs) == Present \cap (Roots \cup Named(fs)) \subseteq fs

LEMMA ReachInShut ==
    ASSUME NEW fs, Shut(fs) PROVE \A i \in 0..Cardinality(Fn) : Reach[i] \subseteq fs
<1> DEFINE n == Cardinality(Fn)
           T == {i \in 0..n : ~(Reach[i] \subseteq fs)}
<1>1. n \in Nat /\ Levels(Reach, n)
  BY ReachLevels
<1> HIDE DEF n
<1>2. SUFFICES ASSUME T # {} PROVE FALSE
  BY DEF n
<1>3. PICK m \in T : \A k \in T : m <= k
  <2>1. T \in SUBSET Nat
    OBVIOUS
  <2> HIDE DEF T
  <2> QED BY <1>2, <2>1, LeastNumber
<1>4. CASE m = 0
  <2>1. Reach[0] = Present \cap Roots
    BY <1>1 DEF Levels
  <2> QED BY <1>3, <1>4, <2>1 DEF Shut
<1>5. CASE m # 0
  <2>1. m \in 0..n /\ m - 1 \in 0..n /\ m \in Nat /\ ~(m <= m - 1)
    BY <1>1, <1>3, <1>5
  <2>2. Reach[m - 1] \subseteq fs
    BY <1>3, <2>1
  <2>3. Reach[m] = Present \cap (Reach[m - 1] \cup Named(Reach[m - 1]))
    BY <1>1, <1>5, <2>1 DEF Levels
  <2>4. Named(Reach[m - 1]) \subseteq Named(fs)
    BY <2>2 DEF Named
  <2> QED BY <1>3, <2>2, <2>3, <2>4 DEF Shut
<1> QED BY <1>4, <1>5

\* Each round adds a function, until one adds none.
LEMMA ReachGrows ==
    \A i \in 0..Cardinality(Fn) :
        /\ Reach[i] \subseteq Present /\ Present \cap Roots \subseteq Reach[i]
        /\ Shut(Reach[i]) \/ Cardinality(Reach[i]) >= i + 1
<1> DEFINE n == Cardinality(Fn)
           Grown(i) == /\ Reach[i] \subseteq Present /\ Present \cap Roots \subseteq Reach[i]
                       /\ Shut(Reach[i]) \/ Cardinality(Reach[i]) >= i + 1
           T == {i \in 0..n : ~Grown(i)}
<1>1. n \in Nat /\ Levels(Reach, n)
  BY ReachLevels
<1>2. \A S \in SUBSET Present : IsFiniteSet(S) /\ Cardinality(S) \in Nat
  BY FileFacts, FS_Subset, FS_CardinalityType DEF Present
<1> HIDE DEF n
<1>3. SUFFICES ASSUME T # {} PROVE FALSE
  BY DEF n
<1>4. PICK m \in T : \A k \in T : m <= k
  <2>1. T \in SUBSET Nat
    OBVIOUS
  <2> HIDE DEF T
  <2> QED BY <1>3, <2>1, LeastNumber
<1>5. CASE m = 0
  <2>1. Reach[0] = Present \cap Roots
    BY <1>1 DEF Levels
  <2>2. CASE Present \cap Roots = {}
    <3>1. Shut(Reach[0])
      BY <2>1, <2>2 DEF Shut, Named
    <3> QED BY <1>4, <1>5, <2>1, <3>1
  <2>3. CASE Present \cap Roots # {}
    <3>1. Present \cap Roots \in SUBSET Present
      OBVIOUS
    <3>2. Cardinality(Reach[0]) # 0 /\ Cardinality(Reach[0]) \in Nat
      BY <1>2, <2>1, <2>3, <3>1, FS_EmptySet
    <3>3. Cardinality(Reach[0]) >= 0 + 1
      BY <3>2
    <3> QED BY <1>4, <1>5, <2>1, <3>3
  <2> QED BY <2>2, <2>3
<1>6. CASE m # 0
  <2>1. m \in 0..n /\ m - 1 \in 0..n /\ m \in Nat /\ ~(m <= m - 1)
    BY <1>1, <1>4, <1>6
  <2> DEFINE R == Reach[m - 1]
  <2>2. Grown(m - 1)
    BY <1>4, <2>1
  <2>3. Reach[m] = Present \cap (R \cup Named(R))
    BY <1>1, <1>6, <2>1 DEF Levels
  <2>4. R \subseteq Reach[m] /\ Reach[m] \subseteq Present /\ Present \cap Roots \subseteq Reach[m]
    BY <2>2, <2>3
  <2>5. CASE Shut(R)
    <3>1. Reach[m] = R
      BY <2>2, <2>3, <2>5 DEF Shut
    <3> QED BY <1>4, <2>4, <2>5, <3>1
  <2>6. CASE ~Shut(R)
    <3>1. Reach[m] # R
      BY <2>2, <2>3, <2>6 DEF Shut
    <3>2. /\ Cardinality(R) >= m - 1 + 1
          /\ Cardinality(R) \in Nat /\ Cardinality(Reach[m]) \in Nat /\ IsFiniteSet(Reach[m])
      BY <1>2, <2>2, <2>4, <2>6
    <3>3. Cardinality(R) <= Cardinality(Reach[m]) /\ Cardinality(R) # Cardinality(Reach[m])
      BY <2>4, <3>1, <3>2, FS_Subset
    <3>4. Cardinality(Reach[m]) >= m + 1
      BY <2>1, <3>2, <3>3
    <3> QED BY <1>4, <2>4, <3>4
  <2> QED BY <2>5, <2>6
<1> QED BY <1>5, <1>6

LEMMA LiveIsLeast ==
    /\ Live \subseteq Present /\ Shut(Live)
    /\ \A fs \in SUBSET Fn : Shut(fs) => Live \subseteq fs
<1> DEFINE n == Cardinality(Fn)
<1>1. n \in Nat /\ n \in 0..n /\ Live = Reach[n]
  BY ReachLevels DEF Live
<1>2. Live \subseteq Present /\ (Shut(Live) \/ Cardinality(Live) >= n + 1)
  BY <1>1, ReachGrows
<1>3. Live \in SUBSET Fn /\ Cardinality(Live) <= n /\ Cardinality(Live) \in Nat
  <2>1. Live \in SUBSET Fn
    BY <1>2 DEF Present
  <2> QED BY <2>1, FileFacts, FS_Subset, FS_CardinalityType
<1>4. Shut(Live)
  BY <1>1, <1>2, <1>3
<1>5. \A fs \in SUBSET Fn : Shut(fs) => Live \subseteq fs
  BY <1>1, ReachInShut
<1> QED BY <1>2, <1>4, <1>5

\* When all the texts of g are on the disk, those are the functions g is to keep.
LEMMA LiveIsReached ==
    ASSUME NEW g \in Input,
           \A f \in Fn : disk[f] = LastText(g, f),
           disk["dispatch"] = Gen[g].dispatch, disk["data_text"] = Gen[g].data_text
    PROVE  Live = Reached(g) /\ Present = DOMAIN Gen[g].body
<1>1. Present = DOMAIN Gen[g].body
  BY TextFacts DEF Present, LastText
<1>2. \A fs \in SUBSET Fn : Shut(fs) <=> Closed(g, fs)
  <2> SUFFICES ASSUME NEW fs \in SUBSET Fn PROVE Shut(fs) <=> Closed(g, fs)
    OBVIOUS
  <2>1. Named(fs) = UNION {Refs(LastText(g, f)) : f \in fs}
    BY DEF Named
  <2>2. Roots = Refs(Gen[g].dispatch) \cup Refs(Gen[g].data_text)
    BY DEF Roots
  <2>3. DOMAIN Gen[g].body \subseteq Fn
    BY TextFacts
  <2> QED BY <1>1, <2>1, <2>2, <2>3 DEF Shut, Closed
<1>3. Live \in SUBSET Fn /\ Live \subseteq DOMAIN Gen[g].body
  BY <1>1, LiveIsLeast DEF Present
<1>4. Closed(g, Live)
  BY <1>2, <1>3, LiveIsLeast
<1>5. Reached(g) \subseteq Live
  BY <1>3, <1>4 DEF Reached
<1>6. Live \subseteq Reached(g)
  BY <1>2, <1>3, LiveIsLeast DEF Reached
<1> QED BY <1>1, <1>5, <1>6

-----------------------------------------------------------------------------
(* How far a run of elf2c.py on the input g is.                                *)

\* The steps of its plan that are done, and the functions whose body and whose
\* stub they have written.
At(g) == Len(Plan(g)) - Len(gen.plan)
OnPlan(g) ==
    /\ At(g) \in 0..Fns(g) + 8
    /\ Len(gen.plan) = Fns(g) + 8 - At(g)
    /\ \A i \in 1..Len(gen.plan) : gen.plan[i] = Plan(g)[At(g) + i]

BodiesDone(g, k) == {SetToSeq(DOMAIN Gen[g].body)[i] : i \in {j \in 1..Bodies(g) : j <= k}}
StubsDone(g, k) == {SetToSeq(DOMAIN Gen[g].stub)[i] : i \in {j \in 1..Stubs(g) : Bodies(g) + j <= k}}

\* Where in the second half of the plan each of the other files has its turn.
Place == [header |-> 2, image |-> 3, data_ro |-> 4, data_text |-> 5, dispatch |-> 6, Makefile |-> 7]

LEMMA Places ==
    /\ \A f \in Others : Place[f] \in 2..7
    /\ \A i \in 2..7 : \E f \in Others : Place[f] = i
    /\ \A e, f \in Others : Place[e] = Place[f] => e = f
BY DEF Place, Others

LEMMA IntendedFacts ==
    ASSUME NEW g \in Input
    PROVE  /\ Intended[g] = [f \in File |-> Intended[g][f]]
           /\ \A f \in Fn : Intended[g][f] = IF f \in Reached(g) THEN LastText(g, f) ELSE Absent
           /\ Intended[g]["header"] = Gen[g].header /\ Intended[g]["image"] = Gen[g].image
           /\ Intended[g]["data_ro"] = Gen[g].data_ro /\ Intended[g]["data_text"] = Gen[g].data_text
           /\ Intended[g]["dispatch"] = Gen[g].dispatch /\ Intended[g]["Makefile"] = Gen[g].makefile
           /\ \A f \in Others : Intended[g][f] \in Content
<1> DEFINE t(f) == IF f \in Fn THEN IF f \in Reached(g) THEN LastText(g, f) ELSE Absent
                   ELSE CASE f = "dispatch" -> Gen[g].dispatch
                          [] f = "data_ro" -> Gen[g].data_ro
                          [] f = "data_text" -> Gen[g].data_text
                          [] f = "header" -> Gen[g].header
                          [] f = "image" -> Gen[g].image
                          [] f = "Makefile" -> Gen[g].makefile
<1>1. Intended[g] = [f \in File |-> t(f)]
  BY DEF Intended
<1>2. \A f \in Fn : t(f) = IF f \in Reached(g) THEN LastText(g, f) ELSE Absent
  OBVIOUS
<1>3. /\ t("header") = Gen[g].header /\ t("image") = Gen[g].image
      /\ t("data_ro") = Gen[g].data_ro /\ t("data_text") = Gen[g].data_text
      /\ t("dispatch") = Gen[g].dispatch /\ t("Makefile") = Gen[g].makefile
  BY FileFacts DEF Others
<1> HIDE DEF t
<1>4. /\ Intended[g] = [f \in File |-> Intended[g][f]]
      /\ \A f \in File : Intended[g][f] = t(f)
  BY <1>1
<1>5. Fn \subseteq File /\ Others \subseteq File
  BY FileFacts
<1>6. \A f \in Others : f \in {"dispatch", "data_ro", "data_text", "header", "image", "Makefile"}
  BY DEF Others
<1>7. /\ Intended[g]["header"] = Gen[g].header /\ Intended[g]["image"] = Gen[g].image
      /\ Intended[g]["data_ro"] = Gen[g].data_ro /\ Intended[g]["data_text"] = Gen[g].data_text
      /\ Intended[g]["dispatch"] = Gen[g].dispatch /\ Intended[g]["Makefile"] = Gen[g].makefile
  BY <1>3, <1>4, <1>5 DEF Others
<1>8. \A f \in Others : Intended[g][f] \in Content
  BY <1>6, <1>7, TextFacts
<1> QED BY <1>2, <1>4, <1>5, <1>7, <1>8

\* What is done grows by the file at hand, which was not among it.
LEMMA BodyDone ==
    ASSUME NEW g \in Input, NEW k \in Nat, k < Bodies(g)
    PROVE  \E f \in DOMAIN Gen[g].body :
              /\ f = SetToSeq(DOMAIN Gen[g].body)[k + 1]
              /\ f \notin BodiesDone(g, k)
              /\ BodiesDone(g, k + 1) = BodiesDone(g, k) \cup {f}
              /\ StubsDone(g, k) = {} /\ StubsDone(g, k + 1) = {}
<1> DEFINE l == SetToSeq(DOMAIN Gen[g].body)
           nb == Bodies(g)
           ns == Stubs(g)
<1>1. IsFiniteSet(DOMAIN Gen[g].body)
  BY TextFacts, FileFacts, FS_Subset
<1>2. /\ nb \in Nat /\ ns \in Nat /\ l \in [1..nb -> DOMAIN Gen[g].body]
      /\ \A i, j \in 1..nb : l[i] = l[j] => i = j
  BY <1>1, Listing, PlanFacts DEF Bodies
<1>3. /\ \A m \in Nat : BodiesDone(g, m) = {l[i] : i \in {j \in 1..nb : j <= m}}
      /\ \A m \in Nat : StubsDone(g, m)
             = {SetToSeq(DOMAIN Gen[g].stub)[i] : i \in {j \in 1..ns : nb + j <= m}}
  BY DEF BodiesDone, StubsDone
<1> HIDE DEF l, nb, ns
<1>4. k < nb /\ k + 1 \in 1..nb
  BY <1>2 DEF nb
<1>5. l[k + 1] \in DOMAIN Gen[g].body
  BY <1>2, <1>4
<1>6. l[k + 1] \notin BodiesDone(g, k)
  BY <1>2, <1>3, <1>4
<1>7. BodiesDone(g, k + 1) = BodiesDone(g, k) \cup {l[k + 1]}
  <2>1. {j \in 1..nb : j <= k + 1} = {j \in 1..nb : j <= k} \cup {k + 1}
    BY <1>2, <1>4
  <2>2. /\ BodiesDone(g, k + 1) = {l[i] : i \in {j \in 1..nb : j <= k + 1}}
        /\ BodiesDone(g, k) = {l[i] : i \in {j \in 1..nb : j <= k}}
    BY <1>3
  <2> QED BY <2>1, <2>2
<1>8. StubsDone(g, k) = {} /\ StubsDone(g, k + 1) = {}
  <2>1. {j \in 1..ns : nb + j <= k} = {} /\ {j \in 1..ns : nb + j <= k + 1} = {}
    BY <1>2, <1>4
  <2> QED BY <1>3, <2>1
<1> QED BY <1>5, <1>6, <1>7, <1>8 DEF l

LEMMA BodiesAllDone ==
    ASSUME NEW g \in Input, NEW k \in Nat
    PROVE  /\ BodiesDone(g, k) \subseteq DOMAIN Gen[g].body
           /\ StubsDone(g, k) \subseteq DOMAIN Gen[g].stub
           /\ k >= Bodies(g) => BodiesDone(g, k) = DOMAIN Gen[g].body
           /\ k >= Fns(g) => StubsDone(g, k) = DOMAIN Gen[g].stub
           /\ k = 0 => BodiesDone(g, k) = {}
<1> DEFINE l == SetToSeq(DOMAIN Gen[g].body)
           s == SetToSeq(DOMAIN Gen[g].stub)
           nb == Bodies(g)
           ns == Stubs(g)
<1>1. IsFiniteSet(DOMAIN Gen[g].body) /\ IsFiniteSet(DOMAIN Gen[g].stub)
  BY TextFacts, FileFacts, FS_Subset
<1>2. /\ nb \in Nat /\ l \in [1..nb -> DOMAIN Gen[g].body]
      /\ \A x \in DOMAIN Gen[g].body : \E i \in 1..nb : l[i] = x
  BY <1>1, Listing DEF Bodies
<1>3. /\ ns \in Nat /\ s \in [1..ns -> DOMAIN Gen[g].stub]
      /\ \A x \in DOMAIN Gen[g].stub : \E i \in 1..ns : s[i] = x
  BY <1>1, Listing DEF Stubs
<1>4. /\ BodiesDone(g, k) = {l[i] : i \in {j \in 1..nb : j <= k}}
      /\ StubsDone(g, k) = {s[i] : i \in {j \in 1..ns : nb + j <= k}}
      /\ Fns(g) = nb + ns
  BY DEF BodiesDone, StubsDone, Fns
<1> HIDE DEF l, s, nb, ns
<1>5. ASSUME k >= nb PROVE BodiesDone(g, k) = DOMAIN Gen[g].body
  <2>1. {j \in 1..nb : j <= k} = 1..nb
    BY <1>2, <1>5
  <2>2. BodiesDone(g, k) = {l[i] : i \in 1..nb}
    BY <1>4, <2>1
  <2> QED BY <1>2, <2>2
<1>6. ASSUME k >= nb + ns PROVE StubsDone(g, k) = DOMAIN Gen[g].stub
  <2>1. {j \in 1..ns : nb + j <= k} = 1..ns
    BY <1>2, <1>3, <1>6
  <2>2. StubsDone(g, k) = {s[i] : i \in 1..ns}
    BY <1>4, <2>1
  <2> QED BY <1>3, <2>2
<1>7. BodiesDone(g, k) \subseteq DOMAIN Gen[g].body /\ StubsDone(g, k) \subseteq DOMAIN Gen[g].stub
  <2>1. BodiesDone(g, k) \subseteq DOMAIN Gen[g].body
    BY <1>2, <1>4
  <2>2. StubsDone(g, k) \subseteq DOMAIN Gen[g].stub
    BY <1>3, <1>4
  <2> QED BY <2>1, <2>2
<1>8. k = 0 => {j \in 1..nb : j <= k} = {}
  BY <1>2
<1> QED BY <1>4, <1>5, <1>6, <1>7, <1>8 DEF nb

LEMMA StubDone ==
    ASSUME NEW g \in Input, NEW k \in Nat, Bodies(g) <= k, k < Fns(g)
    PROVE  \E f \in DOMAIN Gen[g].stub :
              /\ f = SetToSeq(DOMAIN Gen[g].stub)[k - Bodies(g) + 1]
              /\ f \notin StubsDone(g, k)
              /\ StubsDone(g, k + 1) = StubsDone(g, k) \cup {f}
<1> DEFINE s == SetToSeq(DOMAIN Gen[g].stub)
           nb == Bodies(g)
           ns == Stubs(g)
<1>1. IsFiniteSet(DOMAIN Gen[g].stub) /\ nb \in Nat
  BY TextFacts, FileFacts, FS_Subset, PlanFacts
<1>2. /\ ns \in Nat /\ s \in [1..ns -> DOMAIN Gen[g].stub]
      /\ \A i, j \in 1..ns : s[i] = s[j] => i = j
  BY <1>1, Listing DEF Stubs
<1>3. \A m \in Nat : StubsDone(g, m) = {s[i] : i \in {j \in 1..ns : nb + j <= m}}
  BY DEF StubsDone
<1>4. nb <= k /\ k < nb + ns
  BY DEF nb, ns, Fns
<1> HIDE DEF s, nb, ns
<1>5. PICK m \in 1..ns : m = k - nb + 1
  BY <1>1, <1>2, <1>4
<1>6. s[m] \in DOMAIN Gen[g].stub
  BY <1>2
<1>7. {j \in 1..ns : nb + j <= k + 1} = {j \in 1..ns : nb + j <= k} \cup {m}
  BY <1>1, <1>2, <1>4, <1>5
<1>8. m \notin {j \in 1..ns : nb + j <= k}
  BY <1>1, <1>2, <1>4, <1>5
<1>9. /\ StubsDone(g, k + 1) = {s[i] : i \in {j \in 1..ns : nb + j <= k + 1}}
      /\ StubsDone(g, k) = {s[i] : i \in {j \in 1..ns : nb + j <= k}}
  BY <1>3
<1>10. s[m] \notin StubsDone(g, k)
  BY <1>2, <1>8, <1>9
<1>11. StubsDone(g, k + 1) = StubsDone(g, k) \cup {s[m]}
  BY <1>7, <1>9
<1> QED BY <1>5, <1>6, <1>10, <1>11 DEF s, nb

\* A run with steps left is at one of its plan, and the step done, at the next.
LEMMA Advance ==
    ASSUME NEW g \in Input, gen \in Run, OnPlan(g), Running
    PROVE  /\ At(g) \in 0..Fns(g) + 7 /\ Now = Plan(g)[At(g) + 1]
           /\ gen'.plan = Tail(gen.plan) => OnPlan(g)' /\ At(g)' = At(g) + 1
<1>1. gen.plan \in Seq(PlanStep) /\ gen.plan # <<>>
  BY RunFields DEF Running
<1>2. /\ Fns(g) \in Nat /\ Len(Plan(g)) = Fns(g) + 8
  BY PlanFacts
<1>3. /\ At(g) \in 0..Fns(g) + 8 /\ Len(gen.plan) = Fns(g) + 8 - At(g)
      /\ \A i \in 1..Len(gen.plan) : gen.plan[i] = Plan(g)[At(g) + i]
  BY DEF OnPlan
<1>4. PICK p \in Seq(PlanStep) : p = gen.plan
  BY <1>1
<1>5. Len(p) \in Nat /\ Len(p) > 0
  BY <1>1, <1>4, EmptySeq, LenProperties
<1>6. PICK k \in 0..Fns(g) + 7 : k = At(g)
  BY <1>2, <1>3, <1>4, <1>5
<1>7. \A i \in 1..Len(p) : p[i] = Plan(g)[k + i]
  BY <1>3, <1>4, <1>6
<1>8. Now = Plan(g)[k + 1]
  <2>1. 1 \in 1..Len(p)
    BY <1>5
  <2>2. Head(p) = p[1]
    OBVIOUS
  <2> QED BY <1>4, <1>7, <2>1, <2>2 DEF Now
<1>9. ASSUME gen'.plan = Tail(gen.plan) PROVE OnPlan(g)' /\ At(g)' = k + 1
  <2>1. PICK q \in Seq(PlanStep) : q = Tail(p)
    BY <1>1, <1>4, HeadTailProperties
  <2>2. Len(q) = Len(p) - 1 /\ \A i \in 1..Len(q) : q[i] = p[i + 1]
    BY <1>1, <1>4, <2>1, HeadTailProperties
  <2>3. gen'.plan = q
    BY <1>4, <1>9, <2>1
  <2>4. Len(q) = Fns(g) + 8 - (k + 1) /\ Len(q) \in Nat
    <3>1. Len(p) = Fns(g) + 8 - k
      BY <1>3, <1>4, <1>6
    <3>2. Len(q) = Len(p) - 1
      BY <2>2
    <3> QED BY <1>2, <1>5, <3>1, <3>2
  <2>5. At(g)' = k + 1
    BY <1>2, <2>3, <2>4 DEF At
  <2>6. \A i \in 1..Len(q) : q[i] = Plan(g)[k + 1 + i]
    <3> SUFFICES ASSUME NEW i \in 1..Len(q) PROVE q[i] = Plan(g)[k + 1 + i]
      OBVIOUS
    <3>1. i + 1 \in 1..Len(p) /\ k + (i + 1) = k + 1 + i
      BY <1>5, <2>2, <2>4
    <3>2. q[i] = p[i + 1]
      BY <2>2
    <3>3. p[i + 1] = Plan(g)[k + (i + 1)]
      BY <1>7, <3>1
    <3> QED BY <3>1, <3>2, <3>3
  <2>7. k + 1 \in 0..Fns(g) + 8
    BY <1>2, <1>6
  <2> QED BY <2>3, <2>4, <2>5, <2>6, <2>7 DEF OnPlan
<1> QED BY <1>6, <1>8, <1>9

\* The step at hand: a body, a stub, the files to prune, one of the other files,
\* or the files nothing reaches.
LEMMA AtHand ==
    ASSUME NEW g \in Input, gen \in Run, OnPlan(g), Running
    PROVE  \/ /\ At(g) < Bodies(g)
              /\ \E f \in DOMAIN Gen[g].body :
                    /\ Now.do = "write" /\ Now.file = f /\ Now.is = Gen[g].body[f]
                    /\ f \notin BodiesDone(g, At(g))
                    /\ BodiesDone(g, At(g) + 1) = BodiesDone(g, At(g)) \cup {f}
                    /\ StubsDone(g, At(g)) = {} /\ StubsDone(g, At(g) + 1) = {}
           \/ /\ Bodies(g) <= At(g) /\ At(g) < Fns(g)
              /\ \E f \in DOMAIN Gen[g].stub :
                    /\ Now.do = "write" /\ Now.file = f /\ Now.is = Gen[g].stub[f]
                    /\ f \notin StubsDone(g, At(g))
                    /\ StubsDone(g, At(g) + 1) = StubsDone(g, At(g)) \cup {f}
           \/ At(g) = Fns(g) /\ Now.do = "prune"
           \/ \E f \in Others :
                 /\ At(g) + 1 = Fns(g) + Place[f]
                 /\ Now.file = f /\ Now.is = Intended[g][f]
                 /\ Now.do = IF f = "Makefile" THEN "rewrite"
                             ELSE IF f = "data_text" /\ Intended[g][f] = Absent THEN "remove"
                             ELSE "write"
           \/ At(g) = Fns(g) + 7 /\ Now.do = "unreachable"
<1>1. /\ At(g) \in 0..Fns(g) + 7 /\ Now = Plan(g)[At(g) + 1]
  BY Advance
<1>2. /\ Bodies(g) \in Nat /\ Stubs(g) \in Nat /\ Fns(g) = Bodies(g) + Stubs(g)
      /\ \A i \in 1..Bodies(g) :
            Plan(g)[i] = Step("write", SetToSeq(DOMAIN Gen[g].body)[i],
                              Gen[g].body[SetToSeq(DOMAIN Gen[g].body)[i]])
      /\ \A i \in 1..Stubs(g) :
            Plan(g)[Bodies(g) + i] =
                Step("write", SetToSeq(DOMAIN Gen[g].stub)[i],
                     Gen[g].stub[SetToSeq(DOMAIN Gen[g].stub)[i]])
      /\ \A i \in 1..8 : Plan(g)[Fns(g) + i] = Ends(g)[i]
  BY PlanFacts DEF Fns
<1>3. PICK k \in Nat : k = At(g)
  BY <1>1, <1>2
<1>4. \A do, f, c : Step(do, f, c).do = do /\ Step(do, f, c).file = f /\ Step(do, f, c).is = c
  BY DEF Step
<1>5. CASE k < Bodies(g)
  <2>1. PICK f \in DOMAIN Gen[g].body :
              /\ f = SetToSeq(DOMAIN Gen[g].body)[k + 1]
              /\ f \notin BodiesDone(g, k)
              /\ BodiesDone(g, k + 1) = BodiesDone(g, k) \cup {f}
              /\ StubsDone(g, k) = {} /\ StubsDone(g, k + 1) = {}
    BY <1>5, BodyDone
  <2>2. k + 1 \in 1..Bodies(g)
    BY <1>2, <1>5
  <2>3. Now = Step("write", f, Gen[g].body[f])
    BY <1>1, <1>2, <1>3, <2>1, <2>2
  <2>4. Now.do = "write" /\ Now.file = f /\ Now.is = Gen[g].body[f]
    BY <1>4, <2>3
  <2> QED BY <1>3, <1>5, <2>1, <2>4
<1>6. CASE Bodies(g) <= k /\ k < Fns(g)
  <2>1. PICK f \in DOMAIN Gen[g].stub :
              /\ f = SetToSeq(DOMAIN Gen[g].stub)[k - Bodies(g) + 1]
              /\ f \notin StubsDone(g, k)
              /\ StubsDone(g, k + 1) = StubsDone(g, k) \cup {f}
    BY <1>6, StubDone
  <2>2. PICK i \in 1..Stubs(g) : i = k - Bodies(g) + 1 /\ Bodies(g) + i = k + 1
    BY <1>2, <1>6
  <2>3. Now = Step("write", f, Gen[g].stub[f])
    BY <1>1, <1>2, <1>3, <2>1, <2>2
  <2>4. Now.do = "write" /\ Now.file = f /\ Now.is = Gen[g].stub[f]
    BY <1>4, <2>3
  <2> QED BY <1>3, <1>6, <2>1, <2>4
<1>7. CASE k = Fns(g)
  <2>1. 1 \in 1..8 /\ k + 1 = Fns(g) + 1
    BY <1>2, <1>7
  <2>2. Now = Ends(g)[1]
    BY <1>1, <1>2, <1>3, <2>1
  <2>3. PICK f, c : Ends(g)[1] = Step("prune", f, c)
    BY EndsFacts
  <2>4. Now.do = "prune"
    BY <1>4, <2>2, <2>3
  <2>5. At(g) = Fns(g) /\ Now.do = "prune"
    BY <1>3, <1>7, <2>4
  <2> QED BY <2>5
<1>8. CASE k = Fns(g) + 7
  <2>1. 8 \in 1..8 /\ k + 1 = Fns(g) + 8
    BY <1>2, <1>8
  <2>2. Now = Ends(g)[8]
    BY <1>1, <1>2, <1>3, <2>1
  <2>3. PICK f, c : Ends(g)[8] = Step("unreachable", f, c)
    BY EndsFacts
  <2>4. Now.do = "unreachable"
    BY <1>4, <2>2, <2>3
  <2>5. At(g) = Fns(g) + 7 /\ Now.do = "unreachable"
    BY <1>3, <1>8, <2>4
  <2> QED BY <2>5
<1>9. CASE Fns(g) < k /\ k < Fns(g) + 7
  <2>1. PICK i \in 2..7 : k + 1 = Fns(g) + i
    BY <1>2, <1>9
  <2>2. PICK f \in Others : Place[f] = i
    BY Places
  <2>3. Now = Ends(g)[i]
    BY <1>1, <1>2, <1>3, <2>1
  <2>4. Now = Step(IF f = "Makefile" THEN "rewrite"
                   ELSE IF f = "data_text" /\ Intended[g][f] = Absent THEN "remove"
                   ELSE "write", f, Intended[g][f])
    <3>1. CASE f = "header"
      <4>1. i = 2
        BY <2>2, <3>1 DEF Place
      <4>2. Ends(g)[2] = Step("write", "header", Gen[g].header)
        BY EndsFacts
      <4>3. Intended[g]["header"] = Gen[g].header
        BY IntendedFacts
      <4> QED BY <2>3, <3>1, <4>1, <4>2, <4>3
    <3>2. CASE f = "image"
      <4>1. i = 3
        BY <2>2, <3>2 DEF Place
      <4>2. Ends(g)[3] = Step("write", "image", Gen[g].image)
        BY EndsFacts
      <4>3. Intended[g]["image"] = Gen[g].image
        BY IntendedFacts
      <4> QED BY <2>3, <3>2, <4>1, <4>2, <4>3
    <3>3. CASE f = "data_ro"
      <4>1. i = 4
        BY <2>2, <3>3 DEF Place
      <4>2. Ends(g)[4] = Step("write", "data_ro", Gen[g].data_ro)
        BY EndsFacts
      <4>3. Intended[g]["data_ro"] = Gen[g].data_ro
        BY IntendedFacts
      <4> QED BY <2>3, <3>3, <4>1, <4>2, <4>3
    <3>4. CASE f = "data_text"
      <4>1. i = 5
        BY <2>2, <3>4 DEF Place
      <4>2. Ends(g)[5] = Step(IF Gen[g].data_text = Absent THEN "remove" ELSE "write",
                              "data_text", Gen[g].data_text)
        BY EndsFacts
      <4>3. Intended[g]["data_text"] = Gen[g].data_text
        BY IntendedFacts
      <4> QED BY <2>3, <3>4, <4>1, <4>2, <4>3
    <3>5. CASE f = "dispatch"
      <4>1. i = 6
        BY <2>2, <3>5 DEF Place
      <4>2. Ends(g)[6] = Step("write", "dispatch", Gen[g].dispatch)
        BY EndsFacts
      <4>3. Intended[g]["dispatch"] = Gen[g].dispatch
        BY IntendedFacts
      <4> QED BY <2>3, <3>5, <4>1, <4>2, <4>3
    <3>6. CASE f = "Makefile"
      <4>1. i = 7
        BY <2>2, <3>6 DEF Place
      <4>2. Ends(g)[7] = Step("rewrite", "Makefile", Gen[g].makefile)
        BY EndsFacts
      <4>3. Intended[g]["Makefile"] = Gen[g].makefile
        BY IntendedFacts
      <4> QED BY <2>3, <3>6, <4>1, <4>2, <4>3
    <3> QED BY <3>1, <3>2, <3>3, <3>4, <3>5, <3>6 DEF Others
  <2> QED BY <1>3, <1>4, <2>1, <2>2, <2>4
<1>10. \/ k < Bodies(g) \/ (Bodies(g) <= k /\ k < Fns(g)) \/ k = Fns(g) \/ k = Fns(g) + 7
       \/ (Fns(g) < k /\ k < Fns(g) + 7)
  BY <1>1, <1>2, <1>3
<1> QED BY <1>5, <1>6, <1>7, <1>8, <1>9, <1>10

-----------------------------------------------------------------------------
(* What one step does to the tree and to the run's record.                     *)

\* What no step but the first and the last changes.
Same == gen'.input = gen.input /\ gen'.was = gen.was /\ gen'.built = gen.built

LEMMA TextWritten ==
    ASSUME TreeFields, WriteFile, NEW f \in Fn, NEW c \in Content, Now.file = f, Now.is = c
    PROVE  /\ Same /\ gen'.plan = Tail(gen.plan) /\ gen'.written = gen.written \cup {f}
           /\ disk'[f] = c /\ \A e \in File : e # f => disk'[e] = disk[e]
           /\ disk[f] = c => /\ gen'.changed = gen.changed \ {f}
                             /\ gen'.touched = gen.touched /\ obj' = obj /\ disk' = disk
           /\ disk[f] # c => /\ gen'.changed = gen.changed \cup {f}
                             /\ gen'.touched = gen.touched \cup {f}
                             /\ obj'[f].old
                             /\ \A e \in Fn : e # f => obj'[e].old = obj[e].old
<1>1. disk \in [File -> Content] /\ obj \in [Src -> Object] /\ gen \in Run
      /\ f \in File /\ f \in Src /\ Fn \subseteq Src
  BY FileFacts DEF TreeFields
<1>2. PICK r \in Run : r = gen
  BY <1>1
<1>3. PICK p : p = Tail(r.plan)
  OBVIOUS
<1>4. PICK x : x = Changed(f, disk[f] # c)
  OBVIOUS
<1>5. PICK y : y = IF disk[f] # c THEN r.touched \cup {f} ELSE r.touched
  OBVIOUS
<1>6. gen' = [r EXCEPT !.plan = p, !.written = r.written \cup {f}, !.changed = x, !.touched = y]
  BY <1>2, <1>3, <1>4, <1>5 DEF WriteFile, Differs
<1>7. /\ gen'.input = r.input /\ gen'.was = r.was /\ gen'.built = r.built /\ gen'.plan = p
      /\ gen'.written = r.written \cup {f} /\ gen'.changed = x /\ gen'.touched = y
  BY <1>6 DEF Run
<1>8. disk' = [disk EXCEPT ![f] = c] /\ IF disk[f] # c THEN Touch({f}) ELSE UNCHANGED obj
  BY DEF WriteFile, Differs
<1>9. disk'[f] = c /\ \A e \in File : e # f => disk'[e] = disk[e]
  BY <1>1, <1>8
<1>10. ASSUME disk[f] = c
       PROVE  x = gen.changed \ {f} /\ y = gen.touched /\ obj' = obj /\ disk' = disk
  BY <1>1, <1>2, <1>4, <1>5, <1>8, <1>10 DEF Changed
<1>11. ASSUME disk[f] # c
       PROVE  /\ x = gen.changed \cup {f} /\ y = gen.touched \cup {f} /\ obj'[f].old
              /\ \A e \in Fn : e # f => obj'[e].old = obj[e].old
  <2>1. Touch({f}) /\ x = gen.changed \cup {f} /\ y = gen.touched \cup {f}
    BY <1>2, <1>4, <1>5, <1>8, <1>11 DEF Changed
  <2>2. \A s \in Src : obj'[s].old <=> obj[s].old \/ Needs(s, f)
    BY <1>1, <1>8, <2>1, Put
  <2>3. obj' \in [Src -> Object]
    BY <1>1, <1>8, <2>1, Put
  <2>4. Needs(f, f) /\ \A e \in Fn : e # f => ~Needs(e, f)
    BY FileFacts DEF Needs, Others
  <2>5. \A e \in Fn : obj'[e].old \in BOOLEAN /\ obj[e].old \in BOOLEAN
    BY <1>1, <2>3 DEF Object
  <2> QED BY <1>1, <2>1, <2>2, <2>4, <2>5
<1> QED BY <1>2, <1>3, <1>7, <1>9, <1>10, <1>11 DEF Same

LEMMA PlanOnly ==
    ASSUME gen \in Run, gen' = [gen EXCEPT !.plan = Tail(@)]
    PROVE  /\ Same /\ gen'.plan = Tail(gen.plan) /\ gen'.written = gen.written
           /\ gen'.changed = gen.changed /\ gen'.touched = gen.touched
<1>1. PICK r \in Run : r = gen
  OBVIOUS
<1>2. PICK p : p = Tail(r.plan)
  OBVIOUS
<1>3. gen' = [r EXCEPT !.plan = p]
  BY <1>1, <1>2
<1> QED BY <1>1, <1>2, <1>3 DEF Run, Same

LEMMA OtherWritten ==
    ASSUME TreeFields, NEW f \in Others, NEW c \in Content, Now.file = f, Now.is = c,
           \/ WriteFile
           \/ RemoveFile /\ f = "data_text" /\ c = Absent
           \/ RewriteMakefile /\ f = "Makefile"
    PROVE  /\ Same /\ gen'.plan = Tail(gen.plan) /\ gen'.written = gen.written
           /\ gen'.changed = gen.changed
           /\ disk'[f] = c /\ \A e \in File : e # f => disk'[e] = disk[e]
           /\ gen.touched \subseteq gen'.touched
           /\ disk[f] = c => gen'.touched = gen.touched
           /\ "header" \notin gen'.touched => \A e \in Fn : obj'[e].old = obj[e].old
<1>1. disk \in [File -> Content] /\ obj \in [Src -> Object] /\ gen \in Run
      /\ f \in File /\ f \notin Fn /\ Fn \subseteq Src
  BY FileFacts DEF TreeFields
<1>2. CASE WriteFile
  <2>1. PICK r \in Run : r = gen
    BY <1>1
  <2>2. PICK p : p = Tail(r.plan)
    OBVIOUS
  <2>3. PICK y : y = IF disk[f] # c THEN r.touched \cup {f} ELSE r.touched
    OBVIOUS
  <2>4. gen' = [r EXCEPT !.plan = p, !.written = r.written, !.changed = r.changed, !.touched = y]
    BY <1>1, <1>2, <2>1, <2>2, <2>3 DEF WriteFile, Differs
  <2>5. /\ gen'.input = r.input /\ gen'.was = r.was /\ gen'.built = r.built /\ gen'.plan = p
        /\ gen'.written = r.written /\ gen'.changed = r.changed /\ gen'.touched = y
    BY <2>4 DEF Run
  <2>6. disk' = [disk EXCEPT ![f] = c] /\ IF disk[f] # c THEN Touch({f}) ELSE UNCHANGED obj
    BY <1>2 DEF WriteFile, Differs
  <2>7. disk'[f] = c /\ \A e \in File : e # f => disk'[e] = disk[e]
    BY <1>1, <2>6
  <2>8. ASSUME "header" \notin y PROVE \A e \in Fn : obj'[e].old = obj[e].old
    <3>1. CASE disk[f] = c
      BY <2>6, <3>1
    <3>2. CASE disk[f] # c
      <4>1. Touch({f}) /\ f # "header"
        BY <2>3, <2>6, <2>8, <3>2
      <4>2. \A s \in Src : obj'[s].old <=> obj[s].old \/ Needs(s, f)
        BY <1>1, <2>6, <4>1, Put
      <4>3. obj' \in [Src -> Object]
        BY <1>1, <2>6, <4>1, Put
      <4>4. \A e \in Fn : ~Needs(e, f)
        BY <1>1, <4>1, FileFacts DEF Needs, Others
      <4>5. \A e \in Fn : obj'[e].old \in BOOLEAN /\ obj[e].old \in BOOLEAN
        BY <1>1, <4>3 DEF Object
      <4> QED BY <1>1, <4>2, <4>4, <4>5
    <3> QED BY <3>1, <3>2
  <2> QED BY <2>1, <2>2, <2>3, <2>5, <2>7, <2>8 DEF Same
<1>3. CASE (RemoveFile /\ f = "data_text" /\ c = Absent) \/ (RewriteMakefile /\ f = "Makefile")
  <2>1. gen' = [gen EXCEPT !.plan = Tail(@)] /\ disk' = [disk EXCEPT ![f] = c] /\ obj' = obj
    BY <1>3 DEF RemoveFile, RewriteMakefile
  <2>2. disk'[f] = c /\ \A e \in File : e # f => disk'[e] = disk[e]
    BY <1>1, <2>1
  <2> QED BY <1>1, <2>1, <2>2, PlanOnly
<1> QED BY <1>2, <1>3

-----------------------------------------------------------------------------
(* What a run has left behind after each of its steps.                         *)

\* Functions: the bodies written so far, replaced by the stubs written so far; and
\* once the rest is pruned, no other.
TextsDone(g) ==
    /\ Running => gen.written = BodiesDone(g, At(g))
    /\ Running => \A f \in BodiesDone(g, At(g)) :
          disk[f] = IF f \in StubsDone(g, At(g)) THEN Gen[g].stub[f] ELSE Gen[g].body[f]
    /\ Running /\ At(g) > Fns(g) => \A f \in Fn : f \notin DOMAIN Gen[g].body => disk[f] = Absent

\* The other files, each after its turn; and all of them at the end.
OthersDone(g) == \A f \in Others : At(g) >= Fns(g) + Place[f] => disk[f] = Intended[g][f]
AllDone(g) == ~Running => disk = Intended[g]

\* What is reported is what make has to compile,
ChangedOld ==
    gen.built /\ "header" \notin gen.touched =>
        \A f \in Fn : f \in gen.changed <=> disk[f] # Absent /\ obj[f].old
ChangedWritten == gen.changed \subseteq gen.written

\* and of the same tree again, no file has changed before its turn, nor changes
\* then unless it is replaced by a stub or removed in the end.
Again(g) ==
    gen.was = g =>
        /\ \A f \in gen.touched :
              f \in DOMAIN Gen[g].stub \/ (f \in DOMAIN Gen[g].body /\ f \notin Reached(g))
        /\ Running => \A f \in DOMAIN Gen[g].body :
              f \notin BodiesDone(g, At(g)) => disk[f] = Intended[g][f]
        /\ \A f \in Others : At(g) < Fns(g) + Place[f] => disk[f] = Intended[g][f]

RunInv(g) ==
    /\ OnPlan(g) /\ TextsDone(g) /\ OthersDone(g) /\ AllDone(g)
    /\ ChangedOld /\ ChangedWritten /\ Again(g)

\* Before the last step the run goes on.
LEMMA GoesOnAfter ==
    ASSUME NEW g \in Input, OnPlan(g)', At(g)' < Fns(g) + 8, gen' \in Run
    PROVE  Running'
<1>1. Fns(g) \in Nat /\ At(g)' \in 0..Fns(g) + 8 /\ Len(gen'.plan) = Fns(g) + 8 - At(g)'
  BY PlanFacts DEF OnPlan
<1>2. Len(gen'.plan) # 0
  BY <1>1
<1> QED BY <1>2, EmptySeq DEF Running

LEMMA BodyStep ==
    ASSUME NEW g \in Input, TreeFields, TreeFields', RunInv(g), WriteFile,
           At(g) < Bodies(g), NEW f \in DOMAIN Gen[g].body,
           Now.file = f, Now.is = Gen[g].body[f], f \notin BodiesDone(g, At(g)),
           BodiesDone(g, At(g) + 1) = BodiesDone(g, At(g)) \cup {f},
           StubsDone(g, At(g)) = {}, StubsDone(g, At(g) + 1) = {}
    PROVE  RunInv(g)'
<1>1. gen \in Run /\ gen' \in Run /\ Running
  BY DEF TreeFields, WriteFile, Doing
<1>2. PICK c \in Content : c = Gen[g].body[f] /\ c # Absent
  BY TextFacts
<1>3. f \in Fn /\ f \in File /\ f \notin Others /\ Fn \subseteq File /\ Others \subseteq File
      /\ Fn \cap Others = {}
  BY TextFacts, FileFacts
<1>4. /\ Same /\ gen'.plan = Tail(gen.plan) /\ gen'.written = gen.written \cup {f}
      /\ disk'[f] = c /\ \A e \in File : e # f => disk'[e] = disk[e]
      /\ disk[f] = c => /\ gen'.changed = gen.changed \ {f}
                        /\ gen'.touched = gen.touched /\ obj' = obj /\ disk' = disk
      /\ disk[f] # c => /\ gen'.changed = gen.changed \cup {f}
                        /\ gen'.touched = gen.touched \cup {f}
                        /\ obj'[f].old
                        /\ \A e \in Fn : e # f => obj'[e].old = obj[e].old
  BY <1>2, <1>3, TextWritten
<1>5. OnPlan(g)' /\ At(g)' = At(g) + 1 /\ At(g) \in 0..Fns(g) + 7
  BY <1>1, <1>4, Advance DEF RunInv
<1>6. PICK k \in Nat : k = At(g)
  BY <1>5, PlanFacts
<1>7. /\ k < Bodies(g) /\ Bodies(g) <= Fns(g) /\ Bodies(g) \in Nat /\ Fns(g) \in Nat
      /\ At(g)' = k + 1
  BY <1>5, <1>6, PlanFacts DEF Fns
<1>8. Running'
  BY <1>1, <1>5, <1>7, GoesOnAfter
<1>9. /\ gen.written = BodiesDone(g, k)
      /\ \A e \in BodiesDone(g, k) : disk[e] = Gen[g].body[e]
      /\ BodiesDone(g, k) \subseteq DOMAIN Gen[g].body
      /\ gen.changed \subseteq gen.written
  BY <1>1, <1>6, BodiesAllDone DEF RunInv, TextsDone, ChangedWritten
<1>10. TextsDone(g)'
  <2>1. \A e \in BodiesDone(g, k) \cup {f} : disk'[e] = Gen[g].body[e]
    BY <1>2, <1>3, <1>4, <1>6, <1>9, TextFacts
  <2>2. ~(k + 1 > Fns(g))
    BY <1>7
  <2> QED BY <1>4, <1>6, <1>7, <1>9, <2>1, <2>2 DEF TextsDone
<1>11. OthersDone(g)'
  BY <1>7, Places DEF OthersDone
<1>12. ChangedOld' /\ ChangedWritten'
  <2>1. f \notin gen.changed
    BY <1>6, <1>9
  <2>2. CASE disk[f] = c
    BY <1>4, <1>9, <2>1, <2>2 DEF RunInv, ChangedOld, ChangedWritten, Same
  <2>3. CASE disk[f] # c
    BY <1>2, <1>3, <1>4, <1>9, <2>1, <2>3 DEF RunInv, ChangedOld, ChangedWritten, Same
  <2> QED BY <2>2, <2>3
<1>13. Again(g)'
  <2> SUFFICES ASSUME gen.was = g PROVE Again(g)'
    BY <1>4 DEF Again, Same
  <2>1. /\ \A e \in gen.touched :
              e \in DOMAIN Gen[g].stub \/ (e \in DOMAIN Gen[g].body /\ e \notin Reached(g))
        /\ \A e \in DOMAIN Gen[g].body : e \notin BodiesDone(g, k) => disk[e] = Intended[g][e]
        /\ \A e \in Others : k < Fns(g) + Place[e] => disk[e] = Intended[g][e]
    BY <1>1, <1>6 DEF RunInv, Again
  <2>2. disk[f] # c => f \in DOMAIN Gen[g].stub \/ f \notin Reached(g)
    <3>1. disk[f] = Intended[g][f]
      BY <1>6, <2>1
    <3>2. Intended[g][f] = IF f \in Reached(g) THEN LastText(g, f) ELSE Absent
      BY <1>3, IntendedFacts
    <3> QED BY <1>2, <3>1, <3>2 DEF LastText
  <2>3. \A e \in gen'.touched :
           e \in DOMAIN Gen[g].stub \/ (e \in DOMAIN Gen[g].body /\ e \notin Reached(g))
    BY <1>4, <2>1, <2>2
  <2>4. \A e \in DOMAIN Gen[g].body : e \notin BodiesDone(g, k + 1) => disk'[e] = Intended[g][e]
    BY <1>3, <1>4, <1>6, <2>1, TextFacts
  <2>5. \A e \in Others : disk'[e] = Intended[g][e]
    BY <1>3, <1>4, <1>7, <2>1, Places
  <2> QED BY <1>7, <2>3, <2>4, <2>5 DEF Again
<1> QED BY <1>5, <1>8, <1>10, <1>11, <1>12, <1>13 DEF RunInv, AllDone

LEMMA StubStep ==
    ASSUME NEW g \in Input, TreeFields, TreeFields', RunInv(g), WriteFile,
           Bodies(g) <= At(g), At(g) < Fns(g), NEW f \in DOMAIN Gen[g].stub,
           Now.file = f, Now.is = Gen[g].stub[f], f \notin StubsDone(g, At(g)),
           StubsDone(g, At(g) + 1) = StubsDone(g, At(g)) \cup {f}
    PROVE  RunInv(g)'
<1>1. gen \in Run /\ gen' \in Run /\ Running
  BY DEF TreeFields, WriteFile, Doing
<1>2. PICK c \in Content : c = Gen[g].stub[f] /\ c # Absent /\ c # Gen[g].body[f]
  BY TextFacts
<1>3. f \in Fn /\ f \in File /\ f \notin Others /\ Fn \subseteq File /\ Others \subseteq File
      /\ Fn \cap Others = {} /\ f \in DOMAIN Gen[g].body
  BY TextFacts, FileFacts
<1>4. /\ Same /\ gen'.plan = Tail(gen.plan) /\ gen'.written = gen.written \cup {f}
      /\ disk'[f] = c /\ \A e \in File : e # f => disk'[e] = disk[e]
      /\ disk[f] # c => /\ gen'.changed = gen.changed \cup {f}
                        /\ gen'.touched = gen.touched \cup {f}
                        /\ obj'[f].old
                        /\ \A e \in Fn : e # f => obj'[e].old = obj[e].old
  BY <1>2, <1>3, TextWritten
<1>5. OnPlan(g)' /\ At(g)' = At(g) + 1 /\ At(g) \in 0..Fns(g) + 7
  BY <1>1, <1>4, Advance DEF RunInv
<1>6. PICK k \in Nat : k = At(g)
  BY <1>5, PlanFacts
<1>7. /\ Bodies(g) <= k /\ k < Fns(g) /\ Bodies(g) \in Nat /\ Fns(g) \in Nat
      /\ At(g)' = k + 1 /\ k + 1 >= Bodies(g)
  BY <1>5, <1>6, PlanFacts
<1>8. Running'
  BY <1>1, <1>5, <1>7, GoesOnAfter
<1>9. BodiesDone(g, k) = DOMAIN Gen[g].body /\ BodiesDone(g, k + 1) = DOMAIN Gen[g].body
  BY <1>7, BodiesAllDone
<1>10. /\ gen.written = DOMAIN Gen[g].body
       /\ \A e \in DOMAIN Gen[g].body :
             disk[e] = IF e \in StubsDone(g, k) THEN Gen[g].stub[e] ELSE Gen[g].body[e]
       /\ gen.changed \subseteq gen.written
  BY <1>1, <1>6, <1>9 DEF RunInv, TextsDone, ChangedWritten
<1>11. disk[f] # c
  BY <1>2, <1>3, <1>6, <1>10
<1>12. TextsDone(g)'
  <2>1. \A e \in DOMAIN Gen[g].body :
           disk'[e] = IF e \in StubsDone(g, k + 1) THEN Gen[g].stub[e] ELSE Gen[g].body[e]
    <3> SUFFICES ASSUME NEW e \in DOMAIN Gen[g].body
                 PROVE  disk'[e] = IF e \in StubsDone(g, k + 1) THEN Gen[g].stub[e]
                                   ELSE Gen[g].body[e]
      OBVIOUS
    <3>1. CASE e = f
      BY <1>2, <1>4, <1>6, <3>1
    <3>2. CASE e # f
      BY <1>3, <1>4, <1>6, <1>10, <3>2, TextFacts
    <3> QED BY <3>1, <3>2
  <2>2. ~(k + 1 > Fns(g))
    BY <1>7
  <2>3. gen'.written = DOMAIN Gen[g].body
    BY <1>3, <1>4, <1>10
  <2> QED BY <1>7, <1>9, <2>1, <2>2, <2>3 DEF TextsDone
<1>13. OthersDone(g)'
  BY <1>7, Places DEF OthersDone
<1>14. ChangedOld' /\ ChangedWritten'
  BY <1>2, <1>3, <1>4, <1>10, <1>11 DEF RunInv, ChangedOld, ChangedWritten, Same
<1>15. Again(g)'
  <2> SUFFICES ASSUME gen.was = g PROVE Again(g)'
    BY <1>4 DEF Again, Same
  <2>1. /\ \A e \in gen.touched :
              e \in DOMAIN Gen[g].stub \/ (e \in DOMAIN Gen[g].body /\ e \notin Reached(g))
        /\ \A e \in Others : k < Fns(g) + Place[e] => disk[e] = Intended[g][e]
    BY <1>1, <1>6 DEF RunInv, Again
  <2>2. \A e \in gen'.touched :
           e \in DOMAIN Gen[g].stub \/ (e \in DOMAIN Gen[g].body /\ e \notin Reached(g))
    BY <1>4, <1>11, <2>1
  <2>3. \A e \in Others : disk'[e] = Intended[g][e]
    BY <1>3, <1>4, <1>7, <2>1, Places
  <2> QED BY <1>7, <1>9, <2>2, <2>3 DEF Again
<1> QED BY <1>5, <1>8, <1>12, <1>13, <1>14, <1>15 DEF RunInv, AllDone

LEMMA OtherStep ==
    ASSUME NEW g \in Input, TreeFields, TreeFields', RunInv(g), Running, NEW f \in Others,
           At(g) + 1 = Fns(g) + Place[f], Now.file = f, Now.is = Intended[g][f],
           \/ WriteFile
           \/ RemoveFile /\ f = "data_text" /\ Intended[g][f] = Absent
           \/ RewriteMakefile /\ f = "Makefile"
    PROVE  RunInv(g)'
<1>1. gen \in Run /\ gen' \in Run
  BY DEF TreeFields
<1>2. PICK c \in Content : c = Intended[g][f]
  BY IntendedFacts
<1>3. f \in File /\ f \notin Fn /\ Fn \subseteq File /\ Others \subseteq File /\ Fn \cap Others = {}
      /\ DOMAIN Gen[g].body \subseteq Fn
  BY TextFacts, FileFacts
<1>4. /\ Same /\ gen'.plan = Tail(gen.plan) /\ gen'.written = gen.written
      /\ gen'.changed = gen.changed
      /\ disk'[f] = c /\ \A e \in File : e # f => disk'[e] = disk[e]
      /\ gen.touched \subseteq gen'.touched
      /\ disk[f] = c => gen'.touched = gen.touched
      /\ "header" \notin gen'.touched => \A e \in Fn : obj'[e].old = obj[e].old
  BY <1>2, OtherWritten
<1>5. OnPlan(g)' /\ At(g)' = At(g) + 1
  BY <1>1, <1>4, Advance DEF RunInv
<1>6. At(g) \in 0..Fns(g) + 7
  BY <1>1, Advance DEF RunInv
<1>7. /\ Fns(g) \in Nat /\ Bodies(g) \in Nat /\ Bodies(g) <= Fns(g) /\ Place[f] \in 2..7
  BY PlanFacts, Places DEF Fns
<1>8. PICK k \in Nat : k = At(g)
  BY <1>6, <1>7
<1>9. At(g)' = k + 1 /\ k > Fns(g) /\ k + 1 < Fns(g) + 8 /\ k + 1 > Fns(g)
      /\ k >= Bodies(g) /\ k + 1 >= Bodies(g) /\ k + 1 >= Fns(g) /\ k >= Fns(g)
  BY <1>5, <1>6, <1>7, <1>8
<1>10. Running'
  BY <1>1, <1>5, <1>9, GoesOnAfter
<1>11. /\ BodiesDone(g, k) = DOMAIN Gen[g].body /\ BodiesDone(g, k + 1) = DOMAIN Gen[g].body
       /\ StubsDone(g, k) = DOMAIN Gen[g].stub /\ StubsDone(g, k + 1) = DOMAIN Gen[g].stub
  BY <1>9, BodiesAllDone
<1>12. \A e \in Fn : disk'[e] = disk[e]
  BY <1>3, <1>4
<1>13. TextsDone(g)'
  BY <1>3, <1>4, <1>8, <1>9, <1>11, <1>12 DEF RunInv, TextsDone
<1>14. OthersDone(g)'
  <2> SUFFICES ASSUME NEW e \in Others, k + 1 >= Fns(g) + Place[e]
               PROVE  disk'[e] = Intended[g][e]
    BY <1>9 DEF OthersDone
  <2>1. CASE e = f
    BY <1>2, <1>4, <2>1
  <2>2. CASE e # f
    <3>1. Place[e] # Place[f] /\ Place[e] \in 2..7
      BY <2>2, Places
    <3>2. k >= Fns(g) + Place[e]
      BY <1>7, <1>8, <3>1
    <3>3. disk[e] = Intended[g][e]
      BY <1>8, <3>2 DEF RunInv, OthersDone
    <3> QED BY <1>3, <1>4, <2>2, <3>3
  <2> QED BY <2>1, <2>2
<1>15. ChangedOld' /\ ChangedWritten'
  BY <1>4, <1>12 DEF RunInv, ChangedOld, ChangedWritten, Same
<1>16. Again(g)'
  <2> SUFFICES ASSUME gen.was = g PROVE Again(g)'
    BY <1>4 DEF Again, Same
  <2>1. /\ \A e \in gen.touched :
              e \in DOMAIN Gen[g].stub \/ (e \in DOMAIN Gen[g].body /\ e \notin Reached(g))
        /\ \A e \in Others : k < Fns(g) + Place[e] => disk[e] = Intended[g][e]
    BY <1>8 DEF RunInv, Again
  <2>2. k < Fns(g) + Place[f]
    BY <1>7, <1>8
  <2>3. gen'.touched = gen.touched
    BY <1>2, <1>4, <2>1, <2>2
  <2>4. ASSUME NEW e \in Others, k + 1 < Fns(g) + Place[e] PROVE disk'[e] = Intended[g][e]
    <3>1. k < Fns(g) + Place[e]
      BY <1>7, <2>4, Places
    <3>2. disk[e] = Intended[g][e]
      BY <2>1, <3>1
    <3> QED BY <1>2, <1>3, <1>4, <3>2
  <2> QED BY <1>9, <1>11, <2>1, <2>3, <2>4 DEF Again
<1> QED BY <1>5, <1>10, <1>13, <1>14, <1>15, <1>16 DEF RunInv, AllDone

LEMMA PruneStep ==
    ASSUME NEW g \in Input, TreeFields, TreeFields', RunInv(g), Prune, At(g) = Fns(g)
    PROVE  RunInv(g)'
<1>1. gen \in Run /\ gen' \in Run /\ disk \in [File -> Content] /\ obj \in [Src -> Object] /\ Running
  BY DEF TreeFields, Prune, Doing
<1>2. Fn \subseteq File /\ Others \subseteq File /\ Fn \cap Others = {}
      /\ DOMAIN Gen[g].body \subseteq Fn /\ \A e \in DOMAIN Gen[g].body : Gen[g].body[e] # Absent
  BY TextFacts, FileFacts
<1>3. gen' = [gen EXCEPT !.plan = Tail(@)] /\ disk' = Without(Stale) /\ obj' = obj
  BY DEF Prune
<1>4. /\ Same /\ gen'.plan = Tail(gen.plan) /\ gen'.written = gen.written
      /\ gen'.changed = gen.changed /\ gen'.touched = gen.touched
  BY <1>1, <1>3, PlanOnly
<1>5. PICK fs \in SUBSET Fn : fs = Stale
  BY DEF Stale
<1>6. \A e \in File : disk'[e] = IF e \in fs THEN Absent ELSE disk[e]
  BY <1>1, <1>3, <1>5, Gone
<1>7. /\ \A e \in Fn : disk'[e] = IF e \in gen.written THEN disk[e] ELSE Absent
      /\ \A e \in Others : disk'[e] = disk[e]
  BY <1>2, <1>5, <1>6 DEF Stale
<1>8. OnPlan(g)' /\ At(g)' = At(g) + 1
  BY <1>1, <1>4, Advance DEF RunInv
<1>9. PICK k \in Nat : k = At(g) /\ k = Fns(g) /\ At(g)' = k + 1
  BY <1>8, PlanFacts
<1>10. k >= Bodies(g) /\ k + 1 >= Bodies(g) /\ k + 1 >= Fns(g) /\ k >= Fns(g) /\ k + 1 < Fns(g) + 8
  <2>1. Bodies(g) \in Nat /\ Stubs(g) \in Nat /\ Fns(g) = Bodies(g) + Stubs(g)
    BY PlanFacts DEF Fns
  <2> QED BY <1>9, <2>1
<1>11. Running'
  BY <1>1, <1>8, <1>9, <1>10, GoesOnAfter
<1>12. /\ BodiesDone(g, k) = DOMAIN Gen[g].body /\ BodiesDone(g, k + 1) = DOMAIN Gen[g].body
       /\ StubsDone(g, k) = DOMAIN Gen[g].stub /\ StubsDone(g, k + 1) = DOMAIN Gen[g].stub
  BY <1>10, BodiesAllDone
<1>13. gen.written = DOMAIN Gen[g].body /\ gen.changed \subseteq gen.written
       /\ \A e \in DOMAIN Gen[g].body :
             disk[e] = IF e \in DOMAIN Gen[g].stub THEN Gen[g].stub[e] ELSE Gen[g].body[e]
  BY <1>1, <1>9, <1>12 DEF RunInv, TextsDone, ChangedWritten
<1>14. TextsDone(g)'
  BY <1>2, <1>4, <1>7, <1>9, <1>12, <1>13 DEF TextsDone
<1>15. OthersDone(g)'
  <2>1. \A e \in Others : ~(k + 1 >= Fns(g) + Place[e])
    BY <1>9, Places
  <2> QED BY <1>9, <2>1 DEF OthersDone
<1>16. ChangedOld' /\ ChangedWritten'
  BY <1>3, <1>4, <1>7, <1>13 DEF RunInv, ChangedOld, ChangedWritten, Same
<1>17. Again(g)'
  <2> SUFFICES ASSUME gen.was = g PROVE Again(g)'
    BY <1>4 DEF Again, Same
  <2>1. /\ \A e \in gen.touched :
              e \in DOMAIN Gen[g].stub \/ (e \in DOMAIN Gen[g].body /\ e \notin Reached(g))
        /\ \A e \in Others : k < Fns(g) + Place[e] => disk[e] = Intended[g][e]
    BY <1>9 DEF RunInv, Again
  <2>2. \A e \in Others : k < Fns(g) + Place[e]
    BY <1>9, Places
  <2> QED BY <1>4, <1>7, <1>9, <1>12, <2>1, <2>2 DEF Again
<1> QED BY <1>8, <1>11, <1>14, <1>15, <1>16, <1>17 DEF RunInv, AllDone

LEMMA UnreachableStep ==
    ASSUME NEW g \in Input, TreeFields, TreeFields', RunInv(g), PruneUnreachable,
           At(g) = Fns(g) + 7
    PROVE  RunInv(g)'
<1>1. gen \in Run /\ gen' \in Run /\ disk \in [File -> Content] /\ obj \in [Src -> Object] /\ Running
  BY DEF TreeFields, PruneUnreachable, Doing
<1>2. File = Fn \cup Others /\ Fn \cap Others = {} /\ DOMAIN Gen[g].body \subseteq Fn
      /\ DOMAIN Gen[g].stub \subseteq DOMAIN Gen[g].body
  BY TextFacts, FileFacts
<1>3. disk' = Without(Unreachable) /\ obj' = obj
  BY DEF PruneUnreachable
<1>4. /\ Same /\ gen'.plan = Tail(gen.plan) /\ gen'.written = gen.written \ Unreachable
      /\ gen'.changed = gen.changed \ Unreachable /\ gen'.touched = gen.touched
  <2>1. PICK r \in Run : r = gen
    BY <1>1
  <2>2. PICK p, w, x : p = Tail(r.plan) /\ w = r.written \ Unreachable /\ x = r.changed \ Unreachable
    OBVIOUS
  <2>3. gen' = [r EXCEPT !.plan = p, !.written = w, !.changed = x]
    BY <2>1, <2>2 DEF PruneUnreachable
  <2> QED BY <2>1, <2>2, <2>3 DEF Run, Same
<1>5. PICK fs \in SUBSET Fn : fs = Unreachable
  BY DEF Unreachable
<1>6. \A e \in File : disk'[e] = IF e \in fs THEN Absent ELSE disk[e]
  BY <1>1, <1>3, <1>5, Gone
<1>7. OnPlan(g)' /\ At(g)' = At(g) + 1
  BY <1>1, <1>4, Advance DEF RunInv
<1>8. PICK k \in Nat : k = At(g) /\ k = Fns(g) + 7 /\ At(g)' = k + 1 /\ At(g)' = Fns(g) + 8
  <2>1. Fns(g) \in Nat
    BY PlanFacts
  <2> QED BY <1>7, <2>1
<1>9. Fns(g) \in Nat /\ k >= Bodies(g) /\ k >= Fns(g) /\ k > Fns(g)
  <2>1. Bodies(g) \in Nat /\ Stubs(g) \in Nat /\ Fns(g) = Bodies(g) + Stubs(g)
    BY PlanFacts DEF Fns
  <2> QED BY <1>8, <2>1
<1>10. ~Running'
  <2>1. Len(gen'.plan) = 0 /\ gen'.plan \in Seq(PlanStep)
    BY <1>1, <1>7, <1>8, <1>9, RunFields DEF OnPlan
  <2> QED BY <2>1, EmptySeq DEF Running
<1>11. BodiesDone(g, k) = DOMAIN Gen[g].body /\ StubsDone(g, k) = DOMAIN Gen[g].stub
  BY <1>9, BodiesAllDone
<1>12. \A e \in Others : disk[e] = Intended[g][e]
  <2>1. \A e \in Others : k >= Fns(g) + Place[e]
    BY <1>8, <1>9, Places
  <2> QED BY <1>8, <2>1 DEF RunInv, OthersDone
<1>13. \A e \in Fn : disk[e] = LastText(g, e)
  BY <1>1, <1>2, <1>8, <1>9, <1>11 DEF RunInv, TextsDone, LastText
<1>14. Live = Reached(g) /\ Present = DOMAIN Gen[g].body
  BY <1>12, <1>13, LiveIsReached, IntendedFacts DEF Others
<1>15. \A e \in Fn : disk'[e] = Intended[g][e]
  <2> SUFFICES ASSUME NEW e \in Fn PROVE disk'[e] = Intended[g][e]
    OBVIOUS
  <2>1. Intended[g][e] = IF e \in Reached(g) THEN LastText(g, e) ELSE Absent
    BY IntendedFacts
  <2>2. fs = Present \ Reached(g)
    BY <1>5, <1>14 DEF Unreachable, Present
  <2>3. disk'[e] = IF e \in fs THEN Absent ELSE disk[e]
    BY <1>2, <1>6
  <2>4. e \notin Present => disk[e] = Absent
    BY DEF Present
  <2> QED BY <1>13, <2>1, <2>2, <2>3, <2>4
<1>16. \A e \in Others : disk'[e] = Intended[g][e]
  BY <1>2, <1>6, <1>12
<1>17. disk' = Intended[g]
  <2>1. \A e \in File : disk'[e] = Intended[g][e]
    BY <1>2, <1>15, <1>16
  <2>2. disk' = [e \in File |-> disk'[e]] /\ Intended[g] = [e \in File |-> Intended[g][e]]
    BY <1>3, IntendedFacts DEF Without
  <2> QED BY <2>1, <2>2
<1>18. OthersDone(g)' /\ AllDone(g)' /\ TextsDone(g)'
  BY <1>10, <1>16, <1>17 DEF OthersDone, AllDone, TextsDone
<1>19. ChangedOld' /\ ChangedWritten'
  <2>1. \A e \in Fn : disk'[e] # Absent <=> disk[e] # Absent /\ e \notin fs
    BY <1>2, <1>6
  <2>2. gen.changed \subseteq Fn
    BY <1>1, RunFields
  <2> QED BY <1>3, <1>4, <1>5, <2>1, <2>2 DEF RunInv, ChangedOld, ChangedWritten, Same
<1>20. Again(g)'
  BY <1>4, <1>10, <1>16 DEF RunInv, Again, Same
<1> QED BY <1>7, <1>18, <1>19, <1>20 DEF RunInv

LEMMA StartStep ==
    ASSUME NEW g \in Input, Tree, TreeIsIntended, GenerateStart(g)
    PROVE  RunInv(g)'
<1>1. /\ gen = NoRun /\ UNCHANGED <<disk, obj>>
      /\ gen' = [NoRun EXCEPT !.input = g, !.plan = Plan(g), !.was = complete, !.built = built]
  BY NoRunTyped DEF GenerateStart, TreeIdle, Tree, Alone
<1>2. /\ gen'.plan = Plan(g) /\ gen'.written = {} /\ gen'.changed = {} /\ gen'.touched = {}
      /\ gen'.was = complete /\ gen'.built = built
  BY <1>1 DEF NoRun
<1>3. Plan(g) \in Seq(PlanStep) /\ Len(Plan(g)) = Fns(g) + 8 /\ Fns(g) \in Nat
  BY PlanFacts
<1>4. At(g)' = 0 /\ Running'
  <2>1. Plan(g) # <<>>
    BY <1>3, EmptySeq
  <2> QED BY <1>2, <1>3, <2>1 DEF At, Running
<1>5. OnPlan(g)'
  BY <1>2, <1>3, <1>4 DEF OnPlan
<1>6. BodiesDone(g, 0) = {}
  BY BodiesAllDone
<1>7. TextsDone(g)' /\ OthersDone(g)' /\ AllDone(g)'
  <2>1. \A f \in Others : ~(0 >= Fns(g) + Place[f])
    BY <1>3, Places
  <2>2. \A n \in Nat : ~(0 > n)
    OBVIOUS
  <2> QED BY <1>2, <1>3, <1>4, <1>6, <2>1, <2>2 DEF TextsDone, OthersDone, AllDone
<1>8. ChangedOld' /\ ChangedWritten'
  <2>1. built => \A f \in Fn : disk[f] # Absent => ~obj[f].old
    BY FileFacts DEF Tree, LibraryInv, Fresh, Sources
  <2> QED BY <1>1, <1>2, <2>1 DEF ChangedOld, ChangedWritten
<1>9. Again(g)'
  <2>1. complete = g => disk = Intended[g]
    BY OutputTreeAssumption DEF TreeIsIntended
  <2>2. DOMAIN Gen[g].body \subseteq File /\ Others \subseteq File
    BY FileFacts, TextFacts
  <2> QED BY <1>1, <1>2, <2>1, <2>2 DEF Again
<1> QED BY <1>5, <1>7, <1>8, <1>9 DEF RunInv

\* A run in progress has done its part of the tree, and a tree that is all one
\* run's work is the one its input intends.
Intends == gen.input # NoInput => RunInv(gen.input)

LEMMA RunStays ==
    ASSUME TreeFields, Alone, TreeFields', Generate, Intends
    PROVE  (gen'.input = gen.input /\ RunInv(gen.input)') \/ gen' = NoRun
<1>1. gen \in Run /\ Alone
  BY DEF TreeFields
<1>2. Running \/ Reporting
  BY DEF Generate, WriteFile, RemoveFile, RewriteMakefile, Prune,
         PruneUnreachable, GenerateEnd, Doing
<1>3. PICK g \in Input : g = gen.input /\ g # NoInput
  BY <1>1, <1>2, RunsHaveInput
<1>4. RunInv(g) /\ OnPlan(g)
  BY <1>3 DEF Intends, RunInv
<1>5. CASE GenerateEnd
  BY <1>5 DEF GenerateEnd
<1>6. CASE ~GenerateEnd
  <2>1. Running /\ \/ WriteFile /\ Now.do = "write"
                   \/ RemoveFile /\ Now.do = "remove"
                   \/ RewriteMakefile /\ Now.do = "rewrite"
                   \/ Prune /\ Now.do = "prune"
                   \/ PruneUnreachable /\ Now.do = "unreachable"
    BY <1>6 DEF Generate, WriteFile, RemoveFile, RewriteMakefile, Prune, PruneUnreachable, Doing
  <2>2. ASSUME At(g) = Fns(g), Now.do = "prune" PROVE RunInv(g)'
    <3>1. Prune
      BY <2>1, <2>2
    <3> QED BY <1>4, <2>2, <3>1, PruneStep
  <2>3. ASSUME At(g) = Fns(g) + 7, Now.do = "unreachable" PROVE RunInv(g)'
    <3>1. PruneUnreachable
      BY <2>1, <2>3
    <3> QED BY <1>4, <2>3, <3>1, UnreachableStep
  <2>4. ASSUME NEW f \in Others,
               At(g) + 1 = Fns(g) + Place[f], Now.file = f, Now.is = Intended[g][f],
               Now.do = IF f = "Makefile" THEN "rewrite"
                        ELSE IF f = "data_text" /\ Intended[g][f] = Absent THEN "remove"
                        ELSE "write"
        PROVE  RunInv(g)'
    <3>1. \/ WriteFile
          \/ RemoveFile /\ f = "data_text" /\ Intended[g][f] = Absent
          \/ RewriteMakefile /\ f = "Makefile"
      BY <2>1, <2>4
    <3> QED BY <1>4, <2>1, <2>4, <3>1, OtherStep
  <2>5. ASSUME At(g) < Bodies(g), NEW f \in DOMAIN Gen[g].body,
               Now.do = "write", Now.file = f, Now.is = Gen[g].body[f],
               f \notin BodiesDone(g, At(g)),
               BodiesDone(g, At(g) + 1) = BodiesDone(g, At(g)) \cup {f},
               StubsDone(g, At(g)) = {}, StubsDone(g, At(g) + 1) = {}
        PROVE  RunInv(g)'
    BY <1>4, <2>1, <2>5, BodyStep
  <2>6. ASSUME Bodies(g) <= At(g), At(g) < Fns(g), NEW f \in DOMAIN Gen[g].stub,
               Now.do = "write", Now.file = f, Now.is = Gen[g].stub[f],
               f \notin StubsDone(g, At(g)),
               StubsDone(g, At(g) + 1) = StubsDone(g, At(g)) \cup {f}
        PROVE  RunInv(g)'
    BY <1>4, <2>1, <2>6, StubStep
  <2>7. RunInv(g)'
    BY <1>1, <1>4, <2>1, <2>2, <2>3, <2>4, <2>5, <2>6, AtHand
  <2>8. gen'.input = gen.input \/ gen' = NoRun
    BY <1>1, GenerateSteps DEF Steps
  <2> QED BY <1>3, <2>7, <2>8
<1> QED BY <1>5, <1>6

LEMMA IntendsStep ==
    ASSUME CacheSound, Tree, Intends, TreeIsIntended, [RNext]_rebuildVars
    PROVE  Intends' /\ TreeIsIntended'
<1>1. TreeFields /\ Alone /\ TreeFields' /\ Alone' /\ gen \in Run /\ gen' \in Run
  BY TreeStep DEF Tree, TreeFields
<1>2. CASE Generate
  <2>1. (gen'.input = gen.input /\ RunInv(gen.input)') \/ gen' = NoRun
    BY <1>1, <1>2, RunStays
  <2>2. Intends'
    BY <2>1, NoRunTyped DEF Intends
  <2>3. Running \/ Reporting
    BY <1>2 DEF Generate, WriteFile, RemoveFile, RewriteMakefile, Prune,
           PruneUnreachable, GenerateEnd, Doing
  <2>4. gen.input \in Input /\ gen.input # NoInput /\ complete = NoInput
    BY <1>1, <2>3, RunsHaveInput
  <2>5. CASE GenerateEnd
    <3>1. disk = Intended[gen.input] /\ complete' = gen.input /\ disk' = disk
      BY <2>4, <2>5 DEF GenerateEnd, Reporting, Intends, RunInv, AllDone
    <3> QED BY <2>2, <3>1 DEF TreeIsIntended
  <2>6. CASE complete' = complete
    BY <2>2, <2>4, <2>6 DEF TreeIsIntended
  <2> QED BY <1>2, <2>5, <2>6 DEF Generate, WriteFile, RemoveFile, RewriteMakefile, Prune,
                                   PruneUnreachable
<1>3. CASE GenerateCut
  <2>1. gen' = NoRun /\ complete' = complete /\ Running
    BY <1>3 DEF GenerateCut
  <2>2. complete = NoInput
    BY <1>1, <2>1, RunsHaveInput
  <2> QED BY <2>1, <2>2, NoRunTyped DEF Intends, TreeIsIntended
<1>4. CASE MakeStart \/ Make \/ MakeCut
  <2>1. MakeStart \/ mk.pc # "idle"
    BY <1>4 DEF Make, MakeCut, Compile, CompileFails, UpToDate, ArchiveBegins, ArchiveEnds, Rename
  <2>2. gen.input = NoInput
    BY <1>1, <2>1, NoRunTyped DEF Alone, MakeStart, TreeIdle
  <2>3. UNCHANGED <<disk, gen, complete>>
    BY <1>4 DEF Make, MakeStart, MakeCut, Compile, CompileFails, UpToDate, ArchiveBegins,
                ArchiveEnds, Rename
  <2> QED BY <2>2, <2>3 DEF Intends, TreeIsIntended
<1>5. ASSUME NEW g \in Input, GenerateStart(g) PROVE Intends' /\ TreeIsIntended'
  <2>1. gen'.input = g /\ complete' = NoInput
    BY <1>5 DEF GenerateStart, NoRun
  <2>2. RunInv(g)'
    BY <1>5, StartStep
  <2> QED BY <2>1, <2>2 DEF Intends, TreeIsIntended
<1>6. CASE UNCHANGED treeVars
  <2>1. UNCHANGED <<disk, obj, gen, complete>>
    BY <1>6 DEF treeVars
  <2>2. ASSUME NEW g, RunInv(g) PROVE RunInv(g)'
    BY <2>1, <2>2
    DEF RunInv, OnPlan, At, TextsDone, Running, OthersDone, AllDone, ChangedOld, ChangedWritten,
        Again
  <2> QED BY <2>1, <2>2 DEF Intends, TreeIsIntended
<1>7. CASE UNCHANGED rebuildVars
  BY <1>6, <1>7 DEF rebuildVars
<1>8. CASE TreeMove
  BY <1>2, <1>3, <1>4, <1>5, <1>8 DEF TreeMove
<1> QED BY <1>6, <1>7, <1>8, Parts DEF CacheSound, CacheFields

LEMMA IntendsStays == RSpec => [](CacheSound /\ Tree /\ Intends /\ TreeIsIntended)
<1>1. RInit => Intends /\ TreeIsIntended
  BY NoRunTyped DEF RInit, TreeInit, Intends, TreeIsIntended
<1>2. CacheSound /\ Tree /\ Intends /\ TreeIsIntended /\ [RNext]_rebuildVars
         => (Intends /\ TreeIsIntended)'
  BY IntendsStep
<1> QED BY <1>1, <1>2, TreeStays, PTL DEF RSpec

\* A run of elf2c.py that is not cut short leaves exactly the tree of its input,
\* whatever runs on other inputs, cut short at any point, left there before: no
\* stale file, no body where a stub belongs, nothing missing or half written.
THEOREM WholeRunLeavesItsTree == RSpec => []TreeIsIntended
BY IntendsStays, PTL

\* What elf2c.py reports as changed is what make will compile of the functions,
\* when all was built and no header has changed; and of the same tree again it
\* touches no file that stays but those of the functions it folds.
THEOREM ReportIsWhatMakeRebuilds == RSpec => []ChangedIsRemade
<1>1. CacheSound /\ Tree /\ Intends => ChangedIsRemade
  <2> SUFFICES ASSUME TreeFields, Alone, Intends, Reporting PROVE ChangedIsRemade
    BY DEF Tree, ChangedIsRemade
  <2>1. gen \in Run /\ ~Running
    BY DEF TreeFields, Reporting
  <2>2. PICK g \in Input : g = gen.input /\ g # NoInput
    BY <2>1, RunsHaveInput
  <2>3. /\ disk = Intended[g] /\ ChangedOld /\ Again(g) /\ gen.changed \subseteq Fn
        /\ gen.touched \subseteq File
    BY <2>1, <2>2, RunFields DEF Intends, RunInv, AllDone
  <2>4. gen.built /\ "header" \notin gen.touched =>
            gen.changed = {f \in Fn : f \in Sources /\ obj[f].old}
    BY <2>3, FileFacts DEF ChangedOld, Sources
  <2>5. ASSUME gen.was = g, NEW f \in gen.touched, disk[f] # Absent
        PROVE  f \in DOMAIN Gen[g].stub
    <3>1. f \in DOMAIN Gen[g].stub \/ (f \in DOMAIN Gen[g].body /\ f \notin Reached(g))
      BY <2>3, <2>5 DEF Again
    <3>2. f \in DOMAIN Gen[g].body /\ f \notin Reached(g) => disk[f] = Absent
      BY <2>3, TextFacts, IntendedFacts
    <3> QED BY <2>5, <3>1, <3>2
  <2> QED BY <2>2, <2>4, <2>5 DEF ChangedIsRemade
<1> QED BY <1>1, IntendsStays, PTL
=============================================================================
