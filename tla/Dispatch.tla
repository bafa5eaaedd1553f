------------------------------ MODULE Dispatch ------------------------------
(* What the generator writes so that a computed branch finds its block: the     *)
(* jump table arms it recovers (Ctx.resolve_jump_tables), the blocks that get a  *)
(* label, the rows of the entry table (emit_dispatch), and the dispatch inside   *)
(* a function (emit_local_dispatch).                                            *)
EXTENDS Unwind

CONSTANTS
    Functions,      \* the addresses of each function, by its start
    Cfg,            \* the blocks the scan found, by function
    Sites,          \* indirect branches through a jump table
    Slack,          \* what counts as a function's span past its last block (0x400)
    TableCap,       \* the longest jump table (jump_table_cap)
    Sparse,         \* LOCAL_DISPATCH_SPARSE
    Key             \* how many values the key of a local dispatch has (2^32)

NoBlock == -1

Owner(a) == CHOOSE f \in DOMAIN Functions : a \in Functions[f]

-----------------------------------------------------------------------------
(* Jump tables.  A site has the base register's address, a table and the words   *)
(* from there on, of which the guest uses the first "length", and the constants  *)
(* that comparisons in the block of the branch and in the 0x40 bytes before it   *)
(* compare with, in order.                                                       *)

\* The arms of a table are read until one fails; a single one is no table.
ArmsWhile(limit, Arm(_), Good(_)) ==
    LET bad  == {k \in 1 .. limit : ~Good(Arm(k))}
        n    == IF bad = {} THEN limit ELSE Min(bad) - 1
        arms == {Arm(k) : k \in 1 .. n}
    IN  IF Cardinality(arms) < 2 THEN {} ELSE arms

InSpan(f, a) == Min(Cfg[f]) <= a /\ a < Max(Cfg[f]) + Slack

\* The last comparison before the branch is taken for the bounds check of the table,
\* whatever it compares.
Guard(site)   == IF site.compares = <<>> THEN None ELSE Last(site.compares)
Guarded(site) == Guard(site) # None /\ Guard(site) + 1 <= TableCap

\* target = base + word * 4
ScaledArms(site) ==
    ArmsWhile(TableCap, LAMBDA k : site.base + (site.words[k] % Word) * 4,
              LAMBDA t : InSpan(site.fn, t))

\* Slip: a table relative to itself is bounded by the span of the function.
SpannedArms(site) ==
    ArmsWhile(TableCap, LAMBDA k : site.table + site.words[k],
              LAMBDA t : InSpan(site.fn, t))

\* target = table + word.  With a guard that many arms are read, and they may lie
\* outside the function; without one they are bounded by its span.
SelfArms(site) ==
    IF Guarded(site)
    THEN ArmsWhile(Guard(site) + 1, LAMBDA k : site.table + site.words[k],
                   LAMBDA t : t % 4 = 0 /\ Within(Rx, t))
    ELSE ArmsWhile(TableCap, LAMBDA k : site.table + site.words[k],
                   LAMBDA t : InSpan(site.fn, t))

\* Only a table in the read-only image is read; four byte words are tried as a
\* table relative to itself as well.
RecoveredArms(site) ==
    IF ~Within(Ro, site.table) THEN {}
    ELSE (IF site.base # None THEN ScaledArms(site) ELSE {})
           \cup (IF site.wide THEN SelfArms(site) ELSE {})

-----------------------------------------------------------------------------
(* Blocks.                                                                    *)

\* A branch of f may lead there: v is not below f and not far past its last block.
Plausible(f, v) == f <= v /\ v < Max(Cfg[f]) + Slack

\* Constants of the code that are registered.  The start of a function is a block
\* anyway, what no branch of the function that makes the constant could mean is dropped.
ConstantEntries ==
    Entries({c.value : c \in {d \in Materialised : /\ Within(Rx, d.value)
                                                  /\ d.value \notin DOMAIN Functions
                                                  /\ Plausible(d.fn, d.value)}})

PotentialEntries(relr) == RelocatedEntries(relr) \cup ConstantEntries

\* Addresses that must become blocks: what can be reached indirectly, the arms and
\* the landing pads.
MustBeBlocks(relr) ==
    PotentialEntries(relr) \cup LandingPads
        \cup UNION {RecoveredArms(Sites[i]) : i \in DOMAIN Sites}

Blocks(relr) ==
    [f \in DOMAIN Functions |->
        {f} \cup Cfg[f] \cup (MustBeBlocks(relr) \cap Functions[f])]

AllBlocks(blocks) == UNION {blocks[f] : f \in DOMAIN Functions}

\* Slip: every instruction of a function gets a row.
EveryAddress(blocks) ==
    LET as == Ascending({x \in UNION {Functions[f] : f \in DOMAIN Functions} : x % 4 = 0})
    IN  [i \in DOMAIN as |-> [lo |-> as[i], hi |-> as[i] + 1]]

\* g_entry_off: a row for every block of every function.
EntryRows(blocks) ==
    LET as == Ascending(AllBlocks(blocks))
    IN  [i \in DOMAIN as |-> [lo |-> as[i], hi |-> as[i] + 1]]

-----------------------------------------------------------------------------
(* emit_local_dispatch.                                                       *)

\* The middle one of some block indices.
Middle(ks) == CHOOSE x \in ks :
                  Cardinality({y \in ks : y < x}) = (Cardinality(ks) - 1) \div 2

\* The search the generator writes over all of them, for a function whose blocks are
\* too far apart for a table: the middle one halves them, up to four are compared
\* one by one.
Searched(all, k) ==
    LET among[ks \in SUBSET all] ==
            IF Cardinality(ks) <= 4 THEN k \in ks
            ELSE \/ k = Middle(ks)
                 \/ k < Middle(ks) /\ among[{y \in ks : y < Middle(ks)}]
                 \/ k > Middle(ks) /\ among[{y \in ks : y > Middle(ks)}]
    IN  among[all]

Plain(cases, p) == IF p \in cases THEN p ELSE NoBlock

\* Blocks too few to search, or one that is not aligned with the lowest.
NoIndex(cases) ==
    Cardinality(cases) < 2 \/ \E c \in cases : (c - Min(cases)) % 4 # 0

Indices(cases) == {(c - Min(cases)) \div 4 : c \in cases}

\* Slip: the range test is dropped, the key alone decides.
Unranged(cases, p) ==
    LET k == (((p - Min(cases)) % Word) \div 4) % Key
    IN  IF NoIndex(cases) THEN Plain(cases, p)
        ELSE IF k \in Indices(cases) THEN Min(cases) + 4 * k ELSE NoBlock

\* Where a function's own dispatch takes p: through a plain switch, or by the index
\* of p from the lowest block, in a table or by the search.  Below the lowest block
\* the subtraction wraps.
LocalDispatch(cases, p) ==
    LET off    == (p - Min(cases)) % Word
        k      == (off \div 4) % Key
        inside == off <= Max(cases) - Min(cases) /\ off % 4 = 0
        dense  == Max(Indices(cases)) + 1 <= Sparse * Cardinality(cases)
    IN  IF NoIndex(cases) THEN Plain(cases, p)
        ELSE IF inside /\ (IF dense THEN k \in Indices(cases) ELSE Searched(Indices(cases), k))
             THEN Min(cases) + 4 * k
             ELSE NoBlock

-----------------------------------------------------------------------------

\* The functions divide the code among them, what is in no function being one of its
\* own, and none is too long for the key of its dispatch.  Where code of a function
\* comes before its start, the scan has found it.
ASSUME FunctionsAssumption ==
    /\ Word \in Nat /\ Key \in Nat \ {0} /\ TableCap \in Nat
    /\ \A f \in DOMAIN Functions :
          f \in Functions[f] /\ \A a \in Functions[f] : a \in Nat /\ Within(Rx, a)
    /\ \A a \in Rx.lo .. Rx.hi - 1 : \E f \in DOMAIN Functions : a \in Functions[f]
    /\ \A f, g \in DOMAIN Functions : Functions[f] \cap Functions[g] # {} => f = g
    /\ \A c \in Materialised : c.fn \in DOMAIN Functions
    /\ \A f \in DOMAIN Functions :
          /\ Cfg[f] \subseteq Functions[f]
          /\ \A a \in Functions[f] : a < f /\ a % 4 = 0 => a \in Cfg[f]
          /\ \A a, b \in Functions[f] : a - b < 4 * Key

\* Where the arm k of a table leads, as the compiler means it.
Leads(site, k) ==
    IF site.base # None THEN site.base + site.words[k] * 4 ELSE site.table + site.words[k]

\* The compiler makes a table for two or more instructions of the code, relative to an
\* address of the code or to itself.  Of the comparisons nothing is known.
ASSUME SitesAssumption ==
    \A i \in DOMAIN Sites :
        LET site == Sites[i]
        IN  /\ site.fn \in DOMAIN Functions
            /\ site.table \in Nat /\ site.base \in Nat \cup {None}
            /\ site.length \in Nat /\ Len(site.words) \in Nat
            /\ site.length <= Len(site.words) /\ TableCap <= Len(site.words)
            /\ \A k \in 1 .. Len(site.words) : site.words[k] \in Int
            /\ \A k \in 1 .. site.length : Within(Rx, Leads(site, k)) /\ Leads(site, k) % 4 = 0
            /\ \E j, k \in 1 .. site.length : Leads(site, j) # Leads(site, k)
            /\ \A a \in site.targets : Within(Rx, a)
            /\ Len(site.compares) \in Nat
            /\ \A k \in 1 .. Len(site.compares) : site.compares[k] \in Nat
            /\ IF site.base # None
               THEN Within(Rx, site.base) /\ \A k \in 1 .. site.length : site.words[k] \in Words
               ELSE site.wide /\ (Within(Ro, site.table) \/ Within(Rw, site.table))
=============================================================================
