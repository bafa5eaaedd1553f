------------------------------- MODULE Search -------------------------------
(* The binary searches elf2c writes into dispatch.c: guest_lookup over the      *)
(* entry points and guest_eh_find over the functions that have an LSDA.  Both   *)
(* search rows [lo, hi) in ascending order; an entry point is a row of one      *)
(* address.                                                                    *)
EXTENDS Naturals, Sequences

VARIABLES
    table, key,     \* the rows, and the address looked for
    lo, hi,         \* rows lo + 1 .. hi are left
    at,             \* the row found, 0 for none
    phase           \* "idle", "searching", "done"

searchVars == <<table, key, lo, hi, at, phase>>

Row == [lo : Nat, hi : Nat]

\* Rows are not empty, ascending and do not overlap.
Sorted(t) ==
    /\ \A i \in DOMAIN t : t[i].lo < t[i].hi
    /\ \A i, j \in DOMAIN t : i < j => t[i].hi <= t[j].lo

Covers(row, k) == row.lo <= k /\ k < row.hi

SearchIdle ==
    table = <<>> /\ key = 0 /\ lo = 0 /\ hi = 0 /\ at = 0 /\ phase = "idle"

Ask(t, k) ==
    /\ table' = t /\ key' = k
    /\ lo' = 0 /\ hi' = Len(t) /\ at' = 0
    /\ phase' = "searching"

Mid == table[lo + (hi - lo) \div 2 + 1]

Below ==
    /\ phase = "searching" /\ lo < hi
    /\ key < Mid.lo
    /\ hi' = lo + (hi - lo) \div 2
    /\ UNCHANGED <<table, key, lo, at, phase>>

\* Slip: the row after the middle one is dropped too.
AboveNext ==
    /\ phase = "searching" /\ lo < hi
    /\ key >= Mid.hi
    /\ lo' = IF lo + (hi - lo) \div 2 + 2 <= hi THEN lo + (hi - lo) \div 2 + 2 ELSE hi
    /\ UNCHANGED <<table, key, hi, at, phase>>

Above ==
    /\ phase = "searching" /\ lo < hi
    /\ key >= Mid.hi
    /\ lo' = lo + (hi - lo) \div 2 + 1
    /\ UNCHANGED <<table, key, hi, at, phase>>

Hit ==
    /\ phase = "searching" /\ lo < hi
    /\ Covers(Mid, key)
    /\ at' = lo + (hi - lo) \div 2 + 1
    /\ phase' = "done"
    /\ UNCHANGED <<table, key, lo, hi>>

Miss ==
    /\ phase = "searching" /\ lo >= hi
    /\ phase' = "done"
    /\ UNCHANGED <<table, key, lo, hi, at>>

Probe == Below \/ Above \/ Hit \/ Miss

SearchInit ==
    /\ table \in Seq(Row) /\ Sorted(table)
    /\ key \in Nat
    /\ lo = 0 /\ hi = Len(table) /\ at = 0
    /\ phase = "searching"

SearchSpec == SearchInit /\ [][Probe]_searchVars

-----------------------------------------------------------------------------

\* guest_lookup and guest_eh_find return the one row that covers the address, and
\* none if there is none.
FindsTheRow ==
    phase = "done" =>
        IF at = 0 THEN \A i \in DOMAIN table : ~Covers(table[i], key)
        ELSE at \in DOMAIN table /\ Covers(table[at], key)
=============================================================================
