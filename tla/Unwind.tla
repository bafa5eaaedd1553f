------------------------------- MODULE Unwind -------------------------------
(* The unwind tables: what the generator reads out of .eh_frame and of the      *)
(* exception tables before it translates (lib/ehframe.py), the rows of          *)
(* guest_eh_find (lib/unit.py), and what the runtime reads out of the same      *)
(* exception tables at a throw (runtime/guest_eh.c).                            *)
EXTENDS Image

CONSTANTS
    Frames,     \* entries of .eh_frame, in order
    Lsdas       \* exception tables, by address

None == -1

\* ehframe's _Reader.encoded; "funcrel" is one it does not know.
Encoded(enc, raw, here) ==
    CASE enc = "omit"                -> None
      [] enc = "abs"                 -> raw
      [] enc = "pcrel" /\ raw = 0    -> 0
      [] enc = "pcrel" /\ raw # 0    -> (raw + here) % Word

\* A frame description: where it begins, how long it is and its exception table,
\* read with the encodings of the common entry it refers back to.
IsFrame(i) ==
    /\ Frames[i].kind = "fde"
    /\ Frames[i].cie < i /\ Frames[i].cie \in DOMAIN Frames
    /\ Frames[Frames[i].cie].kind = "cie"

Cie(i)   == Frames[Frames[i].cie]
Begin(i) == Encoded(Cie(i).fdeEnc, Frames[i].begin, Frames[i].at)
Lsda(i) ==
    LET v == IF Cie(i).sized THEN Encoded(Cie(i).lsdaEnc, Frames[i].lsda, Frames[i].lsdaAt)
             ELSE None
    IN  IF v = 0 THEN None ELSE v

\* parse: of several descriptions of one function the first that has a table
\* counts, and the first one if none has.
FrameOf(start) ==
    LET of  == {i \in DOMAIN Frames : IsFrame(i) /\ Begin(i) = start}
        has == {i \in of : Lsda(i) # None}
    IN  IF has # {} THEN Min(has) ELSE Min(of)

Starts == {Begin(i) : i \in {j \in DOMAIN Frames : IsFrame(j)}} \ {0, None}

Regioned == {s \in Starts : Lsda(FrameOf(s)) # None /\ Within(Rx, s)}

\* Slip: a description without a length makes an empty region.
EmptyRegions ==
    LET starts == Ascending(Regioned)
    IN  [i \in DOMAIN starts |->
            [lo |-> starts[i], hi |-> starts[i] + Frames[FrameOf(starts[i])].range]]

RegionSize(start) ==
    IF Frames[FrameOf(start)].range = 0 THEN 4 ELSE Frames[FrameOf(start)].range

\* The rows guest_eh_find searches.
Regions ==
    LET starts == Ascending(Regioned)
    IN  [i \in DOMAIN starts |->
            [lo |-> starts[i], hi |-> starts[i] + RegionSize(starts[i])]]

\* The exception table of each function that has one.
LsdaOf == [s \in Regioned |-> Lsdas[Lsda(FrameOf(s))]]

-----------------------------------------------------------------------------

PadBase(t, start) ==
    LET v == Encoded(t.lpEnc, t.lp, t.lpAt) IN IF v \in {0, None} THEN start ELSE v

\* landing_pads: every pad of a call site table.
PadsOf(start) ==
    LET t == LsdaOf[start]
    IN  {PadBase(t, start) + t.sites[i].pad :
            i \in {j \in DOMAIN t.sites : t.sites[j].pad # 0}}

\* Slip: pads count from the function whatever the table says.
PadsFromStart ==
    {p \in UNION {{s + LsdaOf[s].sites[i].pad :
                     i \in {j \in DOMAIN LsdaOf[s].sites :
                              LsdaOf[s].sites[j].pad # 0}} : s \in Regioned} :
        Within(Rx, p)}

LandingPads == {p \in UNION {PadsOf(s) : s \in Regioned} : Within(Rx, p)}

\* Where a call site begins: from the function, unless its encoding is relative.
SiteLo(t, i, start) ==
    IF t.csEnc = "abs" THEN start + t.sites[i].start
    ELSE Encoded(t.csEnc, t.sites[i].start, t.sites[i].at)

\* lsda_lookup: the pad of the first site that covers the call, 0 for none.  The
\* table is sorted, so a site past the call ends the search.
PadFor(start, ra) ==
    LET t    == LsdaOf[start]
        pc   == ra - 1
        stop == {i \in DOMAIN t.sites : pc < SiteLo(t, i, start) + t.sites[i].len}
    IN  IF stop = {} \/ pc < SiteLo(t, Min(stop), start) \/ t.sites[Min(stop)].pad = 0
        THEN 0
        ELSE PadBase(t, start) + t.sites[Min(stop)].pad

-----------------------------------------------------------------------------

InRegion(s, a)       == s <= a /\ a < s + RegionSize(s)
InSite(s, i, a)      ==
    LET t == LsdaOf[s] IN SiteLo(t, i, s) <= a /\ a < SiteLo(t, i, s) + t.sites[i].len

\* Functions that have a table do not overlap, nor do its call sites, which are in
\* order.
ASSUME TablesAssumption ==
    /\ \A i \in DOMAIN Frames :
          i \in Nat /\ (IsFrame(i) => Begin(i) \in Int /\ Frames[i].range \in Nat)
    /\ \A s, r \in Regioned : s < r => s + RegionSize(s) <= r
    /\ \A s \in Regioned :
          LET t == LsdaOf[s]
          IN  /\ \A i \in DOMAIN t.sites :
                    i \in Nat /\ SiteLo(t, i, s) \in Int /\ t.sites[i].len \in Nat
              /\ \A i, j \in DOMAIN t.sites :
                    i < j => SiteLo(t, i, s) + t.sites[i].len <= SiteLo(t, j, s)
=============================================================================
