------------------------------- MODULE Image -------------------------------
(* What a pointer of the guest becomes.  The generator rewrites the constants   *)
(* of the code and the relocated slots of the writable image: an address of     *)
(* data becomes the host address of the byte in g_ro or g_rw, an address of     *)
(* code stays the number it was, an import becomes the address of its thunk.    *)
EXTENDS Integers, Sequences, FiniteSetsExt, SequencesExt

CONSTANTS
    Word,           \* how many values a 64-bit word has
    Segments,       \* of the image, in order: [lo, hi, exec, write]
    GRo, GRw,       \* the host addresses of g_ro and g_rw
    Host,           \* the host address of each import, by name
    Raw,            \* the words of the writable image in the file, by slot
    RelrBits,       \* slots a bitmap of DT_RELR speaks of (63)
    Symbols,        \* the other relocations, in order: [slot, kind, name, addend]
    Defined,        \* functions the image defines, by name
    DataImports,    \* imported objects
    Ignored,        \* imports that are not modelled
    Materialised    \* constants of the code that may be used as addresses: [fn, value].
                    \* The return addresses a call leaves in x30 are not among them.

Words == 0 .. Word - 1

-----------------------------------------------------------------------------
(* Segments.  Of each kind the last one counts.                               *)

Spans(exec, write) ==
    SelectSeq(Segments, LAMBDA s : s.exec = exec /\ (exec \/ s.write = write))

LastSpan(s) == IF s = <<>> THEN [lo |-> 0, hi |-> 0] ELSE Last(s)

Rx == LastSpan(Spans(TRUE, FALSE))
Ro == LastSpan(Spans(FALSE, FALSE))
Rw == LastSpan(Spans(FALSE, TRUE))

Within(seg, a) == seg.lo <= a /\ a < seg.hi

-----------------------------------------------------------------------------
(* Pointers.                                                                  *)

\* A constant of the instruction stream.  One that names no location of the image
\* is left as it is.
ConstAddr(v) ==
    CASE Within(Rx, v) -> v
      [] Within(Ro, v) -> GRo + (v - Ro.lo)
      [] Within(Rw, v) -> GRw + (v - Rw.lo)
      [] OTHER         -> v

NoSlot == -1

\* The members of a set of numbers in order.
Ascending(S) ==
    [i \in 1 .. Cardinality(S) |->
        CHOOSE x \in S : Cardinality({y \in S : y < x}) = i - 1]

\* Slip: a function is stored as the address of its translation.
FunctionPointer(v) ==
    CASE Within(Rx, v) -> IF v \in {Defined[n] : n \in DOMAIN Defined}
                          THEN Word - 1 - v ELSE v
      [] Within(Ro, v) -> GRo + (v - Ro.lo)
      [] Within(Rw, v) -> GRw + (v - Rw.lo)
      [] OTHER         -> NoSlot

\* The same for a relocated slot.
RelocSlot(v) ==
    CASE Within(Rx, v) -> v
      [] Within(Ro, v) -> GRo + (v - Ro.lo)
      [] Within(Rw, v) -> GRw + (v - Rw.lo)
      [] OTHER         -> NoSlot

-----------------------------------------------------------------------------
(* DT_RELR.  An entry is an anchor, the address of one relocated slot, or a     *)
(* bitmap of the slots that follow.                                            *)

SlotSize == 8
Slots    == DOMAIN Raw

Anchor(a)  == [anchor |-> a, bits |-> {}]
Bitmap(bs) == [anchor |-> 0, bits |-> bs]

\* What a linker writes for a set of slots: the next one, or those of them a bitmap
\* can speak of that follow the last entry.
PackNext(p) ==
    LET near == {s \in p.left : s < p.base + RelrBits * SlotSize}
    IN  CASE p.left = {} -> p
          [] p.left # {} /\ p.base # 0 /\ near # {} ->
               [out |-> Append(p.out, Bitmap({(s - p.base) \div SlotSize : s \in near})),
                left |-> p.left \ near, base |-> p.base + RelrBits * SlotSize]
          [] OTHER ->
               [out |-> Append(p.out, Anchor(Min(p.left))),
                left |-> p.left \ {Min(p.left)}, base |-> Min(p.left) + SlotSize]

Packing(ss) ==
    LET after[n \in 0 .. Cardinality(ss)] ==
            IF n = 0 THEN [out |-> <<>>, left |-> ss, base |-> 0] ELSE PackNext(after[n - 1])
    IN  after[Cardinality(ss)]

Pack(ss) == Packing(ss).out

\* What the generator reads: the slots after an anchor or a bitmap continue from
\* the last one it spoke of.
ReadNext(r, e) ==
    IF e.bits = {}
    THEN [slots |-> r.slots \cup {e.anchor}, base |-> e.anchor + SlotSize]
    ELSE [slots |-> r.slots \cup {r.base + i * SlotSize : i \in e.bits},
          base |-> r.base + RelrBits * SlotSize]

Reading(es) ==
    LET after[n \in 0 .. Len(es)] ==
            IF n = 0 THEN [slots |-> {}, base |-> 0] ELSE ReadNext(after[n - 1], es[n])
    IN  after[Len(es)]

Unpack(es) == Reading(es).slots

-----------------------------------------------------------------------------
(* The writable image.                                                        *)

\* What a symbol relocation stores.  An ignored import is a null pointer.
SymbolSlot(r) ==
    CASE r.kind = "other"               -> NoSlot
      [] r.kind # "other" /\ r.name \in Ignored -> 0
      [] r.kind # "other" /\ r.name \notin Ignored /\ r.name \in DOMAIN Defined ->
            RelocSlot(Defined[r.name] + r.addend)
      [] OTHER                          -> Host[r.name] + r.addend

\* The relocations of the image, in order: the relative ones, and the others.
Relocations(relr) ==
    LET relative == Ascending(Unpack(Pack(relr)))
    IN  [i \in DOMAIN relative |->
            [slot |-> relative[i],
             value |-> IF relative[i] \in Slots THEN RelocSlot(Raw[relative[i]]) ELSE NoSlot]]
        \o [i \in DOMAIN Symbols |->
            [slot |-> Symbols[i].slot, value |-> SymbolSlot(Symbols[i])]]

\* collect_relocations and emit_rw: a slot holds what its last relocation makes of
\* it, and the word of the file when it has none.
WritableImage(relr) ==
    LET rs   == Relocations(relr)
        kept == {i \in DOMAIN rs : Within(Rw, rs[i].slot) /\ rs[i].value # NoSlot}
    IN  [s \in Slots |->
            LET of == {i \in kept : rs[i].slot = s}
            IN  IF of = {} THEN Raw[s] ELSE rs[Max(of)].value]

\* _EntrySet: an address that is not a multiple of four is not code.
Entries(vs) == {v \in vs : v % 4 = 0}

\* Code addresses that can be reached indirectly, as far as the relative relocations
\* say.  Those that store a symbol are read after the blocks are written.
RelocatedEntries(relr) ==
    Entries({v \in {Raw[s] : s \in Unpack(Pack(relr)) \cap Slots} : Within(Rx, v)})

-----------------------------------------------------------------------------
(* What the compiler of the guest meant by a word.                            *)

Guest(v)      == <<"guest", v>>
HostOf(n, k)  == <<"host", n, k>>
Null          == <<"null">>

SymbolMeaning(r) ==
    CASE r.name \in Ignored           -> Null
      [] r.name \in DOMAIN Defined \ Ignored -> Guest(Defined[r.name] + r.addend)
      [] OTHER                        -> HostOf(r.name, r.addend)

MayDefine == {c.value : c \in Materialised}

\* The pointers the guest holds in registers: constants, and relocated slots it has
\* loaded.
Pointers(relr, image) ==
    {[word |-> ConstAddr(v), meant |-> Guest(v)] : v \in MayDefine}
        \cup {[word |-> image[s], meant |-> Guest(Raw[s])] : s \in relr}
        \cup {[word |-> image[Symbols[i].slot], meant |-> SymbolMeaning(Symbols[i])] :
                i \in {j \in DOMAIN Symbols : Symbols[j].kind # "other"}}

-----------------------------------------------------------------------------
(* The image, and where the host puts things.                                 *)

InImage(v) == Within(Rx, v) \/ Within(Ro, v) \/ Within(Rw, v)

\* Relocations that store a symbol's address, and those of them that store an import's.
Stores  == {i \in DOMAIN Symbols : Symbols[i].kind # "other"}
Imports == {i \in Stores : Symbols[i].name \notin Ignored \cup DOMAIN Defined}

\* Code comes before read-only data and that before writable data, which is where
\* the slots are; each has one relocation at most that stores a symbol.  Constants
\* and symbols that are defined lie in the image.
ASSUME ImageAssumption ==
    /\ Word \in Nat /\ RelrBits \in Nat \ {0}
    /\ {Rx.lo, Rx.hi, Ro.lo, Ro.hi, Rw.lo, Rw.hi} \subseteq Nat
    /\ 0 < Rx.lo /\ Rx.lo <= Rx.hi /\ Rx.hi <= Ro.lo
    /\ Ro.lo <= Ro.hi /\ Ro.hi <= Rw.lo /\ Rw.lo <= Rw.hi
    /\ \A s \in Slots : s \in Nat /\ s % SlotSize = 0 /\ Within(Rw, s) /\ Raw[s] \in Nat
    /\ \A v \in MayDefine : v \in Nat /\ InImage(v)
    /\ Len(Symbols) \in Nat /\ DOMAIN Symbols = 1 .. Len(Symbols)
    /\ \A i \in Stores : Symbols[i].slot \in Slots
    /\ \A i, j \in Stores : Symbols[i].slot = Symbols[j].slot => i = j
    /\ \A i \in Stores :
          Symbols[i].name \in DOMAIN Defined \ Ignored =>
              /\ Defined[Symbols[i].name] + Symbols[i].addend \in Nat
              /\ InImage(Defined[Symbols[i].name] + Symbols[i].addend)

\* guest_dispatch takes a word back through g_ro and through g_rw.
ThroughRo(p) == (p - GRo + Ro.lo) % Word
ThroughRw(p) == (p - GRw + Rw.lo) % Word

HostWords == {Host[n] : n \in DOMAIN Host}

\* What the relocation i of an import stores.
ImportWord(i) == Host[Symbols[i].name] + Symbols[i].addend

\* No word is a code address through both arrays, and no host function, no byte of
\* the image and no null is one through either.
ASSUME HostAssumption ==
    /\ \A p \in Words : ~(Within(Rx, ThroughRo(p)) /\ Within(Rx, ThroughRw(p)))
    /\ \A p \in HostWords \cup (Rx.lo .. Rw.hi) \cup {0} :
          ~Within(Rx, ThroughRo(p)) /\ ~Within(Rx, ThroughRw(p))
    /\ \A p \in HostWords : p \in Words /\ p > Rw.hi
    /\ \A n, m \in DOMAIN Host : Host[n] = Host[m] => n = m
    /\ GRo \in Nat /\ GRo > Rw.hi /\ GRo + (Ro.hi - Ro.lo) < Word
    /\ GRw \in Nat /\ GRw > Rw.hi /\ GRw + (Rw.hi - Rw.lo) < Word

\* The host keeps the two arrays and what is imported apart.
ASSUME PlacesAssumption ==
    /\ GRo + (Ro.hi - Ro.lo) <= GRw \/ GRw + (Rw.hi - Rw.lo) <= GRo
    /\ \A i \in Imports :
          /\ Symbols[i].name \in DOMAIN Host /\ Symbols[i].addend \in Nat
          /\ ImportWord(i) \notin GRo .. GRo + (Ro.hi - Ro.lo) - 1
          /\ ImportWord(i) \notin GRw .. GRw + (Rw.hi - Rw.lo) - 1
    /\ \A i, j \in Imports :
          ImportWord(i) = ImportWord(j) =>
              /\ Symbols[i].name = Symbols[j].name
              /\ Symbols[i].addend = Symbols[j].addend

=============================================================================
