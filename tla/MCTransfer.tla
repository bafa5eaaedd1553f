----------------------------- MODULE MCTransfer -----------------------------
(* A small image: 64 bytes of code in three functions, 16 read-only, 80 writable. *)
EXTENDS Transfer

Segment(a, b, x, w) == [lo |-> a, hi |-> b, exec |-> x, write |-> w]

\* The headers of the file are a read-only segment too.
MCSegments == <<Segment(4, 16, FALSE, FALSE), Segment(16, 80, TRUE, FALSE),
                Segment(80, 96, FALSE, FALSE), Segment(96, 176, FALSE, TRUE)>>

MCHost == [memcpy |-> 440, vtable |-> 448]

\* Pointers to code, to read-only data, to writable data, and a pointer to a virtual
\* member, which is not an address of code.
MCRaw == (96 :> 24) @@ (104 :> 64) @@ (112 :> 120) @@ (120 :> 17) @@ (128 :> 84)
           @@ (136 :> 0) @@ (144 :> 0) @@ (152 :> 0) @@ (160 :> 0) @@ (168 :> 0)

Symbol(s, k, n, a) == [slot |-> s, kind |-> k, name |-> n, addend |-> a]
MCSymbols == <<Symbol(136, "GLOB_DAT", "memcpy", 0), Symbol(144, "ABS64", "vtable", 16),
               Symbol(152, "JUMP_SLOT", "start", 0), Symbol(160, "JUMP_SLOT", "finish", 0),
               Symbol(168, "ABS64", "start", 28), Symbol(88, "other", "finish", 0)>>
MCDefined     == [start |-> 24]
MCDataImports == {"vtable"}
MCIgnored     == {"finish"}

\* Constants: starts of functions, code of the function that makes them, of others and
\* past the span of their own, data.
Constant(f, v) == [fn |-> f, value |-> v]
MCMaterialised ==
    {Constant(56, 24), Constant(24, 36), Constant(56, 60), Constant(56, 72), Constant(56, 52),
     Constant(24, 76), Constant(24, 84), Constant(56, 120)}

Addresses(a, b) == a .. b - 1

\* The first function does not begin at its lowest block, the last has one block.
MCFunctions == (24 :> Addresses(16, 56)) @@ (56 :> Addresses(56, 76)) @@ (76 :> Addresses(76, 80))
MCCfg       == (24 :> {16, 20, 24, 44}) @@ (56 :> {56}) @@ (76 :> {76})

\* Tables relative to the code and to themselves, in the read-only image and in the
\* writable one, with arms in other functions.  The last comparison before the branch
\* is that of the table, or there is none, or it is a larger, a smaller or a far larger
\* one of something else.
Site(f, b, t, ws, n, w, cs, ts) ==
    [fn |-> f, base |-> b, table |-> t, words |-> ws, length |-> n, wide |-> w, compares |-> cs,
     targets |-> ts]

MCSites ==
    <<Site(24, 20, 80, <<0, 5, 9, 200>>, 3, FALSE, <<>>, {20, 40, 56}),
      Site(24, None, 88, <<-56, -28, -12, -20, 3>>, 4, TRUE, <<1, 3>>, {}),
      Site(56, None, 84, <<-32, -12, -32, 0>>, 2, TRUE, <<>>, {}),
      Site(56, None, 104, <<-52, -60, -32, 0>>, 3, TRUE, <<2>>, {}),
      Site(56, 16, 92, <<10, 14, 2, 0>>, 2, FALSE, <<>>, {56, 24}),
      Site(56, None, 80, <<-52, -40, 6, -4>>, 2, TRUE, <<1, 3>>, {}),
      Site(24, None, 80, <<-36, -64, -28, -44>>, 3, TRUE, <<2, 1>>, {}),
      Site(24, None, 80, <<-48, -52, 0, 0>>, 2, TRUE, <<1, 30>>, {})>>

MCFrames ==
    <<[kind |-> "cie", fdeEnc |-> "pcrel", lsdaEnc |-> "pcrel", sized |-> TRUE],
      [kind |-> "fde", cie |-> 1, at |-> 81, begin |-> 24 - 81 + 512, range |-> 32,
       lsdaAt |-> 82, lsda |-> 3],
      [kind |-> "cie", fdeEnc |-> "abs", lsdaEnc |-> "omit", sized |-> TRUE],
      [kind |-> "fde", cie |-> 3, at |-> 83, begin |-> 56, range |-> 20, lsdaAt |-> 84, lsda |-> 0],
      [kind |-> "fde", cie |-> 1, at |-> 86, begin |-> 56 - 86 + 512, range |-> 20,
       lsdaAt |-> 87, lsda |-> 3],
      [kind |-> "fde", cie |-> 1, at |-> 88, begin |-> 76 - 88 + 512, range |-> 0,
       lsdaAt |-> 89, lsda |-> 2]>>

MCLsdas ==
    (85 :> [lpEnc |-> "omit", lp |-> 0, lpAt |-> 86, csEnc |-> "abs",
            sites |-> <<[start |-> 4, len |-> 4, pad |-> 0, at |-> 87],
                        [start |-> 12, len |-> 8, pad |-> 20, at |-> 88],
                        [start |-> 28, len |-> 4, pad |-> 24, at |-> 89]>>])
    @@ (90 :> [lpEnc |-> "pcrel", lp |-> 60 - 91 + 512, lpAt |-> 91, csEnc |-> "abs",
            sites |-> <<[start |-> 16, len |-> 4, pad |-> 4, at |-> 92]>>])
    @@ (91 :> [lpEnc |-> "omit", lp |-> 0, lpAt |-> 92, csEnc |-> "pcrel",
            sites |-> <<[start |-> 76 - 93 + 512, len |-> 4, pad |-> 0, at |-> 93]>>])

\* The calls of the guest: return address and pad.  One of them is the last
\* instruction of its function.
Call(f, ra, pad) == [fn |-> f, ra |-> ra, pad |-> pad]
MCCalls == {Call(24, 32, 0), Call(24, 36, 0), Call(24, 40, 44), Call(24, 44, 44), Call(24, 56, 48),
            Call(56, 68, 0), Call(56, 76, 64), Call(76, 80, 0)}

\* Any blocks besides, with all slots relocated, or any set of relocated slots.
MCRelative == {96, 104, 112, 120, 128}
MCBuilds ==
    {[relr |-> MCRelative, extra |-> e] : e \in SUBSET {17, 28, 48, 52, 68, 72}}
        \cup {[relr |-> r, extra |-> {}] : r \in SUBSET MCRelative}
=============================================================================
