----------------------------- MODULE MCRebuild -----------------------------
(* Instances of Rebuild for TLC.                                              *)
EXTENDS Rebuild

Text(t, d, r) == [text |-> t, defs |-> d, refs |-> r]
FnText(f, t, r) == Text(t, {f}, r)
Whole(body, stub, h, i, d, x) ==
    [body |-> body, stub |-> stub, header |-> [base |-> h, defs |-> {}, refs |-> {}], image |-> Text(i, {}, {}),
     data_ro |-> Text("embed", {}, {}), data_text |-> x, dispatch |-> d,
     makefile |-> Text("rules", {}, {})]
\* h is contained in g and folded into it.
First(h) ==
    Whole(("f" :> FnText("f", "f1", {"g"})) @@ ("g" :> FnText("g", "g1", {}))
            @@ ("h" :> FnText("h", "h1", {"g"})),
          "h" :> FnText("h", "h to g", {"g"}),
          h, "i1", Text("d1", {}, {"f", "h"}), Absent)
\* f has changed, and so has the image; h is an orphan, g is referred to and not
\* translated; .text is read as data.
Second(h) ==
    Whole(("f" :> FnText("f", "f2", {"g"})) @@ ("h" :> FnText("h", "h1", {"g"})), <<>>,
          h, "i2", Text("d2", {"g"}, {"f"}), Text("t", {}, {}))

MCInputOf == <<<<1, 2>>, <<3, 3>>>>
First1 == First(1)
First2 == First(2)
Second1 == Second(1)
Second2 == Second(2)
MCGen == <<First1, First2, Second1, Second2>>
MCSize == <<10, 10>>
MCSpan == <<5, 6>>
=============================================================================
