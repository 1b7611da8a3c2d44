----------------------------- MODULE MCLiveRead -----------------------------
(***************************************************************************)
(* Two fixtures over two pages.  The provider either keeps one fixture on  *)
(* each page, or both on the first one with an empty page after it, or it  *)
(* lists nothing and answers a request for the second page with that page  *)
(* again.  A fixture can so be lost or repeated between two layouts, and a *)
(* read can be led in a circle.                                            *)
(***************************************************************************)
EXTENDS LiveRead

PageOf(f, n) == [fixtures |-> f, next |-> n]

LayoutOf(f, p) == [c \in {"first", "p"} |-> IF c = "first" THEN f ELSE p]

OneEach == LayoutOf(PageOf({1}, "p"), PageOf({2}, "end"))
BothFirst == LayoutOf(PageOf({1, 2}, "p"), PageOf({}, "end"))
Nothing == LayoutOf(PageOf({}, "end"), PageOf({}, "p"))

MCLayouts == {OneEach, BothFirst, Nothing}
=============================================================================
