------------------------------ MODULE MCNewsDesk ------------------------------
(***************************************************************************)
(* Values of the constants of NewsDesk: feeds that overlap, an element      *)
(* without a title, one that is no item, Atom links, two long urls with one *)
(* cut form; replies of a model with and without an index, out of order, in *)
(* part no objects, with ratings out of range or no number.                 *)
(***************************************************************************)
EXTENDS NewsDesk

TextLink(u) == [text |-> u, href |-> NoLink, rel |-> NoLink]
HrefLink(u, r) == [text |-> NoLink, href |-> u, rel |-> r]
Element(t, ls, p) == [item |-> TRUE, title |-> t, links |-> ls, published |-> p]
DocA == <<Element(TRUE, <<TextLink("a")>>, 2), Element(FALSE, <<TextLink("z")>>, 1),
          [Element(TRUE, <<TextLink("z")>>, 1) EXCEPT !.item = FALSE]>>
DocB == <<Element(TRUE, <<HrefLink("z", "self"), HrefLink("b", "alternate")>>, 0), Element(TRUE, <<>>, 3)>>
DocL == <<Element(TRUE, <<TextLink("a")>>, 2), Element(TRUE, <<TextLink("long1")>>, 4),
          Element(TRUE, <<TextLink("long2")>>, 4)>>
DocS == <<Element(TRUE, <<TextLink("a")>>, 2), Element(TRUE, <<HrefLink("c", "self")>>, 1),
          Element(TRUE, <<TextLink("c")>>, 1), Element(TRUE, <<TextLink("b")>>, 0)>>
DocT == <<Element(TRUE, <<TextLink("c")>>, 1), Element(TRUE, <<TextLink("d")>>, 5)>>
DocU == <<Element(TRUE, <<TextLink("long1")>>, 4)>>
MCFeeds == << {DocA, DocL}, {DocA, DocB} >>
MCSymbolFeed == {DocS, DocT, DocU}
MCCut == [u \in {"a", "b", "c", "d", "z", "long1", "long2"} |-> IF u \in {"long1", "long2"} THEN "long" ELSE u]

\* A verdict with an index and one without, in its place (from 0).
Verdict(i, s, r) == [index |-> i, about |-> i, sentiment |-> s, rating |-> r]
InPlace(k, s, r) == [Verdict(k, s, r) EXCEPT !.index = NoLink]
MCReplies == { <<Verdict(1, "bullish", 9), NotAnObject, Verdict(0, "bearish", 5)>>,
               <<InPlace(0, "bullish", 4), InPlace(1, "odd", -1)>>,
               <<InPlace(0, "bearish", 2), NotAnObject, Verdict(1, "bullish", 4)>>,
               <<NotAnObject, InPlace(1, "bullish", 4)>>,
               <<Verdict(0, "bullish", Infinite)>>,
               <<Verdict(0, "bearish", 1), [Verdict(1, "bullish", 4) EXCEPT !.index = NotANumber]>>,
               <<Verdict(0, "bullish", 9), Verdict(1, "neutral", NotANumber), Verdict(2, "bearish", 3)>> }
===============================================================================
