------------------------------ MODULE MCServices ------------------------------
(***************************************************************************)
(* The services of the engine that share no state with each other, checked  *)
(* in one run: a behaviour picks a part and follows that part alone, so     *)
(* that the run is as large as the sum of the parts, not their product.     *)
(***************************************************************************)
EXTENDS AlertConditions, Assistant, Calendar, Symbols, MCNewsDesk, Startup, Portfolio, Providers, Conversation, MCReports

-----------------------------------------------------------------------------
(* Technical and AlertConditions: a flat bar without volume, a rise, a gap   *)
(* with a fall inside it; one indicator of each kind, one with a parameter  *)
(* that is no number, one unknown.                                          *)

Bar(a, o, h, l, c, v) == [after |-> a, open |-> o, high |-> h, low |-> l, close |-> c, volume |-> v]
MCShapes == {Bar(1, 1, 1, 1, 1, 0), Bar(1, 1, 2, 1, 2, 2), Bar(2, 2, 4, 1, 3, 1)}
Token(n, p) == [name |-> n, params |-> p]
MCSpecs == <<Token("sma", <<2>>), Token("ema", <<Text>>), Token("rsi", <<>>), Token("macd", <<>>),
             Token("vwap", <<>>), Token("bb", <<2>>), Token("stoch", <<2, 2>>), Token("atr", <<>>),
             Token("ichimoku", <<>>), Token("unknown", <<>>)>>

-----------------------------------------------------------------------------
(* Assistant                                                               *)

MCOrders == {<<"yfinance">>, <<"bogus">>}

-----------------------------------------------------------------------------
(* Symbols: tickers that are prefixes of each other, a seed, files with a   *)
(* header, a footer, a test issue and odd lines, KAP lists where a share    *)
(* comes twice or is delisted.                                              *)

Line(s, e, k) == [symbol |-> s, exchange |-> e, kind |-> k]
Header == Line("", "", "odd")
MCNasdaq == { <<Header, Line("AB", "NASDAQ", "ok"), Line("TST", "NASDAQ", "test"),
                Line("", "", "footer"), Line("X", "NASDAQ", "ok")>> }
MCOther == { <<Header, Line("A", "NYSE", "ok"), Line("ABC", "OTHER", "ok")>>, <<Header>> }
KapLine(s, a) == [symbol |-> s, active |-> a]
MCKap == { <<KapLine("A.IS", FALSE), KapLine("A.IS", TRUE), KapLine("A.IS", TRUE), KapLine("", TRUE)>>,
           <<KapLine("B.IS", TRUE), KapLine("A.IS", FALSE)>> }
MCSeed == <<[symbol |-> "A.IS", sector |-> "bank"], [symbol |-> "B.IS", sector |-> "bank"],
            [symbol |-> "C.IS", sector |-> "bank b"]>>
Place(x, list) == CHOOSE i \in DOMAIN list : list[i] = x
MCOrder(a, b) ==
    LET byLength == <<"", "A", "B", "C", "X", "AB", "ABC", "TST">> IN Place(a, byLength) < Place(b, byLength)
MCAlphabet(a, b) ==
    LET byLetter == <<"", "A", "AB", "ABC", "B", "C", "TST", "X">> IN Place(a, byLetter) < Place(b, byLetter)
MCDisplay == [s \in {"", "A", "AB", "ABC", "A.IS", "B.IS", "C.IS", "X", "TST"} |->
                IF s = "A.IS" THEN "A" ELSE IF s = "B.IS" THEN "B" ELSE IF s = "C.IS" THEN "C" ELSE s]
ForQuery(a, b, n) == [q \in {"A", "AB", "BANK"} |-> IF q = "A" THEN a ELSE IF q = "AB" THEN b ELSE n]
MCTicker == ForQuery({"A", "AB", "ABC", "A.IS"}, {"AB", "ABC"}, {})
MCNamed == ForQuery({"B.IS"}, {"A"}, {"A.IS", "B.IS", "C.IS"})
MCSectors == ForQuery({}, {}, {"bank", "bank b"})
MCKeys == ForQuery(<<"united states", "us", "usa", "america">>, <<>>, <<"tr", "bist">>)
MCLive == ForQuery(<< <<"ABC", "A.IS">>, <<"ABC">> >>, << <<"AB">>, <<"X", "AB">> >>, <<>>)

-----------------------------------------------------------------------------
(* Portfolio: a currency typed small, a short position, an empty currency.  *)

Lot(q, c, y) == [quantity |-> q, cost |-> c, currency |-> y]
MCLots == {Lot(1, 2, "usd"), Lot(-2, 1, "TRY"), Lot(2, 3, ""), Lot(NoField, NoField, "")}
MCUpper == [c \in {"usd", "USD", "TRY", ""} |-> IF c = "usd" THEN "USD" ELSE c]

-----------------------------------------------------------------------------
(* Providers                                                               *)

MCOrdersStored == {<<"finnhub", "yfinance">>, <<"yfinance", "finnhub">>, <<"finnhub">>}

-----------------------------------------------------------------------------
(* Conversation: a piece without text, one that looks like the end.         *)

MCSaid == {<<>>, <<"yes", "", "[DONE]">>, <<"no", "yes">>}

-----------------------------------------------------------------------------
(* The union of the parts                                                  *)

Parts == {"technical", "assistant", "calendar", "symbols", "news", "startup", "portfolio", "providers",
          "conversation", "reports"}

VARIABLE focus      \* the part this behaviour follows

\* Only the assistant starts in two ways; the other parts follow one of them.
Init ==
    /\ focus \in Parts
    /\ TechInit /\ AstInit /\ CalInit /\ SymInit /\ NewsInit /\ StartInit /\ PortInit /\ ProvInit
    /\ ConvInit /\ RptInit
    /\ focus # "assistant" => keychainUp

Next ==
    \/ focus = "technical" /\ TechNext
       /\ UNCHANGED <<focus, astVars, calVars, symVars, newsVars, startVars, portVars, provVars, convVars, rptVars>>
    \/ focus = "assistant" /\ AstNext
       /\ UNCHANGED <<focus, techVars, calVars, symVars, newsVars, startVars, portVars, provVars, convVars, rptVars>>
    \/ focus = "calendar" /\ CalNext
       /\ UNCHANGED <<focus, techVars, astVars, symVars, newsVars, startVars, portVars, provVars, convVars, rptVars>>
    \/ focus = "symbols" /\ SymNext
       /\ UNCHANGED <<focus, techVars, astVars, calVars, newsVars, startVars, portVars, provVars, convVars, rptVars>>
    \/ focus = "news" /\ NewsNext
       /\ UNCHANGED <<focus, techVars, astVars, calVars, symVars, startVars, portVars, provVars, convVars, rptVars>>
    \/ focus = "startup" /\ StartNext
       /\ UNCHANGED <<focus, techVars, astVars, calVars, symVars, newsVars, portVars, provVars, convVars, rptVars>>
    \/ focus = "portfolio" /\ PortNext
       /\ UNCHANGED <<focus, techVars, astVars, calVars, symVars, newsVars, startVars, provVars, convVars, rptVars>>
    \/ focus = "providers" /\ ProvNext
       /\ UNCHANGED <<focus, techVars, astVars, calVars, symVars, newsVars, startVars, portVars, convVars, rptVars>>
    \/ focus = "conversation" /\ ConvNext
       /\ UNCHANGED <<focus, techVars, astVars, calVars, symVars, newsVars, startVars, portVars, provVars, rptVars>>
    \/ focus = "reports" /\ RptNext
       /\ UNCHANGED <<focus, techVars, astVars, calVars, symVars, newsVars, startVars, portVars, provVars, convVars>>

Spec ==
    Init /\ [][Next]_<<focus, techVars, astVars, calVars, symVars, newsVars, startVars, portVars,
                     provVars, convVars, rptVars>>

\* Threads, workers and requests are as good as one another.
Symmetry == Permutations(Threads) \cup Permutations(Workers) \cup Permutations(Tasks \ {Seeder})
=============================================================================
