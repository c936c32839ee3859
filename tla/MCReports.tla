------------------------------ MODULE MCReports ------------------------------
(***************************************************************************)
(* Values of the constants of Reports: SPY is in the benchmarks and in both *)
(* lists, THYAO in a list and among the holdings; a market that moves, and  *)
(* one where data is missing.                                               *)
(***************************************************************************)
EXTENDS Reports

Mover(p, c) == [price |-> p, change |-> c]
MCBenchmarks == <<"SPY", "QQQ">>
MCLists == << <<"AAPL", "SPY">>, <<"SPY", "THYAO">> >>
MCHoldings == <<"THYAO", "XOM">>
Market(a, b, c, d, e) == [SPY |-> a, QQQ |-> b, AAPL |-> c, THYAO |-> d, XOM |-> e]
MCMarkets == {Market(Mover(5, 1), Mover(5, -2), Mover(5, -3), NoQuote, Mover(5, 3)),
              Market(Mover(Missing, Missing), NoQuote, Mover(5, Missing), Mover(Missing, 4), Mover(5, 1))}
=============================================================================
