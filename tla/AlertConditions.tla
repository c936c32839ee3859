--------------------------- MODULE AlertConditions ---------------------------
(***************************************************************************)
(* What an alert waits for: app/alerts/engine.py and the part of the        *)
(* monitor that prepares its input.  AlertMonitor leaves open whether a     *)
(* condition holds; this module says when, over the growing series of       *)
(* candles of Technical.  A value that is missing (None) is NaN.            *)
(***************************************************************************)
EXTENDS Technical

CONSTANTS
    DefaultFast, DefaultSlow,   \* 50, 200 in the code
    RsiPeriod                   \* 14 in the code

CrossTypes == {"golden_cross", "death_cross"}
MacdTypes == {"macd_cross_up", "macd_cross_down"}
THRESHOLD_TYPES == {"price_above", "price_below", "percent_up", "percent_down",
                    "volume_above", "rsi_above", "rsi_below"}
AlertType == THRESHOLD_TYPES \cup CrossTypes \cup MacdTypes

\* The types for which the monitor fetches a history.
TECHNICAL_TYPES == {"rsi_above", "rsi_below"} \cup MacdTypes \cup CrossTypes

NoIndicators ==
    [rsi |-> NaN, macd |-> NaN, macd_prev |-> NaN, signal |-> NaN, signal_prev |-> NaN,
     sma_fast |-> NaN, sma_fast_prev |-> NaN, sma_slow |-> NaN, sma_slow_prev |-> NaN]

\* (previous, latest) of a series.
_last_two(series) ==
    LET at(i) == IF i \in DOMAIN series THEN series[i] ELSE NaN
    IN  <<at(Len(series) - 1), at(Len(series))>>

build_indicators(bars, fast, slow) ==
    LET close == Column(candles_to_frame(bars), "close")
        macd == _last_two(calc_macd(close).macd)
        signal == _last_two(calc_macd(close).signal)
        smaFast == _last_two(calc_sma(close, fast))
        smaSlow == _last_two(calc_sma(close, slow))
    IN  IF bars = <<>> THEN NoIndicators
        ELSE [rsi |-> _last_two(calc_rsi(close, RsiPeriod))[2],
              macd |-> macd[2], macd_prev |-> macd[1],
              signal |-> signal[2], signal_prev |-> signal[1],
              sma_fast |-> smaFast[2], sma_fast_prev |-> smaFast[1],
              sma_slow |-> smaSlow[2], sma_slow_prev |-> smaSlow[1]]

\* Mutant: a pair that touched before it crossed does not count.
_crossed_up_Strict(prevA, prevB, a, b) ==
    /\ \A v \in {prevA, prevB, a, b} : Finite(v)
    /\ Less(prevA, prevB) /\ Less(b, a)

_crossed_up(prevA, prevB, a, b) ==
    /\ \A v \in {prevA, prevB, a, b} : Finite(v)
    /\ Leq(prevA, prevB) /\ Less(b, a)

_crossed_down(prevA, prevB, a, b) == _crossed_up(prevB, prevA, b, a)

\* Whether the alert's condition holds (a message in the code).
evaluate(alert, snap) ==
    LET thr == alert.threshold
        ind == snap.indicators
        magnitude == MaxOf(thr, Sub(Zero, thr))
    IN  CASE alert.type = "price_above" -> Leq(thr, snap.price)
          [] alert.type = "price_below" -> Leq(snap.price, thr)
          [] alert.type = "percent_up" -> Leq(thr, snap.change_percent)
          [] alert.type = "percent_down" -> Leq(snap.change_percent, Sub(Zero, magnitude))
          [] alert.type = "volume_above" -> Leq(thr, snap.volume)
          [] alert.type = "rsi_above" -> Leq(thr, ind.rsi)
          [] alert.type = "rsi_below" -> Leq(ind.rsi, thr)
          [] alert.type = "macd_cross_up" -> _crossed_up(ind.macd_prev, ind.signal_prev, ind.macd, ind.signal)
          [] alert.type = "macd_cross_down" -> _crossed_down(ind.macd_prev, ind.signal_prev, ind.macd, ind.signal)
          [] alert.type = "golden_cross" -> _crossed_up(ind.sma_fast_prev, ind.sma_slow_prev, ind.sma_fast, ind.sma_slow)
          [] alert.type = "death_cross" -> _crossed_down(ind.sma_fast_prev, ind.sma_slow_prev, ind.sma_fast, ind.sma_slow)

\* The periods of the first cross alert that has any, for all of the symbol's.
_cross_periods(alerts) ==
    LET own == SelectSeq(alerts, LAMBDA a : a.type \in CrossTypes /\ a.params # <<>>)
    IN  IF own = <<>> THEN <<DefaultFast, DefaultSlow>> ELSE Head(own).params

\* _evaluate_symbol: one snapshot for all alerts of a symbol.
SnapshotFor(alerts, quote, bars) ==
    LET periods == _cross_periods(alerts)
        technical == \E a \in ToSet(alerts) : a.type \in TECHNICAL_TYPES
    IN  quote @@ [indicators |-> IF technical THEN build_indicators(bars, periods[1], periods[2])
                                 ELSE NoIndicators]

-----------------------------------------------------------------------------
(* Properties                                                              *)

Threshold(type) == IF type \in THRESHOLD_TYPES THEN Num(2) ELSE NaN
AlertOf(type) == [type |-> type, threshold |-> Threshold(type), params |-> <<>>]
SomeQuote == [price |-> Num(2), change_percent |-> Num(-3), volume |-> NaN]

\* The alert, alone on its symbol, when the history is the first n candles.
FiresAt(bars, type, n) == evaluate(AlertOf(type), SnapshotFor(<<AlertOf(type)>>, SomeQuote, SubSeq(bars, 1, n)))

\* No crossing is missed: when the fast average was below the slow one at some
\* bar and is above it now, the golden cross held at some bar in between, also
\* when the two touched in between; the same for the death cross and the MACD.
NoCrossMissed(bars) ==
    LET close == CloseOf(bars)
        sma(p) == calc_sma(close, p)
        macd == calc_macd(close)
        seen(a, b, type) ==
            \A i \in DOMAIN bars :
                Less(a[i], b[i]) /\ Less(b[Len(bars)], a[Len(bars)])
                    => \E n \in i + 1 .. Len(bars) : FiresAt(bars, type, n)
    IN  /\ seen(sma(DefaultFast), sma(DefaultSlow), "golden_cross")
        /\ seen(sma(DefaultSlow), sma(DefaultFast), "death_cross")
        /\ seen(macd.macd, macd.signal, "macd_cross_up")
        /\ seen(macd.signal, macd.macd, "macd_cross_down")

\* A cross is never seen in the warm-up: it takes one bar more than the longer
\* history, and opposite crosses never hold together.
CrossNeedsHistory(bars) ==
    LET n == Len(bars)
        fires(type) == FiresAt(bars, type, n)
    IN  /\ fires("golden_cross") \/ fires("death_cross") => n > DefaultSlow
        /\ fires("macd_cross_up") \/ fires("macd_cross_down") => n > MacdSlow + MacdSignal - 1
        /\ ~(fires("golden_cross") /\ fires("death_cross"))
        /\ ~(fires("macd_cross_up") /\ fires("macd_cross_down"))

\* The monitor fetches a history whenever an alert needs one: what an alert
\* alone on its symbol evaluates to is what it evaluates to beside an alert
\* that makes the monitor fetch.
HistoryFetchedWhenNeeded(bars) ==
    LET beside == SnapshotFor(<<AlertOf("rsi_above")>>, SomeQuote, bars)
    IN  \A type \in AlertType : evaluate(AlertOf(type), beside) = FiresAt(bars, type, Len(bars))

\* An alert on a crossing fires at the bar at which its lines cross, and only
\* then, whichever bar comes.
CrossesCaught ==
    [][\A bars \in {candles'} \ {<<>>} :
        NoCrossMissed(bars) /\ CrossNeedsHistory(bars) /\ HistoryFetchedWhenNeeded(bars)]_techVars
=============================================================================
