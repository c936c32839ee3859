------------------------------ MODULE Technical ------------------------------
(***************************************************************************)
(* Chart computations of the engine: app/technical (indicators, candle      *)
(* resampling, volume profile).  A provider delivers candles one by one;    *)
(* everything the charts and the alerts show is a function of them.  The    *)
(* periods are constants of the model, far smaller than 14, 26 or 200.      *)
(* The deviation of the Bollinger bands stays squared: a band is a pair of  *)
(* its middle and the square of its half width.                             *)
(***************************************************************************)
EXTENDS Rationals, FiniteSetsExt, SequencesExt, TLC

CONSTANTS
    Shapes,       \* candles with the hours since the one before them for
                  \* their time: [after, open, high, low, close, volume]
    MaxBars,      \* bound: length of the series
    Specs,        \* indicator specifications a chart asks for
    Text,         \* a parameter of a specification that is no number
    Bins,         \* price levels of the volume profile
    MacdFast, MacdSlow, MacdSignal,   \* 12, 26, 9 in the code
    Tenkan, Kijun, SenkouB            \* 9, 26, 52 in the code

VARIABLE candles    \* list[Candle], in the order the provider delivered them

techVars == <<candles>>

-----------------------------------------------------------------------------
(* The frame and its columns                                               *)

candles_to_frame(bars) == SortSeq(bars, LAMBDA a, b: a.time < b.time)

Column(frame, field) == [i \in DOMAIN frame |-> Num(frame[i][field])]

\* _points: a value that is not finite becomes None.
Points(series) == [i \in DOMAIN series |-> IF Finite(series[i]) THEN series[i] ELSE NaN]

\* pandas rolling(window = period, min_periods = period).
Rolling(series, period, Agg(_)) ==
    [i \in DOMAIN series |->
        IF i < period THEN NaN ELSE Agg(SubSeq(series, i - period + 1, i))]

\* pandas ewm(adjust = False, min_periods): the values that are missing all
\* come first; the average starts at the first value there is.
Ewm(series, alpha, minPeriods) ==
    LET missing == Cardinality({i \in DOMAIN series : ~Finite(series[i])})
        avg[i \in DOMAIN series] ==
            IF i <= missing + 1 THEN series[i]
            ELSE Add(Mul(Sub(Num(1), alpha), avg[i - 1]), Mul(alpha, series[i]))
    IN  [i \in DOMAIN series |-> IF i < missing + minPeriods THEN NaN ELSE avg[i]]

SpanAlpha(span) == Frac(2, span + 1)

\* Series.shift(n): the value n bars earlier (later when n is negative).
Shift(series, n) ==
    [i \in DOMAIN series |-> IF i - n \in DOMAIN series THEN series[i - n] ELSE NaN]

-----------------------------------------------------------------------------
(* The indicators                                                          *)

calc_sma(close, period) == Rolling(close, period, Mean)

calc_ema(close, period) == Ewm(close, SpanAlpha(period), period)

Diff(close) == [i \in DOMAIN close |-> Sub(close[i], Shift(close, 1)[i])]

\* Mutant: falls count as negative gains.
calc_rsi_SignedGain(close, period) ==
    LET delta == Diff(close)
        loss == [i \in DOMAIN close |-> IF i = 1 THEN NaN ELSE Sub(MaxOf(delta[i], Zero), delta[i])]
        avgGain == Ewm(delta, Frac(1, period), period)
        avgLoss == Ewm(loss, Frac(1, period), period)
    IN  [i \in DOMAIN close |->
            Sub(Num(100), Div(Num(100), Add(Num(1), Div(avgGain[i], avgLoss[i]))))]

calc_rsi(close, period) ==
    LET delta == Diff(close)
        gain == [i \in DOMAIN close |-> IF i = 1 THEN NaN ELSE MaxOf(delta[i], Zero)]
        loss == [i \in DOMAIN close |-> IF i = 1 THEN NaN ELSE Sub(gain[i], delta[i])]
        avgGain == Ewm(gain, Frac(1, period), period)
        avgLoss == Ewm(loss, Frac(1, period), period)
    IN  [i \in DOMAIN close |->
            Sub(Num(100), Div(Num(100), Add(Num(1), Div(avgGain[i], avgLoss[i]))))]

Minus(s, t) == [i \in DOMAIN s |-> Sub(s[i], t[i])]

calc_macd(close) ==
    LET line == Minus(calc_ema(close, MacdFast), calc_ema(close, MacdSlow))
        signal == Ewm(line, SpanAlpha(MacdSignal), MacdSignal)
    IN  [macd |-> line, signal |-> signal, histogram |-> Minus(line, signal)]

\* The square of the deviation (ddof = 0) of a window.
Variance(s) == Sub(Mean([i \in DOMAIN s |-> Mul(s[i], s[i])]), Mul(Mean(s), Mean(s)))

\* "upper" and "lower" are middle + sqrt(width) and middle - sqrt(width).
calc_bbands(close, period, std) ==
    [middle |-> Rolling(close, period, Mean),
     width |-> Rolling(close, period, LAMBDA s : Mul(Num(std * std), Variance(s)))]

CumSum(s) == [i \in DOMAIN s |-> SumOf(SubSeq(s, 1, i))]

\* Mutant: divided by the volume of the whole series.
calc_vwap_WholeVolume(frame) ==
    LET typical(i) == Frac(frame[i].high + frame[i].low + frame[i].close, 3)
        volume == Column(frame, "volume")
        cumTpv == CumSum([i \in DOMAIN frame |-> Mul(typical(i), volume[i])])
    IN  [i \in DOMAIN frame |-> Div(cumTpv[i], SumOf(volume))]

calc_vwap(frame) ==
    LET typical(i) == Frac(frame[i].high + frame[i].low + frame[i].close, 3)
        volume == Column(frame, "volume")
        cumTpv == CumSum([i \in DOMAIN frame |-> Mul(typical(i), volume[i])])
    IN  [i \in DOMAIN frame |->
            IF CumSum(volume)[i] = Zero THEN NaN ELSE Div(cumTpv[i], CumSum(volume)[i])]

\* %K of a window without a range is 0 / 0: NaN, and so is every %D over it.
calc_stochastic(frame, kPeriod, dPeriod) ==
    LET lowK == Rolling(Column(frame, "low"), kPeriod, Lowest)
        highK == Rolling(Column(frame, "high"), kPeriod, Highest)
        above == Minus(Column(frame, "close"), lowK)
        k == [i \in DOMAIN frame |-> Div(Mul(Num(100), above[i]), Sub(highK[i], lowK[i]))]
    IN  [k |-> k, d |-> Rolling(k, dPeriod, Mean)]

Distance(x, y) == MaxOf(Sub(x, y), Sub(y, x))

\* The first bar has no previous close: max(axis=1) skips the two NaN.
TrueRange(frame) ==
    LET high == Column(frame, "high")
        low == Column(frame, "low")
        prev == Shift(Column(frame, "close"), 1)
    IN  [i \in DOMAIN frame |->
            IF i = 1 THEN Sub(high[i], low[i])
            ELSE Highest(<<Sub(high[i], low[i]), Distance(high[i], prev[i]), Distance(low[i], prev[i])>>)]

calc_atr(frame, period) == Ewm(TrueRange(frame), Frac(1, period), period)

Midpoint(frame, period) ==
    LET high == Rolling(Column(frame, "high"), period, Highest)
        low == Rolling(Column(frame, "low"), period, Lowest)
    IN  [i \in DOMAIN frame |-> Div(Add(high[i], low[i]), Num(2))]

calc_ichimoku(frame) ==
    LET tenkan == Midpoint(frame, Tenkan)
        kijun == Midpoint(frame, Kijun)
    IN  [tenkan |-> tenkan, kijun |-> kijun,
         senkou_a |-> [i \in DOMAIN frame |-> Div(Add(tenkan[i], kijun[i]), Num(2))],
         senkou_b |-> Midpoint(frame, SenkouB),
         chikou |-> Shift(Column(frame, "close"), -Kijun)]

-----------------------------------------------------------------------------
(* compute_indicators                                                      *)

\* float(p) of each parameter; a parameter that is no number is dropped.
_parse_spec(spec) ==
    [i \in DOMAIN spec |-> [name |-> spec[i].name,
                            params |-> SelectSeq(spec[i].params, LAMBDA p : p # Text)]]

\* The parameter in place i, or the default of the indicator.
Param(token, i, default) == IF i <= Len(token.params) THEN token.params[i] ELSE default

\* The series of one token: pairs of a key and a column.  Names that the
\* engine does not know give none.
SeriesOf(frame, token) ==
    LET close == Column(frame, "close")
        period(default) == Param(token, 1, default)
    IN  CASE token.name = "sma" -> << <<"sma", calc_sma(close, period(3))>> >>
          [] token.name = "ema" -> << <<"ema", calc_ema(close, period(3))>> >>
          [] token.name = "vwap" -> << <<"vwap", calc_vwap(frame)>> >>
          [] token.name \in {"bbands", "bb"} ->
                LET bands == calc_bbands(close, period(3), Param(token, 2, 2))
                IN  << <<"bb_middle", bands.middle>>, <<"bb_width", bands.width>> >>
          [] token.name = "ichimoku" ->
                LET cloud == calc_ichimoku(frame)
                IN  << <<"tenkan", cloud.tenkan>>, <<"kijun", cloud.kijun>>,
                       <<"senkou_a", cloud.senkou_a>>, <<"senkou_b", cloud.senkou_b>>,
                       <<"chikou", cloud.chikou>> >>
          [] token.name = "rsi" -> << <<"rsi", calc_rsi(close, period(2))>> >>
          [] token.name = "macd" ->
                LET macd == calc_macd(close)
                IN  << <<"macd", macd.macd>>, <<"macd_signal", macd.signal>>,
                       <<"macd_hist", macd.histogram>> >>
          [] token.name = "stoch" ->
                LET stoch == calc_stochastic(frame, period(2), Param(token, 2, 2))
                IN  << <<"stoch_k", stoch.k>>, <<"stoch_d", stoch.d>> >>
          [] token.name = "atr" -> << <<"atr", calc_atr(frame, period(2))>> >>
          [] OTHER -> <<>>

\* A series: its key and, for every bar in ascending time, a time and a value.
compute_indicators(bars, spec) ==
    LET frame == candles_to_frame(bars)
        drawn(pair) == [key |-> pair[1], times |-> [i \in DOMAIN frame |-> frame[i].time],
                        values |-> Points(pair[2])]
        series == FlattenSeq([i \in DOMAIN spec |-> SeriesOf(frame, _parse_spec(spec)[i])])
    IN  IF bars = <<>> THEN <<>> ELSE [i \in DOMAIN series |-> drawn(series[i])]

-----------------------------------------------------------------------------
(* Resampling and volume profile                                           *)

Total(bars) == FoldFunction(+, 0, [i \in DOMAIN bars |-> bars[i].volume])
FieldMax(bars, field) == Max({b[field] : b \in ToSet(bars)})
FieldMin(bars, field) == Min({b[field] : b \in ToSet(bars)})

\* A bar of the coarser series: first, max, min, last, sum.
\* Mutant: the volume of the last bar.
Aggregate_LastVolume(label, bars) ==
    [time |-> label, open |-> Head(bars).open, high |-> FieldMax(bars, "high"),
     low |-> FieldMin(bars, "low"), close |-> Last(bars).close, volume |-> Last(bars).volume]

Aggregate(label, bars) ==
    [time |-> label, open |-> Head(bars).open, high |-> FieldMax(bars, "high"),
     low |-> FieldMin(bars, "low"), close |-> Last(bars).close, volume |-> Total(bars)]

\* Left-labelled, left-closed buckets; a bucket without a bar is dropped.
resample_candles(bars, rule) ==
    LET frame == candles_to_frame(bars)
        label(bar) == bar.time - (bar.time % rule)
        labels == SetToSortSeq({label(bar) : bar \in ToSet(frame)}, <)
    IN  [i \in DOMAIN labels |->
            Aggregate(labels[i], SelectSeq(frame, LAMBDA bar : label(bar) = labels[i]))]

\* The level a price falls into; the highest price belongs to the last level.
Level(price, lo, hi, bins) == Min({bins - 1, ((price - lo) * bins) \div (hi - lo)})

\* The volumes of the levels 0 .. bins - 1 and the point of control.
compute_volume_profile(bars, bins) ==
    LET lo == FieldMin(bars, "low")
        hi == FieldMax(bars, "high")
        touched(bar) == Level(bar.low, lo, hi, bins) .. Level(bar.high, lo, hi, bins)
        share(bar, b) == IF b \in touched(bar) THEN Frac(bar.volume, Cardinality(touched(bar))) ELSE Zero
        volumes == [b \in 0 .. bins - 1 |-> SumOf([i \in DOMAIN bars |-> share(bars[i], b)])]
        highest == {b \in 0 .. bins - 1 : \A c \in 0 .. bins - 1 : Leq(volumes[c], volumes[b])}
    IN  CASE bars = <<>> -> [volumes |-> <<>>, poc |-> {}]
          [] bars # <<>> /\ hi <= lo -> [volumes |-> [b \in {0} |-> Num(Total(bars))], poc |-> {0}]
          [] OTHER -> [volumes |-> volumes, poc |-> {Min(highest)}]

-----------------------------------------------------------------------------
(* A chart whose series grows                                              *)

TechInit == candles = <<>>

LastTime == IF candles = <<>> THEN 0 ELSE Last(candles).time

\* The provider adds a bar; an hour without trades has none.
NextBar(shape) ==
    /\ Len(candles) < MaxBars
    /\ candles' = Append(candles, [time |-> LastTime + shape.after] @@ shape)

TechNext == \E shape \in Shapes : NextBar(shape)

TechSpec == TechInit /\ [][TechNext]_techVars

-----------------------------------------------------------------------------
(* Properties                                                              *)

CloseOf(bars) == Column(candles_to_frame(bars), "close")

DefinedFrom(series, first) == \A i \in DOMAIN series : Finite(series[i]) <=> i >= first

\* An indicator has a value exactly from the bar at which its history is long
\* enough: the period for averages, one bar more for what differences need, the
\* slow period plus the signal period for the MACD's signal; RSI is the one
\* that a flat start leaves undefined for longer.
WarmUpExact(bars) ==
    LET close == CloseOf(bars) IN
    /\ DefinedFrom(calc_macd(close).macd, MacdSlow)
    /\ DefinedFrom(calc_macd(close).histogram, MacdSlow + MacdSignal - 1)
    /\ \A p \in 1 .. 3 :
        /\ DefinedFrom(calc_sma(close, p), p)
        /\ DefinedFrom(calc_ema(close, p), p)
        /\ DefinedFrom(calc_atr(bars, p), p)
        /\ p > 1 => \A i \in DOMAIN close :
                Finite(calc_rsi(close, p)[i]) <=> i > p /\ \E j \in 1 .. i : close[j] # close[1]

Between(x, series) == Leq(Lowest(series), x) /\ Leq(x, Highest(series))

\* An average never leaves the range of what it averages: SMA and EMA that of
\* the closes so far, VWAP that of the lows and highs so far.
AveragesWithinRange(bars) ==
    LET close == CloseOf(bars) IN
    \A i \in DOMAIN bars :
        /\ \A p \in 1 .. i : /\ Between(calc_ema(close, p)[i], SubSeq(close, 1, i))
                             /\ Between(calc_sma(close, p)[i], SubSeq(close, i - p + 1, i))
        /\ LET vwap == calc_vwap(bars)[i]
           IN  Finite(vwap) => /\ Leq(Num(FieldMin(SubSeq(bars, 1, i), "low")), vwap)
                               /\ Leq(vwap, Num(FieldMax(SubSeq(bars, 1, i), "high")))

\* RSI and both lines of the stochastic stay within 0 .. 100; RSI is 100
\* exactly when no close has fallen yet.
OscillatorsBounded(bars) ==
    LET close == CloseOf(bars) IN
    \A i \in DOMAIN bars :
        /\ LET rsi == calc_rsi(close, 2)[i]
           IN  Finite(rsi) => /\ Leq(Zero, rsi) /\ Leq(rsi, Num(100))
                              /\ rsi = Num(100) <=> \A j \in 2 .. i : Leq(close[j - 1], close[j])
        /\ \A p \in 1 .. 2, line \in {"k", "d"} :
             LET stoch == calc_stochastic(bars, p, 2)[line][i]
             IN  Finite(stoch) => Leq(Zero, stoch) /\ Leq(stoch, Num(100))

\* Bollinger bands of width k hold all but at most 1/k^2 of the closes of their
\* window (Chebyshev): what makes a close outside of them remarkable.
BandsHoldTheWindow(bars) ==
    LET close == CloseOf(bars) IN
    \A p \in 2 .. 3, k \in 1 .. 2 : \A i \in p .. Len(bars) :
        LET bands == calc_bbands(close, p, k)
            off(j) == Sub(close[j], bands.middle[i])
            outside == {j \in i - p + 1 .. i : Less(bands.width[i], Mul(off(j), off(j)))}
        IN  Cardinality(outside) * k * k <= p

\* No indicator but the Chikou line, which is the close shifted back, ever
\* changes at a bar once a later bar has come: a chart does not repaint.
NoRepaint ==
    [][candles # <<>> =>
        LET old == compute_indicators(candles, Specs)
            new == compute_indicators(candles', Specs)
        IN  \A k \in DOMAIN old : old[k].key # "chikou" => IsPrefix(old[k].values, new[k].values)]_techVars

\* The order in which a provider delivers the candles does not show:
\* newest first gives the same indicators and the same coarser bars.
DeliveryOrderIrrelevant(bars) ==
    /\ compute_indicators(Reverse(bars), Specs) = compute_indicators(bars, Specs)
    /\ resample_candles(Reverse(bars), 2) = resample_candles(bars, 2)

\* Resampling keeps the total volume, the extremes and both ends of the series,
\* and going from hours to four hours by way of two hours changes nothing.
ResampleConserves(bars) ==
    LET coarse == resample_candles(bars, 4)
    IN  /\ resample_candles(resample_candles(bars, 2), 4) = coarse
        /\ Total(coarse) = Total(bars)
        /\ FieldMax(coarse, "high") = FieldMax(bars, "high")
        /\ FieldMin(coarse, "low") = FieldMin(bars, "low")
        /\ Head(coarse).open = Head(bars).open
        /\ Last(coarse).close = Last(bars).close

\* The volume profile hands out every candle's volume, none of it twice, and
\* its point of control is a level with the most volume.
ProfileConservesVolume(bars) ==
    LET profile == compute_volume_profile(bars, Bins)
    IN  /\ SumOf(profile.volumes) = Num(Total(bars))
        /\ \A b \in profile.poc, c \in DOMAIN profile.volumes : Leq(profile.volumes[c], profile.volumes[b])

\* What a chart draws from a series means what its name says, from the bar at
\* which it may be drawn: whichever bar comes.
IndicatorsSound ==
    [][\A bars \in {candles'} \ {<<>>} :
        /\ WarmUpExact(bars) /\ AveragesWithinRange(bars)
        /\ OscillatorsBounded(bars) /\ BandsHoldTheWindow(bars)]_techVars

\* Sorting, resampling and binning neither lose nor invent trades, whichever
\* bar comes.
CandlesConserved ==
    [][\A bars \in {candles'} \ {<<>>} :
        /\ DeliveryOrderIrrelevant(bars) /\ ResampleConserves(bars)
        /\ ProfileConservesVolume(bars)]_techVars
=============================================================================
