------------------------------ MODULE Indicators ------------------------------
(***************************************************************************)
(* The indicators of compute_engine/registry.py, by what they read.        *)
(*                                                                         *)
(* A series has a cell for every bar.  A cell says which bars' prices its  *)
(* value is made from (reads) and whether it is NaN because data are       *)
(* missing or do not reach back far enough (nan).  What the numbers are,   *)
(* and the NaN of a division by zero, are left out; an indicator with      *)
(* several columns is the sequence of its columns.                         *)
(***************************************************************************)
EXTENDS Integers, Sequences, FiniteSetsExt

(* A column of the data, the bars in missing having no price.              *)
Prices(n, missing) ==
  [t \in 1 .. n |-> [reads |-> {t}, nan |-> t \in missing]]

Absent == [reads |-> {}, nan |-> TRUE]

-----------------------------------------------------------------------------
(* The pandas operations the indicators are made of.                       *)

(* An elementwise expression of two series.                                *)
With(a, b) ==
  [t \in DOMAIN a |-> [reads |-> a[t].reads \cup b[t].reads,
                       nan   |-> a[t].nan \/ b[t].nan]]

(* s.shift(k)                                                              *)
Shift(s, k) ==
  [t \in DOMAIN s |-> IF t - k \in DOMAIN s THEN s[t - k] ELSE Absent]

(* s.diff(), s.pct_change()                                                *)
Diff(s) == With(s, Shift(s, 1))

(* s.rolling(w): NaN unless there are w cells, none of them NaN.           *)
Rolling(s, w) ==
  [t \in DOMAIN s |->
     LET window == {u \in DOMAIN s : t - w < u /\ u <= t}
     IN  [reads |-> UNION {s[u].reads : u \in window},
          nan   |-> t < w \/ \E u \in window : s[u].nan]]

(* s.ewm(adjust=False).mean(): starts at the first cell that is not NaN    *)
(* and carries over those that are.                                        *)
Ewm(s) ==
  [t \in DOMAIN s |->
     [reads |-> UNION {s[u].reads : u \in {v \in DOMAIN s : v <= t}},
      nan   |-> \A u \in DOMAIN s : u <= t => s[u].nan]]

(* pd.concat(columns, axis=1).max(axis=1), which skips NaN.                *)
MaxOf(a, b) ==
  [t \in DOMAIN a |-> [reads |-> a[t].reads \cup b[t].reads,
                       nan   |-> a[t].nan /\ b[t].nan]]

(* s.where(condition on s, 0.0): a NaN fails the condition.                *)
Where(s) == [t \in DOMAIN s |-> [s[t] EXCEPT !.nan = FALSE]]

TrueRange(high, low, close) ==
  LET before == Shift(close, 1)
  IN  MaxOf(With(high, low), MaxOf(With(high, before), With(low, before)))

-----------------------------------------------------------------------------
(* Trend.                                                                  *)

Ma(s, w) == Rolling(s, w)  \* and wma

Ema(s) == Ewm(s)

Dema(s) == With(Ewm(s), Ewm(Ewm(s)))

Tema(s) == With(Dema(s), Ewm(Ewm(Ewm(s))))

Trix(s) == Diff(Ewm(Ewm(Ewm(s))))

Isqrt(n) == Max({k \in 0 .. n : k * k <= n})

Hma(s, w) == Rolling(With(Rolling(s, Max({1, w \div 2})), Rolling(s, w)),
                     Max({1, Isqrt(w)}))

Macd(s, signal) ==
  LET line == With(Ewm(s), Ewm(s))
  IN  <<line, Ewm(line), With(line, Ewm(line))>>

(* Comparing two directional movements leaves the NaN of either alone.     *)
Adx(high, low, close) ==
  LET atr  == Ewm(TrueRange(high, low, close))
      Moved(a, b) == [t \in DOMAIN a |->
                        [a[t] EXCEPT !.reads = @ \cup b[t].reads]]
      plus  == Moved(Diff(high), Diff(low))
      minus == Moved(Diff(low), Diff(high))
  IN  Ewm(With(With(Ewm(plus), atr), With(Ewm(minus), atr)))

Dpo_Centred(s, w) ==  \* mutant: the average is moved back, not the price
  With(s, Shift(Rolling(s, w), -((w \div 2) + 1)))
Dpo(s, w) == With(s, Rolling(Shift(s, (w \div 2) + 1), w))

(* Oscillators.  The first average loss is 0, and made NaN.                *)

Rsi(s) ==
  LET moves == Ewm(Where(Diff(s)))
      Still(t) == \A u \in 1 .. t : Diff(s)[u].nan
  IN  [t \in DOMAIN s |-> [moves[t] EXCEPT !.nan = @ \/ Still(t)]]

Raw(high, low, close, w) == With(close, With(Rolling(low, w), Rolling(high, w)))

Kd(high, low, close, w) ==
  LET k == Ewm(Raw(high, low, close, w))
  IN  <<k, Ewm(k), With(k, Ewm(k))>>

Cci(high, low, close, w) ==
  LET tp == With(high, With(low, close)) IN With(tp, Rolling(tp, w))

(* Volatility and statistics.                                              *)

Bands(middle, width) == <<With(middle, width), middle, With(middle, width)>>

Bollinger(s, w) ==
  LET middle == Rolling(s, w)
      sd == Rolling(s, w)
  IN  Append(Bands(middle, sd), With(sd, middle))

Atr(high, low, close) == Ewm(TrueRange(high, low, close))

Keltner(high, low, close) == Bands(Ewm(close), Atr(high, low, close))

Donchian(high, low, w) ==
  <<Rolling(high, w), With(Rolling(high, w), Rolling(low, w)), Rolling(low, w)>>

(* Of two series a window needs pairs; beta also needs the second alone.   *)
Corr(x, y, w) == Rolling(With(x, y), w)

Beta(asset, market, w) == With(Corr(asset, market, w), Rolling(market, w))

ZScore(s, w) == With(s, With(Rolling(s, w), Rolling(s, w)))

-----------------------------------------------------------------------------
(* IndicatorRegistry: the columns an indicator gives for prices p, a       *)
(* record of the columns high, low and close, and a window.                *)
Registry == {"ma", "ema", "dema", "tema", "hma", "macd", "adx", "dpo", "trix",
             "rsi", "kd", "williams_r", "cci", "bollinger", "atr", "keltner",
             "donchian", "rolling_corr", "rolling_beta", "zscore"}

(* sma, stddev, rolling_mean, rolling_std and percentile read what ma does,*)
(* and stoch what kd.                                                      *)
Compute(name, p, w) ==
  CASE name = "ma"           -> <<Ma(p.close, w)>>
    [] name = "ema"          -> <<Ema(p.close)>>
    [] name = "dema"         -> <<Dema(p.close)>>
    [] name = "tema"         -> <<Tema(p.close)>>
    [] name = "hma"          -> <<Hma(p.close, w)>>
    [] name = "macd"         -> Macd(p.close, w)
    [] name = "adx"          -> <<Adx(p.high, p.low, p.close)>>
    [] name = "dpo"          -> <<Dpo(p.close, w)>>
    [] name = "trix"         -> <<Trix(p.close)>>
    [] name = "rsi"          -> <<Rsi(p.close)>>
    [] name = "kd"           -> Kd(p.high, p.low, p.close, w)
    [] name = "williams_r"   -> <<Raw(p.high, p.low, p.close, w)>>
    [] name = "cci"          -> <<Cci(p.high, p.low, p.close, w)>>
    [] name = "bollinger"    -> Bollinger(p.close, w)
    [] name = "atr"          -> <<Atr(p.high, p.low, p.close)>>
    [] name = "keltner"      -> Keltner(p.high, p.low, p.close)
    [] name = "donchian"     -> Donchian(p.high, p.low, w)
    [] name = "rolling_corr" -> <<Corr(p.close, p.high, w)>>
    [] name = "rolling_beta" -> <<Beta(p.close, p.high, w)>>
    [] name = "zscore"       -> <<ZScore(p.close, w)>>
=============================================================================
