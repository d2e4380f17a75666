----------------------------- MODULE MCAlgorithms -----------------------------
(***************************************************************************)
(* The pure parts, one case after another: a case of Shard is submitted,   *)
(* any other is a record with the inputs of one algorithm.                 *)
(***************************************************************************)
EXTENDS MCShard, Indicators, Windows, Wire

CONSTANTS
  Bars,      \* how many bars the prices of an indicator have
  Holes,     \* bound: bars without a price
  Lookback,  \* bound: windows of an indicator
  Rows,      \* bound: rows to be cut into windows
  Longest    \* bound: their lengths, numbers and steps

ASSUME AlgorithmsAssumption ==
  {Bars, Holes, Lookback, Rows, Longest} \subseteq Nat

VARIABLE case

caseVars == <<vars, case>>

None == [of |-> "shard"]

(* Prices that some bars lack, in one column or in all.                    *)
IndicatorCases ==
  [of : {"indicator"}, name : Registry, window : 1 .. Lookback,
   missing : {m \in SUBSET (1 .. Bars) : Cardinality(m) <= Holes}, all : BOOLEAN]

WindowCases ==
  [of : {"window"}, n : 0 .. Rows, a : 1 .. Longest, b : 1 .. Longest,
   step : 0 .. Longest]

EnvelopeCases ==
  [of : {"envelope"}, envelope : Envelope, client : BOOLEAN,
   server : BOOLEAN, answer : Payload]

TaskCases ==
  {[of |-> "task", dict |-> [[Usual EXCEPT ![f] = k] EXCEPT ![g] = j]]
     : f \in Fields, g \in Fields, k \in Kinds, j \in Kinds}

MCInit ==
  \/ Init /\ case = None
  \/ /\ spec = Blank /\ submitted = TRUE /\ slices = <<Blank>>
     /\ case \in IndicatorCases \cup WindowCases \cup EnvelopeCases \cup TaskCases

MCNext == Submit /\ UNCHANGED case

MCSpec == MCInit /\ [][MCNext]_caseVars

-----------------------------------------------------------------------------
(* Properties of the cases.                                                *)

PricesOf(c, n) ==
  LET whole == Prices(n, {})
      holes == Prices(n, c.missing \cap 1 .. n)
  IN  [close |-> holes, high |-> IF c.all THEN holes ELSE whole,
       low |-> IF c.all THEN holes ELSE whole]

(* No indicator looks ahead: its cell for a bar is made of that bar and    *)
(* earlier ones, and is the same - NaN or not - when the later bars are    *)
(* not yet there, so that a strategy may precompute it on all the data.    *)
NoLookAhead ==
  case.of = "indicator" =>
    LET columns(n) == Compute(case.name, PricesOf(case, n), case.window)
    IN  \A t \in 1 .. Bars : \A k \in DOMAIN columns(Bars) :
          /\ columns(Bars)[k][t].reads \subseteq 1 .. t
          /\ columns(t)[k][t] = columns(Bars)[k][t]

(* The windows the runners and estimators cut fit the data they are cut    *)
(* from: a model or strategy is only tested on rows after those it was     *)
(* trained on, no row is tested twice (unless the steps are shorter than   *)
(* the tests) and the rows left over are fewer than a window; R/S chunks   *)
(* of one size and ordinal patterns are full and inside the data.          *)
WindowsFit ==
  case.of = "window" =>
    LET n == case.n
        forward == WalkForward(n, case.a, case.b, case.step)
        by == StepOf(case.step, case.b)
        folds == Folds(n, case.b, case.a)
    IN  /\ IF by >= case.b THEN Fit(forward, n)
                           ELSE \A i \in DOMAIN forward : Fit(<<forward[i]>>, n)
        /\ case.step = 0 => LeavesFewerThan(case.b, forward, n)
        /\ Fit(folds, n) /\ LeavesFewerThan(case.b + 1, folds, n)
        /\ \A size \in RangeSizes(n) : \A chunk \in RangeChunks(n, size) :
             chunk \subseteq 0 .. n - 1 /\ Cardinality(chunk) = size
        /\ \A i \in PatternStarts(n, case.a, case.b) :
             Cardinality(Pattern(n, i, case.a, case.b)) = case.a

(* A message arrives as it was sent, and the task in it as it was accepted *)
(* (see EnvelopeArrives and TaskArrives of module Wire).                   *)
MessageArrives ==
  /\ case.of = "envelope" =>
       EnvelopeArrives(case.envelope, case.client, case.server, case.answer)
  /\ case.of = "task" => TaskArrives(case.dict)
=============================================================================
