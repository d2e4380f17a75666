------------------------------- MODULE MCShard -------------------------------
(***************************************************************************)
(* Instances of Shard for TLC: every way of splitting, with 1 to 4         *)
(* workers, grids of up to 4 by 3, 3 strategies with up to 3 fee models    *)
(* and up to 12 simulations.                                               *)
(***************************************************************************)
EXTENDS Shard

MCWorkers == 0 .. 4

Blank == [id |-> 0, split |-> "param_wise", type |-> "indicator",
          workers |-> 0, grid |-> <<>>, strategies |-> <<>>, fees |-> <<>>,
          n |-> 1000, seed |-> 0, symbols |-> <<"BTC">>]

Column(n) == [i \in 1 .. n |-> i]

Grids ==
  { [Blank EXCEPT !.type = "grid_search", !.workers = w,
                  !.grid = <<Column(a)>>]
    : w \in MCWorkers, a \in 0 .. 9 }
  \cup
  { [Blank EXCEPT !.type = "grid_search", !.workers = w,
                  !.grid = <<Column(a), Column(b)>>]
    : w \in MCWorkers, a \in 1 .. 4, b \in 1 .. 3 }

Batches ==
  { [Blank EXCEPT !.type = "batch_backtest", !.workers = w,
                  !.strategies = Column(a), !.fees = SubSeq(<<"F1", "F2", "F3">>, 1, b)]
    : w \in MCWorkers, a \in 1 .. 3, b \in 0 .. 3 }

Simulations ==
  { [Blank EXCEPT !.type = "monte_carlo", !.workers = w, !.n = n, !.seed = 7]
    : w \in MCWorkers, n \in 0 .. 12 }

BySymbol ==
  { [Blank EXCEPT !.split = "symbol_wise", !.symbols = SubSeq(<<"BTC", "ETH", "LTC">>, 1, n)]
    : n \in 0 .. 3 }

Others ==
  { [Blank EXCEPT !.split = split, !.type = type, !.grid = <<Column(2)>>]
    : split \in {"none", "auto", "param_wise", "time_wise"},
      type \in {"indicator", "grid_search"} }

MCSpecs == Grids \cup Batches \cup Simulations \cup BySymbol \cup Others
=============================================================================
