------------------------------- MODULE Backtest -------------------------------
(***************************************************************************)
(* BacktestEngine.run with its broker, fill model, cost model and metrics, *)
(* and the runners that call it for one cell after another: batch_backtest *)
(* (strategies by fee models), grid_search (parameters), or a caller that  *)
(* runs one engine again.  Rates are percentages and prices integers.      *)
(*                                                                         *)
(* A strategy is an object with a life: the sequence of what it does in    *)
(* its first run, its second and so on, each a sequence of what it does at *)
(* each bar (it may raise).  It sees the data and the context, never the   *)
(* account or the fees, so that is all an object that keeps state between  *)
(* runs can do.  batch_backtest runs one object under every fee model,     *)
(* grid_search makes a new one for every cell.                             *)
(***************************************************************************)
EXTENDS Sequences, SequencesExt, Portfolio

CONSTANTS
  BarSeqs,     \* the price data: sequences of [open, high, low, close]
  Orders,      \* what a strategy may return at a bar
  FillModels,  \* [name, slippage]
  Objects,     \* strategy objects
  CellSeqs,    \* sequences of [object, life, fee]; a fee is [rate, min, max]
  InitialCash

Bars == [open : Nat \ {0}, high : Nat \ {0}, low : Nat \ {0}, close : Nat \ {0}]
Cells == [object : Objects, life : Seq(Seq(Orders)),
          fee : [rate : Nat, min : Nat, max : Nat]]

Invalid == <<>>  \* for a life: no strategy, the engine's constructor refuses it

(* Positive prices, slippage below 100 %, quantities and strengths that    *)
(* are numbers; an object has one life, that tells of every run and bar.   *)
ASSUME BacktestAssumption ==
  /\ InitialCash \in Nat \ {0}
  /\ \A series \in BarSeqs : series # <<>> /\ series \in Seq(Bars)
  /\ \A model \in FillModels : model.slippage \in 0 .. 99
  /\ \A order \in Orders : order.side \in {"buy", "sell"} =>
       IF "quantity" \in DOMAIN order THEN order.quantity \in Int
                                      ELSE order.strength \in Int
  /\ \A sequence \in CellSeqs : sequence \in Seq(Cells)
  /\ \A sequence \in CellSeqs : \A i, j \in DOMAIN sequence :
       sequence[i].object = sequence[j].object =>
         sequence[i].life = sequence[j].life
  /\ \A sequence \in CellSeqs, series \in BarSeqs : \A i \in DOMAIN sequence :
       LET life == sequence[i].life
       IN  life # Invalid => /\ Len(life) >= Len(sequence)
                             /\ \A k \in DOMAIN life :
                                  Len(life[k]) >= Len(series)

VARIABLES
  bars, fill, short, cells,  \* arguments of the call
  bar,      \* the bar the engine is at, 0 between two runs
  account,  \* Portfolio
  trades,   \* Broker._trades
  points,   \* equity_points
  rows,     \* one result for each cell that has been run
  memory,   \* what the objects keep: how many runs each has begun
  asked,    \* for each run begun, what its strategy does at each bar
  fees      \* fees that no realized profit accounts for (history variable)

args == <<bars, fill, short, cells>>
objVars == <<memory, asked>>
vars == <<args, bar, account, trades, points, rows, objVars, fees>>

Hold == [side |-> "hold"]

Init ==
  /\ bars \in BarSeqs /\ fill \in FillModels /\ short \in BOOLEAN
  /\ cells \in CellSeqs
  /\ bar = 0 /\ account = NewAccount(InitialCash)
  /\ trades = <<>> /\ points = <<>> /\ rows = <<>> /\ fees = 0
  /\ memory = [o \in Objects |-> 0] /\ asked = <<>>

(* The cell that is run, or comes next, and what its strategy does.        *)
Cell == cells[Len(rows) + 1]
Steps == asked[Len(rows) + 1]

-----------------------------------------------------------------------------
(* FillModel, CostModel and the size of an order.                          *)

FillPrice(i, side) ==
  LET now == bars[i]
      next == IF i < Len(bars) THEN bars[i + 1] ELSE now
      price == IF i = Len(bars) THEN now.close
               ELSE CASE fill.name = "next_open" -> next.open
                      [] fill.name = "next_close" -> next.close
                      [] fill.name = "intrabar_fill" ->
                           (next.high + next.low + next.close) \div 3
                      [] OTHER -> now.close
      slip == (fill.slippage * price) \div 100
  IN IF side = "buy" THEN price + slip ELSE price - slip

Cost(quantity, price) ==
  Larger(Cell.fee.min,
         Smaller((quantity * price * Cell.fee.rate) \div 100, Cell.fee.max))

(* Signed: an order without a quantity is a share of the equity.           *)
OrderQty(order, price, equity) ==
  LET size == IF "quantity" \in DOMAIN order THEN order.quantity
              ELSE (equity * order.strength) \div (price * 100)
  IN IF order.side = "buy" THEN size ELSE -size

-----------------------------------------------------------------------------
(* run.                                                                    *)

Reset_Cash(a) == [a EXCEPT !.cash = InitialCash]  \* mutant: positions stay

(* Portfolio.reset drops the positions, and their profits with them.       *)
Reset(a) == NewAccount(InitialCash)

(* on_init tells the object of a run; it keeps what it kept (StrategyBase  *)
(* has nothing that resets it).                                            *)
Begin ==
  /\ bar = 0 /\ Len(rows) < Len(cells)
  /\ Cell.life # Invalid
  /\ bar' = 1
  /\ memory' = [memory EXCEPT ![Cell.object] = @ + 1]
  /\ asked' = Append(asked, Cell.life[memory'[Cell.object]])
  /\ account' = Reset(account)
  /\ trades' = <<>> /\ points' = <<>> /\ fees' = 0
  /\ UNCHANGED <<args, rows>>

Equity(a) == TotalValue(a, bars[bar].close)

Drawdown_NoPeak(equity) == <<equity - InitialCash, InitialCash>>  \* mutant

(* The fall from the highest of the earlier points and the initial cash,   *)
(* as a numerator and a denominator.                                       *)
Drawdown(equity) ==
  LET seen == {points[i].equity : i \in DOMAIN points} \cup {InitialCash}
      peak == CHOOSE p \in seen : \A q \in seen : q <= p
  IN <<equity - peak, peak>>

Point(a) == [equity |-> Equity(a), cash |-> a.cash,
             drawdown |-> Drawdown(Equity(a))]

(* The strategy holds.                                                     *)
HoldBar ==
  /\ bar \in DOMAIN bars
  /\ Steps[bar] = Hold
  /\ points' = Append(points, Point(account))
  /\ bar' = bar + 1
  /\ UNCHANGED <<args, account, trades, rows, objVars, fees>>

(* The fees the realized profit leaves out: all but that of the trade that *)
(* ends a long position.                                                   *)
Unbooked(a, b, cost) ==
  IF a = b \/ (a.qty > 0 /\ b.qty <= 0) THEN 0 ELSE cost

(* The strategy orders: execute_signal fills the order, or part of it, or  *)
(* nothing, and logs it as it was asked for.                               *)
TradeBar ==
  /\ bar \in DOMAIN bars
  /\ Steps[bar].side \in {"buy", "sell"}
  /\ LET order == Steps[bar]
         price == FillPrice(bar, order.side)
         signed == OrderQty(order, price, Equity(account))
         size == IF signed > 0 THEN signed ELSE -signed
         cost == Cost(size, price)
     IN /\ account' = IF signed > 0 THEN Buy(account, size, price, cost, short)
                                    ELSE Sell(account, size, price, cost, short)
        /\ trades' = Append(trades, [side |-> order.side, quantity |-> size,
                                     price |-> price, cost |-> cost])
        /\ fees' = fees + Unbooked(account, account', cost)
  /\ points' = Append(points, Point(account'))
  /\ bar' = bar + 1
  /\ UNCHANGED <<args, rows, objVars>>

-----------------------------------------------------------------------------
(* The end of a run, and its metrics.                                      *)

(* _compute_trade_pnls: the first buy after a paired sale is set against   *)
(* the next sale, with the sale's quantity; other orders count for nothing. *)
Paired(state, t) ==
  IF t.side = "buy"
  THEN IF state.open = Hold THEN [state EXCEPT !.open = t] ELSE state
  ELSE IF state.open = Hold THEN state
  ELSE [open |-> Hold,
        pnls |-> Append(state.pnls, (t.price - state.open.price) * t.quantity
                                      - t.cost - state.open.cost)]

Pnls(log) == FoldLeft(Paired, [open |-> Hold, pnls |-> <<>>], log).pnls

(* The falls of which max_drawdown is the worst: from the highest point so *)
(* far, the initial cash not counted.                                      *)
Falls(curve) ==
  LET Peaks(i) == {j \in 1 .. i :
                     \A k \in 1 .. i : curve[k].equity <= curve[j].equity}
  IN UNION {{<<curve[i].equity - curve[j].equity, curve[j].equity>> :
               j \in Peaks(i)} : i \in DOMAIN curve}

NoMetrics == [final |-> 0, nTrades |-> 0, pnls |-> <<>>]

(* With a single bar there are no returns, and no other metrics.           *)
Metrics ==
  LET final == points[Len(points)].equity
  IN IF Len(points) = 1 THEN [NoMetrics EXCEPT !.final = final]
     ELSE [final |-> final, nTrades |-> Len(trades), pnls |-> Pnls(trades)]

Ends(status, log, curve, metrics) ==
  /\ rows' = Append(rows, [status |-> status, trades |-> log, curve |-> curve,
                           metrics |-> metrics])
  /\ bar' = 0
  /\ UNCHANGED <<args, account, trades, points, objVars, fees>>

Finish == bar = Len(bars) + 1 /\ Ends("ok", trades, points, Metrics)

(* The strategy raises: an error with the trades so far and no curve, or   *)
(* the ComputeError itself, of which a runner makes a row without either.  *)
Raise ==
  /\ bar \in DOMAIN bars
  /\ \/ Steps[bar].side = "raise" /\ Ends("error", trades, <<>>, NoMetrics)
     \/ Steps[bar].side = "ComputeError" /\ Ends("raised", <<>>, <<>>, NoMetrics)

(* The constructor refuses the strategy; nothing is run.                   *)
Refuse ==
  /\ bar = 0 /\ Len(rows) < Len(cells)
  /\ Cell.life = Invalid
  /\ rows' = Append(rows, [status |-> "refused", trades |-> <<>>,
                           curve |-> <<>>, metrics |-> NoMetrics])
  /\ asked' = Append(asked, Invalid)
  /\ UNCHANGED <<args, bar, account, trades, points, memory, fees>>

Next == Begin \/ HoldBar \/ TradeBar \/ Finish \/ Raise \/ Refuse

Spec == Init /\ [][Next]_vars

-----------------------------------------------------------------------------
(* Properties.                                                             *)

TypeOK ==
  /\ bars \in BarSeqs /\ fill \in FillModels /\ short \in BOOLEAN
  /\ cells \in CellSeqs
  /\ bar \in 0 .. Len(bars) + 1
  /\ account \in Account
  /\ memory \in [Objects -> Nat]
  /\ asked \in Seq(Seq(Orders))
  /\ fees \in Int

(* Unless shorts are allowed no sequence of orders, whatever their sizes,  *)
(* makes the position negative (the clips of execute_buy and execute_sell). *)
LongOnly == ~short => account.qty >= 0

(* Of a long-only account, what is in the cash and in the position is what *)
(* there was at first, the realized profit, and the fees not in it: a      *)
(* clipped or refused order moves both or neither (execute_buy,            *)
(* execute_sell, update_on_buy).                                           *)
PnlReconciles ==
  ~short => account.cash + account.basis = InitialCash + account.realized - fees

(* Two runs in which the strategies did the same, under the same fees, end *)
(* in the same row, whatever ran in between, failed or not: the portfolio, *)
(* the broker and its trades hand nothing on (run resets them, and the     *)
(* result has its own copy of the trades), so that the one thing that can  *)
(* make a row depend on the order of the cells, or on the slice a cell is  *)
(* in, is what a strategy object that is shared by cells keeps itself.     *)
SameOrdersSameRow ==
  \A i, j \in DOMAIN rows :
    asked[i] = asked[j] /\ cells[i].fee = cells[j].fee => rows[i] = rows[j]

(* The two drawdowns of a result, that of each point (run) and the maximum *)
(* of the metrics (calculate_metrics), have different peaks; still no fall *)
(* in the metrics is deeper than the deepest of the points.                *)
DrawdownsAgree ==
  \A i \in DOMAIN rows :
    LET curve == rows[i].curve
        drawdowns == {curve[k].drawdown : k \in DOMAIN curve}
    IN (\A k \in DOMAIN curve : curve[k].equity > 0) =>
         \A f \in Falls(curve) : f[1] < 0 =>
           \E d \in drawdowns : d[1] * f[2] <= f[1] * d[2]
=============================================================================
