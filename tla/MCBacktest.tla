------------------------------ MODULE MCBacktest ------------------------------
(***************************************************************************)
(* Three bars of prices that rise, fall or do both, and one of a single    *)
(* bar; every strategy of three steps over nine kinds of step, and one the *)
(* engine refuses; each run with one fee model, another, and the first     *)
(* again, by one object that takes its steps backwards in its second run,  *)
(* or by three.                                                            *)
(***************************************************************************)
EXTENDS Backtest

Bar(o, h, l, c) == [open |-> o, high |-> h, low |-> l, close |-> c]

MCBarSeqs == {
  <<Bar(2, 3, 2, 3), Bar(3, 5, 3, 4), Bar(5, 6, 4, 6)>>,
  <<Bar(4, 5, 3, 3), Bar(3, 3, 2, 2), Bar(2, 4, 1, 4)>>,
  <<Bar(4, 4, 3, 4)>> }

MCOrders == {
  Hold,
  [side |-> "buy", quantity |-> 1], [side |-> "buy", strength |-> 100],
  [side |-> "buy", strength |-> 50],
  [side |-> "sell", quantity |-> 1], [side |-> "sell", quantity |-> 4],
  [side |-> "sell", strength |-> 100],
  [side |-> "raise"], [side |-> "ComputeError"] }

MCFillModels == {
  [name |-> "next_open", slippage |-> 0],
  [name |-> "intrabar_fill", slippage |-> 50],
  [name |-> "next_close", slippage |-> 0],
  [name |-> "this_close", slippage |-> 0] }

Fees == { [rate |-> 0, min |-> 0, max |-> 99], [rate |-> 50, min |-> 1, max |-> 4] }

(* An object that does s and its reverse by turns.                         *)
Cell3(o, s, f) == [object |-> o, fee |-> f,
                   life |-> IF s = Invalid THEN Invalid ELSE <<s, Reverse(s), s>>]

(* One object under fee models f, g and f again (batch_backtest), or three *)
(* new ones (grid_search).                                                 *)
MCCellSeqs ==
  { <<Cell3(o[1], s, f), Cell3(o[2], s, g), Cell3(o[3], s, f)>> :
      s \in [1 .. 3 -> Orders] \cup {Invalid}, f \in Fees, g \in Fees,
      o \in {<<1, 1, 1>>, <<1, 2, 3>>} }
=============================================================================
