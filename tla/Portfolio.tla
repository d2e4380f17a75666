------------------------------ MODULE Portfolio ------------------------------
(***************************************************************************)
(* The account of a backtest: Portfolio with its one Position              *)
(* (compute/backtest/portfolio.py).  Money and quantities are integers: a  *)
(* purchase the cash cannot pay for is cut to whole units.  A position is  *)
(* kept with its basis, avg_price * quantity, so that no average is ever   *)
(* divided.  execute_target_pct has no caller and is left out.             *)
(***************************************************************************)
EXTENDS Integers

Account == [cash : Int, qty : Int, basis : Int, realized : Int]

NewAccount(cash) == [cash |-> cash, qty |-> 0, basis |-> 0, realized |-> 0]

Smaller(a, b) == IF a < b THEN a ELSE b
Larger(a, b) == IF a > b THEN a ELSE b

TotalValue(a, price) == a.cash + a.qty * price

Updated_LossKept(a, cash, q, price, cost) ==  \* mutant: < 0 for <= 0 ends it
  LET left == a.qty + q
      kept == (left > 0 /\ a.qty > 0) \/ (left < 0 /\ a.qty < 0)
      ends == a.qty > 0 /\ left < 0
  IN [cash |-> cash, qty |-> left,
      basis |-> IF kept THEN a.basis + price * q ELSE price * left,
      realized |-> IF ends THEN a.realized + price * a.qty - a.basis - cost
                           ELSE a.realized]

(* update_on_buy with q > 0, update_on_sell with q < 0.  The basis follows *)
(* every trade that keeps the side of the position, sales included; profit *)
(* is realized only by the sale that ends a long position.                 *)
Updated(a, cash, q, price, cost) ==
  LET left == a.qty + q
      kept == (left > 0 /\ a.qty > 0) \/ (left < 0 /\ a.qty < 0)
      ends == a.qty > 0 /\ left <= 0
  IN [cash |-> cash, qty |-> left,
      basis |-> IF kept THEN a.basis + price * q ELSE price * left,
      realized |-> IF ends THEN a.realized + price * a.qty - a.basis - cost
                           ELSE a.realized]

(* What execute_buy buys of a wanted q: a short position is only closed    *)
(* when shorts are not allowed, and a long one only grows by what the cash *)
(* pays for.                                                               *)
Bought(a, q, price, cost, short) ==
  LET wanted == IF ~short /\ a.qty < 0 THEN Smaller(q, -a.qty) ELSE q
      tooDear == a.qty >= 0 /\ wanted * price + cost > a.cash
  IN IF tooDear THEN Larger(0, (a.cash - cost) \div price) ELSE wanted

Buy(a, q, price, cost, short) ==
  LET got == Bought(a, q, price, cost, short)
      cash == IF a.qty >= 0 THEN a.cash - (got * price + cost)
                            ELSE a.cash + got * price - cost
  IN IF q <= 0 \/ got <= 0 THEN a
     ELSE Updated(a, cash, got, price, cost)

Sold_Unclipped(a, q, short) == q  \* mutant: sells more than is held

Sold(a, q, short) ==
  IF ~short /\ a.qty >= 0 THEN Smaller(q, a.qty) ELSE q

(* A sale beyond a long position is booked as a sale of it, one that opens *)
(* or adds to a short position as a payment.                               *)
Sell(a, q, price, cost, short) ==
  LET gone == Sold(a, q, short)
      cash == IF a.qty > 0 THEN a.cash + gone * price - cost
                           ELSE a.cash - (gone * price + cost)
  IN IF q <= 0 \/ gone <= 0 THEN a
     ELSE Updated(a, cash, -gone, price, cost)
=============================================================================
