--------------------------- MODULE BacktestProofs ---------------------------
(***************************************************************************)
(* Proofs about Portfolio and Backtest for all prices, fees, slippages,    *)
(* orders and numbers of cells, which the assumption of Backtest bounds by *)
(* nothing but their signs.                                                *)
(*                                                                         *)
(* BacktestInv is inductive.  The account adds up only because a position  *)
(* without units has no basis (NothingHasNoBasis): a purchase that opens a *)
(* position replaces the basis where one that adds to it increases it.     *)
(* RunInv gives a run the history that its fees and what the strategy does *)
(* in it determine (Played), and nothing else, and CurveInv relates the    *)
(* peak the engine keeps to the peaks the metrics find later.              *)
(***************************************************************************)
EXTENDS Backtest, WellFoundedInduction, TLAPS

(* A position without units has cost nothing.                              *)
NothingHasNoBasis(a) == a.qty = 0 => a.basis = 0

(* What an account without shorts is at any time.                          *)
Held(a) == a.qty >= 0 /\ NothingHasNoBasis(a)

(* What an account is worth at its basis, less the profit realized so far. *)
Capital(a) == a.cash + a.basis - a.realized

-----------------------------------------------------------------------------
(* Portfolio.                                                              *)

(* update_on_buy and update_on_sell of an account of integers.             *)
LEMMA UpdateKeepsAccount ==
  ASSUME NEW a \in Account, NEW cash \in Int, NEW q \in Int,
         NEW price \in Int, NEW cost \in Int
  PROVE  Updated(a, cash, q, price, cost) \in Account
<1>1. a.qty \in Int /\ a.basis \in Int /\ a.realized \in Int
  BY DEF Account
<1>2. price * q \in Int /\ price * (a.qty + q) \in Int /\ price * a.qty \in Int
  BY <1>1
<1> QED
  BY <1>1, <1>2 DEF Updated, Account

(* How much an order fills is an integer.                                  *)
LEMMA FillsAreIntegers ==
  ASSUME NEW a \in Account, NEW q \in Int, NEW price \in Nat \ {0},
         NEW cost \in Int, NEW allowed \in BOOLEAN
  PROVE  Bought(a, q, price, cost, allowed) \in Int /\ Sold(a, q, allowed) \in Int
<1>1. a.cash \in Int /\ a.qty \in Int
  BY DEF Account
<1>2. (a.cash - cost) \div price \in Int
  BY <1>1
<1> QED
  BY <1>1, <1>2 DEF Bought, Sold, Smaller, Larger

(* With or without shorts an order leaves integers in the account.         *)
LEMMA OrderKeepsAccount ==
  ASSUME NEW a \in Account, NEW q \in Int, NEW price \in Nat \ {0},
         NEW cost \in Int, NEW allowed \in BOOLEAN
  PROVE  /\ Buy(a, q, price, cost, allowed) \in Account
         /\ Sell(a, q, price, cost, allowed) \in Account
<1>1. a.cash \in Int
  BY DEF Account
<1> DEFINE got == Bought(a, q, price, cost, allowed)
           gone == Sold(a, q, allowed)
<1>2. got \in Int /\ gone \in Int /\ -gone \in Int
  BY FillsAreIntegers
<1> HIDE DEF got, gone
<1>3. got * price \in Int /\ gone * price \in Int
  BY <1>2
<1>4. /\ a.cash - (got * price + cost) \in Int /\ a.cash + got * price - cost \in Int
      /\ a.cash + gone * price - cost \in Int /\ a.cash - (gone * price + cost) \in Int
  BY <1>1, <1>3
<1>5. Buy(a, q, price, cost, allowed) \in Account
  BY <1>2, <1>4, UpdateKeepsAccount DEF Buy, got
<1>6. Sell(a, q, price, cost, allowed) \in Account
  BY <1>2, <1>4, UpdateKeepsAccount DEF Sell, gone
<1> QED
  BY <1>5, <1>6

(* execute_buy of a long-only account: it stays one, and pays the cost out *)
(* of its capital, unless nothing is bought.                               *)
LEMMA BuyKeepsBooks ==
  ASSUME NEW a \in Account, NEW q \in Int, NEW price \in Nat \ {0},
         NEW cost \in Int, Held(a)
  PROVE  LET b == Buy(a, q, price, cost, FALSE)
         IN  Held(b) /\ Capital(b) = Capital(a) - Unbooked(a, b, cost)
<1> DEFINE got == Bought(a, q, price, cost, FALSE)
           b == Buy(a, q, price, cost, FALSE)
           paid == price * got
<1> SUFFICES Held(b) /\ Capital(b) = Capital(a) - Unbooked(a, b, cost)
  OBVIOUS
<1> HIDE DEF got, b, paid
<1>1. a.cash \in Int /\ a.qty \in Int /\ a.basis \in Int /\ a.realized \in Int
  BY DEF Account
<1>2. got \in Int
  BY FillsAreIntegers DEF got
<1>3. CASE q <= 0 \/ got <= 0
  <2>1. b = a
    BY <1>3 DEF Buy, b, got
  <2> QED
    BY <1>1, <2>1 DEF Unbooked, Capital
<1>4. CASE ~(q <= 0 \/ got <= 0)
  <2>1. b = Updated(a, a.cash - (got * price + cost), got, price, cost)
    BY <1>4 DEF Buy, Held, b, got
  <2>2. /\ paid \in Int /\ got * price = paid
        /\ a.qty = 0 => price * (a.qty + got) = paid
    BY <1>1, <1>2 DEF paid
  <2>3. a.qty + got > 0 /\ a.qty >= 0 /\ got > 0
    BY <1>1, <1>2, <1>4 DEF Held
  <2>4. b = [cash |-> a.cash - (paid + cost), qty |-> a.qty + got,
             basis |-> a.basis + paid, realized |-> a.realized]
    <3>1. CASE a.qty = 0
      BY <1>1, <1>2, <2>1, <2>2, <2>3, <3>1
         DEF Updated, Held, NothingHasNoBasis
    <3>2. CASE a.qty # 0
      BY <1>1, <1>2, <2>1, <2>2, <2>3, <3>2 DEF Updated, paid
    <3> QED
      BY <3>1, <3>2
  <2>5. Unbooked(a, b, cost) = cost
    BY <1>1, <1>2, <2>3, <2>4 DEF Unbooked
  <2> QED
    BY <1>1, <1>2, <2>2, <2>3, <2>4, <2>5
       DEF Capital, Held, NothingHasNoBasis
<1> QED
  BY <1>2, <1>3, <1>4

(* execute_sell of a long-only account sells no more than it has, and      *)
(* realizes the profit of the whole position with its last unit.           *)
LEMMA SellKeepsBooks ==
  ASSUME NEW a \in Account, NEW q \in Int, NEW price \in Nat \ {0},
         NEW cost \in Int, Held(a)
  PROVE  LET b == Sell(a, q, price, cost, FALSE)
         IN  Held(b) /\ Capital(b) = Capital(a) - Unbooked(a, b, cost)
<1> DEFINE gone == Sold(a, q, FALSE)
           b == Sell(a, q, price, cost, FALSE)
           taken == price * gone
           left == a.qty - gone
<1> SUFFICES Held(b) /\ Capital(b) = Capital(a) - Unbooked(a, b, cost)
  OBVIOUS
<1> HIDE DEF gone, b, taken, left
<1>1. a.cash \in Int /\ a.qty \in Int /\ a.basis \in Int /\ a.realized \in Int
  BY DEF Account
<1>2. gone \in Int /\ gone <= a.qty
  BY <1>1 DEF Sold, Smaller, Held, gone
<1>3. CASE q <= 0 \/ gone <= 0
  <2>1. b = a
    BY <1>3 DEF Sell, b, gone
  <2> QED
    BY <1>1, <2>1 DEF Unbooked, Capital
<1>4. CASE ~(q <= 0 \/ gone <= 0)
  <2>1. gone > 0 /\ a.qty > 0
    BY <1>1, <1>2, <1>4
  <2>2. b = Updated(a, a.cash + gone * price - cost, -gone, price, cost)
    BY <1>4, <2>1 DEF Sell, b, gone
  <2>3. /\ taken \in Int /\ gone * price = taken /\ price * (-gone) = -taken
        /\ left \in Int /\ left >= 0 /\ left = a.qty + (-gone)
        /\ left = 0 => price * a.qty = taken /\ price * left = 0
    BY <1>1, <1>2 DEF taken, left
  <2>4. CASE left > 0
    <3>1. b = [cash |-> a.cash + taken - cost, qty |-> left,
               basis |-> a.basis - taken, realized |-> a.realized]
      BY <1>1, <2>1, <2>2, <2>3, <2>4 DEF Updated
    <3>2. Unbooked(a, b, cost) = cost
      BY <1>1, <1>2, <2>1, <2>3, <2>4, <3>1 DEF Unbooked
    <3> QED
      BY <1>1, <2>3, <2>4, <3>1, <3>2
         DEF Capital, Held, NothingHasNoBasis
  <2>5. CASE left = 0
    <3>1. b = [cash |-> a.cash + taken - cost, qty |-> 0, basis |-> 0,
               realized |-> a.realized + taken - a.basis - cost]
      BY <1>1, <2>1, <2>2, <2>3, <2>5 DEF Updated
    <3>2. Unbooked(a, b, cost) = 0
      BY <2>1, <3>1 DEF Unbooked
    <3> QED
      BY <1>1, <2>3, <3>1, <3>2 DEF Capital, Held, NothingHasNoBasis
  <2> QED
    BY <2>3, <2>4, <2>5
<1> QED
  BY <1>2, <1>3, <1>4

-----------------------------------------------------------------------------
(* The invariant.                                                          *)

(* rows is a sequence (of what, does not matter); there is a cell for the  *)
(* row a run is going to add, and its strategy has a step for every bar.   *)
RowsAreSeq == \E S : rows \in Seq(S)
RunHasCell ==
  /\ bar = 0 => Len(asked) = Len(rows)
  /\ bar # 0 => /\ Len(rows) < Len(cells)
                /\ Len(asked) = Len(rows) + 1
                /\ Len(Steps) >= Len(bars)
  /\ \A o \in Objects : memory[o] <= Len(asked)

Books == ~short => Held(account) /\ Capital(account) = InitialCash - fees

BacktestInv == TypeOK /\ RowsAreSeq /\ RunHasCell /\ Books

(* Init establishes the invariant.                                         *)
LEMMA BacktestInit == Init => BacktestInv
<1> SUFFICES ASSUME Init PROVE BacktestInv
  OBVIOUS
<1>1. InitialCash \in Int /\ Len(bars) \in Nat
  BY BacktestAssumption DEF Init
<1>2. TypeOK
  <2>1. asked = <<>> /\ asked \in Seq(Seq(Orders)) /\ memory \in [Objects -> Nat]
    BY DEF Init
  <2> QED
    BY <1>1, <2>1 DEF Init, TypeOK, NewAccount, Account
<1>3. RowsAreSeq
  <2>1. rows \in Seq({})
    BY DEF Init
  <2> QED
    BY <2>1 DEF RowsAreSeq
<1>4. RunHasCell /\ Books
  BY <1>1, <1>3 DEF Init, RunHasCell, Books, Held, Capital, NothingHasNoBasis,
              NewAccount
<1> QED
  BY <1>2, <1>3, <1>4 DEF BacktestInv

-----------------------------------------------------------------------------
(* What an order is made of.                                               *)

(* The cell that comes next is one of the cells.                           *)
LEMMA CellIsThere ==
  ASSUME BacktestInv, Len(rows) < Len(cells)
  PROVE  /\ Len(rows) \in Nat /\ Len(rows) + 1 \in DOMAIN cells
         /\ Cell \in Cells
<1>1. cells \in Seq(Cells)
  BY BacktestAssumption DEF BacktestInv, TypeOK
<1>2. Len(rows) \in Nat
  BY DEF BacktestInv, RowsAreSeq
<1>3. Len(rows) + 1 \in DOMAIN cells
  BY <1>1, <1>2
<1> QED
  BY <1>1, <1>2, <1>3 DEF Cell

(* The strategy of a run has a step for the bar.                           *)
LEMMA CellOfRun ==
  ASSUME BacktestInv, bar \in DOMAIN bars
  PROVE  Cell \in Cells /\ Steps[bar] \in Orders
<1>1. bars \in Seq(Bars) /\ bar \in 1 .. Len(bars)
  BY BacktestAssumption DEF BacktestInv, TypeOK
<1>2. Len(rows) < Len(cells) /\ Len(asked) = Len(rows) + 1
  BY <1>1 DEF BacktestInv, RunHasCell
<1>3. Len(rows) \in Nat /\ Cell \in Cells
  BY <1>2, CellIsThere
<1>4. asked \in Seq(Seq(Orders)) /\ Len(rows) + 1 \in DOMAIN asked
  BY <1>2, <1>3 DEF BacktestInv, TypeOK
<1>5. Steps \in Seq(Orders) /\ Len(Steps) >= Len(bars)
  BY <1>1, <1>4 DEF Steps, BacktestInv, RunHasCell
<1>6. bar \in DOMAIN Steps
  BY <1>1, <1>5
<1> QED
  BY <1>3, <1>5, <1>6

(* A run that begins adds what its strategy does to asked.                 *)
LEMMA BeginAsks ==
  ASSUME BacktestInv, Begin
  PROVE  /\ memory' \in [Objects -> Nat] /\ asked' \in Seq(Seq(Orders))
         /\ Len(asked') = Len(rows) + 1 /\ Len(asked) = Len(rows)
         /\ Len(asked'[Len(rows) + 1]) >= Len(bars)
         /\ \A i \in 1 .. Len(rows) : asked'[i] = asked[i]
         /\ \A o \in Objects : memory'[o] <= Len(asked')
<1> DEFINE o == Cell.object
           life == Cell.life
           n == Len(rows)
<1>1. /\ n \in Nat /\ n < Len(cells) /\ n + 1 \in DOMAIN cells
      /\ Cell \in Cells /\ Len(asked) = n /\ life # Invalid
      /\ memory' = [memory EXCEPT ![o] = @ + 1]
      /\ asked' = Append(asked, life[memory'[o]])
  BY CellIsThere DEF Begin, BacktestInv, RunHasCell
<1>2. /\ memory \in [Objects -> Nat] /\ asked \in Seq(Seq(Orders))
      /\ \A x \in Objects : memory[x] <= n
  BY <1>1 DEF BacktestInv, TypeOK, RunHasCell
<1>3. o \in Objects /\ life \in Seq(Seq(Orders))
  BY <1>1 DEF Cells
<1>4. /\ Len(life) >= Len(cells)
      /\ \A k \in DOMAIN life : Len(life[k]) >= Len(bars)
  <2>1. cells \in CellSeqs /\ bars \in BarSeqs
    BY DEF BacktestInv, TypeOK
  <2>2. cells[n + 1].life # Invalid
    BY <1>1 DEF Cell
  <2> QED
    BY <1>1, <2>1, <2>2, BacktestAssumption DEF Cell
<1>5. memory'[o] = memory[o] + 1 /\ memory[o] \in Nat
  BY <1>1, <1>2, <1>3
<1>6. Len(cells) \in Nat
  BY BacktestAssumption DEF BacktestInv, TypeOK
<1> DEFINE steps == life[memory'[o]]
<1> HIDE DEF o, life, n
<1>7. memory'[o] \in DOMAIN life
  BY <1>1, <1>2, <1>3, <1>4, <1>5, <1>6
<1>8. steps \in Seq(Orders) /\ Len(steps) >= Len(bars)
  BY <1>3, <1>4, <1>7
<1> HIDE DEF steps
<1>9. asked' = Append(asked, steps)
  BY <1>1 DEF steps
<1>10. /\ asked' \in Seq(Seq(Orders)) /\ Len(asked') = n + 1
       /\ asked'[n + 1] = steps /\ \A i \in 1 .. n : asked'[i] = asked[i]
  BY <1>1, <1>2, <1>8, <1>9
<1>11. memory' \in [Objects -> Nat] /\ \A x \in Objects : memory'[x] <= n + 1
  BY <1>1, <1>2, <1>3
<1> QED
  BY <1>1, <1>8, <1>10, <1>11 DEF n

(* A share below 100 % of a price is less than the price (slippage).       *)
LEMMA ShareIsLess ==
  ASSUME NEW price \in Nat \ {0}, NEW rate \in 0 .. 99
  PROVE  (rate * price) \div 100 \in 0 .. price - 1
<1> DEFINE part == rate * price
<1>1. part \in Nat
  OBVIOUS
<1>2. part <= 99 * price
  OBVIOUS
<1> HIDE DEF part
<1>3. part \div 100 \in Nat /\ part \div 100 < price
  BY <1>1, <1>2
<1> QED
  BY <1>3 DEF part

(* Orders are filled at positive prices.                                   *)
LEMMA FillPriceIsPositive ==
  ASSUME BacktestInv, bar \in DOMAIN bars, NEW side
  PROVE  FillPrice(bar, side) \in Nat \ {0}
<1>1. bars \in Seq(Bars) /\ bar \in 1 .. Len(bars) /\ fill.slippage \in 0 .. 99
  BY BacktestAssumption DEF BacktestInv, TypeOK
<1> DEFINE now == bars[bar]
           next == IF bar < Len(bars) THEN bars[bar + 1] ELSE now
           third == (next.high + next.low + next.close) \div 3
           price == IF bar = Len(bars) THEN now.close
                    ELSE CASE fill.name = "next_open" -> next.open
                           [] fill.name = "next_close" -> next.close
                           [] fill.name = "intrabar_fill" -> third
                           [] OTHER -> now.close
           slip == (fill.slippage * price) \div 100
<1>2. now \in Bars /\ next \in Bars
  BY <1>1
<1> HIDE DEF now, next
<1>3. third \in Nat \ {0}
  <2>1. /\ next.high \in Nat \ {0} /\ next.low \in Nat \ {0}
        /\ next.close \in Nat \ {0}
    BY <1>2 DEF Bars
  <2> DEFINE sum == next.high + next.low + next.close
  <2>2. sum \in Nat /\ sum >= 3
    BY <2>1
  <2> HIDE DEF sum
  <2>3. sum \div 3 \in Nat /\ sum \div 3 >= 1
    BY <2>2
  <2> QED
    BY <2>3 DEF sum
<1> HIDE DEF third
<1>4. price \in Nat \ {0}
  BY <1>2, <1>3 DEF Bars
<1> HIDE DEF price
<1>5. slip \in 0 .. price - 1
  BY <1>1, <1>4, ShareIsLess
<1> HIDE DEF slip
<1>6. FillPrice(bar, side) = IF side = "buy" THEN price + slip ELSE price - slip
  BY DEF FillPrice, now, next, third, price, slip
<1> QED
  BY <1>4, <1>5, <1>6

(* An order asks for an integer quantity, and costs an integer fee.        *)
LEMMA OrderIsInteger ==
  ASSUME BacktestInv, Cell \in Cells, NEW order \in Orders,
         order.side \in {"buy", "sell"},
         NEW price \in Nat \ {0}, NEW equity \in Int, NEW size \in Int
  PROVE  OrderQty(order, price, equity) \in Int /\ Cost(size, price) \in Int
<1>1. ASSUME "quantity" \notin DOMAIN order
      PROVE  (equity * order.strength) \div (price * 100) \in Int
  <2>1. order.strength \in Int
    BY <1>1, BacktestAssumption
  <2>2. equity * order.strength \in Int /\ price * 100 \in Nat \ {0}
    BY <2>1
  <2> QED
    BY <2>2
<1>2. "quantity" \in DOMAIN order => order.quantity \in Int
  BY BacktestAssumption
<1>3. OrderQty(order, price, equity) \in Int
  BY <1>1, <1>2 DEF OrderQty
<1>4. Cell.fee.rate \in Nat /\ Cell.fee.min \in Nat /\ Cell.fee.max \in Nat
  BY DEF Cells
<1>5. (size * price * Cell.fee.rate) \div 100 \in Int
  <2>1. size * price * Cell.fee.rate \in Int
    BY <1>4
  <2> QED
    BY <2>1
<1>6. Cost(size, price) \in Int
  BY <1>4, <1>5 DEF Cost, Larger, Smaller
<1> QED
  BY <1>3, <1>6

(* A bar at which the strategy orders keeps the account, and its books.    *)
LEMMA TradeKeepsBooks ==
  ASSUME BacktestInv, TradeBar
  PROVE  account' \in Account /\ fees' \in Int /\ Books'
<1> DEFINE order == Steps[bar]
           price == FillPrice(bar, order.side)
           equity == Equity(account)
           signed == OrderQty(order, price, equity)
           size == IF signed > 0 THEN signed ELSE -signed
           cost == Cost(size, price)
           new == IF signed > 0 THEN Buy(account, size, price, cost, short)
                                ELSE Sell(account, size, price, cost, short)
<1>1. /\ bar \in DOMAIN bars /\ order.side \in {"buy", "sell"}
      /\ account' = new /\ short' = short
      /\ fees' = fees + Unbooked(account, new, cost)
  BY DEF TradeBar, args
<1>2. Cell \in Cells /\ order \in Orders
  BY <1>1, CellOfRun
<1>3. price \in Nat \ {0}
  BY <1>1, FillPriceIsPositive
<1>4. account \in Account /\ short \in BOOLEAN /\ fees \in Int
  BY DEF BacktestInv, TypeOK
<1>5. equity \in Int
  <2>1. bars[bar].close \in Int
    <3>1. bars \in Seq(Bars)
      BY BacktestAssumption DEF BacktestInv, TypeOK
    <3>2. bars[bar] \in Bars
      BY <1>1, <3>1
    <3> QED
      BY <3>2 DEF Bars
  <2>2. /\ account.cash \in Int /\ account.qty * bars[bar].close \in Int
    BY <1>4, <2>1 DEF Account
  <2> QED
    BY <2>2 DEF Equity, TotalValue
<1> HIDE DEF order, price, equity
<1>6. signed \in Int
  BY <1>1, <1>2, <1>3, <1>5, OrderIsInteger
<1> HIDE DEF signed
<1>7. size \in Int
  BY <1>6
<1> HIDE DEF size
<1>8. cost \in Int
  BY <1>1, <1>2, <1>3, <1>5, <1>7, OrderIsInteger
<1> HIDE DEF cost
<1>9. new \in Account
  BY <1>3, <1>4, <1>7, <1>8, OrderKeepsAccount
<1>10. Unbooked(account, new, cost) \in Int
  BY <1>8 DEF Unbooked
<1>11. ASSUME ~short
       PROVE  /\ Held(new)
              /\ Capital(new) = Capital(account) - Unbooked(account, new, cost)
  <2>1. Held(account) /\ short = FALSE
    BY <1>4, <1>11 DEF BacktestInv, Books
  <2> QED
    BY <1>3, <1>4, <1>7, <1>8, <2>1, BuyKeepsBooks, SellKeepsBooks
<1> HIDE DEF new
<1>12. Books'
  <2>1. /\ Capital(account) \in Int /\ InitialCash \in Int
    BY <1>4, BacktestAssumption DEF Capital, Account
  <2>2. ASSUME ~short PROVE Capital(new) = InitialCash - fees'
    BY <1>1, <1>4, <1>10, <1>11, <2>1, <2>2 DEF BacktestInv, Books
  <2> QED
    BY <1>1, <1>11, <2>2 DEF Books
<1> QED
  BY <1>1, <1>4, <1>9, <1>10, <1>12

-----------------------------------------------------------------------------
(* Every action keeps the invariant.                                       *)
LEMMA BacktestNext == BacktestInv /\ [Next]_vars => BacktestInv'
<1> SUFFICES ASSUME BacktestInv, [Next]_vars PROVE BacktestInv'
  OBVIOUS
<1> USE DEF args, objVars
<1>1. /\ InitialCash \in Int /\ Len(bars) \in Nat /\ DOMAIN bars = 1 .. Len(bars)
      /\ bar \in 0 .. Len(bars) + 1
  BY BacktestAssumption DEF BacktestInv, TypeOK
<1>2. ASSUME NEW row, rows' = Append(rows, row) PROVE RowsAreSeq'
  <2>1. PICK S : rows \in Seq(S)
    BY DEF BacktestInv, RowsAreSeq
  <2>2. rows \in Seq(S \cup {row})
    BY <2>1
  <2>3. rows' \in Seq(S \cup {row})
    BY <1>2, <2>2
  <2> QED
    BY <2>3 DEF RowsAreSeq
<1>3. CASE Begin
  <2>1. TypeOK'
    BY <1>1, <1>3, BeginAsks
       DEF Begin, Reset, NewAccount, Account, BacktestInv, TypeOK
  <2>2. RowsAreSeq' /\ RunHasCell'
    BY <1>3, BeginAsks
       DEF Begin, BacktestInv, RowsAreSeq, RunHasCell, Steps
  <2>3. Books'
    BY <1>1, <1>3
       DEF Begin, Reset, NewAccount, Books, Held, Capital, NothingHasNoBasis
  <2> QED
    BY <2>1, <2>2, <2>3 DEF BacktestInv
<1>4. CASE HoldBar
  <2>1. TypeOK'
    BY <1>1, <1>4 DEF HoldBar, BacktestInv, TypeOK
  <2>2. RowsAreSeq' /\ RunHasCell' /\ Books'
    BY <1>1, <1>4
       DEF HoldBar, BacktestInv, RowsAreSeq, RunHasCell, Steps, Books
  <2> QED
    BY <2>1, <2>2 DEF BacktestInv
<1>5. CASE TradeBar
  <2>1. account' \in Account /\ fees' \in Int /\ Books'
    BY <1>5, TradeKeepsBooks
  <2>2. bar' = bar + 1 /\ bar \in DOMAIN bars /\ UNCHANGED <<args, rows, objVars>>
    BY <1>5 DEF TradeBar
  <2>3. TypeOK'
    BY <1>1, <2>1, <2>2 DEF BacktestInv, TypeOK
  <2>4. RowsAreSeq' /\ RunHasCell'
    BY <1>1, <2>2 DEF BacktestInv, RowsAreSeq, RunHasCell, Steps
  <2> QED
    BY <2>1, <2>3, <2>4 DEF BacktestInv
<1>6. ASSUME NEW status, NEW log, NEW curve, NEW metrics, bar # 0,
             Ends(status, log, curve, metrics)
      PROVE  BacktestInv'
  <2>1. RowsAreSeq'
    BY <1>2, <1>6 DEF Ends
  <2>2. TypeOK' /\ Books'
    BY <1>1, <1>6 DEF Ends, BacktestInv, TypeOK, Books
  <2>3. Len(rows') = Len(rows) + 1
    BY <1>6 DEF Ends, BacktestInv, RowsAreSeq
  <2>4. RunHasCell'
    BY <1>6, <2>3 DEF Ends, BacktestInv, RunHasCell
  <2> QED
    BY <2>1, <2>2, <2>4 DEF BacktestInv
<1>7. CASE Finish
  BY <1>1, <1>6, <1>7 DEF Finish
<1>8. CASE Raise
  BY <1>1, <1>6, <1>8 DEF Raise
<1>9. CASE Refuse
  <2>1. RowsAreSeq' /\ Len(rows') = Len(rows) + 1
    BY <1>2, <1>9 DEF Refuse, BacktestInv, RowsAreSeq
  <2>2. /\ asked' \in Seq(Seq(Orders)) /\ Len(asked') = Len(asked) + 1
        /\ Len(asked) \in Nat
    <3>1. asked \in Seq(Seq(Orders)) /\ Invalid \in Seq(Orders)
      BY DEF BacktestInv, TypeOK, Invalid
    <3> QED
      BY <1>9, <3>1 DEF Refuse
  <2>3. TypeOK' /\ Books'
    BY <1>9, <2>2 DEF Refuse, BacktestInv, TypeOK, Books
  <2>4. RunHasCell'
    BY <1>9, <2>1, <2>2 DEF Refuse, BacktestInv, TypeOK, RunHasCell
  <2> QED
    BY <2>1, <2>3, <2>4 DEF BacktestInv
<1>10. CASE UNCHANGED vars
  BY <1>10
     DEF vars, objVars, BacktestInv, TypeOK, RowsAreSeq, RunHasCell, Steps,
         Books
<1> QED
  BY <1>3, <1>4, <1>5, <1>7, <1>8, <1>9, <1>10 DEF Next

(* BacktestInv is an invariant of the runs.                                *)
LEMMA BacktestInvariant == Spec => []BacktestInv
BY BacktestInit, BacktestNext, PTL DEF Spec

(* The account holds integers and the engine stays within its bars, for    *)
(* any orders and with or without shorts.                                  *)
THEOREM TypeCorrect == Spec => []TypeOK
<1>1. BacktestInv => TypeOK
  BY DEF BacktestInv
<1> QED
  BY BacktestInvariant, <1>1, PTL

(* Without shorts no sequence of orders, whatever their sizes, prices and  *)
(* fees, makes the position negative (execute_buy, execute_sell).          *)
THEOREM NeverShort == Spec => []LongOnly
<1>1. BacktestInv => LongOnly
  BY DEF BacktestInv, Books, Held, LongOnly
<1> QED
  BY BacktestInvariant, <1>1, PTL

(* Without shorts the account adds up after every order (Portfolio): cash  *)
(* and basis are the initial cash, the realized profit and the other fees. *)
THEOREM BooksBalance == Spec => []PnlReconciles
<1>1. ASSUME BacktestInv PROVE PnlReconciles
  <2>1. /\ account.cash \in Int /\ account.basis \in Int
        /\ account.realized \in Int /\ InitialCash \in Int /\ fees \in Int
    BY <1>1, BacktestAssumption DEF BacktestInv, TypeOK, Account
  <2>2. ~short =>
          account.cash + account.basis - account.realized = InitialCash - fees
    BY <1>1 DEF BacktestInv, Books, Capital
  <2> QED
    BY <2>1, <2>2 DEF PnlReconciles
<1> QED
  BY BacktestInvariant, <1>1, PTL

-----------------------------------------------------------------------------
(* A run as a function of its arguments.  What a bar does to the account,  *)
(* the trades and the points is restated without the variables: for data   *)
(* b, fill model m, shorts sh, a run c - its fees and what the strategy    *)
(* does - and a state s of these three.                                    *)

PriceOf(b, m, i, side) ==
  LET now == b[i]
      next == IF i < Len(b) THEN b[i + 1] ELSE now
      price == IF i = Len(b) THEN now.close
               ELSE CASE m.name = "next_open" -> next.open
                      [] m.name = "next_close" -> next.close
                      [] m.name = "intrabar_fill" ->
                           (next.high + next.low + next.close) \div 3
                      [] OTHER -> now.close
      slip == (m.slippage * price) \div 100
  IN IF side = "buy" THEN price + slip ELSE price - slip

CostOf(c, quantity, price) ==
  Larger(c.fee.min, Smaller((quantity * price * c.fee.rate) \div 100, c.fee.max))

PointOf(b, i, a, pts) ==
  LET equity == TotalValue(a, b[i].close)
      seen == {pts[k].equity : k \in DOMAIN pts} \cup {InitialCash}
      peak == CHOOSE p \in seen : \A q \in seen : q <= p
  IN [equity |-> equity, cash |-> a.cash, drawdown |-> <<equity - peak, peak>>]

State(a, log, pts) == [account |-> a, trades |-> log, points |-> pts]
Start == State(NewAccount(InitialCash), <<>>, <<>>)

HoldOf(b, i, s) ==
  State(s.account, s.trades, Append(s.points, PointOf(b, i, s.account, s.points)))

TradeOf(b, m, sh, c, i, s) ==
  LET order == c.strategy[i]
      price == PriceOf(b, m, i, order.side)
      signed == OrderQty(order, price, TotalValue(s.account, b[i].close))
      size == IF signed > 0 THEN signed ELSE -signed
      cost == CostOf(c, size, price)
      new == IF signed > 0 THEN Buy(s.account, size, price, cost, sh)
                           ELSE Sell(s.account, size, price, cost, sh)
  IN State(new,
           Append(s.trades, [side |-> order.side, quantity |-> size,
                             price |-> price, cost |-> cost]),
           Append(s.points, PointOf(b, i, new, s.points)))

(* The bars at which a strategy lets the run go on, and how it does.       *)
GoesOn(c, i) ==
  c.strategy[i] = Hold \/ c.strategy[i].side \in {"buy", "sell"}

StepOf(b, m, sh, c, i, s) ==
  IF c.strategy[i] = Hold THEN HoldOf(b, i, s) ELSE TradeOf(b, m, sh, c, i, s)

(* f are the states of a run before its first n bars.                      *)
History(b, m, sh, c, n, f) ==
  /\ f[1] = Start
  /\ \A k \in 1 .. n - 1 : GoesOn(c, k) /\ f[k + 1] = StepOf(b, m, sh, c, k, f[k])

MetricsOf(s) ==
  LET final == s.points[Len(s.points)].equity
  IN IF Len(s.points) = 1 THEN [NoMetrics EXCEPT !.final = final]
     ELSE [final |-> final, nTrades |-> Len(s.trades), pnls |-> Pnls(s.trades)]

RowOf(status, log, curve, metrics) ==
  [status |-> status, trades |-> log, curve |-> curve, metrics |-> metrics]

(* A run that is before its bar n ends there, with a row.                  *)
RowAt(b, c, n, s) ==
  IF n = Len(b) + 1 THEN RowOf("ok", s.trades, s.points, MetricsOf(s))
  ELSE IF c.strategy[n].side = "raise"
       THEN RowOf("error", s.trades, <<>>, NoMetrics)
       ELSE RowOf("raised", <<>>, <<>>, NoMetrics)

EndsAt(b, c, n, s, row) ==
  (n # Len(b) + 1 => ~GoesOn(c, n)) /\ row = RowAt(b, c, n, s)

RowIs(b, m, sh, c, row) ==
  IF c.strategy = Invalid
  THEN row = [status |-> "refused", trades |-> <<>>, curve |-> <<>>,
              metrics |-> NoMetrics]
  ELSE \E n \in 1 .. Len(b) + 1 : \E f :
         History(b, m, sh, c, n, f) /\ EndsAt(b, c, n, f[n], row)

(* The run of a row, and the one that is going on.                         *)
PlayedAt(i) == [strategy |-> asked[i], fee |-> cells[i].fee]
Played == [strategy |-> Steps, fee |-> Cell.fee]

(* The run that is going on, and the rows, have been made that way.        *)
RunInv ==
  /\ bar # 0 =>
       \E f : /\ History(bars, fill, short, Played, bar, f)
              /\ f[bar] = State(account, trades, points)
  /\ \A i \in DOMAIN rows : RowIs(bars, fill, short, PlayedAt(i), rows[i])

-----------------------------------------------------------------------------

(* Two histories of a run agree as far as both go.                        *)
LEMMA HistoriesAgree ==
  ASSUME NEW b, NEW m, NEW sh, NEW c, NEW n \in Nat, NEW f, NEW g,
         History(b, m, sh, c, n, f), History(b, m, sh, c, n, g)
  PROVE  \A k \in 1 .. n : f[k] = g[k]
<1> DEFINE S == {k \in 1 .. n : f[k] # g[k]}
<1> SUFFICES ASSUME S # {} PROVE FALSE
  OBVIOUS
<1>1. PICK k \in S : \A j \in S : ~ (<<j, k>> \in OpToRel(<, Nat))
  <2>1. S \subseteq Nat
    OBVIOUS
  <2> HIDE DEF S
  <2> QED BY <2>1, NatLessThanWellFounded, WFMin
<1>2. k # 1
  BY <1>1 DEF History
<1> HIDE DEF S
<1>3. /\ k \in 1 .. n /\ k - 1 \in 1 .. n /\ k - 1 \in 1 .. n - 1
      /\ (k - 1) + 1 = k /\ f[k] # g[k]
  <2>1. k \in 1 .. n /\ f[k] # g[k]
    BY <1>1 DEF S
  <2> QED BY <1>2, <2>1
<1>4. k - 1 \notin S
  <2>1. k - 1 < k /\ k - 1 \in Nat /\ k \in Nat
    BY <1>3
  <2>2. <<k - 1, k>> \in OpToRel(<, Nat)
    BY <2>1 DEF OpToRel
  <2> QED BY <1>1, <2>2
<1>5. f[k - 1] = g[k - 1]
  BY <1>3, <1>4 DEF S
<1>6. f[k] = StepOf(b, m, sh, c, k - 1, f[k - 1])
  BY <1>3 DEF History
<1>7. g[k] = StepOf(b, m, sh, c, k - 1, g[k - 1])
  BY <1>3 DEF History
<1>8. f[k] = g[k]
  BY <1>5, <1>6, <1>7, Zenon
<1> QED BY <1>3, <1>8

LEMMA RowIsUnique ==
  ASSUME NEW b, Len(b) \in Nat, NEW m, NEW sh, NEW c, NEW row, NEW other,
         RowIs(b, m, sh, c, row), RowIs(b, m, sh, c, other)
  PROVE  row = other
<1>1. CASE c.strategy = Invalid
  BY <1>1, Zenon DEF RowIs
<1>2. CASE c.strategy # Invalid
  <2>1. PICK n \in 1 .. Len(b) + 1 : \E f :
          History(b, m, sh, c, n, f) /\ EndsAt(b, c, n, f[n], row)
    BY <1>2, Zenon DEF RowIs
  <2>2. PICK k \in 1 .. Len(b) + 1 : \E g :
          History(b, m, sh, c, k, g) /\ EndsAt(b, c, k, g[k], other)
    BY <1>2, Zenon DEF RowIs
  <2>6. PICK f : History(b, m, sh, c, n, f) /\ EndsAt(b, c, n, f[n], row)
    BY <2>1
  <2>7. PICK g : History(b, m, sh, c, k, g) /\ EndsAt(b, c, k, g[k], other)
    BY <2>2
  <2>3. ASSUME NEW i \in 1 .. Len(b) + 1, NEW j \in 1 .. Len(b) + 1, NEW h, NEW r,
               NEW s, i < j, History(b, m, sh, c, j, h), EndsAt(b, c, i, s, r)
        PROVE  FALSE
    <3>1. i \in 1 .. j - 1 /\ i # Len(b) + 1
      BY <2>3
    <3> QED BY <2>3, <3>1, Zenon DEF History, EndsAt
  <2>4. n = k
    <3>1. ~ (n < k)
      BY <2>6, <2>7, <2>3, Zenon
    <3>2. ~ (k < n)
      BY <2>6, <2>7, <2>3, Zenon
    <3> QED BY <3>1, <3>2
  <2>5. f[n] = g[n]
    <3>1. n \in Nat /\ n \in 1 .. n
      OBVIOUS
    <3>2. History(b, m, sh, c, n, g)
      BY <2>4, <2>7
    <3> QED BY <2>6, <3>1, <3>2, HistoriesAgree
  <2>8. PICK s : s = f[n]
    OBVIOUS
  <2>9. EndsAt(b, c, n, s, row) /\ EndsAt(b, c, n, s, other)
    BY <2>4, <2>5, <2>6, <2>7, <2>8, Zenon
  <2> QED BY <2>9, Zenon DEF EndsAt
<1> QED BY <1>1, <1>2

LEMMA HistoryGoesOn ==
  ASSUME NEW b, NEW m, NEW sh, NEW c, NEW n \in Nat \ {0}, NEW f,
         History(b, m, sh, c, n, f), GoesOn(c, n)
  PROVE  \E g : /\ History(b, m, sh, c, n + 1, g)
                /\ g[n + 1] = StepOf(b, m, sh, c, n, f[n])
<1>1. PICK next : next = StepOf(b, m, sh, c, n, f[n])
  OBVIOUS
<1>2. PICK g : g = [k \in 1 .. n + 1 |-> IF k = n + 1 THEN next ELSE f[k]]
  OBVIOUS
<1>3. g[n + 1] = next /\ g[1] = f[1] /\ \A k \in 1 .. n : g[k] = f[k]
  BY <1>2
<1>4. ASSUME NEW k \in 1 .. (n + 1) - 1
      PROVE  GoesOn(c, k) /\ g[k + 1] = StepOf(b, m, sh, c, k, g[k])
  <2>1. CASE k = n
    BY <1>1, <1>3, <2>1
  <2>2. CASE k # n
    <3>1. k \in 1 .. n - 1 /\ k \in 1 .. n /\ k + 1 \in 1 .. n
      BY <2>2
    <3>2. GoesOn(c, k) /\ f[k + 1] = StepOf(b, m, sh, c, k, f[k])
      BY <3>1, Zenon DEF History
    <3> QED BY <1>3, <3>1, <3>2
  <2> QED BY <2>1, <2>2
<1>5. History(b, m, sh, c, n + 1, g)
  BY <1>3, <1>4 DEF History
<1> QED BY <1>1, <1>3, <1>5

(* The step at a bar is that of the function, and so is the row at its end.*)
LEMMA BarIsStep ==
  ASSUME bar \in DOMAIN bars, HoldBar \/ TradeBar
  PROVE  /\ GoesOn(Played, bar)
         /\ State(account', trades', points')
              = StepOf(bars, fill, short, Played, bar,
                       State(account, trades, points))
<1>1. PICK b, m, sh, c, i : /\ b = bars /\ m = fill /\ sh = short
                            /\ c = Played /\ i = bar
  OBVIOUS
<1>4. c.strategy = Steps /\ c.fee = Cell.fee
  BY <1>1 DEF Played
<1>2. CASE HoldBar
  <2>1. c.strategy[i] = Hold /\ UNCHANGED <<account, trades>>
    BY <1>1, <1>2, <1>4 DEF HoldBar
  <2>2. Point(account) = PointOf(b, i, account, points)
    BY <1>1 DEF Point, PointOf, Equity, Drawdown
  <2>3. points' = Append(points, PointOf(b, i, account, points))
    BY <1>2, <2>2 DEF HoldBar
  <2> QED BY <1>1, <2>1, <2>3 DEF GoesOn, StepOf, HoldOf, State
<1>3. CASE TradeBar
  <2>1. c.strategy[i].side \in {"buy", "sell"} /\ c.strategy[i] # Hold
    BY <1>1, <1>3, <1>4 DEF TradeBar, Hold
  <2>2. ASSUME NEW side PROVE FillPrice(bar, side) = PriceOf(b, m, i, side)
    BY <1>1, Zenon DEF FillPrice, PriceOf
  <2>3. ASSUME NEW q, NEW p PROVE Cost(q, p) = CostOf(c, q, p)
    BY <1>4, Zenon DEF Cost, CostOf
  <2>4. ASSUME NEW a PROVE Point(a) = PointOf(b, i, a, points)
    BY <1>1 DEF Point, PointOf, Equity, Drawdown
  <2>5. Equity(account) = TotalValue(account, b[i].close)
    BY <1>1 DEF Equity
  <2> QED
    BY <1>1, <1>3, <1>4, <2>1, <2>2, <2>3, <2>4, <2>5
       DEF TradeBar, GoesOn, StepOf, TradeOf, State
<1> QED BY <1>2, <1>3

LEMMA RunStarts == Init => RunInv
BY DEF Init, RunInv

LEMMA RunStep == BacktestInv /\ RunInv /\ [Next]_vars => RunInv'
<1> SUFFICES ASSUME BacktestInv, RunInv, [Next]_vars PROVE RunInv'
  OBVIOUS
<1>1. PICK b, m, sh, c, i, n :
        /\ b = bars /\ m = fill /\ sh = short
        /\ c = Played /\ i = bar /\ n = Len(rows)
  OBVIOUS
<1>2. /\ Len(b) \in Nat \ {0} /\ DOMAIN b = 1 .. Len(b)
      /\ i \in 0 .. Len(b) + 1
  BY <1>1, BacktestAssumption DEF BacktestInv, TypeOK
<1>3. PICK s : s = State(account, trades, points)
  OBVIOUS
<1>4. i # 0 => \E f : History(b, m, sh, c, i, f) /\ f[i] = s
  BY <1>1, <1>3, Zenon DEF RunInv
<1>5. /\ n \in Nat /\ DOMAIN rows = 1 .. n
      /\ \A k \in 1 .. n : RowIs(b, m, sh, PlayedAt(k), rows[k])
  <2>1. n \in Nat /\ DOMAIN rows = 1 .. n
    BY <1>1 DEF BacktestInv, RowsAreSeq
  <2> QED
    BY <1>1, <2>1, Zenon DEF RunInv
<1>6. ASSUME UNCHANGED args, NEW d, NEW row, rows' = Append(rows, row),
             RowIs(b, m, sh, d, row), bar' = 0,
             d = [strategy |-> asked'[n + 1], fee |-> cells[n + 1].fee],
             \A k \in 1 .. n : asked'[k] = asked[k]
      PROVE  RunInv'
  <2>1. PICK S : rows \in Seq(S)
    BY DEF BacktestInv, RowsAreSeq
  <2>2. /\ DOMAIN rows' = 1 .. n + 1 /\ rows'[n + 1] = row
        /\ \A k \in 1 .. n : rows'[k] = rows[k]
    BY <1>1, <1>6, <2>1
  <2>3. bars' = b /\ fill' = m /\ short' = sh /\ cells' = cells
    BY <1>1, <1>6 DEF args
  <2>4. ASSUME NEW k \in 1 .. n + 1
        PROVE  RowIs(b, m, sh, PlayedAt(k)', rows'[k])
    <3>1. CASE k = n + 1
      BY <1>6, <2>2, <2>3, <3>1 DEF PlayedAt
    <3>2. CASE k # n + 1
      <4>1. k \in 1 .. n
        BY <1>5, <3>2
      <4>2. PlayedAt(k)' = PlayedAt(k)
        BY <1>6, <2>3, <4>1 DEF PlayedAt
      <4> QED
        BY <1>5, <2>2, <4>1, <4>2
    <3> QED
      BY <3>1, <3>2
  <2> QED
    BY <1>6, <2>2, <2>3, <2>4, Zenon DEF RunInv
<1>7. ASSUME UNCHANGED <<args, rows>>, NEW d, d = Played',
             \A k \in 1 .. n : asked'[k] = asked[k],
             \E f : /\ History(b, m, sh, d, bar', f)
                    /\ f[bar'] = State(account', trades', points')
      PROVE  RunInv'
  <2>1. /\ bars' = b /\ fill' = m /\ short' = sh /\ cells' = cells
        /\ rows' = rows
    BY <1>1, <1>7 DEF args
  <2>2. ASSUME NEW k \in 1 .. n PROVE PlayedAt(k)' = PlayedAt(k)
    BY <1>7, <2>1, <2>2 DEF PlayedAt
  <2> QED
    BY <1>5, <1>7, <2>1, <2>2, Zenon DEF RunInv
<1>8. CASE Begin
  <2>1. PICK d : d = Played'
    OBVIOUS
  <2>2. PICK f : f = [k \in {1} |-> Start]
    OBVIOUS
  <2>3. History(b, m, sh, d, 1, f) /\ f[1] = Start
    BY <2>2 DEF History
  <2>4. bar' = 1 /\ State(account', trades', points') = Start
    BY <1>8 DEF Begin, Reset, Start
  <2>5. \A k \in 1 .. n : asked'[k] = asked[k]
    BY <1>1, <1>8, BeginAsks
  <2> QED
    BY <1>7, <1>8, <2>1, <2>3, <2>4, <2>5 DEF Begin
<1>9. CASE HoldBar \/ TradeBar
  <2>1. i \in DOMAIN b /\ bar' = i + 1 /\ UNCHANGED <<args, rows, asked>>
    BY <1>1, <1>9 DEF HoldBar, TradeBar, objVars
  <2>2. /\ GoesOn(c, i)
        /\ State(account', trades', points') = StepOf(b, m, sh, c, i, s)
    BY <1>1, <1>3, <1>9, <2>1, BarIsStep
  <2>3. PICK f : History(b, m, sh, c, i, f) /\ f[i] = s
    BY <1>2, <1>4, <2>1
  <2>4. i \in Nat \ {0}
    BY <1>2, <2>1
  <2>5. \E g : /\ History(b, m, sh, c, i + 1, g)
               /\ g[i + 1] = StepOf(b, m, sh, c, i, s)
    BY <2>2, <2>3, <2>4, HistoryGoesOn
  <2>6. c = Played'
    BY <1>1, <2>1 DEF Played, Steps, Cell, args
  <2> QED
    BY <1>7, <2>1, <2>2, <2>5, <2>6
<1>10. ASSUME NEW status, NEW log, NEW curve, NEW metrics,
              Ends(status, log, curve, metrics), i # 0,
              EndsAt(b, c, i, s, RowOf(status, log, curve, metrics))
       PROVE  RunInv'
  <2>1. PICK row : row = RowOf(status, log, curve, metrics)
    OBVIOUS
  <2>2. rows' = Append(rows, row) /\ bar' = 0 /\ UNCHANGED <<args, asked>>
    BY <1>10, <2>1 DEF Ends, RowOf, objVars
  <2>3. PICK f : History(b, m, sh, c, i, f) /\ f[i] = s
    BY <1>4, <1>10
  <2>4. i \in 1 .. Len(b) + 1 /\ c.strategy # Invalid
    <3>1. Len(Steps) >= Len(b)
      BY <1>1, <1>10 DEF BacktestInv, RunHasCell
    <3>2. Steps # Invalid
      BY <1>2, <3>1 DEF Invalid
    <3> QED
      BY <1>1, <1>2, <1>10, <3>2 DEF Played
  <2>5. EndsAt(b, c, i, f[i], row)
    BY <1>10, <2>1, <2>3, Zenon
  <2>6. RowIs(b, m, sh, c, row)
    BY <2>3, <2>4, <2>5, Zenon DEF RowIs
  <2>7. c = [strategy |-> asked'[n + 1], fee |-> cells[n + 1].fee]
    BY <1>1, <2>2 DEF Played, Steps, Cell
  <2> QED
    BY <1>6, <2>2, <2>6, <2>7
<1>11. CASE Finish
  <2>1. i = Len(b) + 1 /\ Ends("ok", trades, points, Metrics)
    BY <1>1, <1>11 DEF Finish
  <2>2. s.trades = trades /\ s.points = points /\ Metrics = MetricsOf(s)
    BY <1>3 DEF Metrics, MetricsOf, State
  <2>3. EndsAt(b, c, i, s, RowOf("ok", trades, points, Metrics))
    BY <2>1, <2>2, Zenon DEF EndsAt, RowAt
  <2> QED
    BY <1>2, <1>10, <2>1, <2>3
<1>12. CASE Raise
  <2>1. /\ i \in 1 .. Len(b)
        /\ \/ /\ c.strategy[i].side = "raise"
              /\ Ends("error", trades, <<>>, NoMetrics)
           \/ /\ c.strategy[i].side = "ComputeError"
              /\ Ends("raised", <<>>, <<>>, NoMetrics)
    BY <1>1, <1>2, <1>12 DEF Raise, Played
  <2>2. i # Len(b) + 1 /\ i # 0
    BY <1>2, <2>1
  <2>3. ~GoesOn(c, i)
    BY <2>1 DEF GoesOn, Hold
  <2>4. s.trades = trades
    BY <1>3 DEF State
  <2>5. CASE /\ c.strategy[i].side = "raise"
             /\ Ends("error", trades, <<>>, NoMetrics)
    <3>1. RowAt(b, c, i, s) = RowOf("error", trades, <<>>, NoMetrics)
      BY <2>2, <2>4, <2>5, Zenon DEF RowAt
    <3> QED
      BY <1>10, <2>2, <2>3, <2>5, <3>1 DEF EndsAt
  <2>6. CASE /\ c.strategy[i].side = "ComputeError"
             /\ Ends("raised", <<>>, <<>>, NoMetrics)
    <3>1. c.strategy[i].side # "raise"
      BY <2>6
    <3>2. RowAt(b, c, i, s) = RowOf("raised", <<>>, <<>>, NoMetrics)
      BY <2>2, <3>1, Zenon DEF RowAt
    <3> QED
      BY <1>10, <2>2, <2>3, <2>6, <3>2 DEF EndsAt
  <2> QED
    BY <2>1, <2>5, <2>6
<1>13. CASE Refuse
  <2>1. PICK row, d :
          /\ row = [status |-> "refused", trades |-> <<>>, curve |-> <<>>,
                    metrics |-> NoMetrics]
          /\ d = [strategy |-> Invalid, fee |-> cells[n + 1].fee]
    OBVIOUS
  <2>2. /\ rows' = Append(rows, row) /\ bar' = 0 /\ UNCHANGED args
        /\ Len(asked) = n /\ asked' = Append(asked, Invalid)
    BY <1>1, <1>13, <2>1 DEF Refuse, BacktestInv, RunHasCell, args
  <2>3. asked'[n + 1] = Invalid /\ \A k \in 1 .. n : asked'[k] = asked[k]
    <3>1. asked \in Seq(Seq(Orders))
      BY DEF BacktestInv, TypeOK
    <3> HIDE DEF Invalid
    <3> QED
      BY <1>5, <2>2, <3>1
  <2>4. RowIs(b, m, sh, d, row)
    BY <2>1, Zenon DEF RowIs
  <2> QED
    BY <1>6, <2>1, <2>2, <2>3, <2>4
<1>14. CASE UNCHANGED vars
  <2>1. /\ UNCHANGED <<args, rows, bar, asked>>
        /\ UNCHANGED <<account, trades, points>>
    BY <1>14 DEF vars, objVars
  <2>2. c = Played'
    BY <1>1, <2>1 DEF Played, Steps, Cell, args
  <2>3. bars' = b /\ fill' = m /\ short' = sh /\ rows' = rows /\ bar' = i
    BY <1>1, <2>1 DEF args
  <2>4. ASSUME NEW k \in 1 .. n PROVE PlayedAt(k)' = PlayedAt(k)
    BY <2>1 DEF PlayedAt, args
  <2>5. s = State(account', trades', points')
    BY <1>3, <2>1
  <2> QED
    BY <1>4, <1>5, <2>2, <2>3, <2>4, <2>5, Zenon DEF RunInv
<1> QED
  BY <1>8, <1>9, <1>11, <1>12, <1>13, <1>14 DEF Next

(* Two runs with the same fees, in which the strategies did the same, end  *)
(* in the same row, whatever was run in between and however it ended: run  *)
(* takes nothing from the portfolio and the broker of an earlier run       *)
(* (BacktestEngine.run).                                                   *)
THEOREM RowsAreReproducible == Spec => []SameOrdersSameRow
<1>1. BacktestInv /\ RunInv => SameOrdersSameRow
  <2> SUFFICES ASSUME BacktestInv, RunInv,
                      NEW i \in DOMAIN rows, NEW j \in DOMAIN rows,
                      asked[i] = asked[j], cells[i].fee = cells[j].fee
               PROVE  rows[i] = rows[j]
    BY Zenon DEF SameOrdersSameRow
  <2>1. PICK b, m, sh, c, row, other :
          /\ b = bars /\ m = fill /\ sh = short /\ c = PlayedAt(i)
          /\ row = rows[i] /\ other = rows[j]
    OBVIOUS
  <2>2. c = PlayedAt(j)
    BY <2>1 DEF PlayedAt
  <2>3. RowIs(b, m, sh, c, row) /\ RowIs(b, m, sh, c, other)
    BY <2>1, <2>2, Zenon DEF RunInv
  <2>4. Len(b) \in Nat
    BY <2>1, BacktestAssumption DEF BacktestInv, TypeOK
  <2> QED
    BY <2>1, <2>3, <2>4, RowIsUnique
<1> QED
  BY <1>1, BacktestInvariant, RunStarts, RunStep, PTL DEF Spec

-----------------------------------------------------------------------------
(* Drawdowns.                                                              *)

Points == [equity : Int, cash : Int, drawdown : Int \X Int]

(* Each fall is one from a peak that no earlier point, nor the initial     *)
(* cash, is above.                                                         *)
FallsFromPeak(pts) ==
  \A k \in DOMAIN pts : \E peak \in Int :
    /\ pts[k].drawdown = <<pts[k].equity - peak, peak>>
    /\ peak >= InitialCash
    /\ \A l \in 1 .. k - 1 : pts[l].equity <= peak

Curve(pts) == pts \in Seq(Points) /\ FallsFromPeak(pts)

(* What the next point falls from.                                         *)
Highest(pts, peak) ==
  peak \in {pts[k].equity : k \in DOMAIN pts} \cup {InitialCash}
  /\ \A q \in {pts[k].equity : k \in DOMAIN pts} \cup {InitialCash} : q <= peak

CurveInv ==
  /\ Curve(points)
  /\ \E peak \in Int : Highest(points, peak)
  /\ \A i \in DOMAIN rows : Curve(rows[i].curve)

LEMMA EquitiesAreIntegers ==
  ASSUME NEW pts \in Seq(Points), NEW k \in DOMAIN pts
  PROVE  pts[k].equity \in Int
<1>1. pts[k] \in Points
  OBVIOUS
<1> QED BY <1>1 DEF Points

LEMMA PointGoesOn ==
  ASSUME NEW pts, Curve(pts), NEW peak \in Int, Highest(pts, peak),
         NEW equity \in Int, NEW cash \in Int,
         NEW point, point = [equity |-> equity, cash |-> cash,
                             drawdown |-> <<equity - peak, peak>>],
         NEW more, more = Append(pts, point)
  PROVE  Curve(more) /\ \E p \in Int : Highest(more, p)
<1>1. PICK n : n = Len(pts)
  OBVIOUS
<1>2. /\ n \in Nat /\ DOMAIN pts = 1 .. n /\ pts \in Seq(Points)
      /\ point \in Points
  <2>1. pts \in Seq(Points)
    BY DEF Curve
  <2>2. point \in Points
    BY DEF Points
  <2> QED BY <1>1, <2>1, <2>2
<1>3. /\ more \in Seq(Points) /\ DOMAIN more = 1 .. n + 1
      /\ more[n + 1] = point /\ \A k \in 1 .. n : more[k] = pts[k]
  BY <1>1, <1>2
<1>4. InitialCash \in Int /\ InitialCash <= peak
      /\ \A k \in 1 .. n : pts[k].equity <= peak
  <2>1. InitialCash \in Int
    BY BacktestAssumption
  <2>2. \A q \in {pts[k].equity : k \in DOMAIN pts} \cup {InitialCash} : q <= peak
    BY Zenon DEF Highest
  <2> QED BY <1>2, <2>1, <2>2
<1>5. ASSUME NEW k \in 1 .. n + 1
      PROVE  \E p \in Int : /\ more[k].drawdown = <<more[k].equity - p, p>>
                            /\ p >= InitialCash
                            /\ \A l \in 1 .. k - 1 : more[l].equity <= p
  <2>1. \A l \in 1 .. k - 1 : l \in 1 .. n
    BY <1>2
  <2>2. CASE k = n + 1
    <3>1. more[k].drawdown = <<more[k].equity - peak, peak>>
      BY <1>3, <2>2
    <3>2. \A l \in 1 .. k - 1 : more[l].equity <= peak
      BY <1>3, <1>4, <2>1
    <3> QED BY <1>4, <3>1, <3>2
  <2>3. CASE k # n + 1
    <3>1. k \in 1 .. n
      BY <1>2, <2>3
    <3>2. PICK p \in Int : /\ pts[k].drawdown = <<pts[k].equity - p, p>>
                           /\ p >= InitialCash
                           /\ \A l \in 1 .. k - 1 : pts[l].equity <= p
      BY <1>2, <3>1 DEF Curve, FallsFromPeak
    <3>3. more[k] = pts[k] /\ \A l \in 1 .. k - 1 : more[l].equity <= p
      BY <1>3, <2>1, <3>1, <3>2
    <3> QED BY <3>2, <3>3
  <2> QED BY <2>2, <2>3
<1>6. Curve(more)
  BY <1>3, <1>5, Zenon DEF Curve, FallsFromPeak
<1>7. PICK old, new :
        /\ old = {pts[k].equity : k \in DOMAIN pts} \cup {InitialCash}
        /\ new = {more[k].equity : k \in DOMAIN more} \cup {InitialCash}
  OBVIOUS
<1>8. new = old \cup {equity}
  <2>1. \A k \in 1 .. n + 1 : k \in 1 .. n \/ k = n + 1
    BY <1>2
  <2>2. \A k \in 1 .. n : k \in 1 .. n + 1
    BY <1>2
  <2>3. n + 1 \in 1 .. n + 1 /\ more[n + 1].equity = equity
    BY <1>2, <1>3
  <2> QED BY <1>2, <1>3, <1>7, <2>1, <2>2, <2>3
<1>9. peak \in old /\ \A q \in old : q <= peak
  BY <1>7 DEF Highest
<1>10. \A q \in old : q \in Int
  <2>1. \A k \in 1 .. n : pts[k].equity \in Int
    BY <1>2, EquitiesAreIntegers
  <2> QED BY <1>2, <1>4, <1>7, <2>1
<1>11. PICK p : p = IF equity > peak THEN equity ELSE peak
  OBVIOUS
<1>12. p \in Int /\ p \in new /\ \A q \in new : q <= p
  BY <1>8, <1>9, <1>10, <1>11
<1>13. Highest(more, p)
  BY <1>7, <1>12 DEF Highest
<1> QED BY <1>6, <1>12, <1>13

LEMMA EquityIsInteger ==
  ASSUME BacktestInv, bar \in DOMAIN bars, NEW a \in Account
  PROVE  Equity(a) \in Int
<1>1. bars \in Seq(Bars)
  BY BacktestAssumption DEF BacktestInv, TypeOK
<1>2. bars[bar].close \in Int
  <2>1. bars[bar] \in Bars
    BY <1>1
  <2> QED BY <2>1 DEF Bars
<1>3. a.cash \in Int /\ a.qty * bars[bar].close \in Int
  BY <1>2 DEF Account
<1> QED BY <1>3 DEF Equity, TotalValue

LEMMA PointIsNext ==
  ASSUME BacktestInv, CurveInv, bar \in DOMAIN bars, NEW a \in Account,
         points' = Append(points, Point(a))
  PROVE  Curve(points') /\ \E peak \in Int : Highest(points', peak)
<1>1. PICK pts, more, equity, cash :
        /\ pts = points /\ more = points' /\ equity = Equity(a) /\ cash = a.cash
  OBVIOUS
<1>2. equity \in Int /\ cash \in Int
  BY <1>1, EquityIsInteger DEF Account
<1>3. PICK seen : seen = {pts[k].equity : k \in DOMAIN pts} \cup {InitialCash}
  OBVIOUS
<1>4. PICK peak : peak = CHOOSE p \in seen : \A q \in seen : q <= p
  OBVIOUS
<1>5. PICK p \in Int : p \in seen /\ \A q \in seen : q <= p
  BY <1>1, <1>3, Zenon DEF CurveInv, Highest
<1>6. peak \in seen /\ \A q \in seen : q <= peak
  BY <1>4, <1>5, Zenon
<1>7. peak \in Int
  <2>1. pts \in Seq(Points) /\ InitialCash \in Int
    BY <1>1, BacktestAssumption DEF CurveInv, Curve
  <2>2. \A k \in DOMAIN pts : pts[k].equity \in Int
    BY <2>1, EquitiesAreIntegers
  <2> QED BY <1>3, <1>6, <2>1, <2>2
<1>8. Point(a) = [equity |-> equity, cash |-> cash,
                  drawdown |-> <<equity - peak, peak>>]
  BY <1>1, <1>3, <1>4 DEF Point, Drawdown
<1>9. Highest(pts, peak) /\ Curve(pts)
  BY <1>1, <1>3, <1>6, Zenon DEF Highest, CurveInv
<1> QED BY <1>1, <1>2, <1>7, <1>8, <1>9, PointGoesOn

LEMMA EmptyCurve == Curve(<<>>) /\ \E peak \in Int : Highest(<<>>, peak)
<1>1. <<>> \in Seq(Points) /\ DOMAIN <<>> = {} /\ InitialCash \in Int
  BY BacktestAssumption
<1>2. Highest(<<>>, InitialCash)
  BY <1>1 DEF Highest
<1> QED BY <1>1, <1>2 DEF Curve, FallsFromPeak

LEMMA CurveStep == BacktestInv /\ BacktestInv' /\ CurveInv /\ [Next]_vars => CurveInv'
<1> SUFFICES ASSUME BacktestInv, BacktestInv', CurveInv, [Next]_vars
             PROVE  CurveInv'
  OBVIOUS
<1>1. ASSUME UNCHANGED points, NEW row, rows' = Append(rows, row),
             Curve(row.curve)
      PROVE  CurveInv'
  <2>1. PICK S : rows \in Seq(S)
    BY DEF BacktestInv, RowsAreSeq
  <2>2. PICK n : n = Len(rows)
    OBVIOUS
  <2>3. /\ n \in Nat /\ DOMAIN rows = 1 .. n /\ DOMAIN rows' = 1 .. n + 1
        /\ rows'[n + 1] = row /\ \A k \in 1 .. n : rows'[k] = rows[k]
    BY <1>1, <2>1, <2>2
  <2>4. \A k \in 1 .. n + 1 : k = n + 1 \/ k \in 1 .. n
    BY <2>3
  <2>5. \A k \in DOMAIN rows' : Curve(rows'[k].curve)
    BY <1>1, <2>3, <2>4, Zenon DEF CurveInv
  <2> QED BY <1>1, <2>5, Zenon DEF CurveInv
<1>2. ASSUME UNCHANGED rows,
             Curve(points'), \E peak \in Int : Highest(points', peak)
      PROVE  CurveInv'
  BY <1>2, Zenon DEF CurveInv
<1>3. account \in Account /\ account' \in Account
  BY DEF BacktestInv, TypeOK
<1>4. CASE Begin
  BY <1>2, <1>4, EmptyCurve DEF Begin
<1>5. CASE HoldBar
  <2>1. bar \in DOMAIN bars /\ points' = Append(points, Point(account))
    BY <1>5 DEF HoldBar
  <2> QED BY <1>2, <1>3, <1>5, <2>1, PointIsNext DEF HoldBar
<1>6. CASE TradeBar
  <2>1. PICK a : a = account'
    OBVIOUS
  <2>2. bar \in DOMAIN bars /\ points' = Append(points, Point(a)) /\ a \in Account
    BY <1>3, <1>6, <2>1 DEF TradeBar
  <2> QED BY <1>2, <1>6, <2>2, PointIsNext DEF TradeBar
<1>7. ASSUME NEW status, NEW log, NEW curve, NEW metrics, Curve(curve),
             Ends(status, log, curve, metrics)
      PROVE  CurveInv'
  <2>1. PICK row : row = [status |-> status, trades |-> log,
                          curve |-> curve, metrics |-> metrics]
    OBVIOUS
  <2>2. Curve(row.curve)
    BY <1>7, <2>1
  <2> QED BY <1>1, <1>7, <2>1, <2>2 DEF Ends
<1>8. CASE Finish
  <2>1. Curve(points)
    BY DEF CurveInv
  <2> QED BY <1>7, <1>8, <2>1 DEF Finish
<1>9. CASE Raise
  BY <1>7, <1>9, EmptyCurve DEF Raise
<1>10. CASE Refuse
  <2>1. PICK row : row = [status |-> "refused", trades |-> <<>>, curve |-> <<>>,
                          metrics |-> NoMetrics]
    OBVIOUS
  <2>2. Curve(row.curve)
    BY <2>1, EmptyCurve
  <2> QED BY <1>1, <1>10, <2>1, <2>2 DEF Refuse
<1>11. CASE UNCHANGED vars
  BY <1>11, Zenon DEF vars, CurveInv
<1> QED BY <1>4, <1>5, <1>6, <1>8, <1>9, <1>10, <1>11 DEF Next

(* A fall of the metrics and the drawdown of the same point.               *)
LEMMA FallIsNoDeeper ==
  ASSUME NEW e \in Int, NEW high \in Int, NEW peak \in Int,
         e > 0, high <= peak
  PROVE  (e - peak) * high <= (e - high) * peak
<1>1. PICK gap, down : gap = peak - high /\ down = e * gap
  OBVIOUS
<1>2. gap \in Nat /\ peak = high + gap
  BY <1>1
<1>3. down \in Nat
  <2>1. e \in Nat
    OBVIOUS
  <2> QED BY <1>1, <1>2, <2>1
<1>4. (e - high) * peak = (e - peak) * high + down
  BY <1>1, <1>2
<1>5. (e - peak) * high \in Int
  OBVIOUS
<1> QED BY <1>3, <1>4, <1>5

(* The two drawdowns of a result are computed from different peaks (run    *)
(* and calculate_metrics); the metrics never report a fall that is deeper  *)
(* than each of those at the points.                                       *)
THEOREM DrawdownsOfResultAgree == Spec => []DrawdownsAgree
<1>1. ASSUME NEW pts, Curve(pts), \A k \in DOMAIN pts : pts[k].equity > 0,
             NEW f \in Falls(pts), f[1] < 0
      PROVE  \E d \in {pts[k].drawdown : k \in DOMAIN pts} :
               d[1] * f[2] <= f[1] * d[2]
  <2>1. PICK n : n = Len(pts)
    OBVIOUS
  <2>2. n \in Nat /\ DOMAIN pts = 1 .. n /\ \A k \in 1 .. n : pts[k].equity \in Int
    <3>1. pts \in Seq(Points)
      BY <1>1 DEF Curve
    <3> QED BY <2>1, <3>1, EquitiesAreIntegers
  <2>3a. PICK i \in 1 .. n : \E j \in 1 .. i :
           f = <<pts[i].equity - pts[j].equity, pts[j].equity>>
    BY <2>2, <1>1 DEF Falls
  <2>3. PICK j \in 1 .. i : f = <<pts[i].equity - pts[j].equity, pts[j].equity>>
    BY <2>3a
  <2>4. PICK e, high : e = pts[i].equity /\ high = pts[j].equity
    OBVIOUS
  <2>5. j \in 1 .. n /\ e \in Int /\ high \in Int /\ e > 0
    BY <1>1, <2>2, <2>4
  <2>6. f[1] = e - high /\ f[2] = high
    BY <2>3, <2>4
  <2>7. j \in 1 .. i - 1
    <3>1. e < high
      BY <1>1, <2>5, <2>6
    <3>2. j # i
      BY <2>4, <2>5, <3>1
    <3> QED BY <3>2
  <2>8. PICK peak \in Int : /\ pts[i].drawdown = <<pts[i].equity - peak, peak>>
                            /\ \A l \in 1 .. i - 1 : pts[l].equity <= peak
    BY <1>1, <2>2 DEF Curve, FallsFromPeak
  <2>9. high <= peak
    BY <2>4, <2>7, <2>8
  <2>10. PICK d : d = <<e - peak, peak>>
    OBVIOUS
  <2>11. d \in {pts[k].drawdown : k \in DOMAIN pts}
    BY <2>2, <2>4, <2>8, <2>10
  <2>12. d[1] = e - peak /\ d[2] = peak
    BY <2>10
  <2>13. (e - peak) * high <= (e - high) * peak
    BY <2>5, <2>9, FallIsNoDeeper
  <2> QED BY <2>6, <2>11, <2>12, <2>13
<1>2. CurveInv => DrawdownsAgree
  <2> SUFFICES ASSUME CurveInv PROVE DrawdownsAgree
    OBVIOUS
  <2>1. \A i \in DOMAIN rows : Curve(rows[i].curve)
    BY DEF CurveInv
  <2> QED BY <1>1, <2>1, Zenon DEF DrawdownsAgree
<1>3. Init => CurveInv
  <2> SUFFICES ASSUME Init PROVE CurveInv
    OBVIOUS
  <2>1. points = <<>> /\ DOMAIN rows = {}
    BY DEF Init
  <2> QED BY <2>1, EmptyCurve DEF CurveInv
<1> QED BY <1>2, <1>3, BacktestInvariant, CurveStep, PTL DEF Spec
=============================================================================
