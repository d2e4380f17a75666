--------------------------- MODULE AlgorithmProofs ---------------------------
(***************************************************************************)
(* Proofs about Indicators, Windows, Wire and Shard: for any number of     *)
(* bars and rows, any window, message, task and split of simulations.      *)
(***************************************************************************)
EXTENDS MCAlgorithms, WellFoundedInduction, FunctionTheorems,
        SequenceTheorems, FiniteSetTheorems, TLAPS

(* Among numbers there is a least one.                                     *)
LEMMA LeastExists ==
  ASSUME NEW S, S \subseteq Nat, S # {}
  PROVE  \E n \in S : \A m \in S : n <= m
<1>1. PICK n \in S : \A m \in S : ~ (<<m, n>> \in OpToRel(<, Nat))
  BY NatLessThanWellFounded, WFMin
<1>2. ASSUME NEW m \in S PROVE n <= m
  <2>1. m \in Nat /\ n \in Nat
    OBVIOUS
  <2>2. ~ (m < n)
    BY <1>1, <2>1 DEF OpToRel
  <2> QED BY <2>1, <2>2
<1> QED BY <1>2

-----------------------------------------------------------------------------
(* Indicators.                                                             *)

CellOf == [reads : SUBSET Int, nan : BOOLEAN]

(* A series over n bars and the same over the first m of them: they agree  *)
(* and no cell is made of later bars.                                      *)
LooksBack(all, first, n, m) ==
  /\ all \in [1 .. n -> CellOf]
  /\ first \in [1 .. m -> CellOf]
  /\ \A t \in 1 .. n : all[t].reads \subseteq 1 .. t
  /\ \A t \in 1 .. m : first[t] = all[t]

(* What LooksBack comes to, cell by cell.                                  *)
LEMMA CellsLookBack ==
  ASSUME NEW n \in Nat, NEW m \in 0 .. n, NEW a, NEW b, LooksBack(a, b, n, m)
  PROVE  /\ DOMAIN a = 1 .. n /\ DOMAIN b = 1 .. m
         /\ \A t \in 1 .. n : a[t] \in CellOf
         /\ \A t \in 1 .. n : a[t].reads \in SUBSET Int /\ a[t].nan \in BOOLEAN
         /\ \A t \in 1 .. n : a[t].reads \subseteq 1 .. t
         /\ \A t \in 1 .. m : t \in 1 .. n /\ b[t] = a[t]
BY DEF LooksBack, CellOf

LEMMA OfCells ==
  ASSUME NEW n \in Nat, NEW m \in 0 .. n, NEW a, NEW b,
         a = [t \in 1 .. n |-> a[t]], b = [t \in 1 .. m |-> b[t]],
         \A t \in 1 .. n : a[t] \in CellOf /\ a[t].reads \subseteq 1 .. t,
         \A t \in 1 .. m : b[t] = a[t]
  PROVE  LooksBack(a, b, n, m)
<1>1. \A t \in 1 .. m : t \in 1 .. n /\ b[t] \in CellOf
  OBVIOUS
<1>2. a \in [1 .. n -> CellOf] /\ b \in [1 .. m -> CellOf]
  BY <1>1
<1> QED BY <1>2 DEF LooksBack

LEMMA CellIsTyped ==
  ASSUME NEW reads \in SUBSET Int, NEW nan \in BOOLEAN
  PROVE  [reads |-> reads, nan |-> nan] \in CellOf
BY DEF CellOf

LEMMA PricesLookBack ==
  ASSUME NEW n \in Nat, NEW m \in 0 .. n, NEW missing
  PROVE  LooksBack(Prices(n, missing), Prices(m, missing \cap 1 .. m), n, m)
<1>1. \A t \in 1 .. n : [reads |-> {t}, nan |-> t \in missing] \in CellOf
  BY DEF CellOf
<1>2. /\ Prices(n, missing) \in [1 .. n -> CellOf]
      /\ \A t \in 1 .. n : Prices(n, missing)[t] = [reads |-> {t}, nan |-> t \in missing]
  BY <1>1 DEF Prices
<1>3. ASSUME NEW t \in 1 .. m
      PROVE  /\ Prices(m, missing \cap 1 .. m)[t] = Prices(n, missing)[t]
             /\ t \in 1 .. n
  <2>1. (t \in missing \cap 1 .. m) = (t \in missing) /\ t \in 1 .. n
    OBVIOUS
  <2> QED BY <1>2, <2>1 DEF Prices
<1>4. /\ Prices(n, missing) = [t \in 1 .. n |-> Prices(n, missing)[t]]
      /\ Prices(m, missing \cap 1 .. m)
           = [t \in 1 .. m |-> Prices(m, missing \cap 1 .. m)[t]]
  BY DEF Prices
<1>5. \A t \in 1 .. n : /\ Prices(n, missing)[t] \in CellOf
                       /\ Prices(n, missing)[t].reads \subseteq 1 .. t
  BY <1>1, <1>2
<1> QED BY <1>3, <1>4, <1>5, OfCells

LEMMA WithLooksBack ==
  ASSUME NEW n \in Nat, NEW m \in 0 .. n,
         NEW a, NEW b, LooksBack(a, b, n, m),
         NEW c, NEW d, LooksBack(c, d, n, m)
  PROVE  LooksBack(With(a, c), With(b, d), n, m)
<1>1. /\ DOMAIN a = 1 .. n /\ DOMAIN b = 1 .. m
      /\ \A t \in 1 .. n : /\ a[t].reads \in SUBSET Int /\ a[t].nan \in BOOLEAN
                          /\ c[t].reads \in SUBSET Int /\ c[t].nan \in BOOLEAN
      /\ \A t \in 1 .. n : a[t].reads \cup c[t].reads \subseteq 1 .. t
      /\ \A t \in 1 .. m : t \in 1 .. n /\ b[t] = a[t] /\ d[t] = c[t]
  BY CellsLookBack
<1>2. \A t \in 1 .. n : With(a, c)[t] = [reads |-> a[t].reads \cup c[t].reads,
                                       nan   |-> a[t].nan \/ c[t].nan]
  BY <1>1 DEF With
<1>3. ASSUME NEW t \in 1 .. n
      PROVE  With(a, c)[t] \in CellOf /\ With(a, c)[t].reads \subseteq 1 .. t
  <2>1. PICK reads, nan : /\ reads = a[t].reads \cup c[t].reads
                          /\ nan = (a[t].nan \/ c[t].nan)
    OBVIOUS
  <2>2. With(a, c)[t] = [reads |-> reads, nan |-> nan]
    BY <1>2, <2>1
  <2>3. reads \in SUBSET Int /\ reads \subseteq 1 .. t /\ nan \in BOOLEAN
    BY <1>1, <2>1
  <2> QED BY <2>2, <2>3, CellIsTyped
<1>4. \A t \in 1 .. m : With(b, d)[t] = With(a, c)[t]
  BY <1>1 DEF With
<1>5. /\ With(a, c) = [t \in 1 .. n |-> With(a, c)[t]]
      /\ With(b, d) = [t \in 1 .. m |-> With(b, d)[t]]
  BY <1>1 DEF With
<1> QED BY <1>3, <1>4, <1>5, OfCells

LEMMA MaxOfLooksBack ==
  ASSUME NEW n \in Nat, NEW m \in 0 .. n,
         NEW a, NEW b, LooksBack(a, b, n, m),
         NEW c, NEW d, LooksBack(c, d, n, m)
  PROVE  LooksBack(MaxOf(a, c), MaxOf(b, d), n, m)
<1>1. /\ DOMAIN a = 1 .. n /\ DOMAIN b = 1 .. m
      /\ \A t \in 1 .. n : /\ a[t].reads \in SUBSET Int /\ a[t].nan \in BOOLEAN
                          /\ c[t].reads \in SUBSET Int /\ c[t].nan \in BOOLEAN
      /\ \A t \in 1 .. n : a[t].reads \cup c[t].reads \subseteq 1 .. t
      /\ \A t \in 1 .. m : t \in 1 .. n /\ b[t] = a[t] /\ d[t] = c[t]
  BY CellsLookBack
<1>2. \A t \in 1 .. n : MaxOf(a, c)[t] = [reads |-> a[t].reads \cup c[t].reads,
                                       nan   |-> a[t].nan /\ c[t].nan]
  BY <1>1 DEF MaxOf
<1>3. ASSUME NEW t \in 1 .. n
      PROVE  MaxOf(a, c)[t] \in CellOf /\ MaxOf(a, c)[t].reads \subseteq 1 .. t
  <2>1. PICK reads, nan : /\ reads = a[t].reads \cup c[t].reads
                          /\ nan = (a[t].nan /\ c[t].nan)
    OBVIOUS
  <2>2. MaxOf(a, c)[t] = [reads |-> reads, nan |-> nan]
    BY <1>2, <2>1
  <2>3. reads \in SUBSET Int /\ reads \subseteq 1 .. t /\ nan \in BOOLEAN
    BY <1>1, <2>1
  <2> QED BY <2>2, <2>3, CellIsTyped
<1>4. \A t \in 1 .. m : MaxOf(b, d)[t] = MaxOf(a, c)[t]
  BY <1>1 DEF MaxOf
<1>5. /\ MaxOf(a, c) = [t \in 1 .. n |-> MaxOf(a, c)[t]]
      /\ MaxOf(b, d) = [t \in 1 .. m |-> MaxOf(b, d)[t]]
  BY <1>1 DEF MaxOf
<1> QED BY <1>3, <1>4, <1>5, OfCells

LEMMA WhereLooksBack ==
  ASSUME NEW n \in Nat, NEW m \in 0 .. n, NEW a, NEW b, LooksBack(a, b, n, m)
  PROVE  LooksBack(Where(a), Where(b), n, m)
<1>1. /\ DOMAIN a = 1 .. n /\ DOMAIN b = 1 .. m
      /\ \A t \in 1 .. n : a[t] \in CellOf /\ a[t].reads \subseteq 1 .. t
      /\ \A t \in 1 .. m : t \in 1 .. n /\ b[t] = a[t]
  BY CellsLookBack
<1>2. ASSUME NEW t \in 1 .. n
      PROVE  Where(a)[t] \in CellOf /\ Where(a)[t].reads \subseteq 1 .. t
  <2>1. Where(a)[t] = [a[t] EXCEPT !.nan = FALSE]
    BY <1>1 DEF Where
  <2>2. a[t] \in [reads : SUBSET Int, nan : BOOLEAN] /\ a[t].reads \subseteq 1 .. t
    BY <1>1 DEF CellOf
  <2> QED BY <2>1, <2>2 DEF CellOf
<1>3. \A t \in 1 .. m : Where(b)[t] = Where(a)[t]
  BY <1>1 DEF Where
<1>4. /\ Where(a) = [t \in 1 .. n |-> Where(a)[t]]
      /\ Where(b) = [t \in 1 .. m |-> Where(b)[t]]
  BY <1>1 DEF Where
<1> QED BY <1>2, <1>3, <1>4, OfCells

(* Back in time only: k is not negative.                                   *)
LEMMA ShiftLooksBack ==
  ASSUME NEW n \in Nat, NEW m \in 0 .. n, NEW a, NEW b, LooksBack(a, b, n, m),
         NEW k \in Nat
  PROVE  LooksBack(Shift(a, k), Shift(b, k), n, m)
<1>1. Absent \in CellOf /\ Absent.reads = {}
  BY DEF Absent, CellOf
<1>2. /\ DOMAIN a = 1 .. n /\ DOMAIN b = 1 .. m
      /\ \A t \in 1 .. n : a[t] \in CellOf /\ a[t].reads \subseteq 1 .. t
      /\ \A t \in 1 .. m : t \in 1 .. n /\ b[t] = a[t]
  BY CellsLookBack
<1>3. ASSUME NEW t \in 1 .. n
      PROVE  Shift(a, k)[t] \in CellOf /\ Shift(a, k)[t].reads \subseteq 1 .. t
  <2>1. CASE t - k \in 1 .. n
    BY <1>2, <2>1 DEF Shift
  <2>2. CASE t - k \notin 1 .. n
    BY <1>1, <1>2, <2>2 DEF Shift
  <2> QED BY <2>1, <2>2
<1>4. ASSUME NEW t \in 1 .. m PROVE Shift(b, k)[t] = Shift(a, k)[t]
  <2>1. t - k \in 1 .. m <=> t - k \in 1 .. n
    OBVIOUS
  <2> QED BY <1>2, <2>1 DEF Shift
<1>5. /\ Shift(a, k) = [t \in 1 .. n |-> Shift(a, k)[t]]
      /\ Shift(b, k) = [t \in 1 .. m |-> Shift(b, k)[t]]
  BY <1>2 DEF Shift
<1> QED BY <1>2, <1>3, <1>4, <1>5 DEF LooksBack

LEMMA RollingLooksBack ==
  ASSUME NEW n \in Nat, NEW m \in 0 .. n, NEW a, NEW b, LooksBack(a, b, n, m),
         NEW w \in Int
  PROVE  LooksBack(Rolling(a, w), Rolling(b, w), n, m)
<1> DEFINE Window(s, t) == {u \in DOMAIN s : t - w < u /\ u <= t}
           Reads(s, t) == UNION {s[u].reads : u \in Window(s, t)}
           IsNan(s, t) == t < w \/ \E u \in Window(s, t) : s[u].nan
<1>1. /\ DOMAIN a = 1 .. n /\ DOMAIN b = 1 .. m
      /\ \A t \in 1 .. n : a[t].reads \in SUBSET Int /\ a[t].nan \in BOOLEAN
      /\ \A t \in 1 .. n : a[t].reads \subseteq 1 .. t
      /\ \A t \in 1 .. m : t \in 1 .. n /\ b[t] = a[t]
  BY CellsLookBack
<1>2. /\ Rolling(a, w) = [t \in 1 .. n |-> [reads |-> Reads(a, t), nan |-> IsNan(a, t)]]
      /\ Rolling(b, w) = [t \in 1 .. m |-> [reads |-> Reads(b, t), nan |-> IsNan(b, t)]]
  BY <1>1 DEF Rolling
<1>3. ASSUME NEW t \in 1 .. n PROVE Reads(a, t) \subseteq 1 .. t /\ IsNan(a, t) \in BOOLEAN
  <2>1. \A u \in Window(a, t) : a[u].reads \subseteq 1 .. t
    BY <1>1
  <2> QED BY <2>1
<1>4. ASSUME NEW t \in 1 .. m
      PROVE  Reads(b, t) = Reads(a, t) /\ IsNan(b, t) = IsNan(a, t)
  <2>1. Window(b, t) = Window(a, t) /\ \A u \in Window(a, t) : b[u] = a[u]
    BY <1>1
  <2> HIDE DEF Window
  <2> QED BY <2>1
<1> HIDE DEF Reads, IsNan
<1> QED BY <1>1, <1>2, <1>3, <1>4 DEF LooksBack, CellOf

LEMMA EwmLooksBack ==
  ASSUME NEW n \in Nat, NEW m \in 0 .. n, NEW a, NEW b, LooksBack(a, b, n, m)
  PROVE  LooksBack(Ewm(a), Ewm(b), n, m)
<1> DEFINE Window(s, t) == {u \in DOMAIN s : u <= t}
           Reads(s, t) == UNION {s[u].reads : u \in Window(s, t)}
           IsNan(s, t) == \A u \in DOMAIN s : u <= t => s[u].nan
<1>1. /\ DOMAIN a = 1 .. n /\ DOMAIN b = 1 .. m
      /\ \A t \in 1 .. n : a[t].reads \in SUBSET Int /\ a[t].nan \in BOOLEAN
      /\ \A t \in 1 .. n : a[t].reads \subseteq 1 .. t
      /\ \A t \in 1 .. m : t \in 1 .. n /\ b[t] = a[t]
  BY CellsLookBack
<1>2. /\ Ewm(a) = [t \in 1 .. n |-> [reads |-> Reads(a, t), nan |-> IsNan(a, t)]]
      /\ Ewm(b) = [t \in 1 .. m |-> [reads |-> Reads(b, t), nan |-> IsNan(b, t)]]
  BY <1>1 DEF Ewm
<1>3. ASSUME NEW t \in 1 .. n PROVE Reads(a, t) \subseteq 1 .. t /\ IsNan(a, t) \in BOOLEAN
  <2>1. \A u \in Window(a, t) : a[u].reads \subseteq 1 .. t
    BY <1>1
  <2> QED BY <2>1
<1>4. ASSUME NEW t \in 1 .. m
      PROVE  Reads(b, t) = Reads(a, t) /\ IsNan(b, t) = IsNan(a, t)
  <2>1. Window(b, t) = Window(a, t) /\ \A u \in Window(a, t) : b[u] = a[u]
    BY <1>1
  <2>2. /\ IsNan(b, t) = \A u \in Window(b, t) : b[u].nan
        /\ IsNan(a, t) = \A u \in Window(a, t) : a[u].nan
    OBVIOUS
  <2> HIDE DEF Window, IsNan
  <2> QED BY <2>1, <2>2
<1> HIDE DEF Reads, IsNan
<1> QED BY <1>1, <1>2, <1>3, <1>4 DEF LooksBack, CellOf

-----------------------------------------------------------------------------
(* Expressions of them.                                                    *)

LEMMA DiffLooksBack ==
  ASSUME NEW n \in Nat, NEW m \in 0 .. n, NEW a, NEW b, LooksBack(a, b, n, m)
  PROVE  LooksBack(Diff(a), Diff(b), n, m)
<1>1. LooksBack(Shift(a, 1), Shift(b, 1), n, m)
  BY ShiftLooksBack
<1> QED BY <1>1, WithLooksBack DEF Diff

(* The prices of all bars and of the first m.                              *)
PricesAgree(p, q, n, m) ==
  /\ LooksBack(p.close, q.close, n, m)
  /\ LooksBack(p.high, q.high, n, m)
  /\ LooksBack(p.low, q.low, n, m)

LEMMA TrueRangeLooksBack ==
  ASSUME NEW n \in Nat, NEW m \in 0 .. n, NEW p, NEW q, PricesAgree(p, q, n, m)
  PROVE  LooksBack(TrueRange(p.high, p.low, p.close),
                   TrueRange(q.high, q.low, q.close), n, m)
<1>1. LooksBack(Shift(p.close, 1), Shift(q.close, 1), n, m)
  BY ShiftLooksBack DEF PricesAgree
<1>2. /\ LooksBack(With(p.high, p.low), With(q.high, q.low), n, m)
      /\ LooksBack(With(p.high, Shift(p.close, 1)),
                   With(q.high, Shift(q.close, 1)), n, m)
      /\ LooksBack(With(p.low, Shift(p.close, 1)),
                   With(q.low, Shift(q.close, 1)), n, m)
  BY <1>1, WithLooksBack DEF PricesAgree
<1> QED BY <1>2, MaxOfLooksBack DEF TrueRange

(* What Adx makes of two movements.                                        *)
Reading(a, c) == [t \in DOMAIN a |-> [a[t] EXCEPT !.reads = @ \cup c[t].reads]]

LEMMA ReadingLooksBack ==
  ASSUME NEW n \in Nat, NEW m \in 0 .. n,
         NEW a, NEW b, LooksBack(a, b, n, m),
         NEW c, NEW d, LooksBack(c, d, n, m)
  PROVE  LooksBack(Reading(a, c), Reading(b, d), n, m)
<1> DEFINE e == Reading(a, c)
           f == Reading(b, d)
<1>1. /\ DOMAIN a = 1 .. n /\ DOMAIN b = 1 .. m
      /\ \A t \in 1 .. n : a[t] \in [reads : SUBSET Int, nan : BOOLEAN]
      /\ \A t \in 1 .. n : c[t].reads \in SUBSET Int
      /\ \A t \in 1 .. n : a[t].reads \cup c[t].reads \subseteq 1 .. t
      /\ \A t \in 1 .. m : t \in 1 .. n /\ b[t] = a[t] /\ d[t] = c[t]
  BY CellsLookBack DEF CellOf
<1>2. ASSUME NEW t \in 1 .. n PROVE e[t] \in CellOf /\ e[t].reads \subseteq 1 .. t
  <2>1. e[t] = [reads |-> a[t].reads \cup c[t].reads, nan |-> a[t].nan]
    BY <1>1 DEF Reading
  <2>2. a[t].reads \cup c[t].reads \in SUBSET Int /\ a[t].nan \in BOOLEAN
    BY <1>1
  <2> QED BY <1>1, <2>1, <2>2, CellIsTyped
<1>3. \A t \in 1 .. m : f[t] = e[t]
  BY <1>1 DEF Reading
<1>4. e = [t \in 1 .. n |-> e[t]] /\ f = [t \in 1 .. m |-> f[t]]
  BY <1>1 DEF Reading
<1> QED BY <1>2, <1>3, <1>4, OfCells

LEMMA AdxLooksBack ==
  ASSUME NEW n \in Nat, NEW m \in 0 .. n, NEW p, NEW q, PricesAgree(p, q, n, m)
  PROVE  LooksBack(Adx(p.high, p.low, p.close), Adx(q.high, q.low, q.close), n, m)
<1>1. PICK up, upq, down, downq :
        /\ up = Diff(p.high) /\ upq = Diff(q.high)
        /\ down = Diff(p.low) /\ downq = Diff(q.low)
  OBVIOUS
<1>2. LooksBack(up, upq, n, m) /\ LooksBack(down, downq, n, m)
  BY <1>1, DiffLooksBack DEF PricesAgree
<1>3. PICK plus, plusq, minus, minusq :
        /\ plus = Reading(up, down) /\ plusq = Reading(upq, downq)
        /\ minus = Reading(down, up) /\ minusq = Reading(downq, upq)
  OBVIOUS
<1>4. LooksBack(plus, plusq, n, m) /\ LooksBack(minus, minusq, n, m)
  <2>1. LooksBack(plus, plusq, n, m)
    BY <1>2, <1>3, ReadingLooksBack
  <2>2. LooksBack(minus, minusq, n, m)
    BY <1>2, <1>3, ReadingLooksBack
  <2> QED BY <2>1, <2>2
<1>5. PICK atr, atrq : /\ atr = Ewm(TrueRange(p.high, p.low, p.close))
                       /\ atrq = Ewm(TrueRange(q.high, q.low, q.close))
  OBVIOUS
<1>6. LooksBack(atr, atrq, n, m)
  BY <1>5, TrueRangeLooksBack, EwmLooksBack
<1>7. /\ Adx(p.high, p.low, p.close)
           = Ewm(With(With(Ewm(plus), atr), With(Ewm(minus), atr)))
      /\ Adx(q.high, q.low, q.close)
           = Ewm(With(With(Ewm(plusq), atrq), With(Ewm(minusq), atrq)))
  BY <1>1, <1>3, <1>5 DEF Adx, Reading
<1>8. /\ LooksBack(Ewm(plus), Ewm(plusq), n, m)
      /\ LooksBack(Ewm(minus), Ewm(minusq), n, m)
  BY <1>4, EwmLooksBack
<1>9. /\ LooksBack(With(Ewm(plus), atr), With(Ewm(plusq), atrq), n, m)
      /\ LooksBack(With(Ewm(minus), atr), With(Ewm(minusq), atrq), n, m)
  BY <1>6, <1>8, WithLooksBack
<1>10. LooksBack(With(With(Ewm(plus), atr), With(Ewm(minus), atr)),
                 With(With(Ewm(plusq), atrq), With(Ewm(minusq), atrq)), n, m)
  BY <1>9, WithLooksBack
<1> QED BY <1>7, <1>10, EwmLooksBack

LEMMA RsiLooksBack ==
  ASSUME NEW n \in Nat, NEW m \in 0 .. n, NEW a, NEW b, LooksBack(a, b, n, m)
  PROVE  LooksBack(Rsi(a), Rsi(b), n, m)
<1>1. PICK da, db, x, y : /\ da = Diff(a) /\ db = Diff(b)
                          /\ x = Ewm(Where(da)) /\ y = Ewm(Where(db))
  OBVIOUS
<1>2. LooksBack(da, db, n, m)
  BY <1>1, DiffLooksBack
<1>3. LooksBack(x, y, n, m)
  BY <1>1, <1>2, WhereLooksBack, EwmLooksBack
<1> DEFINE Still(s, t) == \A u \in 1 .. t : s[u].nan
<1>4. /\ DOMAIN a = 1 .. n /\ DOMAIN b = 1 .. m
      /\ \A t \in 1 .. n : x[t] \in [reads : SUBSET Int, nan : BOOLEAN]
      /\ \A t \in 1 .. n : x[t].reads \subseteq 1 .. t
      /\ \A t \in 1 .. m : t \in 1 .. n /\ y[t] = x[t] /\ db[t] = da[t]
  BY <1>2, <1>3, CellsLookBack DEF CellOf
<1>5. /\ Rsi(a) = [t \in 1 .. n |-> [x[t] EXCEPT !.nan = @ \/ Still(da, t)]]
      /\ Rsi(b) = [t \in 1 .. m |-> [y[t] EXCEPT !.nan = @ \/ Still(db, t)]]
  BY <1>1, <1>4 DEF Rsi
<1>6. ASSUME NEW t \in 1 .. n
      PROVE  Rsi(a)[t] \in CellOf /\ Rsi(a)[t].reads \subseteq 1 .. t
  <2>1. PICK nan : nan = (x[t].nan \/ Still(da, t))
    OBVIOUS
  <2>2. nan \in BOOLEAN
    BY <2>1
  <2>3. Rsi(a)[t] = [reads |-> x[t].reads, nan |-> nan]
    BY <1>4, <1>5, <2>1
  <2> QED BY <1>4, <2>2, <2>3, CellIsTyped
<1>7. ASSUME NEW t \in 1 .. m PROVE Rsi(b)[t] = Rsi(a)[t]
  <2>1. \A u \in 1 .. t : u \in 1 .. m
    OBVIOUS
  <2>2. Still(db, t) = Still(da, t)
    BY <1>4, <2>1
  <2>3. y[t] = x[t] /\ t \in 1 .. n
    BY <1>4
  <2>4. PICK still, stillb : still = Still(da, t) /\ stillb = Still(db, t)
    OBVIOUS
  <2>5. /\ Rsi(a)[t] = [x[t] EXCEPT !.nan = @ \/ still]
        /\ Rsi(b)[t] = [y[t] EXCEPT !.nan = @ \/ stillb]
    BY <1>5, <2>3, <2>4
  <2>6. stillb = still
    BY <2>2, <2>4
  <2> QED BY <2>3, <2>5, <2>6
<1>8. /\ Rsi(a) = [t \in 1 .. n |-> Rsi(a)[t]]
      /\ Rsi(b) = [t \in 1 .. m |-> Rsi(b)[t]]
  BY <1>5
<1> QED BY <1>6, <1>7, <1>8, OfCells

(* The columns of an indicator.                                            *)
ColumnsLookBack(c, d, n, m) ==
  /\ DOMAIN d = DOMAIN c
  /\ \A k \in DOMAIN c : LooksBack(c[k], d[k], n, m)

LEMMA OneColumn ==
  ASSUME NEW n, NEW m, NEW a, NEW b, LooksBack(a, b, n, m)
  PROVE  ColumnsLookBack(<<a>>, <<b>>, n, m)
BY DEF ColumnsLookBack

LEMMA ThreeColumns ==
  ASSUME NEW n, NEW m,
         NEW a, NEW b, LooksBack(a, b, n, m),
         NEW c, NEW d, LooksBack(c, d, n, m),
         NEW e, NEW f, LooksBack(e, f, n, m)
  PROVE  ColumnsLookBack(<<a, c, e>>, <<b, d, f>>, n, m)
BY DEF ColumnsLookBack

LEMMA AnotherColumn ==
  ASSUME NEW S, NEW T, NEW c \in Seq(S), NEW d \in Seq(T), NEW n, NEW m,
         ColumnsLookBack(c, d, n, m), NEW a \in S, NEW b \in T, LooksBack(a, b, n, m)
  PROVE  ColumnsLookBack(Append(c, a), Append(d, b), n, m)
<1>1. PICK l \in Nat : l = Len(c)
  OBVIOUS
<1>2. DOMAIN c = 1 .. l /\ DOMAIN d = 1 .. l /\ Len(d) = l
  BY <1>1 DEF ColumnsLookBack
<1>3. /\ DOMAIN Append(c, a) = 1 .. l + 1 /\ DOMAIN Append(d, b) = 1 .. l + 1
      /\ Append(c, a)[l + 1] = a /\ Append(d, b)[l + 1] = b
      /\ \A k \in 1 .. l : Append(c, a)[k] = c[k] /\ Append(d, b)[k] = d[k]
  BY <1>1, <1>2
<1>4. \A k \in 1 .. l + 1 : k = l + 1 \/ k \in 1 .. l
  BY <1>1
<1> QED BY <1>2, <1>3, <1>4 DEF ColumnsLookBack

LEMMA BandsLookBack ==
  ASSUME NEW n \in Nat, NEW m \in 0 .. n,
         NEW a, NEW b, LooksBack(a, b, n, m),
         NEW c, NEW d, LooksBack(c, d, n, m)
  PROVE  ColumnsLookBack(Bands(a, c), Bands(b, d), n, m)
<1>1. LooksBack(With(a, c), With(b, d), n, m)
  BY WithLooksBack
<1> QED BY <1>1, ThreeColumns DEF Bands

-----------------------------------------------------------------------------
(* The registry.                                                           *)

LEMMA PairOfMax == ASSUME NEW x \in Int PROVE Max({1, x}) \in Nat
<1>1. PICK p : p = Max({1, x})
  OBVIOUS
<1>2. \E k \in {1, x} : \A l \in {1, x} : l <= k
  <2>1. CASE x <= 1
    BY <2>1
  <2>2. CASE ~(x <= 1)
    BY <2>2
  <2> QED BY <2>1, <2>2
<1>3. p \in {1, x} /\ \A l \in {1, x} : l <= p
  BY <1>1, <1>2 DEF Max
<1> QED BY <1>1, <1>3

(* The square root below n that Hma smooths over.                          *)
LEMMA IsqrtIsInt == ASSUME NEW w \in Nat PROVE Max({1, Isqrt(w)}) \in Int
<1>1. PICK root : root = Isqrt(w)
  OBVIOUS
<1> DEFINE S == {k \in 0 .. w : k * k <= w}
<1>2. \E k \in S : \A l \in S : l <= k
  <2>1. \E n \in {w - k : k \in S} : \A l \in {w - k : k \in S} : n <= l
    <3>1. {w - k : k \in S} \subseteq Nat /\ w - 0 \in {w - k : k \in S}
      OBVIOUS
    <3> HIDE DEF S
    <3> QED BY <3>1, LeastExists
  <2>2. PICK k \in S : \A l \in S : w - k <= w - l
    BY <2>1
  <2>3. \A l \in S : l <= k
    BY <2>2
  <2> QED BY <2>3
<1>3. root \in S
  <2> HIDE DEF S
  <2>1. root = CHOOSE x \in S : \A y \in S : x >= y
    BY <1>1 DEF Isqrt, Max, S
  <2>2. \E k \in S : \A l \in S : k >= l
    <3>1. \A k \in S : k \in Int
      BY DEF S
    <3> QED BY <1>2, <3>1
  <2> QED BY <2>1, <2>2
<1>4. root \in Int
  BY <1>3
<1>5. Max({1, root}) \in Nat
  BY <1>4, PairOfMax
<1> QED BY <1>1, <1>5

LEMMA PricesOfAgree ==
  ASSUME NEW c, NEW n \in Nat, NEW m \in 0 .. n, c.missing \subseteq 1 .. n
  PROVE  PricesAgree(PricesOf(c, n), PricesOf(c, m), n, m)
<1>1. LooksBack(Prices(n, {}), Prices(m, {}), n, m)
  <2>1. {} \cap 1 .. m = {}
    OBVIOUS
  <2> QED BY <2>1, PricesLookBack
<1>2. c.missing \cap 1 .. n = c.missing
  OBVIOUS
<1>3. LooksBack(Prices(n, c.missing \cap 1 .. n),
                Prices(m, c.missing \cap 1 .. m), n, m)
  BY <1>2, PricesLookBack
<1> QED BY <1>1, <1>3 DEF PricesAgree, PricesOf

LEMMA ComputeLooksBack ==
  ASSUME NEW n \in Nat, NEW m \in 0 .. n, NEW p, NEW q, PricesAgree(p, q, n, m),
         NEW w \in Nat, NEW name \in Registry
  PROVE  ColumnsLookBack(Compute(name, p, w), Compute(name, q, w), n, m)
<1>1. PICK c, d, high, highq, low, lowq :
        /\ c = p.close /\ high = p.high /\ low = p.low
        /\ d = q.close /\ highq = q.high /\ lowq = q.low
  OBVIOUS
<1>2. /\ LooksBack(c, d, n, m) /\ LooksBack(high, highq, n, m)
      /\ LooksBack(low, lowq, n, m)
  BY <1>1 DEF PricesAgree
<1>3. /\ LooksBack(Ewm(c), Ewm(d), n, m)
      /\ LooksBack(Ewm(Ewm(c)), Ewm(Ewm(d)), n, m)
      /\ LooksBack(Ewm(Ewm(Ewm(c))), Ewm(Ewm(Ewm(d))), n, m)
  BY <1>2, EwmLooksBack
<1>4. /\ LooksBack(Rolling(c, w), Rolling(d, w), n, m)
      /\ LooksBack(Rolling(high, w), Rolling(highq, w), n, m)
      /\ LooksBack(Rolling(low, w), Rolling(lowq, w), n, m)
  BY <1>2, RollingLooksBack
<1>5. w \div 2 \in Nat /\ (w \div 2) + 1 \in Nat
  OBVIOUS
<1>6. CASE name = "ma"
  BY <1>1, <1>4, <1>6, OneColumn DEF Compute, Ma
<1>7. CASE name = "ema"
  BY <1>1, <1>3, <1>7, OneColumn DEF Compute, Ema
<1>8. LooksBack(Dema(c), Dema(d), n, m)
  BY <1>3, WithLooksBack DEF Dema
<1>9. CASE name = "dema"
  BY <1>1, <1>8, <1>9, OneColumn DEF Compute
<1>10. CASE name = "tema"
  <2>1. LooksBack(Tema(c), Tema(d), n, m)
    BY <1>3, <1>8, WithLooksBack DEF Tema
  <2> QED BY <1>1, <1>10, <2>1, OneColumn DEF Compute
<1>11. CASE name = "hma"
  <2>1. PICK half, root : half = Max({1, w \div 2}) /\ root = Max({1, Isqrt(w)})
    OBVIOUS
  <2>2. half \in Int /\ root \in Int
    BY <1>5, <2>1, PairOfMax, IsqrtIsInt
  <2>3. LooksBack(Rolling(c, half), Rolling(d, half), n, m)
    BY <1>2, <2>2, RollingLooksBack
  <2>4. LooksBack(With(Rolling(c, half), Rolling(c, w)),
                  With(Rolling(d, half), Rolling(d, w)), n, m)
    BY <1>4, <2>3, WithLooksBack
  <2>5. LooksBack(Rolling(With(Rolling(c, half), Rolling(c, w)), root),
                  Rolling(With(Rolling(d, half), Rolling(d, w)), root), n, m)
    BY <2>2, <2>4, RollingLooksBack
  <2>6. LooksBack(Hma(c, w), Hma(d, w), n, m)
    BY <2>1, <2>5 DEF Hma
  <2> QED BY <1>1, <1>11, <2>6, OneColumn DEF Compute
<1>12. CASE name = "macd"
  <2>1. PICK line, lineq : line = With(Ewm(c), Ewm(c)) /\ lineq = With(Ewm(d), Ewm(d))
    OBVIOUS
  <2>2. LooksBack(line, lineq, n, m)
    BY <1>3, <2>1, WithLooksBack
  <2>3. LooksBack(Ewm(line), Ewm(lineq), n, m)
    BY <2>2, EwmLooksBack
  <2>4. LooksBack(With(line, Ewm(line)), With(lineq, Ewm(lineq)), n, m)
    BY <2>2, <2>3, WithLooksBack
  <2>5. ColumnsLookBack(<<line, Ewm(line), With(line, Ewm(line))>>,
                        <<lineq, Ewm(lineq), With(lineq, Ewm(lineq))>>, n, m)
    BY <2>2, <2>3, <2>4, ThreeColumns
  <2> QED BY <1>1, <1>12, <2>1, <2>5 DEF Compute, Macd
<1>13. CASE name = "adx"
  BY <1>13, AdxLooksBack, OneColumn DEF Compute
<1>14. CASE name = "dpo"
  <2>1. PICK k : k = (w \div 2) + 1 /\ k \in Nat
    BY <1>5
  <2>2. LooksBack(Shift(c, k), Shift(d, k), n, m)
    BY <1>2, <2>1, ShiftLooksBack
  <2>3. LooksBack(Rolling(Shift(c, k), w), Rolling(Shift(d, k), w), n, m)
    BY <2>2, RollingLooksBack
  <2>4. LooksBack(Dpo(c, w), Dpo(d, w), n, m)
    BY <1>2, <2>1, <2>3, WithLooksBack DEF Dpo
  <2> QED BY <1>1, <1>14, <2>4, OneColumn DEF Compute
<1>15. CASE name = "trix"
  <2>1. LooksBack(Trix(c), Trix(d), n, m)
    BY <1>3, DiffLooksBack DEF Trix
  <2> QED BY <1>1, <1>15, <2>1, OneColumn DEF Compute
<1>16. CASE name = "rsi"
  <2>1. LooksBack(Rsi(c), Rsi(d), n, m)
    BY <1>2, RsiLooksBack
  <2> QED BY <1>1, <1>16, <2>1, OneColumn DEF Compute
<1>17. LooksBack(Raw(high, low, c, w), Raw(highq, lowq, d, w), n, m)
  <2>1. LooksBack(With(Rolling(low, w), Rolling(high, w)),
                  With(Rolling(lowq, w), Rolling(highq, w)), n, m)
    BY <1>4, WithLooksBack
  <2> QED BY <1>2, <2>1, WithLooksBack DEF Raw
<1>18. CASE name = "kd"
  <2>1. PICK k, kq : /\ k = Ewm(Raw(high, low, c, w))
                     /\ kq = Ewm(Raw(highq, lowq, d, w))
    OBVIOUS
  <2>2. LooksBack(k, kq, n, m)
    BY <1>17, <2>1, EwmLooksBack
  <2>3. LooksBack(Ewm(k), Ewm(kq), n, m)
    BY <2>2, EwmLooksBack
  <2>4. LooksBack(With(k, Ewm(k)), With(kq, Ewm(kq)), n, m)
    BY <2>2, <2>3, WithLooksBack
  <2>5. ColumnsLookBack(<<k, Ewm(k), With(k, Ewm(k))>>,
                        <<kq, Ewm(kq), With(kq, Ewm(kq))>>, n, m)
    BY <2>2, <2>3, <2>4, ThreeColumns
  <2> QED BY <1>1, <1>18, <2>1, <2>5 DEF Compute, Kd
<1>19. CASE name = "williams_r"
  BY <1>1, <1>17, <1>19, OneColumn DEF Compute
<1>20. CASE name = "cci"
  <2>1. PICK tp, tpq : /\ tp = With(high, With(low, c))
                       /\ tpq = With(highq, With(lowq, d))
    OBVIOUS
  <2>2. LooksBack(With(low, c), With(lowq, d), n, m)
    BY <1>2, WithLooksBack
  <2>3. LooksBack(tp, tpq, n, m)
    BY <1>2, <2>1, <2>2, WithLooksBack
  <2>4. LooksBack(Rolling(tp, w), Rolling(tpq, w), n, m)
    BY <2>3, RollingLooksBack
  <2>5. LooksBack(With(tp, Rolling(tp, w)), With(tpq, Rolling(tpq, w)), n, m)
    BY <2>3, <2>4, WithLooksBack
  <2> QED BY <1>1, <1>20, <2>1, <2>5, OneColumn DEF Compute, Cci
<1>21. CASE name = "bollinger"
  <2>1. PICK sd, sdq : sd = Rolling(c, w) /\ sdq = Rolling(d, w)
    OBVIOUS
  <2>2. LooksBack(sd, sdq, n, m) /\ LooksBack(With(sd, sd), With(sdq, sdq), n, m)
    BY <1>4, <2>1, WithLooksBack
  <2>3. PICK x, y : x = With(sd, sd) /\ y = With(sdq, sdq)
    OBVIOUS
  <2>4. ColumnsLookBack(<<x, sd, x>>, <<y, sdq, y>>, n, m)
    BY <2>2, <2>3, ThreeColumns
  <2>5. <<x, sd, x>> \in Seq({x, sd}) /\ <<y, sdq, y>> \in Seq({y, sdq})
    OBVIOUS
  <2>6. ColumnsLookBack(Append(<<x, sd, x>>, x), Append(<<y, sdq, y>>, y), n, m)
    <3>1. PICK cols, more : cols = <<x, sd, x>> /\ more = <<y, sdq, y>>
      OBVIOUS
    <3>2. PICK S, T : S = {x, sd} /\ T = {y, sdq}
      OBVIOUS
    <3>3. /\ cols \in Seq(S) /\ more \in Seq(T) /\ x \in S /\ y \in T
          /\ ColumnsLookBack(cols, more, n, m) /\ LooksBack(x, y, n, m)
      BY <2>2, <2>3, <2>4, <2>5, <3>1, <3>2
    <3>4. ColumnsLookBack(Append(cols, x), Append(more, y), n, m)
      BY <3>3, AnotherColumn
    <3> QED BY <3>1, <3>4
  <2>7. /\ Bollinger(c, w) = Append(<<x, sd, x>>, x)
        /\ Bollinger(d, w) = Append(<<y, sdq, y>>, y)
    BY <2>1, <2>3 DEF Bollinger, Bands
  <2> QED BY <1>1, <1>21, <2>6, <2>7 DEF Compute
<1>22. PICK atr, atrq : /\ atr = Atr(high, low, c)
                        /\ atrq = Atr(highq, lowq, d)
  OBVIOUS
<1>23. LooksBack(atr, atrq, n, m)
  BY <1>1, <1>22, TrueRangeLooksBack, EwmLooksBack DEF Atr
<1>24. CASE name = "atr"
  BY <1>1, <1>22, <1>23, <1>24, OneColumn DEF Compute
<1>25. CASE name = "keltner"
  <2>1. ColumnsLookBack(Bands(Ewm(c), atr), Bands(Ewm(d), atrq), n, m)
    BY <1>3, <1>23, BandsLookBack
  <2> QED BY <1>1, <1>22, <1>25, <2>1 DEF Compute, Keltner
<1>26. CASE name = "donchian"
  <2>1. LooksBack(With(Rolling(high, w), Rolling(low, w)),
                  With(Rolling(highq, w), Rolling(lowq, w)), n, m)
    BY <1>4, WithLooksBack
  <2>2. ColumnsLookBack(Donchian(high, low, w), Donchian(highq, lowq, w), n, m)
    BY <1>4, <2>1, ThreeColumns DEF Donchian
  <2> QED BY <1>1, <1>26, <2>2 DEF Compute
<1>27. LooksBack(Corr(c, high, w), Corr(d, highq, w), n, m)
  <2>1. LooksBack(With(c, high), With(d, highq), n, m)
    BY <1>2, WithLooksBack
  <2> QED BY <2>1, RollingLooksBack DEF Corr
<1>28. CASE name = "rolling_corr"
  BY <1>1, <1>27, <1>28, OneColumn DEF Compute
<1>29. CASE name = "rolling_beta"
  <2>1. LooksBack(Beta(c, high, w), Beta(d, highq, w), n, m)
    BY <1>4, <1>27, WithLooksBack DEF Beta
  <2> QED BY <1>1, <1>29, <2>1, OneColumn DEF Compute
<1>30. CASE name = "zscore"
  <2>1. LooksBack(With(Rolling(c, w), Rolling(c, w)),
                  With(Rolling(d, w), Rolling(d, w)), n, m)
    BY <1>4, WithLooksBack
  <2>2. LooksBack(ZScore(c, w), ZScore(d, w), n, m)
    BY <1>2, <2>1, WithLooksBack DEF ZScore
  <2> QED BY <1>1, <1>30, <2>2, OneColumn DEF Compute
<1> QED
  BY <1>6, <1>7, <1>9, <1>10, <1>11, <1>12, <1>13, <1>14, <1>15, <1>16, <1>18,
     <1>19, <1>20, <1>21, <1>24, <1>25, <1>26, <1>28, <1>29, <1>30 DEF Registry

(* No indicator of the registry looks ahead, for any number of bars, any   *)
(* window and any missing prices (compute_engine/indicators): what a       *)
(* strategy may precompute on all the data.                                *)
THEOREM IndicatorsLookBack == MCSpec => []NoLookAhead
<1>1. ASSUME case.of = "indicator" => case \in IndicatorCases PROVE NoLookAhead
  <2> SUFFICES ASSUME case.of = "indicator" PROVE NoLookAhead
    BY DEF NoLookAhead
  <2> DEFINE columns(n) == Compute(case.name, PricesOf(case, n), case.window)
  <2>1. /\ case.name \in Registry /\ case.window \in Nat /\ Bars \in Nat
        /\ case.missing \subseteq 1 .. Bars
    BY <1>1, AlgorithmsAssumption DEF IndicatorCases
  <2>2. ASSUME NEW t \in 1 .. Bars
        PROVE  ColumnsLookBack(columns(Bars), columns(t), Bars, t)
    <3>1. t \in 0 .. Bars
      BY <2>1
    <3>2. PricesAgree(PricesOf(case, Bars), PricesOf(case, t), Bars, t)
      BY <2>1, <3>1, PricesOfAgree
    <3> QED BY <2>1, <3>1, <3>2, ComputeLooksBack
  <2>3. ASSUME NEW t \in 1 .. Bars, NEW k \in DOMAIN columns(Bars)
        PROVE  /\ columns(Bars)[k][t].reads \subseteq 1 .. t
               /\ columns(t)[k][t] = columns(Bars)[k][t]
    <3>1. LooksBack(columns(Bars)[k], columns(t)[k], Bars, t)
      BY <2>2 DEF ColumnsLookBack
    <3>2. t \in 1 .. t
      BY <2>1
    <3> HIDE DEF columns
    <3> QED BY <3>1, <3>2 DEF LooksBack
  <2> QED BY <2>3 DEF NoLookAhead
<1>2. MCInit => (case.of = "indicator" => case \in IndicatorCases)
  BY DEF MCInit, None, IndicatorCases, WindowCases, EnvelopeCases, TaskCases
<1>3. (case.of = "indicator" => case \in IndicatorCases) /\ [MCNext]_caseVars
        => (case.of = "indicator" => case \in IndicatorCases)'
  BY DEF MCNext, caseVars, IndicatorCases
<1> QED BY <1>1, <1>2, <1>3, PTL DEF MCSpec

-----------------------------------------------------------------------------
(* Messages.                                                               *)

(* An envelope that is not refused arrives, whatever its sender and its    *)
(* receiver can read.                                                      *)
LEMMA SentIsReceived ==
  ASSUME NEW e, e = [id |-> e.id, reply_to |-> e.reply_to, trace |-> e.trace,
                     encoding |-> e.encoding, payload |-> e.payload],
         e.id \in Nat \ {0}, e.encoding \in {"json", "msgpack"},
         e.payload \in Payload,
         NEW from \in BOOLEAN, NEW to \in BOOLEAN
  PROVE  Decode(Encode(e, from), to)
           = IF Unpackable(e, from) \/ (e.encoding = "msgpack" /\ ~to)
             THEN Refused ELSE [e EXCEPT !.payload = Form(e, @)]
<1>1. PICK packed : packed = Packed(e)
  OBVIOUS
<1>2. PICK p, holds : p = e.payload /\ holds = Form(e, p).holds
  OBVIOUS
<1>3. packed = [id |-> e.id, reply_to |-> e.reply_to, trace |-> e.trace,
                encoding |-> e.encoding,
                payload |-> [kind |-> IF p.kind = "bytes" THEN "b64" ELSE p.kind,
                             holds |-> holds,
                             marked |-> p.kind = "bytes"]]
  BY <1>1, <1>2 DEF Packed
<1>4. packed # Refused
  BY <1>3 DEF Refused
<1>5. p = [kind |-> p.kind, holds |-> p.holds] /\ p.kind # "b64"
  BY <1>2 DEF Payload
<1>6. Form(e, p) = [kind |-> p.kind, holds |-> holds]
  BY <1>2, <1>5 DEF Form
<1>7. CASE Unpackable(e, from)
  BY <1>7 DEF Encode, Decode
<1>8. CASE ~Unpackable(e, from) /\ e.encoding = "msgpack" /\ ~to
  BY <1>1, <1>3, <1>8 DEF Encode, Decode
<1>9. CASE ~Unpackable(e, from) /\ ~(e.encoding = "msgpack" /\ ~to)
  <2>1. Decode(packed, to)
          = [packed EXCEPT !.payload = [kind  |-> IF @.marked THEN "bytes" ELSE @.kind,
                                        holds |-> @.holds]]
    BY <1>3, <1>4, <1>9 DEF Decode
  <2>2. Decode(packed, to)
          = [id |-> e.id, reply_to |-> e.reply_to, trace |-> e.trace,
             encoding |-> e.encoding, payload |-> [kind |-> p.kind, holds |-> holds]]
    BY <1>3, <1>5, <2>1
  <2>3. [e EXCEPT !.payload = Form(e, @)]
          = [id |-> e.id, reply_to |-> e.reply_to, trace |-> e.trace,
             encoding |-> e.encoding, payload |-> Form(e, p)]
    BY <1>2
  <2> QED BY <1>1, <1>6, <1>9, <2>2, <2>3 DEF Encode
<1> QED BY <1>7, <1>8, <1>9

LEMMA EnvelopesArrive ==
  ASSUME NEW e \in Envelope, NEW client \in BOOLEAN, NEW server \in BOOLEAN,
         NEW answer \in Payload
  PROVE  EnvelopeArrives(e, client, server, answer)
<1>1. PICK got : got = Decode(Encode(e, client), server)
  OBVIOUS
<1> SUFFICES ASSUME got # Refused
             PROVE  /\ got = [e EXCEPT !.payload = Form(e, @)]
                    /\ answer.holds = {} =>
                         LET back == Decode(Encode(Reply(got, 2, answer), server), client)
                         IN  /\ back.reply_to = e.id /\ back.trace = e.trace
                             /\ back.payload = answer
  BY <1>1 DEF EnvelopeArrives
<1>2. /\ e = [id |-> e.id, reply_to |-> e.reply_to, trace |-> e.trace,
              encoding |-> e.encoding, payload |-> e.payload]
      /\ e.id \in Nat \ {0} /\ e.encoding \in {"json", "msgpack"}
      /\ e.payload \in Payload
  BY DEF Envelope
<1>3. /\ ~Unpackable(e, client) /\ ~(e.encoding = "msgpack" /\ ~server)
      /\ got = [e EXCEPT !.payload = Form(e, @)]
  BY <1>1, <1>2, SentIsReceived
<1>4. ASSUME answer.holds = {}
      PROVE  \E back : /\ back = Decode(Encode(Reply(got, 2, answer), server), client)
                       /\ back.reply_to = e.id /\ back.trace = e.trace
                       /\ back.payload = answer
  <2>1. PICK reply : reply = Reply(got, 2, answer)
    OBVIOUS
  <2>2. reply = [id |-> 2, reply_to |-> e.id, trace |-> e.trace,
                 encoding |-> e.encoding, payload |-> answer]
    BY <1>2, <1>3, <2>1 DEF Reply
  <2>3. ~Unpackable(reply, server) /\ ~(reply.encoding = "msgpack" /\ ~client)
    BY <1>3, <1>4, <2>2 DEF Unpackable
  <2>4. Decode(Encode(reply, server), client)
          = [reply EXCEPT !.payload = Form(reply, @)]
    BY <1>2, <2>2, <2>3, SentIsReceived
  <2>5. Form(reply, answer) = answer
    <3>1. answer = [kind |-> answer.kind, holds |-> answer.holds]
      BY DEF Payload
    <3> QED BY <1>4, <3>1 DEF Form
  <2>6. [reply EXCEPT !.payload = Form(reply, @)]
          = [id |-> 2, reply_to |-> e.id, trace |-> e.trace,
             encoding |-> e.encoding, payload |-> answer]
    BY <2>2, <2>5
  <2> QED BY <2>1, <2>4, <2>6
<1> QED BY <1>3, <1>4

(* Reading what was written of a field that was read.                      *)
LEMMA FieldArrives ==
  ASSUME NEW f \in Fields, NEW k \in Kinds, NEW r, r = Read(f, k), r # "error",
         f = "created_at" => r = "time"
  PROVE  Write(f, r) # "error" /\ Read(f, Write(f, r)) = r
<1> USE DEF Kinds, Read, Write, False
<1>1. CASE f = "task_id"
  BY <1>1
<1>2. CASE f = "timeframe"
  BY <1>2
<1>3. CASE f = "symbols"
  BY <1>3
<1>4. CASE f = "params"
  BY <1>4
<1>5. CASE f = "fee_models"
  BY <1>5
<1>6. CASE f = "priority"
  BY <1>6
<1>7. CASE f = "allow_short"
  BY <1>7
<1>8. CASE f = "created_at"
  BY <1>8
<1>9. CASE f = "initial_cash"
  BY <1>9
<1> QED BY <1>1, <1>2, <1>3, <1>4, <1>5, <1>6, <1>7, <1>8, <1>9 DEF Fields

LEMMA TasksArrive == ASSUME NEW dict \in [Fields -> Kinds] PROVE TaskArrives(dict)
<1>1. PICK task : task = FromDict(dict)
  OBVIOUS
<1> SUFFICES ASSUME Accepted(task), task["created_at"] = "time"
             PROVE  Accepted(ToDict(task)) /\ FromDict(ToDict(task)) = task
  BY <1>1 DEF TaskArrives
<1>2. \A f \in Fields : task[f] = Read(f, dict[f]) /\ dict[f] \in Kinds
  BY <1>1 DEF FromDict
<1>3. \A f \in Fields : /\ Write(f, task[f]) # "error"
                        /\ Read(f, Write(f, task[f])) = task[f]
  BY <1>2, FieldArrives DEF Accepted
<1>4. task = [f \in Fields |-> task[f]]
  BY <1>1 DEF FromDict
<1> QED BY <1>3, <1>4 DEF Accepted, ToDict, FromDict

(* Every envelope and every task arrives as it was sent and accepted,      *)
(* whatever the fields of the task were (envelope.py, task.py).            *)
THEOREM MessagesArrive == MCSpec => []MessageArrives
<1> DEFINE Sent == /\ case.of = "envelope" => case \in EnvelopeCases
                   /\ case.of = "task" => case.dict \in [Fields -> Kinds]
<1>1. Sent => MessageArrives
  <2> SUFFICES ASSUME Sent PROVE MessageArrives
    OBVIOUS
  <2>1. CASE case.of = "envelope"
    <3>1. /\ case.envelope \in Envelope /\ case.client \in BOOLEAN
          /\ case.server \in BOOLEAN /\ case.answer \in Payload
      BY <2>1 DEF EnvelopeCases
    <3> QED BY <2>1, <3>1, EnvelopesArrive DEF MessageArrives
  <2>2. CASE case.of = "task"
    BY <2>2, TasksArrive DEF MessageArrives
  <2> QED BY <2>1, <2>2 DEF MessageArrives
<1>2. MCInit => Sent
  <2> SUFFICES ASSUME MCInit PROVE Sent
    OBVIOUS
  <2>1. \A c \in TaskCases : c.of = "task" /\ c.dict \in [Fields -> Kinds]
    <3>1. Usual \in [Fields -> Kinds]
      BY DEF Usual, Fields, Kinds
    <3>2. ASSUME NEW c \in TaskCases
          PROVE  c.of = "task" /\ c.dict \in [Fields -> Kinds]
      <4>1. PICK f \in Fields, g \in Fields, k \in Kinds, j \in Kinds :
              c = [of |-> "task", dict |-> [[Usual EXCEPT ![f] = k] EXCEPT ![g] = j]]
        BY DEF TaskCases
      <4>2. PICK dict : dict = [[Usual EXCEPT ![f] = k] EXCEPT ![g] = j]
        OBVIOUS
      <4>3. c.of = "task" /\ c.dict = dict
        BY <4>1, <4>2
      <4>4. dict \in [Fields -> Kinds]
        BY <3>1, <4>2
      <4> QED BY <4>3, <4>4
    <3> QED BY <3>2
  <2>2. \A c \in IndicatorCases : c.of = "indicator"
    BY DEF IndicatorCases
  <2>3. \A c \in WindowCases : c.of = "window"
    BY DEF WindowCases
  <2>4. \A c \in EnvelopeCases : c.of = "envelope"
    BY DEF EnvelopeCases
  <2> QED BY <2>1, <2>2, <2>3, <2>4 DEF MCInit, None
<1>3. Sent /\ [MCNext]_caseVars => Sent'
  BY DEF MCNext, caseVars
<1> QED BY <1>1, <1>2, <1>3, PTL DEF MCSpec

-----------------------------------------------------------------------------
(* Simulations.                                                            *)

LEMMA LesserIs ==
  ASSUME NEW x \in Int, NEW y \in Int
  PROVE  Min({x, y}) = IF x <= y THEN x ELSE y
<1>1. PICK p : p = Min({x, y})
  OBVIOUS
<1>2. \E k \in {x, y} : \A l \in {x, y} : k <= l
  <2>1. CASE x <= y
    BY <2>1
  <2>2. CASE ~(x <= y)
    BY <2>2
  <2> QED BY <2>1, <2>2
<1>3. p \in {x, y} /\ \A l \in {x, y} : p <= l
  BY <1>1, <1>2 DEF Min
<1> QED BY <1>1, <1>3

LEMMA GreaterIs ==
  ASSUME NEW x \in Int, NEW y \in Int
  PROVE  Max({x, y}) = IF x <= y THEN y ELSE x
<1>1. PICK p : p = Max({x, y})
  OBVIOUS
<1>2. \E k \in {x, y} : \A l \in {x, y} : k >= l
  <2>1. CASE x <= y
    BY <2>1
  <2>2. CASE ~(x <= y)
    BY <2>2
  <2> QED BY <2>1, <2>2
<1>3. p \in {x, y} /\ \A l \in {x, y} : p >= l
  BY <1>1, <1>2 DEF Max
<1> QED BY <1>1, <1>3

LEMMA Division ==
  ASSUME NEW n \in Nat, NEW d \in Nat \ {0}, NEW q, q = n \div d
  PROVE  q \in Nat /\ q * d <= n /\ n < q * d + d
OBVIOUS

(* The chunks of n things for w workers are whole, one per worker or one   *)
(* thing each, and leave fewer than w.                                     *)
LEMMA ChunksAreWhole ==
  ASSUME NEW n \in Nat, NEW w \in Nat \ {0},
         NEW size, size = Max({1, n \div w}),
         NEW count, count = Min({w, (n + size - 1) \div size})
  PROVE  /\ size \in Nat \ {0} /\ count \in Nat
         /\ count * size <= n /\ n < count * size + w
<1>1. PICK q : q = n \div w
  OBVIOUS
<1>2. q \in Nat /\ q * w <= n /\ n < q * w + w
  BY <1>1, Division
<1>3. size = IF 1 <= q THEN q ELSE 1
  BY <1>1, <1>2, GreaterIs
<1>4. size \in Nat \ {0} /\ n + size - 1 \in Nat
  BY <1>2, <1>3
<1>5. PICK c : c = (n + size - 1) \div size
  OBVIOUS
<1>6. c \in Nat /\ c * size <= n + size - 1 /\ n + size - 1 < c * size + size
  BY <1>4, <1>5, Division
<1>7. count = IF w <= c THEN w ELSE c
  <2>1. count = Min({w, c})
    BY <1>5
  <2> QED BY <1>6, <2>1, LesserIs
<1>8. CASE q = 0
  <2>1. size = 1 /\ n < w
    BY <1>2, <1>3, <1>8
  <2>2. c = n
    BY <1>6, <2>1
  <2>3. count = n
    BY <1>7, <2>1, <2>2
  <2> QED BY <2>1, <2>3
<1>9. CASE q # 0
  <2>1. size = q
    BY <1>2, <1>3, <1>9
  <2>2. w <= c
    <3>1. SUFFICES ASSUME c < w PROVE FALSE
      BY <1>6
    <3>2. c + 1 <= w
      BY <1>6, <3>1
    <3>3. (c + 1) * size <= w * size
      BY <1>4, <1>6, <3>2
    <3>4. w * size <= n
      BY <1>2, <2>1
    <3>5. (c + 1) * size = c * size + size
      BY <1>4, <1>6
    <3> QED BY <1>4, <1>6, <3>3, <3>4, <3>5
  <2>3. count = w /\ count * size = q * w
    BY <1>2, <1>7, <2>1, <2>2
  <2> QED BY <1>2, <1>4, <2>3
<1> QED BY <1>2, <1>8, <1>9

LEMMA LengthOf ==
  ASSUME NEW n \in Nat, NEW f, f = [k \in 1 .. n |-> f[k]]
  PROVE  DOMAIN f = 1 .. n /\ Len(f) = n
<1>1. f \in [1 .. n -> {f[k] : k \in 1 .. n}]
  OBVIOUS
<1>2. f \in Seq({f[k] : k \in 1 .. n})
  BY <1>1
<1> QED BY <1>1, <1>2

(* The slices all of the simulations of s are chunks of one size.          *)
WholeChunks(s, all) ==
  \E size \in Nat \ {0}, count \in Nat :
    /\ count * size <= s.n /\ s.n < count * size + MaxWorkers(s)
    /\ DOMAIN all = 1 .. count /\ Len(all) = count
    /\ \A k \in 1 .. count : all[k].n = size /\ all[k].seed = s.seed + (k - 1) * size

(* The simulations of a task are split into whole chunks.                  *)
LEMMA SlicesOfSimulations ==
  ASSUME NEW s, {"id", "n", "seed", "workers"} \subseteq DOMAIN s,
         s.n \in Nat, s.workers \in Nat, s.seed \in Int
  PROVE  WholeChunks(s, SimulationSlices(s))
<1>0. PICK all : all = SimulationSlices(s)
  OBVIOUS
<1>1. PICK w, size, count :
        /\ w = MaxWorkers(s) /\ size = ChunkSize(s.n, s)
        /\ count = Min({w, (s.n + size - 1) \div size})
  OBVIOUS
<1>2. w \in Nat \ {0}
  BY <1>1 DEF MaxWorkers
<1>3. size = Max({1, s.n \div w})
  BY <1>1 DEF ChunkSize
<1>4. /\ size \in Nat \ {0} /\ count \in Nat
      /\ count * size <= s.n /\ s.n < count * size + w
  BY <1>1, <1>2, <1>3, ChunksAreWhole
<1>5. all = [k \in 1 .. count |->
               [Clone(s, k) EXCEPT !.n = Min({size, s.n - (k - 1) * size}),
                                   !.seed = s.seed + (k - 1) * size]]
  BY <1>0, <1>1 DEF SimulationSlices
<1>6. ASSUME NEW k \in 1 .. count
      PROVE  all[k].n = size /\ all[k].seed = s.seed + (k - 1) * size
  <2>1. PICK left : left = s.n - (k - 1) * size
    OBVIOUS
  <2>2. k * size <= count * size /\ k * size = (k - 1) * size + size
    BY <1>4
  <2>3. (k - 1) * size \in Int /\ left \in Int /\ size <= left
    BY <1>4, <2>1, <2>2
  <2>4. Min({size, left}) = size
    BY <1>4, <2>3, LesserIs
  <2>5. all[k] = [[s EXCEPT !.id = k] EXCEPT !.n = size,
                                             !.seed = s.seed + (k - 1) * size]
    BY <1>5, <2>1, <2>4 DEF Clone
  <2> QED BY <2>5
<1>7. DOMAIN all = 1 .. count /\ Len(all) = count
  <2>1. all = [k \in 1 .. count |-> all[k]]
    BY <1>5
  <2> QED BY <1>4, <2>1, LengthOf
<1>8. WholeChunks(s, all)
  BY <1>1, <1>4, <1>6, <1>7 DEF WholeChunks
<1> QED BY <1>0, <1>8

(* The simulations before each slice, as Simulated adds them up.           *)
LEMMA SimulationsAddUp ==
  ASSUME NEW all, NEW size \in Nat, NEW count \in Nat, Len(all) = count,
         \A k \in 1 .. count : all[k].n = size
  PROVE  LET first[k \in 0 .. Len(all)] ==
               IF k = 0 THEN 0 ELSE first[k - 1] + all[k].n
         IN  first[Len(all)] = count * size
<1> DEFINE N == 0 .. Len(all)
           Rec(f) == f = [k \in N |-> IF k = 0 THEN 0 ELSE f[k - 1] + all[k].n]
<1>1. PICK g : g = [k \in N |-> k * size]
  OBVIOUS
<1>2. ASSUME NEW k \in N
      PROVE  g[k] = IF k = 0 THEN 0 ELSE g[k - 1] + all[k].n
  <2>1. CASE k = 0
    BY <1>1, <2>1
  <2>2. CASE k # 0
    <3>1. k \in 1 .. count /\ k - 1 \in N
      BY <2>2
    <3>2. g[k] = k * size /\ g[k - 1] = (k - 1) * size /\ all[k].n = size
      BY <1>1, <3>1
    <3>3. k * size = (k - 1) * size + size
      OBVIOUS
    <3> QED BY <2>2, <3>2, <3>3
  <2> QED BY <2>1, <2>2
<1>3. Rec(g)
  BY <1>1, <1>2
<1>4. PICK f : f = CHOOSE h : Rec(h)
  OBVIOUS
<1>5. Rec(f)
  <2> HIDE DEF Rec
  <2> QED BY <1>3, <1>4
<1>6. \A k \in N : f[k] = k * size
  <2> DEFINE S == {k \in N : f[k] # k * size}
  <2> SUFFICES ASSUME S # {} PROVE FALSE
    OBVIOUS
  <2>1. PICK k \in S : \A l \in S : k <= l
    <3>1. S \subseteq Nat
      OBVIOUS
    <3> HIDE DEF S
    <3> QED BY <3>1, LeastExists
  <2>2. f[k] = IF k = 0 THEN 0 ELSE f[k - 1] + all[k].n
    BY <1>5, <2>1
  <2>3. k # 0
    BY <2>1, <2>2
  <2>4. k \in 1 .. count /\ k - 1 \in N /\ k - 1 \notin S
    BY <2>1, <2>3
  <2>5. f[k] = (k - 1) * size + size
    BY <2>2, <2>3, <2>4
  <2>6. k * size = (k - 1) * size + size
    BY <2>4
  <2> QED BY <2>1, <2>5, <2>6
<1>7. f[Len(all)] = count * size
  BY <1>6
<1> QED BY <1>4, <1>7

(* The slices of a task have seeds of their own, each simulates something, *)
(* and fewer simulations than there are workers are dropped, for any       *)
(* numbers of simulations and workers (shard.py).                          *)
THEOREM SimulationsAreSplit == MCSpec => []SimulationsDiffer
<1> DEFINE Split == /\ spec \in Specs \/ spec = Blank
                    /\ submitted => slices = ShardTask(spec)
<1>1. Split => SimulationsDiffer
  <2> SUFFICES ASSUME Split, IsSplitSimulation
               PROVE  SimulationsDiffer
    BY DEF SimulationsDiffer
  <2>1. /\ slices = SimulationSlices(spec)
        /\ {"id", "n", "seed", "workers"} \subseteq DOMAIN spec
        /\ spec.n \in Nat /\ spec.workers \in Nat /\ spec.seed \in Int
    <3>1. spec.type = "monte_carlo" /\ spec.split = "param_wise" /\ submitted
      BY DEF IsSplitSimulation, IsSimulation
    <3>2. spec \in Specs
      BY <3>1 DEF Blank
    <3>3. ShardTask(spec) = SimulationSlices(spec)
      BY <3>1 DEF ShardTask, IsGrid, IsBatch, IsSimulation
    <3> QED BY <3>1, <3>2, <3>3, ShardAssumption DEF IsSpec
  <2>2. PICK size \in Nat \ {0}, count \in Nat :
          /\ count * size <= spec.n /\ spec.n < count * size + MaxWorkers(spec)
          /\ DOMAIN slices = 1 .. count /\ Len(slices) = count
          /\ \A k \in 1 .. count :
               slices[k].n = size /\ slices[k].seed = spec.seed + (k - 1) * size
    <3>1. WholeChunks(spec, SimulationSlices(spec))
      BY <2>1, SlicesOfSimulations
    <3> QED BY <2>1, <3>1 DEF WholeChunks
  <2>3. ASSUME NEW k \in 1 .. count, NEW m \in 1 .. count, k < m
        PROVE  slices[k].seed < slices[m].seed
    <3>1. k * size <= (m - 1) * size /\ k * size = (k - 1) * size + size
      BY <2>3
    <3>2. PICK one, other : one = (k - 1) * size /\ other = (m - 1) * size
      OBVIOUS
    <3>3. one \in Int /\ other \in Int /\ one < other
      BY <3>1, <3>2
    <3>4. slices[k].seed = spec.seed + one /\ slices[m].seed = spec.seed + other
      BY <2>2, <3>2
    <3> QED BY <2>1, <3>3, <3>4
  <2>4. ASSUME NEW k \in 1 .. count, NEW m \in 1 .. count, k # m
        PROVE  slices[k].seed # slices[m].seed
    <3>1. slices[k].seed \in Int /\ slices[m].seed \in Int
      BY <2>1, <2>2
    <3>2. CASE k < m
      BY <2>3, <3>1, <3>2
    <3>3. CASE m < k
      BY <2>3, <3>1, <3>3
    <3> QED BY <2>4, <3>2, <3>3
  <2>5. Simulated = count * size
    BY <2>2, SimulationsAddUp DEF Simulated
  <2>6. spec.n - MaxWorkers(spec) < count * size
    <3>1. MaxWorkers(spec) \in Int /\ count * size \in Int
      BY <2>1 DEF MaxWorkers
    <3> QED BY <2>1, <2>2, <3>1
  <2> QED BY <2>2, <2>4, <2>5, <2>6 DEF SimulationsDiffer
<1>2. MCInit => Split
  <2>1. ShardTask(Blank) = <<Blank>>
    BY DEF ShardTask, Blank, IsGrid, IsBatch, IsSimulation
  <2> QED BY <2>1 DEF MCInit, Init
<1>3. Split /\ [MCNext]_caseVars => Split'
  BY DEF MCNext, Submit, caseVars, vars
<1> QED BY <1>1, <1>2, <1>3, PTL DEF MCSpec

-----------------------------------------------------------------------------
(* Windows.                                                                *)

LEMMA IntervalSize ==
  ASSUME NEW a \in Int, NEW b \in Int
  PROVE  /\ IsFiniteSet(a .. b)
         /\ Cardinality(a .. b) = IF a > b THEN 0 ELSE b - a + 1
BY FS_Interval

LEMMA Ordered ==
  ASSUME NEW i \in Nat, NEW j \in Nat, NEW len \in Nat, i < j
  PROVE  i * len \in Nat /\ j * len \in Nat /\ i * len + len <= j * len
<1>1. (i + 1) * len <= j * len
  OBVIOUS
<1>2. (i + 1) * len = i * len + len
  OBVIOUS
<1>3. i * len \in Nat /\ j * len \in Nat
  OBVIOUS
<1> QED BY <1>1, <1>2, <1>3

(* Tests of len rows in a row, the first at row from.                      *)
InARow(windows, from, len, count) ==
  /\ windows = [i \in 1 .. count |-> windows[i]]
  /\ \A i \in 1 .. count :
       windows[i].test = from + (i - 1) * len .. from + i * len - 1

LEMMA InARowTestsAll ==
  ASSUME NEW from \in Nat, NEW len \in Nat \ {0}, NEW count \in Nat,
         NEW windows, InARow(windows, from, len, count)
  PROVE  \A r \in from .. from + count * len - 1 :
           \E i \in 1 .. count : r \in windows[i].test
<1> SUFFICES ASSUME NEW r \in from .. from + count * len - 1
             PROVE  \E i \in 1 .. count : r \in windows[i].test
  OBVIOUS
<1>0. count * len \in Nat
  OBVIOUS
<1>1. PICK d : d = r - from
  OBVIOUS
<1>2. d \in Nat /\ d < count * len
  BY <1>0, <1>1
<1>3. PICK q : q = d \div len
  OBVIOUS
<1>4. q \in Nat /\ q * len <= d /\ d < q * len + len
  BY <1>2, <1>3, Division
<1>5. q < count
  <2> SUFFICES ASSUME count <= q PROVE FALSE
    BY <1>4
  <2>1. count * len <= q * len
    BY <1>4
  <2>2. q * len \in Nat
    BY <1>4
  <2> QED BY <1>0, <1>2, <1>4, <2>1, <2>2
<1>6. q + 1 \in 1 .. count
  BY <1>4, <1>5
<1>7. windows[q + 1].test = from + q * len .. from + (q * len + len) - 1
  <2>1. (q + 1) - 1 = q /\ (q + 1) * len = q * len + len
    BY <1>4
  <2> QED BY <1>6, <2>1 DEF InARow
<1>8. r \in windows[q + 1].test
  <2>1. q * len \in Nat
    BY <1>4
  <2> QED BY <1>1, <1>2, <1>4, <1>7, <2>1
<1> QED BY <1>6, <1>8

LEMMA InARowLeaves ==
  ASSUME NEW from \in Nat, NEW len \in Nat \ {0}, NEW count \in Nat,
         NEW n \in Nat, NEW m \in Nat \ {0}, NEW windows,
         InARow(windows, from, len, count),
         count # 0 => n < from + count * len + m
  PROVE  LeavesFewerThan(m, windows, n)
<1> DEFINE tested == UNION {windows[i].test : i \in DOMAIN windows}
<1> SUFFICES ASSUME windows # <<>>
             PROVE  Cardinality((Min(tested) .. n - 1) \ tested) < m
  BY DEF LeavesFewerThan
<1>0. count * len \in Nat
  OBVIOUS
<1>1. count # 0
  <2> SUFFICES ASSUME count = 0 PROVE FALSE
    OBVIOUS
  <2>1. DOMAIN windows = {}
    BY DEF InARow
  <2> QED BY <2>1
<1>2. \A r \in from .. from + count * len - 1 : r \in tested
  <2>1. DOMAIN windows = 1 .. count
    BY DEF InARow
  <2>2. \A r \in from .. from + count * len - 1 :
          \E i \in 1 .. count : r \in windows[i].test
    BY InARowTestsAll
  <2> QED BY <2>1, <2>2
<1>3. \A r \in tested : r \in Int /\ from <= r
  <2> SUFFICES ASSUME NEW i \in 1 .. count, NEW r \in windows[i].test
               PROVE  r \in Int /\ from <= r
    BY DEF InARow
  <2>1. (i - 1) * len \in Nat /\ i * len \in Nat
    OBVIOUS
  <2>2. r \in from + (i - 1) * len .. from + i * len - 1
    BY DEF InARow
  <2> QED BY <2>1, <2>2
<1>4. from \in tested
  <2>1. 1 * len <= count * len
    BY <1>1
  <2> QED BY <1>0, <1>2, <2>1
<1> HIDE DEF tested
<1>5. Min(tested) = from
  <2>1. PICK p : p = Min(tested)
    OBVIOUS
  <2>2. p \in tested /\ \A r \in tested : p <= r
    BY <1>3, <1>4, <2>1 DEF Min
  <2> QED BY <1>3, <1>4, <2>1, <2>2
<1>6. (from .. n - 1) \ tested \subseteq from + count * len .. n - 1
  BY <1>0, <1>2
<1>7. PICK a : a = from + count * len
  OBVIOUS
<1>8. a \in Int /\ n < a + m
  BY <1>0, <1>1, <1>7
<1>9. IsFiniteSet(a .. n - 1) /\ Cardinality(a .. n - 1) < m
  <2>1. n - 1 \in Int
    OBVIOUS
  <2>2. /\ IsFiniteSet(a .. n - 1)
        /\ Cardinality(a .. n - 1) = IF a > n - 1 THEN 0 ELSE (n - 1) - a + 1
    BY <1>8, <2>1, IntervalSize
  <2> QED BY <1>8, <2>2
<1>10. PICK rest : rest = (from .. n - 1) \ tested
  OBVIOUS
<1>11. rest \in SUBSET (a .. n - 1)
  BY <1>6, <1>7, <1>10
<1>12. IsFiniteSet(rest) /\ Cardinality(rest) <= Cardinality(a .. n - 1)
  BY <1>9, <1>11, FS_Subset
<1>13. Cardinality(rest) < m
  BY <1>9, <1>11, <1>12, FS_CardinalityType, FS_Subset
<1> QED BY <1>5, <1>10, <1>13

(* Tests of len rows after the rows they are trained on.                   *)
Forward(windows, start, len, count, n) ==
  /\ windows = [i \in 1 .. count |-> windows[i]]
  /\ start \in [1 .. count -> Nat]
  /\ \A i \in 1 .. count :
       /\ windows[i].test = start[i] .. start[i] + len - 1
       /\ windows[i].train \subseteq 0 .. start[i] - 1
       /\ start[i] + len <= n

(* They fit when the tests do not overlap.                                 *)
LEMMA ForwardFits ==
  ASSUME NEW n \in Nat, NEW len \in Nat \ {0}, NEW count \in Nat,
         NEW start, NEW windows, Forward(windows, start, len, count, n),
         \A i, j \in 1 .. count : i < j => start[i] + len <= start[j]
  PROVE  Fit(windows, n)
<1>0. DOMAIN windows = 1 .. count
  BY DEF Forward
<1>1. ASSUME NEW i \in 1 .. count
      PROVE  /\ windows[i].test # {}
             /\ windows[i].train \cup windows[i].test \subseteq 0 .. n - 1
             /\ \A r \in windows[i].train, q \in windows[i].test : r < q
  <2>1. PICK a : a = start[i]
    OBVIOUS
  <2>2. /\ a \in Nat /\ a + len <= n
        /\ windows[i].test = a .. a + len - 1
        /\ windows[i].train \subseteq 0 .. a - 1
    BY <2>1 DEF Forward
  <2>3. a \in windows[i].test
    BY <2>2
  <2>4. windows[i].train \cup windows[i].test \subseteq 0 .. n - 1
    BY <2>2
  <2>5. \A r \in 0 .. a - 1, q \in a .. a + len - 1 : r < q
    BY <2>2
  <2> QED BY <2>2, <2>3, <2>4, <2>5
<1>2. ASSUME NEW i \in 1 .. count, NEW j \in 1 .. count, i < j
      PROVE  windows[i].test \cap windows[j].test = {}
  <2>1. PICK a, b : a = start[i] /\ b = start[j]
    OBVIOUS
  <2>2. /\ a \in Nat /\ b \in Nat /\ a + len <= b
        /\ windows[i].test = a .. a + len - 1
        /\ windows[j].test = b .. b + len - 1
    BY <1>2, <2>1 DEF Forward
  <2> QED BY <2>2
<1>3. \A i, j \in 1 .. count : i # j =>
        windows[i].test \cap windows[j].test = {}
  <2> SUFFICES ASSUME NEW i \in 1 .. count, NEW j \in 1 .. count, i # j
               PROVE  windows[i].test \cap windows[j].test = {}
    OBVIOUS
  <2>1. CASE i < j
    BY <1>2, <2>1
  <2>2. CASE j < i
    BY <1>2, <2>2
  <2> QED BY <2>1, <2>2
<1> QED BY <1>0, <1>1, <1>3 DEF Fit

(* Each of them alone fits in any case.                                    *)
LEMMA OneFits ==
  ASSUME NEW n \in Nat, NEW len \in Nat \ {0}, NEW count \in Nat,
         NEW start, NEW windows, Forward(windows, start, len, count, n),
         NEW i \in 1 .. count
  PROVE  Fit(<<windows[i]>>, n)
<1>1. PICK w, s : w = <<windows[i]>> /\ s = [j \in 1 .. 1 |-> start[i]]
  OBVIOUS
<1>2. w = [j \in 1 .. 1 |-> w[j]] /\ w[1] = windows[i] /\ s[1] = start[i]
  BY <1>1
<1>3. s \in [1 .. 1 -> Nat]
  BY <1>1 DEF Forward
<1>4. Forward(w, s, len, 1, n)
  <2>1. \A j \in 1 .. 1 : j = 1
    OBVIOUS
  <2>2. /\ windows[i].test = start[i] .. start[i] + len - 1
        /\ windows[i].train \subseteq 0 .. start[i] - 1
        /\ start[i] + len <= n
    BY DEF Forward
  <2> QED BY <1>2, <1>3, <2>1, <2>2 DEF Forward
<1>5. Fit(w, n)
  <2>1. \A j, k \in 1 .. 1 : j < k => s[j] + len <= s[k]
    OBVIOUS
  <2> QED BY <1>4, <2>1, ForwardFits
<1> QED BY <1>1, <1>5

(* The starts of windows that are by rows apart.                           *)
At(from, by, i) == from + (i - 1) * by

Starts(from, by, count) == [i \in 1 .. count |-> At(from, by, i)]

LEMMA AtIs ==
  ASSUME NEW from \in Nat, NEW by \in Nat, NEW i \in Nat \ {0}
  PROVE  /\ At(from, by, i) \in Nat /\ from <= At(from, by, i)
         /\ At(from, by, i) + by = from + i * by
<1>1. PICK far : far = (i - 1) * by
  OBVIOUS
<1>2. far \in Nat /\ i * by = far + by
  BY <1>1
<1>3. At(from, by, i) = from + far
  BY <1>1 DEF At
<1> QED BY <1>2, <1>3

LEMMA AtGrows ==
  ASSUME NEW from \in Nat, NEW by \in Nat,
         NEW i \in Nat \ {0}, NEW j \in Nat \ {0}, i < j
  PROVE  At(from, by, i) + by <= At(from, by, j)
<1>1. PICK a, b : a = (i - 1) * by /\ b = (j - 1) * by
  OBVIOUS
<1>2. i - 1 \in Nat /\ j - 1 \in Nat /\ i - 1 < j - 1
  OBVIOUS
<1>3. a \in Nat /\ b \in Nat /\ a + by <= b
  BY <1>1, <1>2, Ordered
<1>4. At(from, by, i) = from + a /\ At(from, by, j) = from + b
  BY <1>1 DEF At
<1> QED BY <1>3, <1>4

Growing(start, from, by, count) ==
  /\ start \in [1 .. count -> Nat]
  /\ \A i \in 1 .. count : start[i] = At(from, by, i)
  /\ \A i, j \in 1 .. count : i < j => start[i] + by <= start[j]
  /\ \A i \in 1 .. count : start[i] <= At(from, by, count)

LEMMA Multiples ==
  ASSUME NEW from \in Nat, NEW by \in Nat, NEW count \in Nat
  PROVE  Growing(Starts(from, by, count), from, by, count)
<1>0. PICK start : start = Starts(from, by, count)
  OBVIOUS
<1>1. \A i \in 1 .. count : i \in Nat \ {0}
  OBVIOUS
<1>2. /\ start = [i \in 1 .. count |-> start[i]]
      /\ \A i \in 1 .. count : start[i] = At(from, by, i)
  BY <1>0 DEF Starts
<1>3. \A i \in 1 .. count : start[i] \in Nat
  BY <1>1, <1>2, AtIs
<1>4. \A i, j \in 1 .. count : i < j => start[i] + by <= start[j]
  BY <1>1, <1>2, AtGrows
<1>5. ASSUME NEW i \in 1 .. count PROVE start[i] <= At(from, by, count)
  <2>1. count \in 1 .. count /\ start[count] = At(from, by, count)
    BY <1>2
  <2>2. start[i] \in Nat /\ start[count] \in Nat
    BY <1>3, <2>1
  <2>3. CASE i = count
    BY <2>1, <2>2, <2>3
  <2>4. CASE i < count
    BY <1>4, <2>1, <2>2, <2>4
  <2> QED BY <2>3, <2>4
<1> QED BY <1>0, <1>2, <1>3, <1>4, <1>5 DEF Growing

(* Tests of len rows that start len rows apart are in a row.               *)
LEMMA ForwardInARow ==
  ASSUME NEW n \in Nat, NEW len \in Nat \ {0}, NEW count \in Nat, NEW from \in Nat,
         NEW start, start = Starts(from, len, count),
         NEW windows, Forward(windows, start, len, count, n)
  PROVE  InARow(windows, from, len, count)
<1>1. ASSUME NEW i \in 1 .. count
      PROVE  windows[i].test = from + (i - 1) * len .. from + i * len - 1
  <2>1. PICK a, b : a = At(from, len, i) /\ b = from + i * len
    OBVIOUS
  <2>2. a \in Nat /\ a + len = b
    <3>1. len \in Nat /\ i \in Nat \ {0}
      OBVIOUS
    <3>2. /\ At(from, len, i) \in Nat /\ from <= At(from, len, i)
          /\ At(from, len, i) + len = from + i * len
      BY <3>1, AtIs, Zenon
    <3> QED BY <2>1, <3>2
  <2>3. windows[i].test = a .. a + len - 1
    <3>1. start[i] = At(from, len, i)
      BY DEF Starts
    <3> QED BY <2>1, <3>1 DEF Forward
  <2>4. windows[i].test = a .. b - 1
    BY <2>2, <2>3
  <2>5. a = from + (i - 1) * len
    BY <2>1 DEF At
  <2> QED BY <2>1, <2>4, <2>5
<1> QED BY <1>1 DEF InARow, Forward

(* What WalkForward returns.                                               *)
Walk(n, train, test, by) ==
  LET count == IF train + test > n THEN 0 ELSE (n - train - test) \div by + 1
  IN  [i \in 1 .. count |->
         [train |-> Max({0, At(train, by, i) - train}) .. At(train, by, i) - 1,
          test  |-> At(train, by, i) .. At(train, by, i) + test - 1]]

LEMMA WalkForwardIs ==
  ASSUME NEW n \in Nat, NEW train \in Nat \ {0}, NEW test \in Nat \ {0},
         NEW by \in Nat \ {0}, NEW step, by = StepOf(step, test),
         NEW windows, windows = WalkForward(n, train, test, step)
  PROVE  \E count, start :
           /\ count \in Nat
           /\ start = Starts(train, by, count)
           /\ Forward(windows, start, test, count, n)
           /\ count # 0 => n < train + count * by + test
<1>1. PICK count, start :
        /\ count = IF train + test > n THEN 0 ELSE (n - train - test) \div by + 1
        /\ start = Starts(train, by, count)
  OBVIOUS
<1>2. /\ count \in Nat
      /\ count # 0 => /\ At(train, by, count) + test <= n
                      /\ n < train + count * by + test
  <2>1. CASE train + test > n
    BY <1>1, <2>1
  <2>2. CASE ~(train + test > n)
    <3>1. PICK d, q : d = n - train - test /\ q = d \div by
      OBVIOUS
    <3>2. d \in Nat
      BY <2>2, <3>1
    <3>3. q \in Nat /\ q * by <= d /\ d < q * by + by
      BY <3>1, <3>2, Division
    <3>4. count = q + 1
      BY <1>1, <2>2, <3>1
    <3>5. PICK a, b : a = q * by /\ b = count * by
      OBVIOUS
    <3>6. b = a + by /\ a \in Nat
      BY <3>3, <3>4, <3>5
    <3>7. At(train, by, count) = train + a
      BY <3>3, <3>4, <3>5 DEF At
    <3>8. train + a + test <= n /\ n < train + b + test
      BY <3>1, <3>2, <3>3, <3>5, <3>6
    <3> QED BY <3>3, <3>4, <3>5, <3>7, <3>8
  <2> QED BY <2>1, <2>2
<1>3. /\ windows = [i \in 1 .. count |-> windows[i]]
      /\ \A i \in 1 .. count :
           windows[i] =
             [train |-> Max({0, At(train, by, i) - train}) .. At(train, by, i) - 1,
              test  |-> At(train, by, i) .. At(train, by, i) + test - 1]
  <2>1. WalkForward(n, train, test, step) = Walk(n, train, test, StepOf(step, test))
    BY DEF WalkForward, Walk, At
  <2>2. windows = Walk(n, train, test, by)
    BY <2>1
  <2> QED BY <1>1, <2>2 DEF Walk
<1>4. /\ start \in [1 .. count -> Nat]
      /\ \A i \in 1 .. count : /\ start[i] = At(train, by, i)
                               /\ start[i] <= At(train, by, count)
  <2>1. train \in Nat /\ by \in Nat /\ count \in Nat
    BY <1>2
  <2>2. Growing(Starts(train, by, count), train, by, count)
    BY <2>1, Multiples
  <2>3. Growing(start, train, by, count)
    BY <1>1, <2>2
  <2> QED BY <2>3 DEF Growing
<1>5. ASSUME NEW i \in 1 .. count
      PROVE  /\ windows[i].test = start[i] .. start[i] + test - 1
             /\ windows[i].train \subseteq 0 .. start[i] - 1
             /\ start[i] + test <= n
  <2>1. PICK a, last : a = At(train, by, i) /\ last = At(train, by, count)
    OBVIOUS
  <2>2. a \in Nat /\ train <= a /\ last \in Nat
    <3>1. /\ train \in Nat /\ by \in Nat
          /\ i \in Nat \ {0} /\ count \in Nat \ {0}
      BY <1>2
    <3>2. /\ At(train, by, i) \in Nat /\ train <= At(train, by, i)
          /\ At(train, by, i) + by = train + i * by
      BY <3>1, AtIs, Zenon
    <3>3. At(train, by, count) \in Nat
      BY <3>1, AtIs, Zenon
    <3> QED BY <2>1, <3>2, <3>3
  <2>3. a = start[i] /\ a <= last /\ last + test <= n
    BY <1>2, <1>4, <2>1
  <2>4. /\ windows[i].test = a .. a + test - 1
        /\ windows[i].train = Max({0, a - train}) .. a - 1
    <3>1. windows[i] = [train |-> Max({0, a - train}) .. a - 1,
                        test  |-> a .. a + test - 1]
      BY <1>3, <2>1, Zenon
    <3> QED BY <3>1
  <2>5. windows[i].train \subseteq 0 .. a - 1
    <3>1. PICK p : p = a - train
      OBVIOUS
    <3>2. p \in Nat
      BY <2>2, <3>1
    <3>3. Max({0, p}) = p
      BY <3>2, GreaterIs
    <3>4. windows[i].train = p .. a - 1
      BY <2>4, <3>1, <3>3
    <3> QED BY <2>2, <3>2, <3>4
  <2>6. a + test <= n
    BY <2>2, <2>3
  <2> QED BY <2>3, <2>4, <2>5, <2>6, Zenon
<1>6. Forward(windows, start, test, count, n)
  BY <1>3, <1>4, <1>5 DEF Forward
<1> QED BY <1>1, <1>2, <1>6

LEMMA WalkForwardFits ==
  ASSUME NEW n \in Nat, NEW train \in Nat \ {0}, NEW test \in Nat \ {0},
         NEW step \in Nat, NEW windows, windows = WalkForward(n, train, test, step)
  PROVE  /\ StepOf(step, test) >= test => Fit(windows, n)
         /\ \A i \in DOMAIN windows : Fit(<<windows[i]>>, n)
         /\ step = 0 => LeavesFewerThan(test, windows, n)
<1>1. PICK by \in Nat \ {0} : by = StepOf(step, test)
  BY DEF StepOf
<1>2. PICK count, start :
        /\ count \in Nat
        /\ start = Starts(train, by, count)
        /\ Forward(windows, start, test, count, n)
        /\ count # 0 => n < train + count * by + test
  BY <1>1, WalkForwardIs
<1>3. DOMAIN windows = 1 .. count
  BY <1>2 DEF Forward
<1>4. ASSUME by >= test PROVE Fit(windows, n)
  <2>1. /\ start \in [1 .. count -> Nat]
        /\ \A i, j \in 1 .. count : i < j => start[i] + by <= start[j]
    <3>1. Growing(Starts(train, by, count), train, by, count)
      BY <1>2, Multiples
    <3> QED BY <1>2, <3>1 DEF Growing
  <2>2. \A i, j \in 1 .. count : i < j => start[i] + test <= start[j]
    BY <1>4, <2>1
  <2> QED BY <1>2, <2>2, ForwardFits
<1>5. \A i \in 1 .. count : Fit(<<windows[i]>>, n)
  BY <1>2, OneFits
<1>6. ASSUME step = 0
      PROVE  LeavesFewerThan(test, windows, n)
  <2>1. by = test
    BY <1>1, <1>6 DEF StepOf
  <2>2. InARow(windows, train, test, count)
    BY <1>2, <2>1, ForwardInARow
  <2>3. count # 0 => n < train + count * test + test
    BY <1>2, <2>1
  <2> QED BY <1>2, <2>2, <2>3, InARowLeaves
<1> QED BY <1>1, <1>3, <1>4, <1>5, <1>6

(* What walkforward_cv is given.                                           *)
LEMMA FoldsFit ==
  ASSUME NEW n \in Nat, NEW folds \in Nat \ {0}, NEW MinFold \in Nat \ {0},
         NEW windows, windows = Folds(n, folds, MinFold)
  PROVE  Fit(windows, n) /\ LeavesFewerThan(folds + 1, windows, n)
<1>1. PICK size : size = n \div (folds + 1)
  OBVIOUS
<1>2. size \in Nat /\ size * (folds + 1) <= n
                   /\ n < size * (folds + 1) + (folds + 1)
  <2>1. PICK d : d = folds + 1
    OBVIOUS
  <2>2. d \in Nat \ {0} /\ size = n \div d
    BY <1>1, <2>1
  <2>3. size \in Nat /\ size * d <= n /\ n < size * d + d
    BY <2>2, Division
  <2> QED BY <2>1, <2>3
<1>3. CASE size < MinFold
  <2>1. windows = <<>>
    BY <1>1, <1>3 DEF Folds
  <2>2. DOMAIN windows = {}
    BY <2>1
  <2> QED BY <2>1, <2>2 DEF Fit, LeavesFewerThan
<1>4. CASE ~(size < MinFold)
  <2>1. size \in Nat \ {0}
    BY <1>2, <1>4
  <2>2. PICK start : start = Starts(size, size, folds)
    OBVIOUS
  <2>3. Growing(start, size, size, folds)
    <3>1. Growing(Starts(size, size, folds), size, size, folds)
      BY <2>1, Multiples
    <3> QED BY <2>2, <3>1
  <2>4. windows = [i \in 1 .. folds |->
                     [train |-> 0 .. i * size - 1,
                      test  |-> i * size .. Min({i * size + size, n}) - 1]]
    BY <1>1, <1>4 DEF Folds
  <2>5. ASSUME NEW i \in 1 .. folds
        PROVE  /\ windows[i].test = start[i] .. start[i] + size - 1
               /\ windows[i].train \subseteq 0 .. start[i] - 1
               /\ start[i] + size <= n
    <3>1. PICK a, last : a = start[i] /\ last = At(size, size, folds)
      OBVIOUS
    <3>2. a \in Nat /\ a = At(size, size, i) /\ a <= last
      BY <2>3, <3>1 DEF Growing
    <3>3. a = i * size
      <4>1. size + (i - 1) * size = i * size
        BY <2>1
      <4> QED BY <3>2, <4>1 DEF At
    <3>4. last \in Nat /\ last + size = size + folds * size
      <4>1. size \in Nat /\ folds \in Nat \ {0}
        BY <2>1
      <4>2. /\ At(size, size, folds) \in Nat /\ size <= At(size, size, folds)
            /\ At(size, size, folds) + size = size + folds * size
        BY <4>1, AtIs, Zenon
      <4> QED BY <3>1, <4>2
    <3>5. last + size <= n
      <4>1. size * (folds + 1) = size + folds * size
        BY <2>1
      <4> QED BY <1>2, <3>4, <4>1
    <3>6. a + size <= n
      BY <2>1, <3>2, <3>4, <3>5
    <3>7. windows[i] = [train |-> 0 .. a - 1,
                        test  |-> a .. Min({a + size, n}) - 1]
      BY <2>4, <3>3
    <3>8. Min({a + size, n}) = a + size
      <4>1. PICK b : b = a + size
        OBVIOUS
      <4>2. b \in Int /\ b <= n
        BY <2>1, <3>2, <3>6, <4>1
      <4>3. Min({b, n}) = b
        BY <4>2, LesserIs
      <4> QED BY <4>1, <4>3
    <3>9. /\ windows[i].test = a .. a + size - 1
          /\ windows[i].train \subseteq 0 .. a - 1
      <4>1. PICK end : end = Min({a + size, n})
        OBVIOUS
      <4>2. windows[i] = [train |-> 0 .. a - 1, test |-> a .. end - 1]
        BY <3>7, <4>1
      <4>3. end = a + size
        BY <3>8, <4>1
      <4> QED BY <2>1, <3>2, <4>2, <4>3
    <3> QED BY <3>1, <3>6, <3>9
  <2>6. Forward(windows, start, size, folds, n)
    <3>1. windows = [i \in 1 .. folds |-> windows[i]]
      BY <2>4
    <3>2. start \in [1 .. folds -> Nat]
      BY <2>3 DEF Growing
    <3> QED BY <2>5, <3>1, <3>2 DEF Forward
  <2>7. Fit(windows, n)
    <3>1. \A i, j \in 1 .. folds : i < j => start[i] + size <= start[j]
      BY <2>3 DEF Growing
    <3> QED BY <2>1, <2>6, <3>1, ForwardFits
  <2>8. LeavesFewerThan(folds + 1, windows, n)
    <3>1. InARow(windows, size, size, folds)
      BY <2>1, <2>2, <2>6, ForwardInARow
    <3>2. n < size + folds * size + (folds + 1)
      <4>1. size * (folds + 1) = size + folds * size
        BY <2>1
      <4> QED BY <1>2, <4>1
    <3>3. folds + 1 \in Nat \ {0}
      OBVIOUS
    <3> QED BY <2>1, <3>1, <3>2, <3>3, InARowLeaves
  <2> QED BY <2>7, <2>8
<1> QED BY <1>3, <1>4

LEMMA ChunksFit ==
  ASSUME NEW n \in Nat, NEW size \in Nat \ {0},
         NEW chunk \in RangeChunks(n, size)
  PROVE  chunk \subseteq 0 .. n - 1 /\ Cardinality(chunk) = size
<1>1. PICK i \in 0 .. n \div size - 1 : chunk = i * size .. (i + 1) * size - 1
  BY DEF RangeChunks
<1>2. PICK q : q = n \div size
  OBVIOUS
<1>3. q \in Nat /\ q * size <= n
  BY <1>2, Division
<1>4. PICK a, b : a = i * size /\ b = (i + 1) * size
  OBVIOUS
<1>5. i \in Nat /\ i + 1 <= q
  BY <1>2, <1>3
<1>6. a \in Nat /\ b = a + size
  BY <1>4, <1>5
<1>7. b <= q * size
  BY <1>3, <1>4, <1>5
<1>8. q * size \in Nat
  BY <1>3
<1>9. b <= n /\ chunk = a .. b - 1
  BY <1>1, <1>3, <1>4, <1>6, <1>7, <1>8
<1>10. chunk \subseteq 0 .. n - 1
  BY <1>6, <1>9
<1>11. Cardinality(a .. b - 1) = size
  <2>1. PICK e : e = b - 1
    OBVIOUS
  <2>2. e \in Int /\ ~(a > e) /\ e - a + 1 = size
    BY <1>6, <2>1
  <2>3. Cardinality(a .. e) = IF a > e THEN 0 ELSE e - a + 1
    BY <1>6, <2>2, IntervalSize
  <2> QED BY <2>1, <2>2, <2>3
<1> QED BY <1>9, <1>10, <1>11

(* An ordinal pattern has m rows: those i, i + tau, ..., i + (m - 1) * tau. *)
LEMMA PatternsAreFull ==
  ASSUME NEW n \in Nat, NEW m \in Nat \ {0}, NEW tau \in Nat \ {0},
         NEW i \in PatternStarts(n, m, tau)
  PROVE  Cardinality(Pattern(n, i, m, tau)) = m
<1>1. PICK far, all : far = (m - 1) * tau /\ all = m * tau
  OBVIOUS
<1>2. far \in Nat /\ all = far + tau
  BY <1>1
<1>3. i \in Nat /\ i + far < n
  <2>1. i \in 0 .. n - far - 1
    BY <1>1 DEF PatternStarts
  <2> QED BY <1>2, <2>1
<1>4. PICK end : end = Min({i + all, n})
  OBVIOUS
<1>5. end \in Int /\ i + far < end /\ end <= i + all
  <2>1. PICK e : e = i + all
    OBVIOUS
  <2>2. e \in Int /\ i + far < e
    BY <1>2, <1>3, <2>1
  <2>3. Min({e, n}) = IF e <= n THEN e ELSE n
    BY <2>2, LesserIs
  <2> QED BY <1>3, <1>4, <2>1, <2>2, <2>3
<1>6. PICK S : S = {r \in i .. end - 1 : (r - i) % tau = 0}
  OBVIOUS
<1>7. Pattern(n, i, m, tau) = S
  BY <1>1, <1>4, <1>6 DEF Pattern
<1>8. PICK row : row = [k \in 1 .. m |-> i + (k - 1) * tau]
  OBVIOUS
<1>9. \A k \in 1 .. m : row[k] = At(i, tau, k)
  BY <1>8 DEF At
<1>10. Growing(Starts(i, tau, m), i, tau, m)
  BY <1>3, Multiples
<1>11. row = Starts(i, tau, m)
  BY <1>8 DEF Starts, At
<1>12. Growing(row, i, tau, m)
  BY <1>10, <1>11
<1>13. At(i, tau, m) = i + far
  BY <1>1 DEF At
<1>14. ASSUME NEW k \in 1 .. m PROVE row[k] \in S
  <2>1. PICK r, d : r = row[k] /\ d = (k - 1) * tau
    OBVIOUS
  <2>2. r \in Nat /\ r <= i + far
    BY <1>12, <1>13, <2>1 DEF Growing
  <2>3. r = i + d /\ d \in Nat
    BY <1>8, <2>1
  <2>4. r \in i .. end - 1
    BY <1>2, <1>3, <1>5, <2>2, <2>3
  <2>5. d % tau = 0
    <3>1. PICK p, e : p = d \div tau /\ e = d % tau
      OBVIOUS
    <3>2. p \in Nat /\ e \in 0 .. tau - 1 /\ d = p * tau + e
      BY <2>3, <3>1
    <3>3. PICK c : c = k - 1
      OBVIOUS
    <3>4. c \in Nat /\ c * tau = p * tau + e
      BY <2>1, <3>2, <3>3
    <3>5. ~(c < p)
      BY <3>2, <3>4, Ordered
    <3>6. ~(p < c)
      BY <3>2, <3>4, Ordered
    <3>7. c = p
      BY <3>2, <3>4, <3>5, <3>6
    <3> QED BY <3>1, <3>2, <3>4, <3>7
  <2>6. r - i = d
    BY <1>3, <2>3
  <2> QED BY <1>6, <2>1, <2>4, <2>5, <2>6
<1>15. ASSUME NEW r \in S PROVE \E k \in 1 .. m : row[k] = r
  <2>1. PICK d, q : d = r - i /\ q = d \div tau
    OBVIOUS
  <2>2. d \in Nat /\ d < all /\ d % tau = 0
    BY <1>3, <1>5, <1>6, <1>2, <2>1
  <2>3. q \in Nat /\ d = q * tau
    BY <2>1, <2>2
  <2>4. q < m
    <3> SUFFICES ASSUME m <= q PROVE FALSE
      BY <2>3
    <3>1. m * tau <= q * tau
      BY <2>3
    <3> QED BY <1>1, <1>2, <2>2, <2>3, <3>1
  <2>5. q + 1 \in 1 .. m
    BY <2>3, <2>4
  <2>6. row[q + 1] = i + q * tau
    <3>1. (q + 1) - 1 = q
      BY <2>3
    <3> QED BY <1>8, <2>5, <3>1
  <2>7. i + q * tau = r
    BY <1>3, <1>6, <1>5, <2>1, <2>3
  <2> QED BY <2>5, <2>6, <2>7
<1>16. \A j, k \in 1 .. m : row[j] = row[k] => j = k
  <2>1. \A j, k \in 1 .. m : j < k => row[j] < row[k]
    BY <1>12 DEF Growing
  <2>2. \A k \in 1 .. m : row[k] \in Nat
    BY <1>12 DEF Growing
  <2> QED BY <2>1, <2>2
<1>17. row \in Bijection(1 .. m, S)
  <2>1. row \in [1 .. m -> S]
    BY <1>8, <1>14
  <2> QED BY <1>15, <1>16, <2>1, Fun_IsBij
<1>18. ExistsBijection(1 .. m, S)
  BY <1>17 DEF ExistsBijection
<1>19. IsFiniteSet(1 .. m) /\ Cardinality(1 .. m) = m
  BY IntervalSize
<1>20. Cardinality(S) = m
  BY <1>18, <1>19, FS_Bijection
<1> QED BY <1>7, <1>20

(* The sizes of the chunks are numbers: Power is defined by recursion, and *)
(* a least number without a value would have one.                          *)
Powers(f, N) == f = [k \in 0 .. N |-> IF k = 0 THEN 1 ELSE 2 * f[k - 1]]

LEMMA PowersArePositive ==
  ASSUME NEW N \in Nat, NEW f, Powers(f, N), NEW k \in 0 .. N
  PROVE  f[k] \in Nat \ {0}
<1> DEFINE S == {j \in 0 .. N : f[j] \notin Nat \ {0}}
<1> SUFFICES ASSUME S # {} PROVE FALSE
  OBVIOUS
<1>1. PICK j \in S : \A l \in S : j <= l
  <2>1. S \subseteq Nat
    OBVIOUS
  <2> HIDE DEF S
  <2> QED BY <2>1, LeastExists
<1>2. f[j] = IF j = 0 THEN 1 ELSE 2 * f[j - 1]
  BY <1>1 DEF Powers
<1>3. j # 0
  BY <1>1, <1>2
<1>4. j - 1 \in 0 .. N /\ j - 1 \notin S
  BY <1>1, <1>3
<1>5. f[j - 1] \in Nat \ {0}
  BY <1>4
<1> QED BY <1>1, <1>2, <1>3, <1>5

LEMMA PowersAgree ==
  ASSUME NEW N \in Nat, NEW f, Powers(f, N),
         NEW M \in Nat, NEW g, Powers(g, M), NEW k \in 0 .. N, k <= M
  PROVE  f[k] = g[k]
<1> DEFINE S == {j \in 0 .. k : f[j] # g[j]}
<1> SUFFICES ASSUME S # {} PROVE FALSE
  OBVIOUS
<1>1. PICK j \in S : \A l \in S : j <= l
  <2>1. S \subseteq Nat
    OBVIOUS
  <2> HIDE DEF S
  <2> QED BY <2>1, LeastExists
<1>2. j \in 0 .. N /\ j \in 0 .. M
  BY <1>1
<1>3. /\ f[j] = IF j = 0 THEN 1 ELSE 2 * f[j - 1]
      /\ g[j] = IF j = 0 THEN 1 ELSE 2 * g[j - 1]
  BY <1>2 DEF Powers
<1>4. j # 0
  BY <1>1, <1>3
<1>5. j - 1 \in 0 .. k /\ j - 1 \notin S
  BY <1>1, <1>4
<1>6. f[j - 1] = g[j - 1]
  BY <1>5
<1> QED BY <1>1, <1>3, <1>4, <1>6

LEMMA PowersExist == \A N \in Nat : \E f : Powers(f, N)
<1> DEFINE S == {N \in Nat : ~ \E f : Powers(f, N)}
<1> SUFFICES ASSUME S # {} PROVE FALSE
  OBVIOUS
<1>1. PICK N \in S : \A l \in S : N <= l
  <2>1. S \subseteq Nat
    OBVIOUS
  <2> HIDE DEF S
  <2> QED BY <2>1, LeastExists
<1>2. N # 0
  <2> SUFFICES ASSUME N = 0 PROVE FALSE
    OBVIOUS
  <2>1. PICK f : f = [k \in 0 .. 0 |-> 1]
    OBVIOUS
  <2>2. Powers(f, 0)
    BY <2>1 DEF Powers
  <2> QED BY <1>1, <2>2
<1>3. N - 1 \in Nat /\ N - 1 \notin S
  BY <1>1, <1>2
<1>4. PICK f : Powers(f, N - 1)
  BY <1>3
<1>5. PICK g : g = [k \in 0 .. N |-> IF k = 0 THEN 1 ELSE 2 * f[k - 1]]
  OBVIOUS
<1>6. \A k \in 0 .. N - 1 : g[k] = f[k]
  BY <1>1, <1>4, <1>5 DEF Powers
<1>7. \A k \in 0 .. N : k # 0 => k - 1 \in 0 .. N - 1
  BY <1>1
<1>8. \A k \in 0 .. N : g[k] = IF k = 0 THEN 1 ELSE 2 * g[k - 1]
  BY <1>5, <1>6, <1>7
<1>9. Powers(g, N)
  <2>1. g = [k \in 0 .. N |-> g[k]]
    BY <1>5
  <2> QED BY <1>8, <2>1 DEF Powers
<1> QED BY <1>1, <1>9

LEMMA SizesArePositive ==
  ASSUME NEW n \in Nat, NEW size \in RangeSizes(n)
  PROVE  size \in Nat \ {0}
<1> DEFINE Rec(f) == f = [k \in Nat |-> IF k = 0 THEN 1 ELSE 2 * f[k - 1]]
           upto(N) == CHOOSE f : Powers(f, N)
<1>1. \A N \in Nat : Powers(upto(N), N)
  BY PowersExist
<1> HIDE DEF upto
<1>2. PICK f : f = [k \in Nat |-> upto(k)[k]]
  OBVIOUS
<1>3. ASSUME NEW k \in Nat
      PROVE  f[k] = IF k = 0 THEN 1 ELSE 2 * f[k - 1]
  <2>1. PICK g : g = upto(k)
    OBVIOUS
  <2>2. Powers(g, k)
    BY <1>1, <2>1
  <2>3. f[k] = g[k]
    BY <1>2, <2>1
  <2>4. g[k] = IF k = 0 THEN 1 ELSE 2 * g[k - 1]
    BY <2>2 DEF Powers
  <2>5. CASE k = 0
    BY <2>3, <2>4, <2>5
  <2>6. CASE k # 0
    <3>1. PICK j \in Nat : j = k - 1
      BY <2>6
    <3>2. PICK h : h = upto(j)
      OBVIOUS
    <3>3. Powers(h, j) /\ f[j] = h[j]
      BY <1>1, <1>2, <3>1, <3>2
    <3>4. h[j] = g[j]
      BY <2>2, <3>1, <3>3, PowersAgree
    <3> QED BY <2>3, <2>4, <2>6, <3>1, <3>3, <3>4
  <2> QED BY <2>5, <2>6
<1>4. Rec(f)
  BY <1>2, <1>3
<1>5. Rec(Power)
  <2>1. Power = CHOOSE g : Rec(g)
    BY DEF Power
  <2> HIDE DEF Rec
  <2> QED BY <1>4, <2>1
<1>6. PICK k \in Nat : size = Power[k]
  BY DEF RangeSizes
<1>7. PICK g : g = [j \in 0 .. k |-> Power[j]]
  OBVIOUS
<1>8. \A j \in 0 .. k : Power[j] = IF j = 0 THEN 1 ELSE 2 * Power[j - 1]
  BY <1>5
<1>9. Powers(g, k)
  <2>1. \A j \in 0 .. k : j # 0 => g[j - 1] = Power[j - 1]
    BY <1>7
  <2>2. \A j \in 0 .. k : g[j] = IF j = 0 THEN 1 ELSE 2 * g[j - 1]
    BY <1>7, <1>8, <2>1
  <2>3. g = [j \in 0 .. k |-> g[j]]
    BY <1>7
  <2> QED BY <2>2, <2>3 DEF Powers
<1>10. g[k] \in Nat \ {0}
  BY <1>9, PowersArePositive
<1> QED BY <1>6, <1>7, <1>10

(* The windows the runners and estimators cut fit the data they are cut    *)
(* from, for any numbers of rows, lengths, folds and steps (walk_forward,  *)
(* walkforward_cv, hurst_rs, permutation_entropy).                         *)
THEOREM WindowsOfDataFit == MCSpec => []WindowsFit
<1> DEFINE Cut == case.of = "window" => case \in WindowCases
<1>1. Cut => WindowsFit
  <2> SUFFICES ASSUME Cut, case.of = "window" PROVE WindowsFit
    BY DEF WindowsFit
  <2>1. PICK n, a, b, step :
          n = case.n /\ a = case.a /\ b = case.b /\ step = case.step
    OBVIOUS
  <2>2. /\ n \in Nat /\ a \in Nat \ {0} /\ b \in Nat \ {0} /\ step \in Nat
    BY <2>1 DEF WindowCases
  <2>3. PICK forward, folds :
          forward = WalkForward(n, a, b, step) /\ folds = Folds(n, b, a)
    OBVIOUS
  <2>4. /\ StepOf(step, b) >= b => Fit(forward, n)
        /\ \A i \in DOMAIN forward : Fit(<<forward[i]>>, n)
        /\ step = 0 => LeavesFewerThan(b, forward, n)
    BY <2>2, <2>3, WalkForwardFits
  <2>5. Fit(folds, n) /\ LeavesFewerThan(b + 1, folds, n)
    BY <2>2, <2>3, FoldsFit
  <2>6. \A size \in RangeSizes(n) : \A chunk \in RangeChunks(n, size) :
          chunk \subseteq 0 .. n - 1 /\ Cardinality(chunk) = size
    BY <2>2, SizesArePositive, ChunksFit
  <2>7. \A i \in PatternStarts(n, a, b) : Cardinality(Pattern(n, i, a, b)) = a
    BY <2>2, PatternsAreFull
  <2> QED BY <2>1, <2>3, <2>4, <2>5, <2>6, <2>7, Zenon DEF WindowsFit
<1>2. MCInit => Cut
  <2>1. \A c \in IndicatorCases : c.of = "indicator"
    BY DEF IndicatorCases
  <2>2. \A c \in EnvelopeCases : c.of = "envelope"
    BY DEF EnvelopeCases
  <2>3. \A c \in TaskCases : c.of = "task"
    BY DEF TaskCases
  <2> QED BY <2>1, <2>2, <2>3 DEF MCInit, None
<1>3. Cut /\ [MCNext]_caseVars => Cut'
  BY DEF MCNext, caseVars
<1> QED BY <1>1, <1>2, <1>3, PTL DEF MCSpec

-----------------------------------------------------------------------------
(* The ids of slices.                                                      *)

LEMMA IdsOfSlices ==
  ASSUME NEW s, "id" \in DOMAIN s, NEW all, all = ShardTask(s)
  PROVE  all = <<s>> \/ \A k \in DOMAIN all : all[k].id = k
<1>1. \A k : Clone(s, k).id = k /\ DOMAIN Clone(s, k) = DOMAIN s
  BY DEF Clone
<1>2. CASE all = GridSlices(s)
  BY <1>1, <1>2 DEF GridSlices
<1>3. CASE all = BatchSlices(s)
  BY <1>1, <1>3 DEF BatchSlices
<1>4. CASE all = SimulationSlices(s)
  BY <1>1, <1>4 DEF SimulationSlices
<1>5. CASE all = SymbolSlices(s)
  BY <1>1, <1>5 DEF SymbolSlices
<1> QED BY <1>2, <1>3, <1>4, <1>5 DEF ShardTask

(* However a task is split, its slices have ids of their own (shard.py),   *)
(* as SlicingAssumption of module Dispatcher has it.                       *)
THEOREM SlicesHaveIds == MCSpec => [](submitted => SliceIdsDiffer)
<1> DEFINE Split == /\ spec \in Specs \/ spec = Blank
                    /\ submitted => slices = ShardTask(spec)
<1>1. Split => (submitted => SliceIdsDiffer)
  <2>1. "id" \in DOMAIN Blank
    BY DEF Blank
  <2>2. spec \in Specs => "id" \in DOMAIN spec
    BY ShardAssumption DEF IsSpec
  <2> QED BY <2>1, <2>2, IdsOfSlices DEF SliceIdsDiffer
<1>2. MCInit => Split
  <2>1. ShardTask(Blank) = <<Blank>>
    BY DEF ShardTask, Blank, IsGrid, IsBatch, IsSimulation
  <2> QED BY <2>1 DEF MCInit, Init
<1>3. Split /\ [MCNext]_caseVars => Split'
  BY DEF MCNext, Submit, caseVars, vars
<1> QED BY <1>1, <1>2, <1>3, PTL DEF MCSpec

-----------------------------------------------------------------------------
(* Lists and products.                                                     *)

(* What a list is, and how to make one.                                    *)
LEMMA ListIs ==
  ASSUME NEW list, IsList(list)
  PROVE  /\ Len(list) \in Nat /\ DOMAIN list = 1 .. Len(list)
         /\ list = [i \in 1 .. Len(list) |-> list[i]]
         /\ \A i \in 1 .. Len(list) : list[i] \in ToSet(list)
<1>1. PICK S : S = ToSet(list) /\ list \in Seq(S)
  BY DEF IsList
<1>2. Len(list) \in Nat /\ DOMAIN list = 1 .. Len(list) /\ list \in [1 .. Len(list) -> S]
  BY <1>1
<1> QED BY <1>1, <1>2

LEMMA ListOf ==
  ASSUME NEW n \in Nat, NEW f, f = [k \in 1 .. n |-> f[k]]
  PROVE  IsList(f) /\ Len(f) = n /\ DOMAIN f = 1 .. n
<1>1. DOMAIN f = 1 .. n /\ Len(f) = n
  BY LengthOf
<1>2. f \in [1 .. n -> ToSet(f)]
  BY <1>1 DEF ToSet
<1> QED BY <1>1, <1>2 DEF IsList

(* Where a row and a value come to be in a product, and back.              *)
LEMMA Position ==
  ASSUME NEW size \in Nat, NEW count \in Nat,
         NEW p \in 1 .. count, NEW i \in 1 .. size,
         NEW n, n = (p - 1) * size + i
  PROVE  /\ n \in 1 .. count * size
         /\ (n - 1) \div size = p - 1 /\ (n - 1) % size = i - 1
<1>1. PICK before : before = (p - 1) * size
  OBVIOUS
<1>2. before \in Nat /\ n = before + i
  BY <1>1
<1>3. before + size <= count * size
  <2>1. p * size <= count * size /\ p * size = before + size
    BY <1>1
  <2> QED BY <2>1
<1>4. n \in 1 .. count * size
  <2>1. PICK all : all = count * size
    OBVIOUS
  <2>2. all \in Int /\ before + size <= all /\ i <= size /\ 1 <= i
    BY <1>3, <2>1
  <2>3. n \in 1 .. all
    BY <1>2, <2>2
  <2> QED BY <2>1, <2>3
<1>5. PICK q : q = (n - 1) \div size
  OBVIOUS
<1>6. q \in Nat /\ q * size <= n - 1 /\ n - 1 < q * size + size
  <2>1. n - 1 \in Nat /\ size \in Nat \ {0}
    BY <1>2
  <2> QED BY <1>5, <2>1, Division
<1>7. q = p - 1
  <2>1. CASE q >= p
    <3>1. q * size >= p * size /\ p * size = before + size
      BY <1>1, <1>6, <2>1
    <3> QED BY <1>2, <1>6, <3>1
  <2>2. CASE q <= p - 2
    <3>1. (q + 1) * size <= (p - 1) * size /\ (q + 1) * size = q * size + size
      BY <1>6, <2>2
    <3> QED BY <1>1, <1>2, <1>6, <3>1
  <2> QED BY <1>6, <2>1, <2>2
<1>8. (n - 1) % size = (n - 1) - q * size
  BY <1>2, <1>5
<1> QED BY <1>1, <1>2, <1>4, <1>5, <1>7, <1>8

LEMMA PositionOf ==
  ASSUME NEW size \in Nat, NEW count \in Nat, NEW n \in 1 .. count * size
  PROVE  /\ 1 + (n - 1) \div size \in 1 .. count
         /\ 1 + ((n - 1) % size) \in 1 .. size
<1>1. size # 0
  <2>1. ASSUME size = 0 PROVE FALSE
    <3>1. count * size = 0
      BY <2>1
    <3> QED BY <3>1
  <2> QED BY <2>1
<1>2. PICK q : q = (n - 1) \div size
  OBVIOUS
<1>3. q \in Nat /\ q * size <= n - 1
  <2>1. n - 1 \in Nat /\ size \in Nat \ {0}
    <3>1. n \in Nat /\ n >= 1
      OBVIOUS
    <3> QED BY <1>1, <3>1
  <2> QED BY <1>2, <2>1, Division
<1>4. q < count
  <2>1. SUFFICES ASSUME q >= count PROVE FALSE
    BY <1>3
  <2>2. q * size >= count * size
    BY <1>3, <2>1
  <2> QED BY <1>3, <2>2
<1>5. (n - 1) % size \in 0 .. size - 1
  BY <1>1
<1> QED BY <1>2, <1>3, <1>4, <1>5

(* rows are the combinations of the first k columns.                       *)
Combines(rows, columns, k) ==
  /\ IsList(rows)
  /\ \A n \in DOMAIN rows :
       /\ rows[n] = [j \in 1 .. k |-> rows[n][j]]
       /\ \A j \in 1 .. k : rows[n][j] \in ToSet(columns[j])
  /\ \A r : /\ r = [j \in 1 .. k |-> r[j]]
            /\ \A j \in 1 .. k : r[j] \in ToSet(columns[j])
            => \E n \in DOMAIN rows : rows[n] = r

(* Without columns there is one combination, and each column multiplies.   *)
LEMMA NoColumns == ASSUME NEW columns PROVE Combines(<<(<<>>)>>, columns, 0)
<1>1. PICK rows : rows = <<(<<>>)>>
  OBVIOUS
<1>2. rows = [n \in 1 .. 1 |-> rows[n]]
  BY <1>1
<1>3. IsList(rows) /\ DOMAIN rows = 1 .. 1
  BY <1>2, ListOf
<1>4. \A r : r = [j \in 1 .. 0 |-> r[j]] => r = <<>>
  OBVIOUS
<1>5. \A n \in DOMAIN rows : rows[n] = <<>>
  BY <1>1, <1>3
<1>6. 1 .. 0 = {} /\ 1 \in DOMAIN rows
  BY <1>3
<1>7. <<>> = [j \in 1 .. 0 |-> <<>>[j]]
  OBVIOUS
<1> QED BY <1>1, <1>3, <1>4, <1>5, <1>6, <1>7 DEF Combines

LEMMA OneColumnMore ==
  ASSUME NEW columns, NEW k \in Nat \ {0}, IsList(columns[k]),
         NEW rows, Combines(rows, columns, k - 1),
         NEW more, more = Times(rows, columns[k], k)
  PROVE  Combines(more, columns, k)
<1>1. PICK column, size, count :
        column = columns[k] /\ size = Len(column) /\ count = Len(rows)
  OBVIOUS
<1>2. /\ size \in Nat /\ DOMAIN column = 1 .. size
      /\ \A i \in 1 .. size : column[i] \in ToSet(column)
  BY <1>1, ListIs
<1>3. count \in Nat /\ DOMAIN rows = 1 .. count
  BY <1>1, ListIs DEF Combines
<1>4. count * size \in Nat
  BY <1>2, <1>3
<1>5. more = [n \in 1 .. count * size |->
                [j \in 1 .. k |-> IF j = k THEN column[1 + ((n - 1) % size)]
                                  ELSE rows[1 + (n - 1) \div size][j]]]
  BY <1>1 DEF Times
<1>6. IsList(more) /\ DOMAIN more = 1 .. count * size
  <2>1. more = [n \in 1 .. count * size |-> more[n]]
    BY <1>5
  <2> QED BY <1>4, <2>1, ListOf
<1>7. ASSUME NEW n \in DOMAIN more
      PROVE  /\ more[n] = [j \in 1 .. k |-> more[n][j]]
             /\ \A j \in 1 .. k : more[n][j] \in ToSet(columns[j])
  <2>1. PICK p, i : p = 1 + (n - 1) \div size /\ i = 1 + ((n - 1) % size)
    OBVIOUS
  <2>2. p \in 1 .. count /\ i \in 1 .. size
    BY <1>2, <1>3, <1>6, <2>1, PositionOf
  <2>3. more[n] = [j \in 1 .. k |-> IF j = k THEN column[i] ELSE rows[p][j]]
    BY <1>5, <1>6, <2>1
  <2>4. \A j \in 1 .. k - 1 : rows[p][j] \in ToSet(columns[j])
    BY <1>3, <2>2 DEF Combines
  <2>5. \A j \in 1 .. k : j = k \/ j \in 1 .. k - 1
    OBVIOUS
  <2> QED BY <1>1, <1>2, <2>2, <2>3, <2>4, <2>5
<1>8. ASSUME NEW r, r = [j \in 1 .. k |-> r[j]],
             \A j \in 1 .. k : r[j] \in ToSet(columns[j])
      PROVE  \E n \in DOMAIN more : more[n] = r
  <2>1. PICK h : h = [j \in 1 .. k - 1 |-> r[j]]
    OBVIOUS
  <2>2. /\ \A j \in 1 .. k - 1 : h[j] = r[j] /\ h[j] \in ToSet(columns[j])
        /\ h = [j \in 1 .. k - 1 |-> h[j]]
    BY <1>8, <2>1
  <2>3. PICK p \in DOMAIN rows : rows[p] = h
    BY <2>2 DEF Combines
  <2>4. PICK i \in 1 .. size : column[i] = r[k]
    <3>1. r[k] \in ToSet(column)
      BY <1>1, <1>8
    <3> QED BY <1>2, <3>1 DEF ToSet
  <2>5. PICK n : n = (p - 1) * size + i
    OBVIOUS
  <2>6. /\ n \in 1 .. count * size
        /\ (n - 1) \div size = p - 1 /\ (n - 1) % size = i - 1
    <3>1. p \in 1 .. count /\ size \in Nat /\ count \in Nat
      BY <1>2, <1>3
    <3> QED BY <2>5, <3>1, Position
  <2>7. 1 + (n - 1) \div size = p /\ 1 + ((n - 1) % size) = i
    BY <1>3, <2>6
  <2>8. more[n] = [j \in 1 .. k |-> IF j = k THEN column[i] ELSE rows[p][j]]
    BY <1>5, <2>6, <2>7
  <2>9. \A j \in 1 .. k : (IF j = k THEN column[i] ELSE rows[p][j]) = r[j]
    <3>1. \A j \in 1 .. k : j = k \/ j \in 1 .. k - 1
      OBVIOUS
    <3> QED BY <2>2, <2>3, <2>4, <3>1
  <2>10. more[n] = r
    BY <1>8, <2>8, <2>9
  <2> QED BY <1>6, <2>6, <2>10
<1> QED BY <1>6, <1>7, <1>8 DEF Combines

(* The products of the first columns, as Product defines them.             *)
Tables(f, columns, N) ==
  f = [k \in 0 .. N |-> IF k = 0 THEN <<(<<>>)>>
                        ELSE Times(f[k - 1], columns[k], k)]

LEMMA TablesExist ==
  ASSUME NEW columns, NEW M \in Nat PROVE \E f : Tables(f, columns, M)
<1> DEFINE S == {N \in Nat : ~ \E f : Tables(f, columns, N)}
<1> SUFFICES ASSUME S # {} PROVE FALSE
  OBVIOUS
<1>1. PICK N \in S : \A l \in S : N <= l
  <2>1. S \subseteq Nat
    OBVIOUS
  <2> HIDE DEF S
  <2> QED BY <2>1, LeastExists
<1>2. N # 0
  <2> SUFFICES ASSUME N = 0 PROVE FALSE
    OBVIOUS
  <2>1. PICK f : f = [k \in 0 .. 0 |-> <<(<<>>)>>]
    OBVIOUS
  <2>2. Tables(f, columns, 0)
    BY <2>1 DEF Tables
  <2> QED BY <1>1, <2>2
<1>3. N - 1 \in Nat /\ N - 1 \notin S
  BY <1>1, <1>2
<1>4. PICK f : Tables(f, columns, N - 1)
  BY <1>3
<1>5. PICK g : g = [k \in 0 .. N |-> IF k = 0 THEN <<(<<>>)>>
                                     ELSE Times(f[k - 1], columns[k], k)]
  OBVIOUS
<1>6. \A k \in 0 .. N - 1 : g[k] = f[k]
  <2> TAKE k \in 0 .. N - 1
  <2>1. f[k] = IF k = 0 THEN <<(<<>>)>> ELSE Times(f[k - 1], columns[k], k)
    BY <1>4 DEF Tables
  <2>2. k \in 0 .. N
    BY <1>1
  <2>3. g[k] = IF k = 0 THEN <<(<<>>)>> ELSE Times(f[k - 1], columns[k], k)
    BY <1>5, <2>2
  <2> QED BY <2>1, <2>3
<1>7. \A k \in 0 .. N : k # 0 => k - 1 \in 0 .. N - 1
  BY <1>1
<1>8. \A k \in 0 .. N : g[k] = IF k = 0 THEN <<(<<>>)>>
                               ELSE Times(g[k - 1], columns[k], k)
  BY <1>5, <1>6, <1>7
<1>9. Tables(g, columns, N)
  <2>1. g = [k \in 0 .. N |-> g[k]]
    BY <1>5
  <2> QED BY <1>8, <2>1 DEF Tables
<1> QED BY <1>1, <1>9

LEMMA ProductTables ==
  ASSUME NEW columns, Len(columns) \in Nat
  PROVE  \E f : /\ Tables(f, columns, Len(columns))
                /\ Product(columns) = f[Len(columns)]
<1> DEFINE Rec(f) == f = [k \in 0 .. Len(columns) |->
                            IF k = 0 THEN <<(<<>>)>>
                            ELSE Times(f[k - 1], columns[k], k)]
<1>1. PICK g : Rec(g)
  <2>1. PICK g : Tables(g, columns, Len(columns))
    BY TablesExist
  <2> QED BY <2>1 DEF Tables
<1>2. PICK f : f = CHOOSE h : Rec(h)
  OBVIOUS
<1>3. Rec(f)
  <2> HIDE DEF Rec
  <2> QED BY <1>1, <1>2
<1>4. Product(columns) = f[Len(columns)]
  BY <1>2 DEF Product
<1>5. Tables(f, columns, Len(columns))
  BY <1>3 DEF Tables
<1> QED BY <1>4, <1>5

(* The product of some lists holds their combinations, all of them.        *)
LEMMA ProductCombines ==
  ASSUME NEW columns, IsList(columns),
         \A j \in DOMAIN columns : IsList(columns[j])
  PROVE  Combines(Product(columns), columns, Len(columns))
<1>1. Len(columns) \in Nat /\ DOMAIN columns = 1 .. Len(columns)
  BY ListIs
<1>2. PICK f : /\ Tables(f, columns, Len(columns))
               /\ Product(columns) = f[Len(columns)]
  BY <1>1, ProductTables
<1> DEFINE S == {k \in 0 .. Len(columns) : ~Combines(f[k], columns, k)}
<1>3. ASSUME S # {} PROVE FALSE
  <2>1. PICK k \in S : \A l \in S : k <= l
    <3>1. S \subseteq Nat
      OBVIOUS
    <3> HIDE DEF S
    <3> QED BY <1>3, <3>1, LeastExists
  <2>2. f[k] = IF k = 0 THEN <<(<<>>)>> ELSE Times(f[k - 1], columns[k], k)
    BY <1>2, <2>1 DEF Tables
  <2>3. k # 0
    BY <2>1, <2>2, NoColumns
  <2>4. k - 1 \in 0 .. Len(columns) /\ k - 1 \notin S /\ k \in 1 .. Len(columns)
    BY <1>1, <2>1, <2>3
  <2>5. Combines(f[k - 1], columns, k - 1) /\ IsList(columns[k])
    BY <1>1, <2>4
  <2>6. Combines(f[k], columns, k)
    BY <1>1, <2>2, <2>3, <2>4, <2>5, OneColumnMore
  <2> QED BY <2>1, <2>6
<1>4. Len(columns) \in 0 .. Len(columns) /\ Len(columns) \notin S
  BY <1>1, <1>3
<1> QED BY <1>2, <1>4

(* A column multiplies the rows.                                           *)
LEMMA TimesLength ==
  ASSUME NEW rows, Len(rows) \in Nat, NEW column, Len(column) \in Nat, NEW k
  PROVE  Len(Times(rows, column, k)) = Len(rows) * Len(column)
<1>1. PICK more : more = Times(rows, column, k)
  OBVIOUS
<1>2. more = [n \in 1 .. Len(rows) * Len(column) |-> more[n]]
  BY <1>1 DEF Times
<1>3. Len(rows) * Len(column) \in Nat
  OBVIOUS
<1> QED BY <1>1, <1>2, <1>3, LengthOf

(* Columns of one value each have one combination.                         *)
LEMMA SingleProduct ==
  ASSUME NEW columns, Len(columns) \in Nat,
         \A j \in 1 .. Len(columns) : Len(columns[j]) = 1
  PROVE  Len(Product(columns)) = 1
<1>2. PICK f : /\ Tables(f, columns, Len(columns))
               /\ Product(columns) = f[Len(columns)]
  BY ProductTables
<1> DEFINE S == {k \in 0 .. Len(columns) : Len(f[k]) # 1}
<1>3. ASSUME S # {} PROVE FALSE
  <2>1. PICK k \in S : \A l \in S : k <= l
    <3>1. S \subseteq Nat
      OBVIOUS
    <3> HIDE DEF S
    <3> QED BY <1>3, <3>1, LeastExists
  <2>2. f[k] = IF k = 0 THEN <<(<<>>)>> ELSE Times(f[k - 1], columns[k], k)
    BY <1>2, <2>1 DEF Tables
  <2>3. k # 0
    BY <2>1, <2>2
  <2>4. k - 1 \in 0 .. Len(columns) /\ k - 1 \notin S /\ k \in 1 .. Len(columns)
    BY <2>1, <2>3
  <2>5. Len(f[k - 1]) = 1 /\ Len(columns[k]) = 1
    BY <2>4
  <2>6. Len(f[k]) = 1
    <3>1. Len(f[k - 1]) \in Nat /\ Len(columns[k]) \in Nat
      BY <2>5
    <3>2. Len(f[k]) = Len(f[k - 1]) * Len(columns[k])
      <4>1. f[k] = Times(f[k - 1], columns[k], k)
        BY <2>2, <2>3
      <4>2. Len(Times(f[k - 1], columns[k], k)) = Len(f[k - 1]) * Len(columns[k])
        BY <3>1, TimesLength
      <4> QED BY <4>1, <4>2
    <3> QED BY <2>5, <3>2
  <2> QED BY <2>1, <2>6
<1>4. Len(columns) \in 0 .. Len(columns) /\ Len(columns) \notin S
  BY <1>3
<1> QED BY <1>2, <1>4

(* The product of two columns, row by row.                                 *)
PairRows(rows, a, b) ==
  /\ Len(rows) = Len(a) * Len(b)
  /\ DOMAIN rows = 1 .. Len(a) * Len(b)
  /\ \A n \in 1 .. Len(a) * Len(b) :
       rows[n] = [j \in 1 .. 2 |-> IF j = 2 THEN b[1 + ((n - 1) % Len(b))]
                                   ELSE a[1 + (n - 1) \div Len(b)]]

LEMMA PairProduct ==
  ASSUME NEW a, Len(a) \in Nat, NEW b, Len(b) \in Nat,
         NEW rows, rows = Product(<<a, b>>)
  PROVE  PairRows(rows, a, b)
<1>1. PICK columns : columns = <<a, b>>
  OBVIOUS
<1>2. Len(columns) = 2 /\ columns[1] = a /\ columns[2] = b
  BY <1>1
<1>3. PICK f : Tables(f, columns, 2) /\ Product(columns) = f[2]
  <2>1. Len(columns) \in Nat
    BY <1>2
  <2> QED BY <1>2, <2>1, ProductTables
<1>4. /\ f[0] = <<(<<>>)>> /\ f[1] = Times(f[0], a, 1) /\ f[2] = Times(f[1], b, 2)
  BY <1>2, <1>3 DEF Tables
<1>5. Len(f[0]) = 1
  BY <1>4
<1>6. Len(f[1]) = Len(a)
  <2>1. Len(f[1]) = 1 * Len(a)
    <3>1. Len(f[0]) \in Nat
      BY <1>5
    <3>2. Len(Times(f[0], a, 1)) = Len(f[0]) * Len(a)
      BY <3>1, TimesLength
    <3> QED BY <1>4, <1>5, <3>2
  <2> QED BY <2>1
<1>7. \A p \in 1 .. Len(a) : f[1][p][1] = a[p]
  <2> TAKE p \in 1 .. Len(a)
  <2>1. p \in 1 .. 1 * Len(a) /\ 1 + ((p - 1) % Len(a)) = p
    OBVIOUS
  <2>2. f[1][p] = [j \in 1 .. 1 |-> IF j = 1 THEN a[1 + ((p - 1) % Len(a))]
                                   ELSE f[0][1 + (p - 1) \div Len(a)][j]]
    BY <1>4, <1>5, <2>1 DEF Times
  <2>3. 1 \in 1 .. 1
    OBVIOUS
  <2> QED BY <2>1, <2>2, <2>3
<1>8. f[2] = [n \in 1 .. Len(a) * Len(b) |->
                [j \in 1 .. 2 |-> IF j = 2 THEN b[1 + ((n - 1) % Len(b))]
                                  ELSE f[1][1 + (n - 1) \div Len(b)][j]]]
  BY <1>4, <1>6 DEF Times
<1>9. ASSUME NEW n \in 1 .. Len(a) * Len(b)
      PROVE  f[2][n] = [j \in 1 .. 2 |->
                          IF j = 2 THEN b[1 + ((n - 1) % Len(b))]
                                   ELSE a[1 + (n - 1) \div Len(b)]]
  <2>1. PICK p : p = 1 + (n - 1) \div Len(b)
    OBVIOUS
  <2>2. p \in 1 .. Len(a)
    BY <2>1, PositionOf
  <2>3. \A j \in 1 .. 2 : j = 2 \/ j = 1
    OBVIOUS
  <2> QED BY <1>7, <1>8, <2>1, <2>2, <2>3
<1>10. Len(f[2]) = Len(a) * Len(b)
  <2>1. Len(f[1]) \in Nat
    BY <1>6
  <2>2. Len(Times(f[1], b, 2)) = Len(f[1]) * Len(b)
    BY <2>1, TimesLength
  <2> QED BY <1>4, <1>6, <2>2
<1>11. DOMAIN f[2] = 1 .. Len(a) * Len(b)
  BY <1>8
<1> QED BY <1>1, <1>3, <1>9, <1>10, <1>11 DEF PairRows

-----------------------------------------------------------------------------
(* Chunks of a list, and the list of a set.                                *)

(* What is in a list.                                                      *)
LEMMA ToSetIs ==
  ASSUME NEW list, NEW S
  PROVE  /\ (\A i \in DOMAIN list : list[i] \in S) => ToSet(list) \subseteq S
         /\ \A x \in ToSet(list) : \E i \in DOMAIN list : list[i] = x
         /\ \A i \in DOMAIN list : list[i] \in ToSet(list)
BY DEF ToSet

(* The chunks of a list hold its elements, all of them; in chunks of one   *)
(* they keep their places.                                                 *)
ChunksOf(all, seq, size) ==
  /\ IsList(all)
  /\ \A k \in DOMAIN all : /\ IsList(all[k]) /\ 1 \in DOMAIN all[k]
                           /\ ToSet(all[k]) \subseteq ToSet(seq)
  /\ \A i \in DOMAIN seq : \E k \in DOMAIN all : seq[i] \in ToSet(all[k])
  /\ size = 1 => /\ Len(all) = Len(seq)
                 /\ \A k \in DOMAIN all :
                      DOMAIN all[k] = 1 .. 1 /\ all[k][1] = seq[k]

LEMMA ChunksAre ==
  ASSUME NEW seq, IsList(seq), NEW size \in Nat \ {0},
         NEW all, all = Chunks(seq, size)
  PROVE  ChunksOf(all, seq, size)
<1>1. PICK n, count : n = Len(seq) /\ count = (n + size - 1) \div size
  OBVIOUS
<1>2. n \in Nat /\ DOMAIN seq = 1 .. n /\ \A i \in 1 .. n : seq[i] \in ToSet(seq)
  BY <1>1, ListIs
<1>3. PICK most : most = count * size
  OBVIOUS
<1>4. count \in Nat /\ most \in Nat /\ most <= n + size - 1 /\ n <= most
  <2>1. n + size - 1 \in Nat
    BY <1>2
  <2>2. count \in Nat /\ count * size <= n + size - 1 /\ n + size - 1 < count * size + size
    BY <1>1, <2>1, Division
  <2> QED BY <1>2, <1>3, <2>2
<1>5. all = [k \in 1 .. count |->
               SubSeq(seq, (k - 1) * size + 1, Min({k * size, n}))]
  BY <1>1 DEF Chunks
<1>6. IsList(all) /\ DOMAIN all = 1 .. count /\ Len(all) = count
  <2>1. all = [k \in 1 .. count |-> all[k]]
    BY <1>5
  <2> QED BY <1>4, <2>1, ListOf
<1>7. ASSUME NEW k \in 1 .. count
      PROVE  \E first, last \in 1 .. n :
               /\ first = (k - 1) * size + 1
               /\ last = IF k * size <= n THEN k * size ELSE n
               /\ first <= last
               /\ DOMAIN all[k] = 1 .. last - first + 1
               /\ IsList(all[k])
               /\ \A i \in 1 .. last - first + 1 : all[k][i] = seq[first + i - 1]
  <2>1. PICK before, end : before = (k - 1) * size /\ end = k * size
    OBVIOUS
  <2>2. before \in Nat /\ end = before + size
    BY <2>1
  <2>3. end <= most
    BY <1>3, <1>4, <2>1
  <2>4. PICK first, last : first = before + 1 /\ last = IF end <= n THEN end ELSE n
    OBVIOUS
  <2>5. first \in 1 .. n /\ last \in 1 .. n /\ first <= last
    BY <1>2, <1>4, <2>2, <2>3, <2>4
  <2>6. Min({end, n}) = last
    BY <1>2, <2>2, <2>4, LesserIs
  <2>7. all[k] = SubSeq(seq, first, last)
    BY <1>5, <2>1, <2>4, <2>6
  <2>8. \A i \in first .. last : seq[i] \in ToSet(seq)
    BY <1>2, <2>5
  <2>9. first \in Int /\ last \in Int
    BY <2>5
  <2>10. /\ all[k] \in Seq(ToSet(seq))
         /\ Len(all[k]) = last - first + 1
         /\ \A i \in 1 .. last - first + 1 : all[k][i] = seq[first + i - 1]
    BY <2>5, <2>7, <2>8, <2>9, SubSeqProperties
  <2>11. all[k] = [i \in 1 .. last - first + 1 |-> all[k][i]]
    BY <2>10
  <2>12. IsList(all[k]) /\ DOMAIN all[k] = 1 .. last - first + 1
    <3>1. last - first + 1 \in Nat
      BY <2>5
    <3> QED BY <2>11, <3>1, ListOf
  <2> QED BY <2>1, <2>4, <2>5, <2>10, <2>12
<1>8. ASSUME NEW k \in 1 .. count
      PROVE  /\ IsList(all[k]) /\ 1 \in DOMAIN all[k]
             /\ ToSet(all[k]) \subseteq ToSet(seq)
  <2>1. PICK first, last \in 1 .. n :
          /\ first <= last
          /\ DOMAIN all[k] = 1 .. last - first + 1
          /\ IsList(all[k])
          /\ \A i \in 1 .. last - first + 1 : all[k][i] = seq[first + i - 1]
    BY <1>7
  <2>2. \A i \in 1 .. last - first + 1 : first + i - 1 \in 1 .. n
    BY <1>2, <2>1
  <2>3. 1 \in 1 .. last - first + 1
    BY <1>2, <2>1
  <2>4. \A i \in DOMAIN all[k] : all[k][i] \in ToSet(seq)
    BY <1>2, <2>1, <2>2
  <2>5. ToSet(all[k]) \subseteq ToSet(seq)
    BY <2>4, ToSetIs
  <2> QED BY <2>1, <2>3, <2>5
<1>9. ASSUME NEW i \in 1 .. n
      PROVE  \E k \in 1 .. count : seq[i] \in ToSet(all[k])
  <2>1. PICK q, before : q = (i - 1) \div size /\ before = q * size
    OBVIOUS
  <2>2. q \in Nat /\ before \in Nat /\ before <= i - 1 /\ i - 1 < before + size
    <3>1. i - 1 \in Nat
      BY <1>2
    <3>2. q \in Nat /\ q * size <= i - 1 /\ i - 1 < q * size + size
      BY <2>1, <3>1, Division
    <3> QED BY <2>1, <3>2
  <2>3. q < count
    <3> SUFFICES ASSUME count <= q PROVE FALSE
      BY <1>4, <2>2
    <3>1. count * size <= q * size
      BY <1>4, <2>2
    <3> QED BY <1>2, <1>3, <1>4, <2>1, <2>2, <3>1
  <2>4. PICK k \in 1 .. count : k = q + 1
    BY <1>4, <2>2, <2>3
  <2>5. (k - 1) * size = before /\ k * size = before + size
    <3>1. k - 1 = q /\ (q + 1) * size = q * size + size
      BY <2>2, <2>4
    <3> QED BY <2>1, <2>4, <3>1
  <2>6. PICK first, last \in 1 .. n :
          /\ first = before + 1
          /\ last = IF before + size <= n THEN before + size ELSE n
          /\ DOMAIN all[k] = 1 .. last - first + 1
          /\ \A j \in 1 .. last - first + 1 : all[k][j] = seq[first + j - 1]
    BY <1>7, <2>5
  <2>7. PICK j : j = i - first + 1
    OBVIOUS
  <2>8. j \in 1 .. last - first + 1 /\ first + j - 1 = i
    <3>1. first <= i /\ i <= last /\ {first, last, i} \subseteq Int
      BY <1>2, <2>2, <2>6
    <3> QED BY <2>7, <3>1
  <2>9. all[k][j] = seq[i]
    BY <2>6, <2>8
  <2> QED BY <2>6, <2>8, <2>9 DEF ToSet
<1>10. ASSUME size = 1
       PROVE  /\ count = n
              /\ \A k \in 1 .. count : DOMAIN all[k] = 1 .. 1 /\ all[k][1] = seq[k]
  <2>1. count = n
    BY <1>1, <1>2, <1>10
  <2>2. ASSUME NEW k \in 1 .. count
        PROVE  DOMAIN all[k] = 1 .. 1 /\ all[k][1] = seq[k]
    <3>1. PICK first, last \in 1 .. n :
            /\ first = (k - 1) * size + 1
            /\ last = IF k * size <= n THEN k * size ELSE n
            /\ DOMAIN all[k] = 1 .. last - first + 1
            /\ \A i \in 1 .. last - first + 1 : all[k][i] = seq[first + i - 1]
      BY <1>7
    <3>2. first = k /\ last = k
      BY <1>2, <1>4, <1>10, <2>1, <3>1
    <3>3. last - first + 1 = 1 /\ 1 \in 1 .. 1 /\ first + 1 - 1 = k
      BY <1>4, <3>2
    <3> QED BY <3>1, <3>3
  <2> QED BY <2>1, <2>2
<1> QED BY <1>1, <1>2, <1>6, <1>8, <1>9, <1>10 DEF ChunksOf

(* The elements of a finite set, in some order.                            *)
LEMMA SetToSeqIs ==
  ASSUME NEW S, IsFiniteSet(S)
  PROVE  /\ IsList(SetToSeq(S)) /\ ToSet(SetToSeq(S)) = S
         /\ Len(SetToSeq(S)) = Cardinality(S)
<1> DEFINE n == Cardinality(S)
           Orders(f) == f \in [1 .. n -> S] /\ IsInjective(f)
<1>1. n \in Nat /\ ExistsBijection(1 .. n, S)
  BY FS_CardinalityType
<1>2. PICK g : g \in Bijection(1 .. n, S)
  BY <1>1 DEF ExistsBijection
<1>3. g \in [1 .. n -> S] /\ IsInjective(g)
  <2>1. g \in [1 .. n -> S] /\ \A a, b \in 1 .. n : g[a] = g[b] => a = b
    BY <1>2 DEF Bijection, Injection, IsInjective
  <2> QED BY <2>1 DEF IsInjective
<1>4. PICK list : list = SetToSeq(S)
  OBVIOUS
<1>5. list \in [1 .. n -> S] /\ IsInjective(list)
  BY <1>3, <1>4 DEF SetToSeq
<1>6. list = [k \in 1 .. n |-> list[k]] /\ \A k \in 1 .. n : list[k] \in S
  BY <1>5
<1>7. IsList(list) /\ Len(list) = n /\ DOMAIN list = 1 .. n
  BY <1>1, <1>6, ListOf
<1>8. ToSet(list) = S
  <2>1. list \in Injection(1 .. n, S)
    BY <1>5 DEF IsInjective, Injection
  <2>2. IsFiniteSet(1 .. n) /\ Cardinality(1 .. n) = n
    <3>1. n \in Int /\ 1 \in Int /\ (1 > n => n = 0)
      BY <1>1
    <3> QED BY <1>1, <3>1, IntervalSize
  <2>3. list \in Surjection(1 .. n, S)
    BY <2>1, <2>2, FS_Injection, FS_Surjection
  <2> QED BY <1>7, <2>3 DEF ToSet, Surjection
<1> QED BY <1>4, <1>7, <1>8

-----------------------------------------------------------------------------
(* The work of the slices of a task.                                       *)

(* The slices compute what the task would, and nothing else.               *)
CoversWork(s, all) ==
  UNION {ToSet(Work(all[k])) : k \in DOMAIN all} = ToSet(Work(s))

(* Each slice computes one thing, in the order of the task.                *)
OneEach(s, all) ==
  /\ DOMAIN all = 1 .. Len(Work(s)) /\ Len(all) = Len(Work(s))
  /\ \A k \in DOMAIN all :
       DOMAIN Work(all[k]) = 1 .. 1 /\ Work(all[k])[1] = Work(s)[k]

(* What the only element of a list is.                                     *)
LEMMA OneIsList ==
  ASSUME NEW list, IsList(list), Len(list) = 1
  PROVE  DOMAIN list = 1 .. 1 /\ list[1] \in ToSet(list)
<1>1. DOMAIN list = 1 .. Len(list) /\ 1 \in 1 .. 1
  BY ListIs
<1> QED BY <1>1, ToSetIs

(* What every row of a list is, every element of it is.                    *)
LEMMA Covers ==
  ASSUME NEW s, NEW all,
         \A k \in DOMAIN all : \A n \in DOMAIN Work(all[k]) :
           Work(all[k])[n] \in ToSet(Work(s)),
         \A n \in DOMAIN Work(s) : \E k \in DOMAIN all :
           \E i \in DOMAIN Work(all[k]) : Work(all[k])[i] = Work(s)[n]
  PROVE  CoversWork(s, all)
<1>1. \A k \in DOMAIN all : ToSet(Work(all[k])) \subseteq ToSet(Work(s))
  BY ToSetIs
<1>2. ASSUME NEW x \in ToSet(Work(s))
      PROVE  \E k \in DOMAIN all : x \in ToSet(Work(all[k]))
  <2>1. PICK n \in DOMAIN Work(s) : Work(s)[n] = x
    BY ToSetIs
  <2>2. PICK k \in DOMAIN all :
          \E i \in DOMAIN Work(all[k]) : Work(all[k])[i] = Work(s)[n]
    BY <2>1
  <2>3. x \in ToSet(Work(all[k]))
    BY <2>1, <2>2, ToSetIs
  <2> QED BY <2>2, <2>3
<1> QED BY <1>1, <1>2 DEF CoversWork

(* Fewer than two combinations per worker come in chunks of one.           *)
LEMMA WorkersAre ==
  ASSUME NEW s, IsSpec(s), NEW n \in Nat
  PROVE  /\ MaxWorkers(s) \in Nat \ {0} /\ ChunkSize(n, s) \in Nat \ {0}
         /\ n < 2 * MaxWorkers(s) => ChunkSize(n, s) = 1
<1>1. PICK w, q : w = MaxWorkers(s) /\ q = n \div w
  OBVIOUS
<1>2. w \in Nat \ {0}
  BY <1>1 DEF MaxWorkers, IsSpec
<1>3. q \in Nat /\ q * w <= n
  BY <1>1, <1>2, Division
<1>4. ChunkSize(n, s) = IF 1 <= q THEN q ELSE 1
  BY <1>1, <1>3, GreaterIs DEF ChunkSize
<1>5. ASSUME n < 2 * w PROVE q <= 1
  <2> SUFFICES ASSUME 2 <= q PROVE FALSE
    BY <1>3
  <2>1. 2 * w <= q * w
    BY <1>2, <1>3
  <2>2. q * w \in Nat /\ 2 * w \in Nat
    BY <1>2, <1>3
  <2> QED BY <1>3, <1>5, <2>1, <2>2
<1> QED BY <1>1, <1>2, <1>3, <1>4, <1>5

(* A chunk of a grid is a grid of the values in it: it computes its        *)
(* combinations, and others of the whole grid.                             *)
LEMMA GridWork ==
  ASSUME NEW s, IsSpec(s), s.split = "param_wise", IsGrid(s),
         NEW all, all = GridSlices(s)
  PROVE  /\ IsList(all) /\ CoversWork(s, all)
         /\ Len(Work(s)) < 2 * MaxWorkers(s) => OneEach(s, all)
<1>1. PICK combos, size, chunks :
        /\ combos = Product(s.grid) /\ size = ChunkSize(Len(combos), s)
        /\ chunks = Chunks(combos, size)
  OBVIOUS
<1>2. PICK width : width = Len(s.grid)
  OBVIOUS
<1>3. width \in Nat /\ DOMAIN s.grid = 1 .. width
  BY <1>2, ListIs DEF IsSpec
<1>4. Combines(combos, s.grid, width)
  BY <1>1, <1>2, ProductCombines DEF IsSpec
<1>5. IsList(combos) /\ Len(combos) \in Nat /\ DOMAIN combos = 1 .. Len(combos)
  BY <1>4, ListIs DEF Combines
<1>6. size \in Nat \ {0} /\ (Len(combos) < 2 * MaxWorkers(s) => size = 1)
  BY <1>1, <1>5, WorkersAre
<1>7. /\ IsList(chunks)
      /\ \A k \in DOMAIN chunks : /\ IsList(chunks[k]) /\ 1 \in DOMAIN chunks[k]
                                 /\ ToSet(chunks[k]) \subseteq ToSet(combos)
      /\ \A i \in DOMAIN combos : \E k \in DOMAIN chunks :
           combos[i] \in ToSet(chunks[k])
      /\ size = 1 => /\ Len(chunks) = Len(combos)
                     /\ \A k \in DOMAIN chunks :
                          DOMAIN chunks[k] = 1 .. 1 /\ chunks[k][1] = combos[k]
  <2>1. IsList(combos) /\ size \in Nat \ {0} /\ chunks = Chunks(combos, size)
    BY <1>1, <1>5, <1>6
  <2>2. ChunksOf(chunks, combos, size)
    BY <2>1, ChunksAre
  <2> QED BY <2>2 DEF ChunksOf
<1>8. PICK grid : grid = [k \in DOMAIN chunks |->
                            [j \in 1 .. width |->
                               [c \in DOMAIN chunks[k] |-> chunks[k][c][j]]]]
  OBVIOUS
<1>9. all = [k \in DOMAIN chunks |-> [Clone(s, k) EXCEPT !.grid = grid[k]]]
  BY <1>1, <1>3, <1>8 DEF GridSlices
<1>10. Work(s) = combos
  BY <1>1 DEF Work
<1>11. ASSUME NEW k \in DOMAIN chunks
       PROVE  Work(all[k]) = Product(grid[k]) /\ Len(grid[k]) = width
  <2>1. all[k] = [[s EXCEPT !.id = k] EXCEPT !.grid = grid[k]]
    BY <1>9 DEF Clone
  <2>2. /\ all[k].grid = grid[k] /\ all[k].type = s.type
        /\ all[k].split = s.split
    BY <2>1 DEF IsSpec
  <2>3. Len(grid[k]) = width
    <3>1. grid[k] = [j \in 1 .. width |-> grid[k][j]]
      BY <1>8
    <3> QED BY <1>3, <3>1, LengthOf
  <2>4. grid[k] # <<>>
    <3>1. width # 0
      <4>1. s.grid = [j \in 1 .. width |-> s.grid[j]]
        BY <1>2, ListIs DEF IsSpec
      <4>2. width = 0 => s.grid = <<>>
        BY <4>1
      <4> QED BY <4>2 DEF IsGrid
    <3>2. Len(<<>>) = 0
      OBVIOUS
    <3> QED BY <2>3, <3>1, <3>2
  <2>5. all[k].split # "symbol_wise" /\ IsGrid(all[k])
    BY <2>2, <2>4 DEF IsGrid
  <2> QED BY <2>2, <2>3, <2>5 DEF Work
<1>12. ASSUME NEW k \in DOMAIN chunks
       PROVE  /\ Combines(Product(grid[k]), grid[k], width)
              /\ \A j \in 1 .. width : /\ DOMAIN grid[k][j] = DOMAIN chunks[k]
                                       /\ Len(grid[k][j]) = Len(chunks[k])
                                       /\ \A c \in DOMAIN chunks[k] :
                                            grid[k][j][c] = chunks[k][c][j]
  <2>1. IsList(grid[k]) /\ DOMAIN grid[k] = 1 .. width
    <3>1. grid[k] = [j \in 1 .. width |-> grid[k][j]]
      BY <1>8
    <3> QED BY <1>3, <3>1, ListOf
  <2>2. Len(chunks[k]) \in Nat /\ DOMAIN chunks[k] = 1 .. Len(chunks[k])
    BY <1>7, ListIs
  <2>3. ASSUME NEW j \in 1 .. width
        PROVE  /\ IsList(grid[k][j]) /\ DOMAIN grid[k][j] = DOMAIN chunks[k]
               /\ Len(grid[k][j]) = Len(chunks[k])
               /\ \A c \in DOMAIN chunks[k] : grid[k][j][c] = chunks[k][c][j]
    <3>1. grid[k][j] = [c \in 1 .. Len(chunks[k]) |-> chunks[k][c][j]]
      BY <1>8, <2>2
    <3>2. grid[k][j] = [c \in 1 .. Len(chunks[k]) |-> grid[k][j][c]]
      BY <3>1
    <3> QED BY <2>2, <3>1, <3>2, ListOf
  <2> QED BY <1>11, <2>1, <2>3, ProductCombines
<1>13. ASSUME NEW k \in DOMAIN chunks, NEW j \in 1 .. width,
              NEW v \in ToSet(grid[k][j])
       PROVE  \E c \in DOMAIN chunks[k] : v = chunks[k][c][j]
  <2>1. PICK c \in DOMAIN grid[k][j] : grid[k][j][c] = v
    BY ToSetIs
  <2> QED BY <1>12, <2>1
<1>14. ASSUME NEW k \in DOMAIN chunks, NEW n \in DOMAIN Product(grid[k])
       PROVE  Product(grid[k])[n] \in ToSet(combos)
  <2>1. PICK r, rows : rows = Product(grid[k]) /\ r = rows[n]
    OBVIOUS
  <2>2. /\ r = [j \in 1 .. width |-> r[j]]
        /\ \A j \in 1 .. width : r[j] \in ToSet(grid[k][j])
    <3>1. Combines(rows, grid[k], width) /\ n \in DOMAIN rows
      BY <1>12, <2>1
    <3> QED BY <2>1, <3>1 DEF Combines
  <2>3. ASSUME NEW j \in 1 .. width PROVE r[j] \in ToSet(s.grid[j])
    <3>1. PICK c \in DOMAIN chunks[k] : r[j] = chunks[k][c][j]
      BY <1>13, <2>2
    <3>2. chunks[k][c] \in ToSet(combos)
      BY <1>7, ToSetIs
    <3>3. PICK i \in DOMAIN combos : combos[i] = chunks[k][c]
      BY <3>2, ToSetIs
    <3> QED BY <1>4, <3>1, <3>3 DEF Combines
  <2>4. PICK i \in DOMAIN combos : combos[i] = r
    BY <1>4, <2>2, <2>3 DEF Combines
  <2> QED BY <2>1, <2>4, ToSetIs
<1>15. ASSUME NEW i \in DOMAIN combos
       PROVE  \E k \in DOMAIN chunks : \E n \in DOMAIN Product(grid[k]) :
                Product(grid[k])[n] = combos[i]
  <2>1. PICK k \in DOMAIN chunks : combos[i] \in ToSet(chunks[k])
    BY <1>7
  <2>2. PICK c \in DOMAIN chunks[k] : chunks[k][c] = combos[i]
    BY <2>1, ToSetIs
  <2>3. combos[i] = [j \in 1 .. width |-> combos[i][j]]
    BY <1>4 DEF Combines
  <2>4. \A j \in 1 .. width : combos[i][j] \in ToSet(grid[k][j])
    <3> TAKE j \in 1 .. width
    <3>1. c \in DOMAIN grid[k][j] /\ grid[k][j][c] = combos[i][j]
      BY <1>12, <2>2
    <3> QED BY <3>1, ToSetIs
  <2> QED BY <1>12, <2>3, <2>4 DEF Combines
<1>16. DOMAIN all = DOMAIN chunks
  BY <1>9
<1>17. CoversWork(s, all)
  BY <1>10, <1>11, <1>14, <1>15, <1>16, Covers
<1>18. Len(chunks) \in Nat /\ DOMAIN chunks = 1 .. Len(chunks)
  BY <1>7, ListIs
<1>19. IsList(all) /\ Len(all) = Len(chunks)
  <2>1. all = [k \in 1 .. Len(chunks) |-> all[k]]
    BY <1>9, <1>18
  <2> QED BY <1>18, <2>1, ListOf
<1>20. ASSUME Len(combos) < 2 * MaxWorkers(s) PROVE OneEach(s, all)
  <2>1. /\ Len(chunks) = Len(combos)
        /\ \A k \in DOMAIN chunks :
             DOMAIN chunks[k] = 1 .. 1 /\ chunks[k][1] = combos[k]
    BY <1>6, <1>7, <1>20
  <2>2. ASSUME NEW k \in DOMAIN chunks
        PROVE  DOMAIN Work(all[k]) = 1 .. 1 /\ Work(all[k])[1] = combos[k]
    <3>1. PICK rows : rows = Product(grid[k])
      OBVIOUS
    <3>2. Len(chunks[k]) = 1
      <4>1. chunks[k] = [c \in 1 .. 1 |-> chunks[k][c]]
        <5>1. DOMAIN chunks[k] = 1 .. 1 /\ chunks[k] = [c \in 1 .. Len(chunks[k]) |-> chunks[k][c]]
              /\ DOMAIN chunks[k] = 1 .. Len(chunks[k])
          BY <1>7, <2>1, ListIs
        <5> QED BY <5>1
      <4> QED BY <4>1, LengthOf
    <3>3. Len(rows) = 1
      <4>1. Len(grid[k]) = width /\ \A j \in 1 .. width : Len(grid[k][j]) = 1
        BY <1>11, <1>12, <3>2
      <4> QED BY <1>3, <3>1, <4>1, SingleProduct
    <3>4. Combines(rows, grid[k], width)
      BY <1>12, <3>1
    <3>5. DOMAIN rows = 1 .. 1
      BY <3>3, <3>4, OneIsList DEF Combines
    <3>6. /\ rows[1] = [j \in 1 .. width |-> rows[1][j]]
          /\ \A j \in 1 .. width : rows[1][j] \in ToSet(grid[k][j])
      <4>1. 1 \in DOMAIN rows
        BY <3>5
      <4> QED BY <3>4, <4>1 DEF Combines
    <3>7. \A j \in 1 .. width : rows[1][j] = combos[k][j]
      <4> TAKE j \in 1 .. width
      <4>1. PICK c \in DOMAIN chunks[k] : rows[1][j] = chunks[k][c][j]
        BY <1>13, <3>6
      <4>2. c = 1
        BY <2>1
      <4> QED BY <2>1, <4>1, <4>2
    <3>8. combos[k] = [j \in 1 .. width |-> combos[k][j]]
      <4>1. k \in DOMAIN combos
        BY <1>5, <1>18, <2>1
      <4> QED BY <1>4, <4>1 DEF Combines
    <3>9. rows[1] = combos[k]
      BY <3>6, <3>7, <3>8
    <3> QED BY <1>11, <3>1, <3>5, <3>9
  <2> QED BY <1>10, <1>16, <1>18, <1>19, <2>1, <2>2 DEF OneEach
<1> QED BY <1>10, <1>17, <1>19, <1>20

(* What the handler makes of a fee model of a combination.                 *)
FeeOf(fee) == IF fee = NoFee THEN DefaultFee ELSE fee

(* The fee models of a task, before and after the handler reads them.      *)
LEMMA FeesAre ==
  ASSUME NEW s, IsSpec(s)
  PROVE  /\ IsList(Fees(s, NoFee)) /\ IsList(Fees(s, DefaultFee))
         /\ Len(Fees(s, NoFee)) = Len(Fees(s, DefaultFee))
         /\ \A i \in DOMAIN Fees(s, NoFee) :
              Fees(s, DefaultFee)[i] = FeeOf(Fees(s, NoFee)[i])
         /\ s.fees = <<>> <=> NoFee \in ToSet(Fees(s, NoFee))
<1>1. CASE s.fees = <<>>
  <2>1. ASSUME NEW x
        PROVE  IsList(<<x>>) /\ Len(<<x>>) = 1 /\ DOMAIN <<x>> = 1 .. 1
    <3>1. <<x>> = [i \in 1 .. 1 |-> <<x>>[i]]
      OBVIOUS
    <3> QED BY <3>1, ListOf
  <2>2. Fees(s, NoFee) = <<NoFee>> /\ Fees(s, DefaultFee) = <<DefaultFee>>
    BY <1>1 DEF Fees
  <2>3. NoFee \in ToSet(<<NoFee>>)
    <3>1. 1 \in DOMAIN <<NoFee>> /\ <<NoFee>>[1] = NoFee
      OBVIOUS
    <3> QED BY <3>1, ToSetIs
  <2> QED BY <1>1, <2>1, <2>2, <2>3 DEF FeeOf
<1>2. CASE s.fees # <<>>
  <2>1. Fees(s, NoFee) = s.fees /\ Fees(s, DefaultFee) = s.fees
    BY <1>2 DEF Fees
  <2>2. IsList(s.fees) /\ NoFee \notin ToSet(s.fees)
    BY DEF IsSpec
  <2>3. \A i \in DOMAIN s.fees : s.fees[i] # NoFee
    BY <2>2, ToSetIs
  <2> QED BY <1>2, <2>1, <2>2, <2>3 DEF FeeOf
<1> QED BY <1>1, <1>2

(* The combinations of two lists, and which of their values it is.         *)
PairsOf(rows, a, b) ==
  /\ IsList(rows) /\ DOMAIN rows = 1 .. Len(rows)
  /\ Len(rows) = Len(a) * Len(b)
  /\ \A n \in DOMAIN rows :
       \E p \in DOMAIN a, q \in DOMAIN b :
         /\ p = 1 + (n - 1) \div Len(b) /\ q = 1 + ((n - 1) % Len(b))
         /\ rows[n] = <<a[p], b[q]>>
  /\ \A x \in ToSet(a), y \in ToSet(b) :
       \E n \in DOMAIN rows : rows[n] = <<x, y>>

LEMMA PairCombines ==
  ASSUME NEW a, IsList(a), NEW b, IsList(b),
         NEW rows, rows = Product(<<a, b>>)
  PROVE  PairsOf(rows, a, b)
<1>1. PICK columns : columns = <<a, b>>
  OBVIOUS
<1>2. Len(columns) = 2 /\ columns[1] = a /\ columns[2] = b
  BY <1>1
<1>3. IsList(columns) /\ DOMAIN columns = 1 .. 2
  <2>1. columns = [j \in 1 .. 2 |-> columns[j]]
    BY <1>1
  <2> QED BY <2>1, ListOf
<1>4. \A j \in 1 .. 2 : j = 1 \/ j = 2
  OBVIOUS
<1>5. \A j \in DOMAIN columns : IsList(columns[j])
  BY <1>2, <1>3, <1>4
<1>6. Combines(rows, columns, 2)
  BY <1>1, <1>2, <1>3, <1>5, ProductCombines
<1>7. IsList(rows) /\ DOMAIN rows = 1 .. Len(rows)
  BY <1>6, ListIs DEF Combines
<1>8. /\ Len(a) \in Nat /\ DOMAIN a = 1 .. Len(a)
      /\ Len(b) \in Nat /\ DOMAIN b = 1 .. Len(b)
  BY ListIs
<1>9. /\ Len(rows) = Len(a) * Len(b)
      /\ DOMAIN rows = 1 .. Len(a) * Len(b)
      /\ \A n \in 1 .. Len(a) * Len(b) :
           rows[n] = [j \in 1 .. 2 |-> IF j = 2 THEN b[1 + ((n - 1) % Len(b))]
                                       ELSE a[1 + (n - 1) \div Len(b)]]
  <2>1. PairRows(rows, a, b)
    BY <1>8, PairProduct
  <2> QED BY <2>1 DEF PairRows
<1>10. ASSUME NEW x, NEW y
       PROVE  /\ <<x, y>> = [j \in 1 .. 2 |-> IF j = 2 THEN y ELSE x]
              /\ <<x, y>>[1] = x /\ <<x, y>>[2] = y
  BY <1>4
<1>11. ASSUME NEW n \in DOMAIN rows
       PROVE  \E p \in DOMAIN a, q \in DOMAIN b :
                /\ p = 1 + (n - 1) \div Len(b) /\ q = 1 + ((n - 1) % Len(b))
                /\ rows[n] = <<a[p], b[q]>>
  <2>1. PICK p, q : p = 1 + (n - 1) \div Len(b) /\ q = 1 + ((n - 1) % Len(b))
    OBVIOUS
  <2>2. p \in DOMAIN a /\ q \in DOMAIN b
    <3>1. n \in 1 .. Len(a) * Len(b)
      BY <1>9
    <3>2. 1 + (n - 1) \div Len(b) \in 1 .. Len(a) /\ 1 + ((n - 1) % Len(b)) \in 1 .. Len(b)
      BY <1>8, <3>1, PositionOf
    <3> QED BY <1>8, <2>1, <3>2
  <2>3. rows[n] = [j \in 1 .. 2 |-> IF j = 2 THEN b[q] ELSE a[p]]
    BY <1>9, <2>1
  <2>4. <<a[p], b[q]>> = [j \in 1 .. 2 |-> IF j = 2 THEN b[q] ELSE a[p]]
    BY <1>10
  <2> QED BY <2>1, <2>2, <2>3, <2>4
<1>12. ASSUME NEW x \in ToSet(a), NEW y \in ToSet(b)
       PROVE  \E n \in DOMAIN rows : rows[n] = <<x, y>>
  <2>1. PICK r : r = <<x, y>>
    OBVIOUS
  <2>2. r[1] = x /\ r[2] = y /\ r = [j \in 1 .. 2 |-> r[j]]
    BY <2>1
  <2>3. \A j \in 1 .. 2 : r[j] \in ToSet(columns[j])
    BY <1>2, <1>4, <2>2
  <2> QED BY <1>6, <2>1, <2>2, <2>3 DEF Combines
<1> QED BY <1>7, <1>9, <1>11, <1>12 DEF PairsOf

(* The values a function has on the places of a list.                      *)
LEMMA ImageIsFinite ==
  ASSUME NEW list, IsList(list), NEW f, f = [i \in DOMAIN list |-> f[i]]
  PROVE  IsFiniteSet({f[i] : i \in DOMAIN list})
<1>1. Len(list) \in Nat /\ DOMAIN list = 1 .. Len(list)
  BY ListIs
<1>2. IsFiniteSet(1 .. Len(list))
  <2>1. Len(list) \in Int /\ 1 \in Int
    BY <1>1
  <2> QED BY <2>1, IntervalSize
<1>3. PICK S : S = {f[i] : i \in DOMAIN list}
  OBVIOUS
<1>4. f \in Surjection(1 .. Len(list), S)
  <2>1. f \in [1 .. Len(list) -> S] /\ \A x \in S : \E i \in 1 .. Len(list) : f[i] = x
    BY <1>1, <1>3
  <2> QED BY <2>1, Fun_IsSurj
<1> QED BY <1>2, <1>3, <1>4, FS_Surjection

(* A chunk of a batch is a batch of the strategies and fee models in it.   *)
LEMMA BatchWork ==
  ASSUME NEW s, IsSpec(s), s.split = "param_wise", IsBatch(s),
         NEW all, all = BatchSlices(s)
  PROVE  /\ IsList(all) /\ CoversWork(s, all)
         /\ Len(Work(s)) < 2 * MaxWorkers(s) => OneEach(s, all)
<1>1. PICK some, full, combos, size, chunks :
        /\ some = Fees(s, NoFee) /\ full = Fees(s, DefaultFee)
        /\ combos = Product(<<s.strategies, some>>)
        /\ size = ChunkSize(Len(combos), s)
        /\ chunks = Chunks(combos, size)
  OBVIOUS
<1>2. /\ IsList(some) /\ IsList(full) /\ Len(some) = Len(full)
      /\ \A i \in DOMAIN some : full[i] = FeeOf(some[i])
      /\ s.fees = <<>> <=> NoFee \in ToSet(some)
      /\ Len(some) \in Nat /\ DOMAIN some = 1 .. Len(some)
      /\ DOMAIN full = 1 .. Len(full)
  BY <1>1, FeesAre, ListIs
<1>3. IsList(s.strategies)
  BY DEF IsSpec
<1>4. PICK work : work = Product(<<s.strategies, full>>)
  OBVIOUS
<1>5. PairsOf(combos, s.strategies, some) /\ PairsOf(work, s.strategies, full)
  <2>1. PairsOf(combos, s.strategies, some)
    BY <1>1, <1>2, <1>3, PairCombines
  <2>2. PairsOf(work, s.strategies, full)
    BY <1>2, <1>3, <1>4, PairCombines
  <2> QED BY <2>1, <2>2
<1>6. Work(s) = work
  BY <1>1, <1>4 DEF Work, IsBatch, IsGrid
<1>7. /\ IsList(combos) /\ Len(combos) \in Nat
      /\ DOMAIN combos = 1 .. Len(combos)
      /\ DOMAIN work = DOMAIN combos /\ Len(work) = Len(combos)
      /\ IsList(work)
  <2>1. IsList(combos) /\ Len(combos) = Len(s.strategies) * Len(some)
    BY <1>5 DEF PairsOf
  <2>2. IsList(work) /\ Len(work) = Len(s.strategies) * Len(full)
    BY <1>5 DEF PairsOf
  <2> QED BY <1>2, <2>1, <2>2, ListIs
<1>8. ASSUME NEW n \in DOMAIN combos
      PROVE  /\ combos[n][1] \in ToSet(s.strategies) /\ combos[n][2] \in ToSet(some)
             /\ work[n] = <<combos[n][1], FeeOf(combos[n][2])>>
  <2>1. PICK p \in DOMAIN s.strategies, q \in DOMAIN some :
          /\ p = 1 + (n - 1) \div Len(some) /\ q = 1 + ((n - 1) % Len(some))
          /\ combos[n] = <<s.strategies[p], some[q]>>
    BY <1>5 DEF PairsOf
  <2>2. PICK u \in DOMAIN s.strategies, v \in DOMAIN full :
          /\ u = 1 + (n - 1) \div Len(full) /\ v = 1 + ((n - 1) % Len(full))
          /\ work[n] = <<s.strategies[u], full[v]>>
    <3>1. n \in DOMAIN work
      BY <1>7
    <3> QED BY <1>5, <3>1 DEF PairsOf
  <2>3. u = p /\ v = q
    BY <1>2, <2>1, <2>2
  <2>4. combos[n][1] = s.strategies[p] /\ combos[n][2] = some[q]
    BY <2>1
  <2> QED BY <1>2, <2>1, <2>2, <2>3, <2>4, ToSetIs
<1>9. size \in Nat \ {0} /\ (Len(combos) < 2 * MaxWorkers(s) => size = 1)
  BY <1>1, <1>7, WorkersAre
<1>10. /\ IsList(chunks)
       /\ \A k \in DOMAIN chunks : /\ IsList(chunks[k]) /\ 1 \in DOMAIN chunks[k]
                                  /\ ToSet(chunks[k]) \subseteq ToSet(combos)
       /\ \A i \in DOMAIN combos : \E k \in DOMAIN chunks :
            combos[i] \in ToSet(chunks[k])
       /\ size = 1 => /\ Len(chunks) = Len(combos)
                      /\ \A k \in DOMAIN chunks :
                           DOMAIN chunks[k] = 1 .. 1 /\ chunks[k][1] = combos[k]
  <2>1. IsList(combos) /\ size \in Nat \ {0} /\ chunks = Chunks(combos, size)
    BY <1>1, <1>7, <1>9
  <2>2. ChunksOf(chunks, combos, size)
    BY <2>1, ChunksAre
  <2> QED BY <2>2 DEF ChunksOf
<1>11. PICK names, fees :
         /\ names = [k \in DOMAIN chunks |-> {combo[1] : combo \in ToSet(chunks[k])}]
         /\ fees = [k \in DOMAIN chunks |->
                      {combo[2] : combo \in ToSet(chunks[k])} \ {NoFee}]
  OBVIOUS
<1>12. ASSUME NEW k \in DOMAIN chunks
       PROVE  IsFiniteSet(names[k]) /\ IsFiniteSet(fees[k])
  <2>1. IsList(chunks[k])
    BY <1>10
  <2>2. PICK f, g : /\ f = [c \in DOMAIN chunks[k] |-> chunks[k][c][1]]
                    /\ g = [c \in DOMAIN chunks[k] |-> chunks[k][c][2]]
    OBVIOUS
  <2>3. names[k] = {f[c] : c \in DOMAIN chunks[k]}
    BY <1>11, <2>2 DEF ToSet
  <2>4. IsFiniteSet({f[c] : c \in DOMAIN chunks[k]})
    <3>1. f = [c \in DOMAIN chunks[k] |-> f[c]]
      BY <2>2
    <3> QED BY <2>1, <3>1, ImageIsFinite
  <2>5. IsFiniteSet({g[c] : c \in DOMAIN chunks[k]})
    <3>1. g = [c \in DOMAIN chunks[k] |-> g[c]]
      BY <2>2
    <3> QED BY <2>1, <3>1, ImageIsFinite
  <2>6. fees[k] \subseteq {g[c] : c \in DOMAIN chunks[k]}
    BY <1>11, <2>2 DEF ToSet
  <2> QED BY <2>3, <2>4, <2>5, <2>6, FS_Subset
<1>13. ASSUME NEW k \in DOMAIN chunks
       PROVE  /\ IsList(SetToSeq(names[k])) /\ ToSet(SetToSeq(names[k])) = names[k]
              /\ Len(SetToSeq(names[k])) = Cardinality(names[k])
              /\ IsList(SetToSeq(fees[k])) /\ ToSet(SetToSeq(fees[k])) = fees[k]
              /\ Len(SetToSeq(fees[k])) = Cardinality(fees[k])
  BY <1>12, SetToSeqIs
<1>14. all = [k \in DOMAIN chunks |->
                [Clone(s, k) EXCEPT !.strategies = SetToSeq(names[k]),
                                    !.fees = SetToSeq(fees[k])]]
  BY <1>1, <1>11 DEF BatchSlices
<1>15. PICK given : given = [k \in DOMAIN chunks |-> Fees(all[k], DefaultFee)]
  OBVIOUS
<1>16. ASSUME NEW k \in DOMAIN chunks
       PROVE  /\ Work(all[k]) = Product(<<SetToSeq(names[k]), given[k]>>)
              /\ IsList(given[k])
              /\ ToSet(given[k]) = {FeeOf(combo[2]) : combo \in ToSet(chunks[k])}
              /\ Len(given[k]) = Cardinality(ToSet(given[k]))
  <2>1. all[k] = [[s EXCEPT !.id = k] EXCEPT !.strategies = SetToSeq(names[k]),
                                             !.fees = SetToSeq(fees[k])]
    BY <1>14 DEF Clone
  <2>2. /\ all[k].type = s.type /\ all[k].split = s.split
        /\ all[k].strategies = SetToSeq(names[k])
        /\ all[k].fees = SetToSeq(fees[k])
    BY <2>1 DEF IsSpec
  <2>3. chunks[k][1] \in ToSet(chunks[k])
    BY <1>10, ToSetIs
  <2>4. SetToSeq(names[k]) # <<>>
    <3>1. chunks[k][1][1] \in ToSet(SetToSeq(names[k]))
      BY <1>11, <1>13, <2>3
    <3>2. ToSet(<<>>) = {}
      BY DEF ToSet
    <3> QED BY <3>1, <3>2
  <2>5. Work(all[k]) = Product(<<SetToSeq(names[k]), given[k]>>)
    BY <1>15, <2>2, <2>4 DEF Work, IsGrid, IsBatch
  <2>6. \A combo \in ToSet(chunks[k]) : combo[2] \in ToSet(some)
    <3> TAKE combo \in ToSet(chunks[k])
    <3>1. combo \in ToSet(combos)
      BY <1>10
    <3>2. PICK n \in DOMAIN combos : combos[n] = combo
      BY <3>1, ToSetIs
    <3> QED BY <1>8, <3>2
  <2>7. given[k] = IF SetToSeq(fees[k]) = <<>> THEN <<DefaultFee>> ELSE SetToSeq(fees[k])
    BY <1>15, <2>2 DEF Fees
  <2>8. CASE s.fees = <<>>
    <3>1. \A x \in ToSet(some) : x = NoFee
      <4>1. some = <<NoFee>>
        BY <1>1, <2>8 DEF Fees
      <4> QED BY <4>1 DEF ToSet
    <3>2. \A combo \in ToSet(chunks[k]) : combo[2] = NoFee /\ FeeOf(combo[2]) = DefaultFee
      BY <2>6, <3>1 DEF FeeOf
    <3>3. fees[k] = {}
      BY <1>11, <3>2
    <3>4. SetToSeq(fees[k]) = <<>>
      <4>1. Len(SetToSeq(fees[k])) = 0
        BY <1>13, <3>3, FS_EmptySet
      <4>2. SetToSeq(fees[k]) = [i \in 1 .. 0 |-> SetToSeq(fees[k])[i]]
        BY <1>13, <4>1, ListIs
      <4> QED BY <4>2
    <3>5. given[k] = <<DefaultFee>>
      BY <2>7, <3>4
    <3>6. IsList(given[k]) /\ Len(given[k]) = 1
      <4>1. given[k] = [i \in 1 .. 1 |-> given[k][i]]
        BY <3>5
      <4> QED BY <4>1, ListOf
    <3>7. ToSet(given[k]) = {DefaultFee}
      BY <3>5 DEF ToSet
    <3>8. Cardinality({DefaultFee}) = 1
      BY FS_Singleton
    <3>9. {FeeOf(combo[2]) : combo \in ToSet(chunks[k])} = {DefaultFee}
      BY <2>3, <3>2
    <3> QED BY <2>5, <3>6, <3>7, <3>8, <3>9
  <2>9. CASE s.fees # <<>>
    <3>1. NoFee \notin ToSet(some)
      BY <1>2, <2>9
    <3>2. \A combo \in ToSet(chunks[k]) : combo[2] # NoFee /\ FeeOf(combo[2]) = combo[2]
      BY <2>6, <3>1 DEF FeeOf
    <3>3. fees[k] = {FeeOf(combo[2]) : combo \in ToSet(chunks[k])}
      BY <1>11, <3>2
    <3>4. SetToSeq(fees[k]) # <<>>
      <4>1. FeeOf(chunks[k][1][2]) \in ToSet(SetToSeq(fees[k]))
        BY <1>13, <2>3, <3>3
      <4>2. ToSet(<<>>) = {}
        BY DEF ToSet
      <4> QED BY <4>1, <4>2
    <3>5. given[k] = SetToSeq(fees[k])
      BY <2>7, <3>4
    <3> QED BY <1>13, <2>5, <3>3, <3>5
  <2> QED BY <2>8, <2>9
<1>17. ASSUME NEW k \in DOMAIN chunks
       PROVE  /\ \A n \in DOMAIN Work(all[k]) :
                   \E c, d \in DOMAIN chunks[k] :
                     Work(all[k])[n] = <<chunks[k][c][1], FeeOf(chunks[k][d][2])>>
              /\ \A c \in DOMAIN chunks[k] : \E n \in DOMAIN Work(all[k]) :
                   Work(all[k])[n] = <<chunks[k][c][1], FeeOf(chunks[k][c][2])>>
  <2>1. PICK list, rows : list = SetToSeq(names[k]) /\ rows = Work(all[k])
    OBVIOUS
  <2>2. rows = Product(<<list, given[k]>>) /\ IsList(list) /\ IsList(given[k])
    BY <1>13, <1>16, <2>1
  <2>3. PairsOf(rows, list, given[k])
    BY <2>2, PairCombines
  <2>4. /\ ToSet(list) = {combo[1] : combo \in ToSet(chunks[k])}
        /\ ToSet(given[k]) = {FeeOf(combo[2]) : combo \in ToSet(chunks[k])}
    BY <1>11, <1>13, <1>16, <2>1
  <2>5. ASSUME NEW n \in DOMAIN rows
        PROVE  \E c, d \in DOMAIN chunks[k] :
                 rows[n] = <<chunks[k][c][1], FeeOf(chunks[k][d][2])>>
    <3>1. PICK p \in DOMAIN list, q \in DOMAIN given[k] :
            rows[n] = <<list[p], given[k][q]>>
      BY <2>3 DEF PairsOf
    <3>2. list[p] \in ToSet(list) /\ given[k][q] \in ToSet(given[k])
      BY ToSetIs
    <3>3. PICK one, two \in ToSet(chunks[k]) :
            list[p] = one[1] /\ given[k][q] = FeeOf(two[2])
      BY <2>4, <3>2
    <3>4. PICK c, d \in DOMAIN chunks[k] : chunks[k][c] = one /\ chunks[k][d] = two
      BY <3>3, ToSetIs
    <3> QED BY <3>1, <3>3, <3>4
  <2>6. ASSUME NEW c \in DOMAIN chunks[k]
        PROVE  \E n \in DOMAIN rows :
                 rows[n] = <<chunks[k][c][1], FeeOf(chunks[k][c][2])>>
    <3>1. chunks[k][c] \in ToSet(chunks[k])
      BY ToSetIs
    <3>2. PICK x, y : x = chunks[k][c][1] /\ y = FeeOf(chunks[k][c][2])
      OBVIOUS
    <3>3. x \in ToSet(list) /\ y \in ToSet(given[k])
      BY <2>4, <3>1, <3>2
    <3>4. \E n \in DOMAIN rows : rows[n] = <<x, y>>
      BY <2>3, <3>3 DEF PairsOf
    <3> QED BY <3>2, <3>4
  <2> QED BY <2>1, <2>5, <2>6
<1>18. \A k \in DOMAIN chunks : \A c \in DOMAIN chunks[k] :
         \E n \in DOMAIN combos : combos[n] = chunks[k][c]
  BY <1>10, ToSetIs
<1>19. ASSUME NEW k \in DOMAIN chunks, NEW n \in DOMAIN Work(all[k])
       PROVE  Work(all[k])[n] \in ToSet(work)
  <2>1. PICK c, d \in DOMAIN chunks[k] :
          Work(all[k])[n] = <<chunks[k][c][1], FeeOf(chunks[k][d][2])>>
    BY <1>17
  <2>2. PICK i, j \in DOMAIN combos : combos[i] = chunks[k][c] /\ combos[j] = chunks[k][d]
    BY <1>18
  <2>3. PICK x, y : x = combos[i][1] /\ y = FeeOf(combos[j][2])
    OBVIOUS
  <2>4. x \in ToSet(s.strategies) /\ y \in ToSet(full)
    <3>1. combos[j][2] \in ToSet(some) /\ x \in ToSet(s.strategies)
      BY <1>8, <2>3
    <3>2. PICK q \in DOMAIN some : some[q] = combos[j][2]
      BY <3>1, ToSetIs
    <3>3. q \in DOMAIN full /\ full[q] = y
      BY <1>2, <2>3, <3>2
    <3> QED BY <3>1, <3>3, ToSetIs
  <2>5. PICK m \in DOMAIN work : work[m] = <<x, y>>
    BY <1>5, <2>4 DEF PairsOf
  <2> QED BY <2>1, <2>2, <2>3, <2>5, ToSetIs
<1>20. ASSUME NEW i \in DOMAIN work
       PROVE  \E k \in DOMAIN chunks : \E n \in DOMAIN Work(all[k]) :
                Work(all[k])[n] = work[i]
  <2>1. i \in DOMAIN combos /\ work[i] = <<combos[i][1], FeeOf(combos[i][2])>>
    BY <1>7, <1>8
  <2>2. PICK k \in DOMAIN chunks : combos[i] \in ToSet(chunks[k])
    BY <1>10, <2>1
  <2>3. PICK c \in DOMAIN chunks[k] : chunks[k][c] = combos[i]
    BY <2>2, ToSetIs
  <2> QED BY <1>17, <2>1, <2>3
<1>21. DOMAIN all = DOMAIN chunks
  BY <1>14
<1>22. CoversWork(s, all)
  BY <1>6, <1>19, <1>20, <1>21, Covers
<1>23. Len(chunks) \in Nat /\ DOMAIN chunks = 1 .. Len(chunks)
  BY <1>10, ListIs
<1>24. IsList(all) /\ Len(all) = Len(chunks)
  <2>1. all = [k \in 1 .. Len(chunks) |-> all[k]]
    BY <1>14, <1>23
  <2> QED BY <1>23, <2>1, ListOf
<1>25. ASSUME Len(combos) < 2 * MaxWorkers(s) PROVE OneEach(s, all)
  <2>1. /\ Len(chunks) = Len(combos)
        /\ \A k \in DOMAIN chunks :
             DOMAIN chunks[k] = 1 .. 1 /\ chunks[k][1] = combos[k]
    BY <1>9, <1>10, <1>25
  <2>2. ASSUME NEW k \in DOMAIN chunks
        PROVE  DOMAIN Work(all[k]) = 1 .. 1 /\ Work(all[k])[1] = work[k]
    <3>1. k \in DOMAIN combos /\ work[k] = <<combos[k][1], FeeOf(combos[k][2])>>
      BY <1>7, <1>8, <1>23, <2>1
    <3>2. ToSet(chunks[k]) = {combos[k]}
      BY <2>1 DEF ToSet
    <3>3. names[k] = {combos[k][1]} /\ ToSet(given[k]) = {FeeOf(combos[k][2])}
      BY <1>11, <1>16, <3>2
    <3>4. Len(SetToSeq(names[k])) = 1 /\ Len(given[k]) = 1
      <4>1. \A x : Cardinality({x}) = 1
        BY FS_Singleton
      <4> QED BY <1>13, <1>16, <3>3, <4>1
    <3>5. PICK rows : rows = Work(all[k])
      OBVIOUS
    <3>6. Len(rows) = 1 /\ DOMAIN rows = 1 .. 1
      <4>1. Len(rows) = Len(SetToSeq(names[k])) * Len(given[k]) /\ DOMAIN rows = 1 .. Len(rows)
        <5>1. PairsOf(rows, SetToSeq(names[k]), given[k])
          BY <1>13, <1>16, <3>5, PairCombines
        <5> QED BY <5>1 DEF PairsOf
      <4> QED BY <3>4, <4>1
    <3>7. PICK c, d \in DOMAIN chunks[k] :
            rows[1] = <<chunks[k][c][1], FeeOf(chunks[k][d][2])>>
      <4>1. 1 \in DOMAIN rows
        BY <3>6
      <4> QED BY <1>17, <3>5, <4>1
    <3>8. c = 1 /\ d = 1
      BY <2>1
    <3> QED BY <2>1, <3>1, <3>5, <3>6, <3>7, <3>8
  <2> QED BY <1>6, <1>7, <1>21, <1>23, <1>24, <2>1, <2>2 DEF OneEach
<1> QED BY <1>6, <1>7, <1>22, <1>24, <1>25

(* A slice of a task over symbols computes one of them.                    *)
LEMMA SymbolWork ==
  ASSUME NEW s, IsSpec(s), s.split = "symbol_wise",
         NEW all, all = SymbolSlices(s)
  PROVE  IsList(all) /\ CoversWork(s, all) /\ OneEach(s, all)
<1>1. Work(s) = s.symbols
  BY DEF Work
<1>2. PICK n : n = Len(s.symbols)
  OBVIOUS
<1>3. n \in Nat /\ DOMAIN s.symbols = 1 .. n
  BY <1>2, ListIs DEF IsSpec
<1>4. all = [k \in 1 .. n |-> [Clone(s, k) EXCEPT !.symbols = <<s.symbols[k]>>]]
  BY <1>3 DEF SymbolSlices
<1>5. IsList(all) /\ Len(all) = n /\ DOMAIN all = 1 .. n
  <2>1. all = [k \in 1 .. n |-> all[k]]
    BY <1>4
  <2> QED BY <1>3, <2>1, ListOf
<1>6. ASSUME NEW k \in 1 .. n PROVE Work(all[k]) = <<s.symbols[k]>>
  <2>1. all[k] = [[s EXCEPT !.id = k] EXCEPT !.symbols = <<s.symbols[k]>>]
    BY <1>4 DEF Clone
  <2>2. all[k].split = s.split /\ all[k].symbols = <<s.symbols[k]>>
    BY <2>1 DEF IsSpec
  <2> QED BY <2>2 DEF Work
<1>7. \A k \in 1 .. n : /\ DOMAIN Work(all[k]) = 1 .. 1
                        /\ Work(all[k])[1] = s.symbols[k]
  <2>1. \A x : DOMAIN <<x>> = 1 .. 1 /\ <<x>>[1] = x
    OBVIOUS
  <2> QED BY <1>6, <2>1
<1>8. OneEach(s, all)
  BY <1>1, <1>2, <1>5, <1>7 DEF OneEach
<1>9. CoversWork(s, all)
  <2>1. \A k \in DOMAIN all : \A m \in DOMAIN Work(all[k]) :
          Work(all[k])[m] \in ToSet(Work(s))
    BY <1>1, <1>3, <1>5, <1>7, ToSetIs
  <2>2. \A k \in DOMAIN all : 1 \in DOMAIN Work(all[k])
    BY <1>5, <1>7
  <2>3. \A m \in DOMAIN Work(s) : \E k \in DOMAIN all :
          \E i \in DOMAIN Work(all[k]) : Work(all[k])[i] = Work(s)[m]
    BY <1>1, <1>3, <1>5, <1>7, <2>2
  <2> QED BY <2>1, <2>3, Covers
<1> QED BY <1>5, <1>8, <1>9

-----------------------------------------------------------------------------
(* How often the slices of a task compute something.                       *)

(* RunsOf adds up what it is defined to add.                               *)
LEMMA RunsAddUp ==
  ASSUME Len(slices) \in Nat, NEW unit, NEW g,
         g = [k \in 0 .. Len(slices) |-> g[k]], g[0] = 0,
         \A k \in 1 .. Len(slices) : g[k] = g[k - 1] + Runs(unit, Work(slices[k]))
  PROVE  RunsOf(unit) = g[Len(slices)]
<1> DEFINE N == 0 .. Len(slices)
           Rec(f) == f = [k \in N |-> IF k = 0 THEN 0
                                      ELSE f[k - 1] + Runs(unit, Work(slices[k]))]
<1>1. \A k \in N : g[k] = IF k = 0 THEN 0 ELSE g[k - 1] + Runs(unit, Work(slices[k]))
  <2>1. \A k \in N : k = 0 \/ k \in 1 .. Len(slices)
    OBVIOUS
  <2> QED BY <2>1
<1>2. Rec(g)
  BY <1>1
<1>3. PICK f : f = CHOOSE h : Rec(h)
  OBVIOUS
<1>4. Rec(f)
  <2> HIDE DEF Rec
  <2> QED BY <1>2, <1>3
<1>5. \A k \in N : f[k] = g[k]
  <2> DEFINE S == {k \in N : f[k] # g[k]}
  <2> SUFFICES ASSUME S # {} PROVE FALSE
    OBVIOUS
  <2>1. PICK k \in S : \A l \in S : k <= l
    <3>1. S \subseteq Nat
      OBVIOUS
    <3> HIDE DEF S
    <3> QED BY <3>1, LeastExists
  <2>2. /\ f[k] = IF k = 0 THEN 0 ELSE f[k - 1] + Runs(unit, Work(slices[k]))
        /\ g[k] = IF k = 0 THEN 0 ELSE g[k - 1] + Runs(unit, Work(slices[k]))
    BY <1>1, <1>4, <2>1
  <2>3. k # 0
    BY <2>1, <2>2
  <2>4. k - 1 \in N /\ k - 1 \notin S
    BY <2>1, <2>3
  <2>5. f[k - 1] = g[k - 1]
    BY <2>4
  <2> QED BY <2>1, <2>2, <2>5
<1>6. RunsOf(unit) = f[Len(slices)]
  BY <1>3 DEF RunsOf
<1> QED BY <1>5, <1>6

(* How often something is computed is a number.                            *)
LEMMA RunsIsNat ==
  ASSUME NEW unit, NEW work, NEW n \in Nat, DOMAIN work = 1 .. n
  PROVE  IsFiniteSet({m \in DOMAIN work : work[m] = unit}) /\ Runs(unit, work) \in Nat
<1>1. IsFiniteSet(1 .. n)
  <2>1. n \in Int /\ 1 \in Int
    OBVIOUS
  <2> QED BY <2>1, IntervalSize
<1>2. PICK S : S = {m \in DOMAIN work : work[m] = unit}
  OBVIOUS
<1>3. S \subseteq 1 .. n
  BY <1>2
<1>4. IsFiniteSet(S)
  BY <1>1, <1>3, FS_Subset
<1>5. Cardinality(S) \in Nat
  BY <1>4, FS_CardinalityType
<1> QED BY <1>2, <1>4, <1>5 DEF Runs

(* A task that is not split is computed as often as it is.                 *)
LEMMA RunsOfWhole ==
  ASSUME NEW n \in Nat, DOMAIN Work(spec) = 1 .. n, slices = <<spec>>, NEW unit
  PROVE  RunsOf(unit) = Runs(unit, Work(spec))
<1>1. Len(slices) = 1 /\ slices[1] = spec
  OBVIOUS
<1>2. Runs(unit, Work(spec)) \in Nat
  BY RunsIsNat
<1>3. PICK g : g = [k \in 0 .. 1 |-> IF k = 0 THEN 0 ELSE Runs(unit, Work(spec))]
  OBVIOUS
<1>4. g = [k \in 0 .. 1 |-> g[k]] /\ g[0] = 0 /\ g[1] = Runs(unit, Work(spec))
  BY <1>3
<1>5. \A k \in 1 .. 1 : g[k] = g[k - 1] + Runs(unit, Work(slices[k]))
  <2>1. \A k \in 1 .. 1 : k = 1 /\ k - 1 = 0
    OBVIOUS
  <2> QED BY <1>1, <1>2, <1>4, <2>1
<1>6. RunsOf(unit) = g[Len(slices)]
  <2>1. Len(slices) \in Nat
    BY <1>1
  <2> QED BY <1>1, <1>4, <1>5, <2>1, RunsAddUp
<1> QED BY <1>1, <1>4, <1>6

(* Slices of one computation each run each of them once.                   *)
LEMMA RunsOfEach ==
  ASSUME IsList(Work(spec)), OneEach(spec, slices), NEW unit
  PROVE  RunsOf(unit) = Runs(unit, Work(spec))
<1>1. PICK work, n : work = Work(spec) /\ n = Len(work)
  OBVIOUS
<1>2. n \in Nat /\ DOMAIN work = 1 .. n
  BY <1>1, ListIs
<1>3. /\ DOMAIN slices = 1 .. n /\ Len(slices) = n
      /\ \A k \in 1 .. n :
           DOMAIN Work(slices[k]) = 1 .. 1 /\ Work(slices[k])[1] = work[k]
  BY <1>1 DEF OneEach
<1> DEFINE Upto(k) == {m \in 1 .. k : work[m] = unit}
<1>4. ASSUME NEW k \in 0 .. n
      PROVE  IsFiniteSet(Upto(k)) /\ Cardinality(Upto(k)) \in Nat
  <2>1. k \in Int /\ 1 \in Int
    OBVIOUS
  <2>2. IsFiniteSet(1 .. k)
    BY <2>1, IntervalSize
  <2>3. IsFiniteSet(Upto(k))
    BY <2>2, FS_Subset
  <2> QED BY <2>3, FS_CardinalityType
<1>5. PICK g : g = [k \in 0 .. n |-> Cardinality(Upto(k))]
  OBVIOUS
<1>6. g[0] = 0
  <2>1. Upto(0) = {}
    OBVIOUS
  <2>2. Cardinality({}) = 0
    BY FS_EmptySet
  <2>3. g[0] = Cardinality(Upto(0))
    BY <1>2, <1>5
  <2> QED BY <2>1, <2>2, <2>3
<1>7. ASSUME NEW k \in 1 .. n
      PROVE  g[k] = g[k - 1] + Runs(unit, Work(slices[k]))
  <2>1. k - 1 \in 0 .. n /\ k \in 0 .. n
    BY <1>2
  <2>2. g[k] = Cardinality(Upto(k)) /\ g[k - 1] = Cardinality(Upto(k - 1))
    BY <1>5, <2>1
  <2>3. \A m \in 1 .. k : m = k \/ m \in 1 .. k - 1
    BY <1>2
  <2>4. 1 .. k - 1 \subseteq 1 .. k /\ k \in 1 .. k /\ k \notin 1 .. k - 1
    BY <1>2
  <2>5. IsFiniteSet(Upto(k - 1)) /\ Cardinality(Upto(k - 1)) \in Nat
    BY <1>4, <2>1
  <2>6. CASE work[k] = unit
    <3>1. Runs(unit, Work(slices[k])) = 1
      <4>1. {m \in DOMAIN Work(slices[k]) : Work(slices[k])[m] = unit} = {1}
        BY <1>3, <2>6
      <4> QED BY <4>1, FS_Singleton DEF Runs
    <3>2. Upto(k) = Upto(k - 1) \cup {k} /\ k \notin Upto(k - 1)
      BY <2>3, <2>4, <2>6
    <3>3. Cardinality(Upto(k - 1) \cup {k}) = Cardinality(Upto(k - 1)) + 1
      <4> HIDE DEF Upto
      <4> QED BY <2>5, <3>2, FS_AddElement
    <3> QED BY <2>2, <3>1, <3>2, <3>3
  <2>7. CASE work[k] # unit
    <3>1. Runs(unit, Work(slices[k])) = 0
      <4>1. {m \in DOMAIN Work(slices[k]) : Work(slices[k])[m] = unit} = {}
        BY <1>3, <2>7
      <4> QED BY <4>1, FS_EmptySet DEF Runs
    <3>2. Upto(k) = Upto(k - 1)
      BY <2>3, <2>4, <2>7
    <3>3. g[k] = g[k - 1] /\ g[k - 1] \in Nat
      BY <2>2, <2>5, <3>2
    <3> QED BY <3>1, <3>3
  <2> QED BY <2>6, <2>7
<1>8. RunsOf(unit) = g[n]
  <2>1. g = [k \in 0 .. n |-> g[k]]
    BY <1>5
  <2> QED BY <1>2, <1>3, <1>6, <1>7, <2>1, RunsAddUp
<1>9. g[n] = Runs(unit, work)
  BY <1>2, <1>5 DEF Runs
<1> QED BY <1>1, <1>8, <1>9

(* What a task computes is a list.                                         *)
LEMMA WorkIsList == ASSUME NEW s, IsSpec(s) PROVE IsList(Work(s))
<1>1. CASE s.split = "symbol_wise"
  BY <1>1 DEF Work, IsSpec
<1>2. CASE s.split # "symbol_wise" /\ IsGrid(s)
  <2>1. Combines(Product(s.grid), s.grid, Len(s.grid))
    BY ProductCombines DEF IsSpec
  <2> QED BY <1>2, <2>1 DEF Work, Combines
<1>3. CASE s.split # "symbol_wise" /\ ~IsGrid(s) /\ IsBatch(s)
  <2>1. IsList(s.strategies) /\ IsList(Fees(s, DefaultFee))
    BY FeesAre DEF IsSpec
  <2>2. PairsOf(Product(<<s.strategies, Fees(s, DefaultFee)>>),
                s.strategies, Fees(s, DefaultFee))
    BY <2>1, PairCombines
  <2> QED BY <1>3, <2>2 DEF Work, PairsOf
<1>4. CASE s.split # "symbol_wise" /\ ~IsGrid(s) /\ ~IsBatch(s)
  <2>1. IsList(<<>>)
    BY DEF IsList
  <2> QED BY <1>4, <2>1 DEF Work
<1> QED BY <1>1, <1>2, <1>3, <1>4

(* However a task is split, it is computed.                                *)
LEMMA SlicesDoTheWork ==
  ASSUME IsSpec(spec), slices = ShardTask(spec)
  PROVE  CoversWork(spec, slices) /\ OnceInSmallChunks
<1>1. IsList(Work(spec))
  BY WorkIsList
<1>2. CASE spec.split = "param_wise" /\ IsGrid(spec)
  <2>1. slices = GridSlices(spec)
    BY <1>2 DEF ShardTask, IsGrid, IsBatch, IsSimulation
  <2>2. /\ CoversWork(spec, slices)
        /\ Len(Work(spec)) < 2 * MaxWorkers(spec) => OneEach(spec, slices)
    BY <1>2, <2>1, GridWork
  <2> QED BY <1>1, <1>2, <2>2, RunsOfEach DEF OnceInSmallChunks
<1>3. CASE spec.split = "param_wise" /\ ~IsGrid(spec) /\ IsBatch(spec)
  <2>1. slices = BatchSlices(spec)
    BY <1>3 DEF ShardTask, IsGrid, IsBatch, IsSimulation
  <2>2. /\ CoversWork(spec, slices)
        /\ Len(Work(spec)) < 2 * MaxWorkers(spec) => OneEach(spec, slices)
    BY <1>3, <2>1, BatchWork
  <2> QED BY <1>1, <1>3, <2>2, RunsOfEach DEF OnceInSmallChunks
<1>4. CASE spec.split = "param_wise" /\ ~IsGrid(spec) /\ ~IsBatch(spec) /\ IsSimulation(spec)
  <2>1. slices = SimulationSlices(spec)
    BY <1>4 DEF ShardTask, IsGrid, IsBatch, IsSimulation
  <2>2. ToSet(Work(spec)) = {}
    BY <1>4 DEF Work, ToSet
  <2>3. ASSUME NEW k \in DOMAIN slices PROVE ToSet(Work(slices[k])) = {}
    <3>1. PICK a, b : slices[k] = [Clone(spec, k) EXCEPT !.n = a, !.seed = b]
      BY <2>1 DEF SimulationSlices
    <3>2. slices[k].split = spec.split /\ slices[k].type = spec.type
      BY <3>1 DEF Clone, IsSpec
    <3>3. Work(slices[k]) = <<>>
      BY <1>4, <3>2 DEF Work, IsGrid, IsBatch, IsSimulation
    <3> QED BY <3>3 DEF ToSet
  <2>4. CoversWork(spec, slices)
    BY <2>2, <2>3 DEF CoversWork
  <2> QED BY <2>2, <2>4 DEF OnceInSmallChunks
<1>5. CASE spec.split = "symbol_wise" /\ Len(spec.symbols) > 1
  <2>1. slices = SymbolSlices(spec)
    BY <1>5 DEF ShardTask
  <2>2. CoversWork(spec, slices) /\ OneEach(spec, slices)
    BY <1>5, <2>1, SymbolWork
  <2> QED BY <1>1, <2>2, RunsOfEach DEF OnceInSmallChunks
<1>6. CASE slices = <<spec>>
  <2>1. DOMAIN Work(spec) = 1 .. Len(Work(spec)) /\ Len(Work(spec)) \in Nat
    BY <1>1, ListIs
  <2>2. \A unit : RunsOf(unit) = Runs(unit, Work(spec))
    BY <1>6, <2>1, RunsOfWhole
  <2>3. DOMAIN slices = {1} /\ slices[1] = spec
    BY <1>6
  <2>4. CoversWork(spec, slices)
    BY <2>3 DEF CoversWork
  <2> QED BY <2>2, <2>4 DEF OnceInSmallChunks
<1> QED BY <1>2, <1>3, <1>4, <1>5, <1>6 DEF ShardTask

(* The cases that are no tasks have a spec too.                            *)
LEMMA BlankIsSpec == IsSpec(Blank)
<1>1. IsList(<<>>)
  BY DEF IsList
<1>2. IsList(<<"BTC">>)
  <2>1. <<"BTC">> = [i \in 1 .. 1 |-> <<"BTC">>[i]]
    OBVIOUS
  <2> QED BY <2>1, ListOf
<1>3. ToSet(<<>>) = {} /\ DOMAIN <<>> = {}
  BY DEF ToSet
<1> QED BY <1>1, <1>2, <1>3 DEF IsSpec, Blank

(* The slices of a task compute together what the task would: nothing is   *)
(* left out by a division that leaves a remainder, nothing else is         *)
(* computed, and nothing twice in small chunks (shard.py).                 *)
THEOREM SlicesComputeTheTask == MCSpec => []SameWork
<1> DEFINE Split == /\ spec \in Specs \/ spec = Blank
                    /\ submitted => slices = ShardTask(spec)
<1>1. Split => SameWork
  <2> SUFFICES ASSUME Split, submitted PROVE SameWork
    BY DEF SameWork
  <2>1. IsSpec(spec)
    BY BlankIsSpec, ShardAssumption
  <2>2. SliceIdsDiffer
    <3>1. "id" \in DOMAIN spec
      BY <2>1 DEF IsSpec
    <3> QED BY <3>1, IdsOfSlices DEF SliceIdsDiffer
  <2>3. CoversWork(spec, slices) /\ OnceInSmallChunks
    BY <2>1, SlicesDoTheWork
  <2> QED BY <2>2, <2>3 DEF SameWork, CoversWork
<1>2. MCInit => Split
  <2>1. ShardTask(Blank) = <<Blank>>
    BY DEF ShardTask, Blank, IsGrid, IsBatch, IsSimulation
  <2> QED BY <2>1 DEF MCInit, Init
<1>3. Split /\ [MCNext]_caseVars => Split'
  BY DEF MCNext, Submit, caseVars, vars
<1> QED BY <1>1, <1>2, <1>3, PTL DEF MCSpec
=============================================================================
