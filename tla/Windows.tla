------------------------------- MODULE Windows -------------------------------
(***************************************************************************)
(* How the runners and estimators cut n rows into windows: walk-forward    *)
(* backtests, walk-forward cross-validation, the chunks of the rescaled    *)
(* range and the patterns of the permutation entropy.  A window is the set *)
(* of its rows, counted from 0.                                            *)
(***************************************************************************)
EXTENDS Integers, Sequences, FiniteSets, FiniteSetsExt

(* WalkForward: a step of None or 0 is the length of a test window.        *)
StepOf(step, test) == IF step = 0 THEN test ELSE step

WalkForward_Late(n, train, test, step) ==  \* mutant: start, not start + test
  LET by    == StepOf(step, test)
      count == IF train > n THEN 0 ELSE (n - train) \div by + 1
      start(i) == train + (i - 1) * by
  IN  [i \in 1 .. count |->
         [train |-> Max({0, start(i) - train}) .. start(i) - 1,
          test  |-> start(i) .. start(i) + test - 1]]

WalkForward(n, train, test, step) ==
  LET by    == StepOf(step, test)
      count == IF train + test > n THEN 0 ELSE (n - train - test) \div by + 1
      start(i) == train + (i - 1) * by
  IN  [i \in 1 .. count |->
         [train |-> Max({0, start(i) - train}) .. start(i) - 1,
          test  |-> start(i) .. start(i) + test - 1]]

(* walkforward_cv: nothing when a fold has less than MinFold rows (10).    *)
Folds(n, folds, MinFold) ==
  LET size == n \div (folds + 1)
      end(i) == i * size
  IN  IF size < MinFold THEN <<>>
      ELSE [i \in 1 .. folds |->
              [train |-> 0 .. end(i) - 1,
               test  |-> end(i) .. Min({end(i) + size, n}) - 1]]

(* hurst_rs: chunks of 4, 8, 16, ... rows, the largest at most n; none of  *)
(* fewer than 20 rows.                                                     *)
Power[k \in Nat] == IF k = 0 THEN 1 ELSE 2 * Power[k - 1]

RangeSizes(n) ==
  IF n < 20 THEN {} ELSE {Power[k] : k \in {k \in 2 .. n : Power[k] <= n}}

RangeChunks(n, size) ==
  {i * size .. (i + 1) * size - 1 : i \in 0 .. n \div size - 1}

(* permutation_entropy: m rows, tau apart, from every row that allows it.  *)
PatternStarts(n, m, tau) ==
  IF n < m * tau THEN {} ELSE 0 .. n - (m - 1) * tau - 1

(* x[i:i + m * tau:tau] stops at the end of the data.                      *)
Pattern(n, i, m, tau) ==
  {r \in i .. Min({i + m * tau, n}) - 1 : (r - i) % tau = 0}

-----------------------------------------------------------------------------
(* Windows fit n rows when each tests some of them, all after those it     *)
(* trains on, and no row is tested by two.                                 *)
Fit(windows, n) ==
  /\ \A i \in DOMAIN windows :
       /\ windows[i].test # {}
       /\ windows[i].train \cup windows[i].test \subseteq 0 .. n - 1
       /\ \A r \in windows[i].train, q \in windows[i].test : r < q
  /\ \A i, j \in DOMAIN windows :
       i # j => windows[i].test \cap windows[j].test = {}

(* The rows after the first test that no window tests are fewer than m.    *)
LeavesFewerThan(m, windows, n) ==
  windows # <<>> =>
    LET tested == UNION {windows[i].test : i \in DOMAIN windows}
    IN  Cardinality((Min(tested) .. n - 1) \ tested) < m
=============================================================================
