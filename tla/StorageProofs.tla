---------------------------- MODULE StorageProofs ----------------------------
(***************************************************************************)
(* Proofs about Storage for any number of writers, jobs, symbols, times,   *)
(* columns and clients' requests.                                          *)
(*                                                                         *)
(* StorageInv is inductive.  TableIsExplained says that every row is always *)
(* what the committed ingests account for, in the order of their commits;  *)
(* an answer is the table at the moment it was asked for, and stays        *)
(* accounted for by the ingests of that moment, because later ones are     *)
(* logged after them (Prefix).  LoadedIsThere is what makes a mixture of   *)
(* columns one of rows: a row that was looked up is never gone.            *)
(***************************************************************************)
EXTENDS Storage, WellFoundedInduction, TLAPS

TableIsExplained == \A k \in Keys : Explained(k, Len(log), rows[k])

Committed(r, frame) ==
  \E n \in cleared .. Len(log) : \A k \in Keys :
    k[1] \in r => Explained(k, n, frame[k])

AnswersAreCommitted ==
  /\ \A r \in Requests :
       cache[r] # <<>> /\ r \notin edited => Committed(r, cache[r][1])
  /\ fetched # <<>> => Committed(fetched[1], fetched[2])

LoadedIsThere ==
  \A w \in Writers, k \in Keys : loaded[w][k] \in Row => rows[k] \in Row

HasData(s) ==
  \/ \E t \in Times : rows[<<s, t>>] # None
  \/ \E w \in Writers : job[w].symbol = s /\ Batch(w) = {}

(* A writer describes a symbol only after its rows are there.              *)
DataComesFirst ==
  /\ \A w \in Writers : pc[w] = "merge" => Batch(w) # {}
  /\ \A w \in Writers :
       pc[w] \in {"describe", "upsert"} => HasData(job[w].symbol)
  /\ \A s \in meta : HasData(s)

StorageInv ==
  /\ TypeOK /\ LoadedIsThere
  /\ TableIsExplained /\ AnswersAreCommitted /\ DataComesFirst

-----------------------------------------------------------------------------
(* The records of a job have keys of the table, and are rows.              *)
LEMMA BatchIsKeys ==
  ASSUME TypeOK, NEW w \in Writers
  PROVE  /\ Batch(w) \subseteq Keys /\ job[w].symbol \in Symbols
         /\ \A k \in Batch(w) : Bar(w, k) \in Row
<1>1. job[w] \in Jobs
  BY DEF TypeOK
<1>2. /\ job[w].symbol \in Symbols /\ DOMAIN job[w].bars \subseteq Times
      /\ \A t \in DOMAIN job[w].bars : job[w].bars[t] \in Row
  BY <1>1, StorageAssumption
<1> QED
  BY <1>2 DEF Batch, Keys, Bar

(* Of some of the first n ingests, one is the last.                        *)
LEMMA LastExists ==
  ASSUME NEW n \in Nat, NEW S, S \subseteq 1 .. n, S # {}
  PROVE  \E i \in S : \A j \in S : j <= i
<1> DEFINE T == {n - i : i \in S}
<1>1. T \subseteq Nat /\ T # {}
  <2>1. \A i \in S : i \in 1 .. n
    OBVIOUS
  <2>2. \A i \in S : n - i \in Nat
    BY <2>1
  <2>3. T # {}
    BY Zenon
  <2> QED
    BY <2>2, <2>3
<1>2. PICK x \in T : \A y \in T : ~ (<<y, x>> \in OpToRel(<, Nat))
  <2> HIDE DEF T
  <2> QED
    BY <1>1, NatLessThanWellFounded, WFMin
<1>3. PICK i \in S : x = n - i
  BY <1>2
<1>4. ASSUME NEW j \in S
      PROVE  j <= i
  <2>1. n - j \in T /\ n - j \in Nat /\ x \in Nat
    BY <1>1, <1>2
  <2>2. ~ (n - j < x)
    BY <1>2, <2>1 DEF OpToRel
  <2> QED
    BY <1>3, <2>2
<1> QED
  BY <1>4

LEMMA LatestIsLast ==
  ASSUME NEW k, NEW n \in Nat, With(k, n) # {}
  PROVE  /\ Latest(k, n) \in With(k, n)
         /\ Latest(k, n) \in 1 .. n
         /\ \A j \in With(k, n) : j <= Latest(k, n)
<1>1. With(k, n) \subseteq 1 .. n
  BY DEF With
<1>2. \E i \in With(k, n) : \A j \in With(k, n) : j <= i
  BY <1>1, LastExists
<1> QED
  BY <1>1, <1>2 DEF Latest

(* The entries of the log are of writers.                                  *)
LEMMA LogIsOfWriters ==
  ASSUME TypeOK
  PROVE  /\ Len(log) \in Nat
         /\ \A i \in 1 .. Len(log) : log[i].writer \in Writers
<1> DEFINE E == [writer : Writers, stale : SUBSET Keys]
<1>1. log \in Seq(E) /\ \A e \in E : e.writer \in Writers
  BY DEF TypeOK
<1> HIDE DEF E
<1>2. \A i \in 1 .. Len(log) : log[i] \in E
  BY <1>1
<1> QED
  BY <1>1, <1>2

(* An ingest that is logged leaves what the first n account for as it was. *)
LEMMA Prefix ==
  ASSUME TypeOK, NEW e, log' = Append(log, e), job' = job,
         NEW n \in 0 .. Len(log), NEW k, NEW row, Explained(k, n, row)
  PROVE  Explained(k, n, row)'
<1>1. n \in Nat /\ \A i \in 1 .. n : log'[i] = log[i]
  BY DEF TypeOK
<1>2. \A i \in 1 .. n : /\ Batch(log[i].writer)' = Batch(log[i].writer)
                        /\ Bar(log[i].writer, k)' = Bar(log[i].writer, k)
  BY <1>1 DEF Batch, Bar
<1>3. With(k, n)' = With(k, n) /\ Latest(k, n)' = Latest(k, n)
  <2>1. With(k, n)' = With(k, n)
    BY <1>2 DEF With
  <2> QED
    BY <2>1 DEF Latest
<1>4. CASE With(k, n) = {}
  BY <1>3, <1>4 DEF Explained
<1>5. CASE With(k, n) # {}
  <2>1. PICK l : l = Latest(k, n)
    OBVIOUS
  <2>2. l \in 1 .. n /\ With(k, n) \subseteq 1 .. n
    BY <1>1, <1>5, <2>1, LatestIsLast DEF With
  <2>3. /\ row # None
        /\ k \notin log[l].stale => row = Bar(log[l].writer, k)
        /\ \A c \in Columns : \E i \in With(k, n) :
             row[c] = Bar(log[i].writer, k)[c]
    BY <1>5, <2>1 DEF Explained
  <2>4. /\ log'[l] = log[l] /\ Bar(log[l].writer, k)' = Bar(log[l].writer, k)
        /\ \A i \in With(k, n) :
             Bar(log[i].writer, k)' = Bar(log[i].writer, k)
    BY <1>1, <1>2, <2>2
  <2>5. \A c \in Columns : \E i \in With(k, n) :
          row[c] = Bar(log[i].writer, k)'[c]
    BY <2>3, <2>4
  <2>6. k \notin log'[l].stale => row = Bar(log[l].writer, k)'
    BY <2>3, <2>4
  <2> QED
    BY <1>3, <1>5, <2>1, <2>3, <2>5, <2>6, Zenon DEF Explained
<1> QED
  BY <1>4, <1>5

-----------------------------------------------------------------------------
(* Type correctness.                                                       *)

LEMMA FrameIsTable ==
  ASSUME TypeOK, NEW r \in Requests
  PROVE  Frame(r, rows) \in Table
BY DEF TypeOK, Frame, Table

(* What a merge writes is a row.                                           *)
LEMMA MergedIsRow ==
  ASSUME TypeOK, LoadedIsThere, NEW w \in Writers, NEW k \in Batch(w),
         loaded[w][k] # Unread
  PROVE  Merged(w, k) \in Row
<1>1. k \in Keys /\ Bar(w, k) \in Row
  BY BatchIsKeys
<1>2. CASE loaded[w][k] = None
  BY <1>1, <1>2 DEF Merged
<1>3. CASE loaded[w][k] # None
  <2>1. loaded[w][k] \in Row
    BY <1>1, <1>3 DEF TypeOK
  <2>2. rows[k] \in Row
    BY <1>1, <2>1 DEF LoadedIsThere
  <2> QED
    BY <1>1, <1>3, <2>2 DEF Merged, Row
<1> QED
  BY <1>2, <1>3

LEMMA InitTypeOK == Init => TypeOK
BY StorageAssumption DEF Init, TypeOK, Steps, Keys, Table

LEMMA NextTypeOK == TypeOK /\ LoadedIsThere /\ [Next]_vars => TypeOK'
<1> SUFFICES ASSUME TypeOK, LoadedIsThere, [Next]_vars
             PROVE  TypeOK'
  OBVIOUS
<1> USE DEF TypeOK
<1>1. ASSUME NEW w \in Writers, NoRecords(w)
      PROVE  TypeOK'
  BY <1>1 DEF NoRecords, Step, After, Steps, tables, sessions, clientVars
<1>2. ASSUME NEW w \in Writers, Merge(w)
      PROVE  TypeOK'
  <2>1. PICK k \in Batch(w) : loaded' = [loaded EXCEPT ![w][k] = rows[k]]
    BY <1>2 DEF Merge
  <2>2. k \in Keys /\ rows[k] \in Row \cup {None, Unread}
    BY BatchIsKeys DEF Table
  <2>3. loaded' \in [Writers -> [Keys -> Row \cup {None, Unread}]]
    BY <2>1, <2>2
  <2>4. pc' \in [Writers -> Steps]
    BY <1>2 DEF Merge, Steps
  <2> QED
    BY <1>2, <2>3, <2>4 DEF Merge, tables, clientVars
<1>3. ASSUME NEW w \in Writers, Commit(w)
      PROVE  TypeOK'
  <2>1. pc' \in [Writers -> Steps]
    BY <1>3 DEF Commit, After, Steps
  <2>2. CASE Conflicts(w) # {}
    BY <1>3, <2>1, <2>2 DEF Commit, sessions, clientVars
  <2>3. CASE Conflicts(w) = {}
    <3>1. PICK stale : /\ stale = {k \in Batch(w) : loaded[w][k] # rows[k]}
                       /\ log' = Append(log, [writer |-> w, stale |-> stale])
      BY <1>3, <2>3 DEF Commit
    <3>2. stale \in SUBSET Keys
      BY <3>1, BatchIsKeys
    <3>3. /\ log' \in Seq([writer : Writers, stale : SUBSET Keys])
          /\ Len(log') = Len(log) + 1 /\ Len(log) \in Nat
      BY <3>1, <3>2
    <3>4. rows' \in Table
      <4>1. \A k \in Batch(w) : Merged(w, k) \in Row
        BY <1>3, MergedIsRow DEF Commit
      <4> QED
        BY <1>3, <2>3, <4>1 DEF Commit, Table
    <3> QED
      BY <1>3, <2>1, <3>3, <3>4 DEF Commit, sessions, clientVars
  <2> QED
    BY <2>2, <2>3
<1>4. ASSUME NEW w \in Writers, Describe(w)
      PROVE  TypeOK'
  BY <1>4 DEF Describe, Step, Steps, tables, clientVars
<1>5. ASSUME NEW w \in Writers, Upsert(w)
      PROVE  TypeOK'
  BY <1>5, BatchIsKeys DEF Upsert, Steps, sessions, clientVars
<1>6. ASSUME NEW w \in Writers, Die(w)
      PROVE  TypeOK'
  BY <1>6 DEF Die, Steps, tables, sessions, clientVars
<1>7. ASSUME NEW r \in Requests, Get(r)
      PROVE  TypeOK'
  BY <1>7, FrameIsTable DEF Get, tables, sessions
<1>8. CASE Remember
  BY <1>8 DEF Remember, tables, sessions
<1>9. ASSUME NEW r \in Requests, Edit(r)
      PROVE  TypeOK'
  <2>1. PICK k \in Keys, row \in Edits :
          cache' = [cache EXCEPT ![r] = <<[cache[r][1] EXCEPT ![k] = row]>>]
    BY <1>9 DEF Edit
  <2>2. PICK f \in Table : cache[r] = <<f>>
    BY <1>9 DEF Edit
  <2>3. [f EXCEPT ![k] = row] \in Table
    BY StorageAssumption DEF Table
  <2>4. cache' = [cache EXCEPT ![r] = <<[f EXCEPT ![k] = row]>>]
    BY <2>1, <2>2
  <2>5. cache' \in [Requests -> {<<>>} \cup {<<g>> : g \in Table}]
    BY <2>3, <2>4
  <2> QED
    BY <1>9, <2>5 DEF Edit, tables, sessions
<1>10. CASE ClearCache
  BY <1>10 DEF ClearCache, tables, sessions
<1>11. CASE UNCHANGED vars
  BY <1>11 DEF vars, tables, sessions, clientVars
<1> QED
  BY <1>1, <1>2, <1>3, <1>4, <1>5, <1>6, <1>7, <1>8, <1>9, <1>10, <1>11
     DEF Next, Write

-----------------------------------------------------------------------------
(* What any step keeps.                                                    *)

Entry(w) == [writer |-> w, stale |-> {k \in Batch(w) : loaded[w][k] # rows[k]}]

(* An ingest commits.                                                      *)
Commits(w) ==
  /\ pc[w] = "merge" /\ \A k \in Batch(w) : loaded[w][k] # Unread
  /\ Conflicts(w) = {}
  /\ rows' = [k \in Keys |-> IF k \in Batch(w) THEN Merged(w, k) ELSE rows[k]]
  /\ log' = Append(log, Entry(w))
  /\ UNCHANGED <<job, meta, sessions, clientVars>>

(* Nobody chooses another job, and the log only grows.                     *)
LEMMA LogGrows ==
  ASSUME [Next]_vars
  PROVE  /\ job' = job
         /\ \/ log' = log /\ rows' = rows
            \/ \E w \in Writers : Commits(w)
<1>1. ASSUME NEW w \in Writers, Commit(w)
      PROVE  /\ job' = job
             /\ (log' = log /\ rows' = rows) \/ Commits(w)
  BY <1>1 DEF Commit, Commits, Entry
<1> QED
  BY <1>1 DEF Next, Write, NoRecords, Merge, Describe, Upsert, Die, Get, Edit,
              Remember, ClearCache, vars, tables

(* Rows are overwritten and never deleted.                                 *)
LEMMA RowsStay ==
  ASSUME TypeOK, LoadedIsThere, [Next]_vars, NEW k \in Keys, rows[k] \in Row
  PROVE  rows'[k] \in Row
<1>1. CASE rows' = rows
  BY <1>1
<1>2. ASSUME NEW w \in Writers, Commits(w)
      PROVE  rows'[k] \in Row
  BY <1>2, MergedIsRow DEF Commits
<1> QED
  BY <1>1, <1>2, LogGrows

LEMMA LoadedIsThereStep ==
  ASSUME TypeOK, LoadedIsThere, [Next]_vars
  PROVE  LoadedIsThere'
<1>1. ASSUME loaded' = loaded
      PROVE  LoadedIsThere'
  BY <1>1, RowsStay DEF LoadedIsThere
<1>2. ASSUME NEW w \in Writers, Merge(w)
      PROVE  LoadedIsThere'
  <2>1. PICK j \in Batch(w) : loaded' = [loaded EXCEPT ![w][j] = rows[j]]
    BY <1>2 DEF Merge
  <2>2. rows' = rows /\ j \in Keys
    BY <1>2, BatchIsKeys DEF Merge, tables
  <2>3. ASSUME NEW v \in Writers, NEW k \in Keys, loaded'[v][k] \in Row
        PROVE  rows[k] \in Row
    <3>1. CASE v = w /\ k = j
      BY <2>1, <2>3, <3>1 DEF TypeOK
    <3>2. CASE ~ (v = w /\ k = j)
      <4>1. loaded'[v][k] = loaded[v][k]
        BY <2>1, <3>2 DEF TypeOK
      <4> QED
        BY <2>3, <4>1 DEF LoadedIsThere
    <3> QED
      BY <3>1, <3>2
  <2> QED
    BY <2>2, <2>3 DEF LoadedIsThere
<1> QED
  BY <1>1, <1>2 DEF Next, Write, NoRecords, Commit, Describe, Upsert, Die, Get,
                    Edit, Remember, ClearCache, vars, sessions

LEMMA InitLoaded == Init => LoadedIsThere
BY StorageAssumption DEF Init, LoadedIsThere

(* Every variable keeps to its type, whatever the writers and the client   *)
(* interleave (storage/backend.py, data_access/ohlcv.py).                  *)
THEOREM TypeCorrect == Spec => []TypeOK
BY InitTypeOK, InitLoaded, NextTypeOK, LoadedIsThereStep, PTL DEF Spec

LEMMA SameExplained ==
  ASSUME job' = job, log' = log, NEW n, NEW k, NEW row, Explained(k, n, row)
  PROVE  Explained(k, n, row)'
<1>1. \A w : Batch(w)' = Batch(w) /\ Bar(w, k)' = Bar(w, k)
  BY DEF Batch, Bar
<1>2. With(k, n)' = With(k, n)
  BY <1>1 DEF With
<1>3. Latest(k, n)' = Latest(k, n)
  BY <1>2 DEF Latest
<1> QED
  BY <1>1, <1>2, <1>3, Zenon DEF Explained

(* An answer that was committed stays so.                                  *)
LEMMA StaysCommitted ==
  ASSUME TypeOK, [Next]_vars, cleared' = cleared,
         NEW r, NEW frame, Committed(r, frame)
  PROVE  Committed(r, frame)'
<1>1. PICK n \in cleared .. Len(log) :
        \A k \in Keys : k[1] \in r => Explained(k, n, frame[k])
  BY DEF Committed
<1>2. job' = job /\ (log' = log \/ \E e : log' = Append(log, e))
  BY LogGrows DEF Commits
<1>3. cleared \in Nat /\ Len(log) \in Nat /\ n \in 0 .. Len(log)
  BY DEF TypeOK
<1>4. n \in cleared' .. Len(log')
  BY <1>2, <1>3 DEF TypeOK
<1>5. ASSUME NEW k \in Keys, k[1] \in r
      PROVE  Explained(k, n, frame[k])'
  <2>1. PICK row : row = frame[k]
    OBVIOUS
  <2>2. Explained(k, n, row)
    BY <1>1, <1>5, <2>1
  <2>3. Explained(k, n, row)'
    BY <1>2, <1>3, <2>2, Prefix, SameExplained
  <2> QED
    BY <2>1, <2>3
<1> QED
  BY <1>4, <1>5 DEF Committed

-----------------------------------------------------------------------------
(* Each part of the invariant.                                             *)

(* A row that a commit writes is accounted for by it and those before it.  *)
LEMMA CommitExplains ==
  ASSUME TypeOK, LoadedIsThere, NEW w \in Writers, Commits(w),
         NEW n, n = Len(log), NEW k \in Keys, Explained(k, n, rows[k]),
         NEW row, row = rows'[k]
  PROVE  Explained(k, n + 1, row)'
<1>1. n \in Nat /\ \A i \in 1 .. n : log[i].writer \in Writers
  BY LogIsOfWriters
<1>2. /\ log' = Append(log, Entry(w)) /\ job' = job
      /\ rows'[k] = IF k \in Batch(w) THEN Merged(w, k) ELSE rows[k]
  BY DEF Commits
<1>3. /\ \A i \in 1 .. n : log'[i] = log[i]
      /\ log'[n + 1] = Entry(w) /\ Entry(w).writer = w
  BY <1>2 DEF TypeOK, Entry
<1>4. PICK W, L : W = With(k, n + 1)' /\ L = Latest(k, n + 1)'
  OBVIOUS
<1>5. W = IF k \in Batch(w) THEN With(k, n) \cup {n + 1} ELSE With(k, n)
  <2>1. W = {i \in 1 .. n + 1 : k \in Batch(log'[i].writer)}
    BY <1>2, <1>4 DEF With, Batch
  <2>2. 1 .. n + 1 = (1 .. n) \cup {n + 1} /\ n + 1 \notin 1 .. n
    BY <1>1
  <2> QED
    BY <1>3, <2>1, <2>2 DEF With
<1>6. L = CHOOSE i \in W : \A j \in W : j <= i
  BY <1>4 DEF Latest
<1>7. With(k, n) \subseteq 1 .. n
  BY DEF With
<1>10. Explained(k, n + 1, row)' =
         IF W = {} THEN row = None
         ELSE /\ row # None
              /\ k \notin log'[L].stale => row = Bar(log'[L].writer, k)
              /\ \A c \in Columns : \E i \in W :
                   row[c] = Bar(log'[i].writer, k)[c]
  BY <1>2, <1>4 DEF Explained, Bar
<1>8. CASE k \notin Batch(w)
  <2>1. W = With(k, n) /\ L = Latest(k, n) /\ rows'[k] = rows[k]
    BY <1>2, <1>5, <1>6, <1>8 DEF Latest
  <2>2. row = rows[k]
    BY <2>1
  <2>3. CASE With(k, n) = {}
    BY <1>10, <2>1, <2>2, <2>3 DEF Explained
  <2>4. CASE With(k, n) # {}
    <3>1. PICK l : l = Latest(k, n)
      OBVIOUS
    <3>2. l \in 1 .. n
      BY <1>1, <2>4, <3>1, LatestIsLast
    <3>3. /\ row # None
          /\ k \notin log[l].stale => row = Bar(log[l].writer, k)
          /\ \A c \in Columns : \E i \in With(k, n) :
               row[c] = Bar(log[i].writer, k)[c]
      BY <2>2, <2>4, <3>1 DEF Explained
    <3>4. log'[l] = log[l] /\ \A i \in With(k, n) : log'[i] = log[i]
      BY <1>3, <1>7, <3>2
    <3>5. \A c \in Columns : \E i \in With(k, n) :
            row[c] = Bar(log'[i].writer, k)[c]
      BY <3>3, <3>4
    <3>6. k \notin log'[l].stale => row = Bar(log'[l].writer, k)
      BY <3>3, <3>4
    <3> QED
      BY <1>10, <2>1, <2>4, <3>1, <3>3, <3>5, <3>6, Zenon
  <2> QED
    BY <2>3, <2>4
<1>9. CASE k \in Batch(w)
  <2>1. loaded[w][k] # Unread /\ (loaded[w][k] = None => rows[k] = None)
    BY <1>9 DEF Commits, Conflicts
  <2>3. row = Merged(w, k) /\ row \in Row /\ row # None /\ Bar(w, k) \in Row
    BY <1>2, <1>9, <2>1, MergedIsRow, BatchIsKeys, StorageAssumption
  <2>4. L = n + 1 /\ W # {}
    <3>1. n + 1 \in W /\ \A j \in W : j <= n + 1
      BY <1>1, <1>5, <1>7, <1>9
    <3>2. ASSUME NEW i \in W, \A j \in W : j <= i
          PROVE  i = n + 1
      <4>1. i <= n + 1 /\ n + 1 <= i
        BY <3>1, <3>2
      <4>2. i \in 1 .. n + 1
        BY <1>1, <1>5, <1>7, <1>9
      <4> QED
        BY <1>1, <4>1, <4>2
    <3> QED
      BY <1>6, <3>1, <3>2
  <2>5. ASSUME k \notin Entry(w).stale
        PROVE  row = Bar(w, k)
    <3>1. loaded[w][k] = rows[k]
      BY <1>9, <2>5 DEF Entry
    <3>2. CASE loaded[w][k] = None
      BY <2>3, <3>2 DEF Merged
    <3>3. CASE loaded[w][k] # None
      <4>1. row = [c \in Columns |-> Bar(w, k)[c]]
        BY <2>3, <3>1, <3>3 DEF Merged
      <4> QED
        BY <2>3, <4>1 DEF Row
    <3> QED
      BY <3>2, <3>3
  <2>6. ASSUME NEW c \in Columns
        PROVE  \E i \in W : row[c] = Bar(log'[i].writer, k)[c]
    <3>1. CASE row[c] = Bar(w, k)[c]
      BY <1>3, <1>5, <1>9, <3>1
    <3>2. CASE row[c] # Bar(w, k)[c]
      <4>1. loaded[w][k] # None
        BY <2>3, <3>2 DEF Merged
      <4>2. row[c] = rows[k][c]
        BY <2>3, <3>2, <4>1 DEF Merged
      <4>3. rows[k] # None
        <5>1. loaded[w][k] \in Row
          BY <2>1, <4>1 DEF TypeOK
        <5> QED
          BY <5>1, StorageAssumption DEF LoadedIsThere
      <4>4. PICK i \in With(k, n) : rows[k][c] = Bar(log[i].writer, k)[c]
        BY <4>3 DEF Explained
      <4>5. i \in W /\ log'[i] = log[i]
        BY <1>3, <1>5, <1>7, <1>9
      <4> QED
        BY <4>2, <4>4, <4>5
    <3> QED
      BY <3>1, <3>2
  <2>7. k \notin log'[L].stale => row = Bar(log'[L].writer, k)
    BY <1>3, <2>4, <2>5
  <2> QED
    BY <1>10, <2>3, <2>4, <2>6, <2>7, Zenon
<1> QED
  BY <1>8, <1>9

LEMMA TableStep ==
  ASSUME TypeOK, LoadedIsThere, TableIsExplained, [Next]_vars
  PROVE  TableIsExplained'
<1>1. PICK n : n = Len(log)
  OBVIOUS
<1>2. ASSUME NEW k \in Keys
      PROVE  Explained(k, n, rows[k])
  BY <1>1, Zenon DEF TableIsExplained
<1>3. CASE log' = log /\ rows' = rows
  <2>1. ASSUME NEW k \in Keys
        PROVE  Explained(k, Len(log), rows[k])'
    <3>1. PICK row : row = rows[k]
      OBVIOUS
    <3>2. Explained(k, n, row)'
      BY <1>2, <1>3, <3>1, LogGrows, SameExplained
    <3> QED
      BY <1>1, <1>3, <3>1, <3>2
  <2> QED
    BY <2>1, Zenon DEF TableIsExplained
<1>4. ASSUME NEW w \in Writers, Commits(w)
      PROVE  TableIsExplained'
  <2>1. Len(log') = n + 1
    BY <1>1, <1>4 DEF Commits, TypeOK
  <2>2. ASSUME NEW k \in Keys
        PROVE  Explained(k, Len(log), rows[k])'
    <3>1. PICK row : row = rows'[k]
      OBVIOUS
    <3>2. Explained(k, n + 1, row)'
      BY <1>1, <1>2, <1>4, <3>1, CommitExplains
    <3> QED
      BY <2>1, <3>1, <3>2
  <2> QED
    BY <2>2, Zenon DEF TableIsExplained
<1> QED
  BY <1>3, <1>4, LogGrows

LEMMA AnswersStep ==
  ASSUME TypeOK, TableIsExplained, AnswersAreCommitted, [Next]_vars
  PROVE  AnswersAreCommitted'
<1>1. CASE UNCHANGED clientVars
  BY <1>1, StaysCommitted DEF AnswersAreCommitted, clientVars
<1>2. ASSUME NEW r \in Requests, Get(r)
      PROVE  AnswersAreCommitted'
  <2>1. PICK f : f = Frame(r, rows)
    OBVIOUS
  <2>2. /\ cleared' = cleared /\ cache' = cache /\ edited' = edited
        /\ fetched' = <<r, f>>
    BY <1>2, <2>1 DEF Get
  <2>3. Committed(r, f)
    <3>1. Len(log) \in cleared .. Len(log)
      BY DEF TypeOK
    <3>2. \A k \in Keys : k[1] \in r => f[k] = rows[k]
      BY <2>1 DEF Frame
    <3> QED
      BY <3>1, <3>2 DEF Committed, TableIsExplained
  <2>4. Committed(r, f)'
    BY <2>2, <2>3, StaysCommitted
  <2>5. \A s \in Requests :
          cache[s] # <<>> /\ s \notin edited => Committed(s, cache[s][1])'
    BY <2>2, StaysCommitted DEF AnswersAreCommitted
  <2> QED
    BY <2>2, <2>4, <2>5 DEF AnswersAreCommitted
<1>3. CASE Remember
  <2>1. /\ fetched \in Requests \X Table /\ cleared' = cleared
        /\ fetched' = <<>> /\ edited' = edited
        /\ cache' = [cache EXCEPT ![fetched[1]] = <<fetched[2]>>]
    BY <1>3 DEF Remember, TypeOK
  <2>2. Committed(fetched[1], fetched[2])
    BY <1>3 DEF Remember, AnswersAreCommitted
  <2>3. ASSUME NEW s \in Requests, cache'[s] # <<>>, s \notin edited
        PROVE  Committed(s, cache'[s][1])
    BY <2>1, <2>2, <2>3 DEF AnswersAreCommitted, TypeOK
  <2>4. ASSUME NEW s \in Requests, cache'[s] # <<>>, s \notin edited
        PROVE  Committed(s, cache[s][1])'
    <3>1. \A frame : Committed(s, frame) => Committed(s, frame)'
      BY <2>1, StaysCommitted
    <3> QED
      BY <2>3, <2>4, <3>1
  <2> QED
    BY <2>1, <2>4 DEF AnswersAreCommitted
<1>4. ASSUME NEW r \in Requests, Edit(r)
      PROVE  AnswersAreCommitted'
  <2>1. /\ cleared' = cleared /\ fetched' = fetched
        /\ edited' = edited \cup {r}
        /\ \A s \in Requests \ {r} : cache'[s] = cache[s]
    BY <1>4 DEF Edit, TypeOK
  <2>2. ASSUME NEW s \in Requests, cache'[s] # <<>>, s \notin edited'
        PROVE  Committed(s, cache'[s][1])
    BY <2>1, <2>2 DEF AnswersAreCommitted
  <2>3. ASSUME NEW s \in Requests, cache'[s] # <<>>, s \notin edited'
        PROVE  Committed(s, cache[s][1])'
    <3>1. \A frame : Committed(s, frame) => Committed(s, frame)'
      BY <2>1, StaysCommitted
    <3> QED
      BY <2>2, <2>3, <3>1
  <2>4. fetched # <<>> => Committed(fetched[1], fetched[2])'
    BY <2>1, StaysCommitted DEF AnswersAreCommitted
  <2> QED
    BY <2>1, <2>3, <2>4 DEF AnswersAreCommitted
<1>5. CASE ClearCache
  BY <1>5 DEF ClearCache, AnswersAreCommitted
<1> QED
  BY <1>1, <1>2, <1>3, <1>4, <1>5
     DEF Next, Write, NoRecords, Merge, Commit, Describe, Upsert, Die, vars

LEMMA DataStays ==
  ASSUME TypeOK, LoadedIsThere, [Next]_vars, NEW s \in Symbols, HasData(s)
  PROVE  HasData(s)'
<1>1. job' = job
  BY LogGrows
<1>2. \A w \in Writers : Batch(w)' = Batch(w)
  BY <1>1 DEF Batch
<1>3. CASE \E w \in Writers : job[w].symbol = s /\ Batch(w) = {}
  BY <1>1, <1>2, <1>3 DEF HasData
<1>4. ASSUME NEW t \in Times, rows[<<s, t>>] # None
      PROVE  rows'[<<s, t>>] # None
  <2>1. <<s, t>> \in Keys /\ rows[<<s, t>>] \in Row
    BY <1>4 DEF Keys, TypeOK, Table
  <2>2. rows'[<<s, t>>] \in Row
    BY <2>1, RowsStay
  <2> QED
    BY <2>2, StorageAssumption
<1> QED
  BY <1>3, <1>4 DEF HasData

LEMMA DataComesFirstStep ==
  ASSUME TypeOK, LoadedIsThere, DataComesFirst, [Next]_vars
  PROVE  DataComesFirst'
<1>1. /\ job' = job
      /\ \A w \in Writers : Batch(w)' = Batch(w) /\ job[w].symbol \in Symbols
  BY LogGrows, BatchIsKeys DEF Batch
<1>2. \A s \in Symbols : HasData(s) => HasData(s)'
  BY DataStays
<1>3. \A s \in meta : s \in Symbols /\ HasData(s)'
  BY <1>2 DEF DataComesFirst, TypeOK
<1>4. ASSUME NEW w \in Writers, pc'[w] = pc[w]
      PROVE  /\ pc'[w] = "merge" => Batch(w) # {}
             /\ pc'[w] \in {"describe", "upsert"} => HasData(job[w].symbol)'
  BY <1>1, <1>2, <1>4 DEF DataComesFirst
<1>5. CASE pc' = pc /\ meta' = meta
  BY <1>1, <1>3, <1>4, <1>5 DEF DataComesFirst
<1>6. ASSUME NEW w \in Writers,
             \A v \in Writers \ {w} : pc'[v] = pc[v],
             pc'[w] = "merge" => Batch(w) # {},
             pc'[w] \in {"describe", "upsert"} => HasData(job[w].symbol)',
             \A s \in meta' \ meta : HasData(s)'
      PROVE  DataComesFirst'
  <2>1. \A v \in Writers :
          /\ pc'[v] = "merge" => Batch(v)' # {}
          /\ pc'[v] \in {"describe", "upsert"} => HasData(job[v].symbol)'
    BY <1>1, <1>4, <1>6
  <2>2. \A s \in meta' : HasData(s)'
    BY <1>3, <1>6
  <2> QED
    BY <1>1, <2>1, <2>2 DEF DataComesFirst
<1>7. ASSUME NEW w \in Writers, NoRecords(w)
      PROVE  DataComesFirst'
  <2>1. HasData(job[w].symbol)
    BY <1>7 DEF NoRecords, HasData
  <2>2. /\ pc'[w] \in {"describe", "done"} /\ meta' = meta
        /\ \A v \in Writers \ {w} : pc'[v] = pc[v]
    BY <1>7 DEF NoRecords, Step, After, tables, TypeOK
  <2> QED
    BY <1>1, <1>2, <1>6, <2>1, <2>2
<1>8. ASSUME NEW w \in Writers, Merge(w)
      PROVE  DataComesFirst'
  <2>1. /\ pc'[w] = "merge" /\ Batch(w) # {} /\ meta' = meta
        /\ \A v \in Writers \ {w} : pc'[v] = pc[v]
    BY <1>8 DEF Merge, tables, TypeOK
  <2> QED
    BY <1>6, <2>1
<1>9. ASSUME NEW w \in Writers, Commit(w)
      PROVE  DataComesFirst'
  <2>1. /\ meta' = meta /\ \A v \in Writers \ {w} : pc'[v] = pc[v]
        /\ pc'[w] \in {"error", "describe", "done"}
    BY <1>9 DEF Commit, After, TypeOK
  <2>2. ASSUME pc'[w] = "describe"
        PROVE  HasData(job[w].symbol)'
    <3>1. Batch(w) # {}
      BY <1>9 DEF Commit, DataComesFirst
    <3>2. /\ \A k \in Batch(w) : loaded[w][k] # Unread
          /\ rows' = [k \in Keys |-> IF k \in Batch(w) THEN Merged(w, k)
                                                     ELSE rows[k]]
      BY <1>9, <2>2 DEF Commit, TypeOK
    <3>3. PICK k \in Batch(w) : k \in Keys
      BY <3>1, BatchIsKeys
    <3>4. PICK t \in Times : k = <<job[w].symbol, t>>
      BY <3>3 DEF Batch, Keys
    <3>5. rows'[<<job[w].symbol, t>>] # None
      BY <3>2, <3>3, <3>4, MergedIsRow, StorageAssumption
    <3> QED
      BY <1>1, <3>5 DEF HasData
  <2> QED
    BY <1>6, <2>1, <2>2
<1>10. ASSUME NEW w \in Writers, Describe(w)
       PROVE  DataComesFirst'
  <2>1. /\ pc[w] = "describe" /\ pc'[w] = "upsert" /\ meta' = meta
        /\ \A v \in Writers \ {w} : pc'[v] = pc[v]
    BY <1>10 DEF Describe, Step, tables, TypeOK
  <2> QED
    BY <1>1, <1>2, <1>6, <2>1 DEF DataComesFirst
<1>11. ASSUME NEW w \in Writers, Upsert(w)
       PROVE  DataComesFirst'
  <2>1. /\ pc[w] = "upsert" /\ pc'[w] \in {"error", "done"}
        /\ meta' \subseteq meta \cup {job[w].symbol}
        /\ \A v \in Writers \ {w} : pc'[v] = pc[v]
    BY <1>11 DEF Upsert, TypeOK
  <2>2. \A s \in meta' \ meta : HasData(s)'
    BY <1>1, <1>2, <2>1 DEF DataComesFirst
  <2> QED
    BY <1>6, <2>1, <2>2
<1>12. ASSUME NEW w \in Writers, Die(w)
       PROVE  DataComesFirst'
  <2>1. /\ pc'[w] = "dead" /\ meta' = meta
        /\ \A v \in Writers \ {w} : pc'[v] = pc[v]
    BY <1>12 DEF Die, tables, TypeOK
  <2> QED
    BY <1>6, <2>1
<1>13. CASE \/ \E r \in Requests : Get(r) \/ Edit(r)
            \/ Remember \/ ClearCache \/ UNCHANGED vars
  BY <1>5, <1>13 DEF Get, Edit, Remember, ClearCache, vars, tables
<1> QED
  BY <1>7, <1>8, <1>9, <1>10, <1>11, <1>12, <1>13 DEF Next, Write

-----------------------------------------------------------------------------
(* The theorems.                                                           *)

LEMMA InitInv == Init => StorageInv
<1> SUFFICES ASSUME Init
             PROVE  StorageInv
  OBVIOUS
<1>1. TypeOK
  BY InitTypeOK
<1>2. LoadedIsThere /\ TableIsExplained
  <2>1. Len(log) = 0 /\ \A k \in Keys : With(k, 0) = {} /\ rows[k] = None
    BY DEF Init, With
  <2> QED
    BY <2>1, InitLoaded DEF TableIsExplained, Explained
<1>3. AnswersAreCommitted
  BY DEF Init, AnswersAreCommitted
<1>4. DataComesFirst
  BY DEF Init, DataComesFirst
<1> QED
  BY <1>1, <1>2, <1>3, <1>4 DEF StorageInv

LEMMA NextInv == StorageInv /\ [Next]_vars => StorageInv'
BY NextTypeOK, LoadedIsThereStep, TableStep, AnswersStep, DataComesFirstStep
   DEF StorageInv

LEMMA Invariance == Spec => []StorageInv
BY InitInv, NextInv, PTL DEF Spec

(* Whatever the writers interleave, and whoever fails or dies, an answer   *)
(* the client has cached, and no caller has changed, is what a number of   *)
(* whole ingests account for, not fewer than the last clear_cache saw: the *)
(* record of the last one that had the row, or, of ingests that overlapped *)
(* on it, a mixture of columns (ingest_ohlcv, fetch_ohlcv,                 *)
(* DataClient.ohlcv).                                                      *)
THEOREM AnswersCommitted == Spec => []AnswerIsCommitted
<1>1. StorageInv => AnswerIsCommitted
  BY DEF StorageInv, AnswersAreCommitted, Committed, AnswerIsCommitted
<1> QED
  BY <1>1, Invariance, PTL

(* A symbol that has metadata has rows, unless its source had none to give *)
(* (ingest).                                                               *)
THEOREM DescribedSymbolsHaveData == Spec => []MetadataHasData
<1>1. StorageInv => MetadataHasData
  BY DEF StorageInv, DataComesFirst, HasData, MetadataHasData
<1> QED
  BY <1>1, Invariance, PTL
=============================================================================
