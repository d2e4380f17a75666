------------------------------- MODULE Storage -------------------------------
(***************************************************************************)
(* The storage backend (storage/backend.py, orm.py) under concurrent       *)
(* writers - POST /ohlcv, which writes rows, and POST /ingest, which then  *)
(* writes the symbol's metadata in a transaction of its own - and a client *)
(* that caches the answers of GET /ohlcv (data_access/ohlcv.py).  A        *)
(* transaction reads, and commits all it wrote or fails as a whole; the    *)
(* database lets others commit in between (READ COMMITTED).  What a        *)
(* transaction has flushed before its commit nobody sees, and the locks it *)
(* holds only make others wait: the writes are modelled at the commit.     *)
(***************************************************************************)
EXTENDS Naturals, Sequences

CONSTANTS
  Writers,
  Jobs,      \* what a writer may do: [route, symbol, bars]; bars, the records
             \* it is given, is a function from some of Times to Row
  Requests,  \* the symbol sets the client asks for
  Symbols, Times,
  Columns, Values,  \* of a row, its primary key apart
  Edits,     \* the rows a caller may put into a frame it was given
  None,      \* no row
  Unread,    \* a row that was not looked up
  MaxClears  \* bound: calls of clear_cache

Keys == Symbols \X Times  \* the primary key, for one timeframe
Row == [Columns -> Values]
Table == [Keys -> Row \cup {None}]

ASSUME StorageAssumption ==
  /\ \A j \in Jobs :
       /\ j.route \in {"ohlcv", "ingest"} /\ j.symbol \in Symbols
       /\ DOMAIN j.bars \subseteq Times
       /\ \A t \in DOMAIN j.bars : j.bars[t] \in Row
  /\ Edits \subseteq Row
  /\ None \notin Row /\ Unread \notin Row /\ None # Unread
  /\ MaxClears \in Nat

VARIABLES
  job,        \* [Writers -> Jobs]
  rows,       \* the table ohlcv
  meta,       \* symbols with metadata
  pc,         \* [Writers -> the writer's next step]
  loaded,     \* [Writers -> the rows its session has looked up]
  described,  \* writers whose transaction has found the symbol's metadata
  log,        \* the committed ingests, in order, each with the rows that had
              \* changed since it looked them up (history variable)
  cache,      \* [Requests -> the cached answer, or <<>>]
  fetched,    \* the client's request under way and its answer, or <<>>
  edited,     \* requests whose cached answer a caller has changed
  clears,     \* calls of clear_cache
  cleared     \* length of the log at the last of them (history variable)

tables == <<rows, meta, log>>
sessions == <<loaded, described>>
clientVars == <<cache, fetched, edited, clears, cleared>>
vars == <<job, tables, pc, sessions, clientVars>>

Steps == {"start", "merge", "describe", "upsert", "done", "error", "dead"}

TypeOK ==
  /\ job \in [Writers -> Jobs]
  /\ rows \in Table
  /\ meta \subseteq Symbols
  /\ pc \in [Writers -> Steps]
  /\ loaded \in [Writers -> [Keys -> Row \cup {None, Unread}]]
  /\ described \subseteq Writers
  /\ log \in Seq([writer : Writers, stale : SUBSET Keys])
  /\ cache \in [Requests -> {<<>>} \cup {<<f>> : f \in Table}]
  /\ fetched \in {<<>>} \cup (Requests \X Table)
  /\ edited \subseteq Requests
  /\ clears \in Nat /\ cleared \in 0 .. Len(log)

Batch(w) == {job[w].symbol} \X DOMAIN job[w].bars
Bar(w, k) == job[w].bars[k[2]]

Init ==
  /\ job \in [Writers -> Jobs]
  /\ rows = [k \in Keys |-> None] /\ meta = {} /\ log = <<>>
  /\ pc = [w \in Writers |-> "start"]
  /\ loaded = [w \in Writers |-> [k \in Keys |-> Unread]] /\ described = {}
  /\ cache = [r \in Requests |-> <<>>] /\ fetched = <<>> /\ edited = {}
  /\ clears = 0 /\ cleared = 0

Step(w, from, to) == pc[w] = from /\ pc' = [pc EXCEPT ![w] = to]

-----------------------------------------------------------------------------
(* ingest_ohlcv and upsert_metadata.                                       *)

After(w) == IF job[w].route = "ingest" THEN "describe" ELSE "done"

(* Without records there is no transaction.                                *)
NoRecords(w) ==
  /\ Batch(w) = {}
  /\ Step(w, "start", After(w))
  /\ UNCHANGED <<job, tables, sessions, clientVars>>

Merge_Later(w) ==  \* mutant: the metadata is written first
  /\ Batch(w) # {}
  /\ Step(w, "start", "describe")
  /\ UNCHANGED <<job, tables, sessions, clientVars>>

(* merge looks up the row of one record after another.                     *)
Merge(w) ==
  /\ pc[w] \in {"start", "merge"}
  /\ \E k \in Batch(w) :
       /\ loaded[w][k] = Unread
       /\ loaded' = [loaded EXCEPT ![w][k] = rows[k]]
  /\ pc' = [pc EXCEPT ![w] = "merge"]
  /\ UNCHANGED <<job, tables, described, clientVars>>

(* A row that was not there is inserted.  Of one that was, the columns are *)
(* updated that the record has otherwise than the row that was looked up;  *)
(* the others stay what they are by now.                                   *)
Merged(w, k) ==
  IF loaded[w][k] = None THEN Bar(w, k)
  ELSE [c \in Columns |-> IF Bar(w, k)[c] # loaded[w][k][c]
                          THEN Bar(w, k)[c] ELSE rows[k][c]]

(* Rows that another writer has inserted since they were looked up.        *)
Conflicts(w) == {k \in Batch(w) : loaded[w][k] = None /\ rows[k] # None}

Commit_Part(w) ==  \* mutant: no rollback, the other rows are kept
  /\ pc[w] = "merge" /\ \A k \in Batch(w) : loaded[w][k] # Unread
  /\ rows' = [k \in Keys |-> IF k \in Batch(w) \ Conflicts(w)
                             THEN Merged(w, k) ELSE rows[k]]
  /\ IF Conflicts(w) # {}
     THEN pc' = [pc EXCEPT ![w] = "error"] /\ UNCHANGED log
     ELSE /\ pc' = [pc EXCEPT ![w] = After(w)]
          /\ log' = Append(log, [writer |-> w, stale |-> {}])
  /\ UNCHANGED <<job, meta, sessions, clientVars>>

(* All of it fails when one insert does.                                   *)
Commit(w) ==
  /\ pc[w] = "merge" /\ \A k \in Batch(w) : loaded[w][k] # Unread
  /\ IF Conflicts(w) # {}
     THEN pc' = [pc EXCEPT ![w] = "error"] /\ UNCHANGED <<rows, log>>
     ELSE /\ pc' = [pc EXCEPT ![w] = After(w)]
          /\ rows' = [k \in Keys |-> IF k \in Batch(w) THEN Merged(w, k)
                                                     ELSE rows[k]]
          /\ log' = Append(log, [writer |-> w,
                                 stale |-> {k \in Batch(w) :
                                              loaded[w][k] # rows[k]}])
  /\ UNCHANGED <<job, meta, sessions, clientVars>>

Describe(w) ==
  /\ Step(w, "describe", "upsert")
  /\ described' = IF job[w].symbol \in meta THEN described \cup {w}
                                            ELSE described
  /\ UNCHANGED <<job, tables, loaded, clientVars>>

Upsert(w) ==
  /\ pc[w] = "upsert"
  /\ IF w \notin described /\ job[w].symbol \in meta
     THEN pc' = [pc EXCEPT ![w] = "error"] /\ UNCHANGED meta
     ELSE pc' = [pc EXCEPT ![w] = "done"] /\ meta' = meta \cup {job[w].symbol}
  /\ UNCHANGED <<job, rows, log, sessions, clientVars>>

(* The process dies, or its database connection, or the database ends the  *)
(* transaction (a lock not granted in time).                               *)
Die(w) ==
  /\ pc[w] \in {"merge", "describe", "upsert"}
  /\ pc' = [pc EXCEPT ![w] = "dead"]
  /\ UNCHANGED <<job, tables, sessions, clientVars>>

-----------------------------------------------------------------------------
(* DataClient.                                                             *)

(* fetch_ohlcv is one query.                                               *)
Frame(r, table) == [k \in Keys |-> IF k[1] \in r THEN table[k] ELSE None]

(* A cached answer is handed out without a request; an empty one is a 404  *)
(* and raises.                                                             *)
Get(r) ==
  /\ fetched = <<>> /\ cache[r] = <<>>
  /\ \E k \in Keys : Frame(r, rows)[k] # None
  /\ fetched' = <<r, Frame(r, rows)>>
  /\ UNCHANGED <<job, tables, pc, sessions, cache, edited, clears, cleared>>

Remember ==
  /\ fetched # <<>>
  /\ cache' = [cache EXCEPT ![fetched[1]] = <<fetched[2]>>]
  /\ fetched' = <<>>
  /\ UNCHANGED <<job, tables, pc, sessions, edited, clears, cleared>>

(* What is handed out is the cached frame itself: a caller that changes a  *)
(* row of it in place changes what later callers get.  Bound: one change.  *)
Edit(r) ==
  /\ cache[r] # <<>> /\ r \notin edited
  /\ \E k \in Keys, row \in Edits :
       /\ cache[r][1][k] # None
       /\ cache' = [cache EXCEPT ![r] = <<[cache[r][1] EXCEPT ![k] = row]>>]
  /\ edited' = edited \cup {r}
  /\ UNCHANGED <<job, tables, pc, sessions, fetched, clears, cleared>>

ClearCache ==
  /\ fetched = <<>> /\ clears < MaxClears
  /\ cache' = [r \in Requests |-> <<>>] /\ edited' = {}
  /\ clears' = clears + 1 /\ cleared' = Len(log)
  /\ UNCHANGED <<job, tables, pc, sessions, fetched>>

Write(w) ==
  NoRecords(w) \/ Merge(w) \/ Commit(w) \/ Describe(w) \/ Upsert(w) \/ Die(w)

Next ==
  \/ \E w \in Writers : Write(w)
  \/ \E r \in Requests : Get(r) \/ Edit(r)
  \/ Remember \/ ClearCache

Spec == Init /\ [][Next]_vars

-----------------------------------------------------------------------------
(* Properties.                                                             *)

(* Those of the first n ingests that had the row, and the last of them.    *)
With(k, n) == {i \in 1 .. n : k \in Batch(log[i].writer)}
Latest(k, n) == CHOOSE i \in With(k, n) : \A j \in With(k, n) : j <= i

(* What the first n ingests account for as the row with key k: nothing if  *)
(* none had it; the record of the last one; or, when that one had looked   *)
(* the row up before another changed it, a row each column of which is     *)
(* from one of them.                                                       *)
Explained(k, n, row) ==
  IF With(k, n) = {} THEN row = None
  ELSE LET last == log[Latest(k, n)]
       IN /\ row # None
          /\ k \notin last.stale => row = Bar(last.writer, k)
          /\ \A c \in Columns : \E i \in With(k, n) :
               row[c] = Bar(log[i].writer, k)[c]

(* Whatever the writers interleave, and whoever fails or dies, an answer   *)
(* the client has cached, and no caller has changed, is a table made by a  *)
(* number of committed ingests, with none of them in part, with nothing of *)
(* those that failed, and not by fewer than the last clear_cache saw.  An  *)
(* ingest that ran alone is there to the letter; of two that overlap on a  *)
(* row a mixture may be there, of their columns (ingest_ohlcv,             *)
(* fetch_ohlcv, DataClient.ohlcv).                                         *)
AnswerIsCommitted ==
  \A r \in Requests : cache[r] # <<>> /\ r \notin edited =>
    \E n \in cleared .. Len(log) : \A k \in Keys :
      k[1] \in r => Explained(k, n, cache[r][1][k])

(* A symbol that has metadata, and with which list_symbols stops looking   *)
(* at the rows, has rows, unless its source had none to give: an ingest    *)
(* that fails has written no metadata (ingest).                            *)
MetadataHasData ==
  \A s \in meta :
    \/ \E t \in Times : rows[<<s, t>>] # None
    \/ \E w \in Writers : job[w].symbol = s /\ Batch(w) = {}
=============================================================================
