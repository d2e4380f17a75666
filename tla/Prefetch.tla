------------------------------ MODULE Prefetch ------------------------------
(***************************************************************************)
(* How an assignment gets its data (Dispatcher._prefetch_data and          *)
(* _prepare_assignment in dispatcher/core.py): look the key up, load the   *)
(* data on a miss, put it in the cache, and fetch the entry again for the  *)
(* answer.  Each access to the cache takes and releases the cache's lock,  *)
(* so handlers on several threads interleave between them.                 *)
(***************************************************************************)
EXTENDS Naturals, Sequences, FiniteSets

CONSTANTS
  Threads, Tasks, Keys, Data, Size, Limit, None,
  KeyOf,       \* [Tasks -> Keys], data_spec.cache_key()
  InlineOf,    \* [Tasks -> Data \cup {None}], what the client sent along
  FromStorage, \* tasks whose data_spec names symbols
  NoData,      \* the encoding of None
  Versions,    \* [Keys -> set of Data], what Storage may hold for a key
  MaxLoads,    \* bound: how often data is loaded
  MaxChanges   \* bound: how often Storage changes, or the cache is emptied

ASSUME PrefetchAssumption ==
  /\ IsFiniteSet(Threads)
  /\ Size \in [Data -> Nat]
  /\ Limit \in Nat
  /\ None \notin Data
  /\ KeyOf \in [Tasks -> Keys]
  /\ InlineOf \in [Tasks -> Data \cup {None}]
  /\ FromStorage \subseteq Tasks
  /\ \A t, u \in Tasks :  \* a key is made of the symbols, among others
       KeyOf[t] = KeyOf[u] => (t \in FromStorage <=> u \in FromStorage)
  /\ NoData \in Data
  /\ Versions \in [Keys -> (SUBSET Data) \ {{}}]
  /\ MaxLoads \in Nat /\ MaxChanges \in Nat

VARIABLES
  cache, lru, total,
  storage,    \* what Storage holds for a key
  thread,     \* the assignment each thread is working on
  delivered,  \* per task, the data of its latest assignment, or None
  loads,      \* [Keys -> Nat], how often the data of a key was loaded
  changes,    \* how often Storage changed or an entry was dropped
  overwrote,  \* a put has replaced an entry (history variable)
  evicted     \* entries have left the cache (history variable)

Cache == INSTANCE DataCache
cacheVars == <<cache, lru, total>>
vars == <<cacheVars, storage, thread, delivered, loads, changes, overwrote,
          evicted>>

Idle == [op |-> "idle"]

TypeOK ==
  /\ Cache!TypeOK
  /\ storage \in [Keys -> Data]
  /\ thread \in [Threads ->
       {Idle} \cup [op : {"lookup", "load", "fetch"}, task : Tasks]
              \cup [op : {"put"}, task : Tasks, data : Data]]
  /\ delivered \in [Tasks -> Data \cup {None}]
  /\ loads \in [Keys -> Nat]
  /\ changes \in Nat
  /\ overwrote \in BOOLEAN
  /\ evicted \in BOOLEAN

Init ==
  /\ Cache!Init
  /\ storage \in [Keys -> Data]
  /\ \A key \in Keys : storage[key] \in Versions[key]
  /\ thread = [th \in Threads |-> Idle]
  /\ delivered = [t \in Tasks |-> None]
  /\ loads = [key \in Keys |-> 0]
  /\ changes = 0
  /\ overwrote = FALSE
  /\ evicted = FALSE

At(th, op) == thread[th].op = op
Goto(th, call) == thread' = [thread EXCEPT ![th] = call]

-----------------------------------------------------------------------------
(* An assignment of t (one of its slices) begins.                          *)
Begin(th, t) ==
  /\ thread[th] = Idle
  /\ Goto(th, [op |-> "lookup", task |-> t])
  /\ UNCHANGED <<cacheVars, storage, delivered, loads, changes, overwrote,
                 evicted>>

Lookup_NeverHits(th) ==  \* mutant
  /\ At(th, "lookup")
  /\ Goto(th, [op |-> "load", task |-> thread[th].task])
  /\ UNCHANGED <<cacheVars, storage, delivered, loads, changes, overwrote,
                 evicted>>

(* _prefetch_data: on a hit the task's own inline data is not looked at.   *)
Lookup(th) ==
  /\ At(th, "lookup")
  /\ LET t == thread[th].task
     IN  \/ Cache!Hit(KeyOf[t]) /\ Goto(th, [op |-> "fetch", task |-> t])
         \/ Cache!Miss(KeyOf[t]) /\ Goto(th, [op |-> "load", task |-> t])
  /\ UNCHANGED <<storage, delivered, loads, changes, overwrote, evicted>>

(* Inline data first, then Storage, then the encoding of None.             *)
DataFor(t) ==
  IF InlineOf[t] # None THEN InlineOf[t]
  ELSE IF t \in FromStorage THEN storage[KeyOf[t]]
  ELSE NoData

Load(th) ==
  /\ At(th, "load")
  /\ LET t == thread[th].task
     IN  /\ loads[KeyOf[t]] < MaxLoads
         /\ loads' = [loads EXCEPT ![KeyOf[t]] = @ + 1]
         /\ Goto(th, [op |-> "put", task |-> t, data |-> DataFor(t)])
  /\ UNCHANGED <<cacheVars, storage, delivered, changes, overwrote, evicted>>

(* The storage fetch raises: the exception leaves assign_task.             *)
LoadFails(th) ==
  /\ At(th, "load")
  /\ InlineOf[thread[th].task] = None
  /\ thread[th].task \in FromStorage
  /\ Goto(th, Idle)
  /\ UNCHANGED <<cacheVars, storage, delivered, loads, changes, overwrote,
                 evicted>>

Store(th) ==
  /\ At(th, "put")
  /\ LET t == thread[th].task
         key == KeyOf[t]
     IN  /\ Cache!Put(key, thread[th].data)
         /\ Goto(th, [op |-> "fetch", task |-> t])
         /\ overwrote' = (overwrote \/ cache[key] # None)
         /\ evicted' = (evicted \/ Cache!Evicted(thread[th].data) > 0)
  /\ UNCHANGED <<storage, delivered, loads, changes>>

Fetch_Any(th) ==  \* mutant: the newest entry
  /\ At(th, "fetch")
  /\ delivered' = [delivered EXCEPT ![thread[th].task] =
                     IF lru = <<>> THEN None ELSE cache[lru[Len(lru)]]]
  /\ Goto(th, Idle)
  /\ UNCHANGED <<cacheVars, storage, loads, changes, overwrote, evicted>>

(* fetch_bytes; it raises when the entry has been evicted in between.      *)
Fetch(th) ==
  /\ At(th, "fetch")
  /\ LET t == thread[th].task
     IN  delivered' = [delivered EXCEPT ![t] = cache[KeyOf[t]]]
  /\ Goto(th, Idle)
  /\ UNCHANGED <<cacheVars, storage, loads, changes, overwrote, evicted>>

-----------------------------------------------------------------------------
(* The environment.                                                        *)

Changes == changes < MaxChanges /\ changes' = changes + 1

(* New bars are ingested; nothing tells the dispatcher.                    *)
Ingest(key) ==
  /\ Changes
  /\ \E data \in Versions[key] \ {storage[key]} :
       storage' = [storage EXCEPT ![key] = data]
  /\ UNCHANGED <<cacheVars, thread, delivered, loads, overwrote, evicted>>

Invalidate(key) ==
  /\ Changes
  /\ Cache!Invalidate(key)
  /\ evicted' = TRUE
  /\ UNCHANGED <<storage, thread, delivered, loads, overwrote>>

Clear ==
  /\ Changes
  /\ Cache!Clear
  /\ evicted' = TRUE
  /\ UNCHANGED <<storage, thread, delivered, loads, overwrote>>

Next ==
  \/ \E th \in Threads, t \in Tasks : Begin(th, t)
  \/ \E th \in Threads :
       Lookup(th) \/ Load(th) \/ LoadFails(th) \/ Store(th) \/ Fetch(th)
  \/ \E key \in Keys : Ingest(key) \/ Invalidate(key)
  \/ Clear

Spec == Init /\ [][Next]_vars

-----------------------------------------------------------------------------
(* What the cache promises.                                                *)

(* _total_size, which decides about evictions, is the size of what is      *)
(* held.  It is too large, for good, after two handlers have missed the    *)
(* same key at the same time; it is never too small.                       *)
TotalIsHeld ==
  /\ total >= Cache!Held
  /\ ~overwrote => total = Cache!Held

(* The data plane loads data once and reuses it: as long as nothing leaves *)
(* the cache a key is loaded at most once per thread.                      *)
LoadedOncePerHandler ==
  ~evicted => \A key \in Keys : loads[key] <= Cardinality(Threads)

(* No task that brings its own data names the same symbols and period.     *)
OnlyFromStorage(key) ==
  \A t \in Tasks : KeyOf[t] = key => t \in FromStorage /\ InlineOf[t] = None

(* A task that names symbols, and brings no data of its own, is handed a   *)
(* version of the data of its own key, or fails, also when entries are     *)
(* evicted or replaced between its lookup and its fetch.                   *)
StorageDataIsOwn ==
  \A t \in Tasks : OnlyFromStorage(KeyOf[t]) /\ delivered[t] # None
    => delivered[t] \in Versions[KeyOf[t]]

(* core.py, _prepare_assignment: the inline data can be removed from the   *)
(* spec because it is transmitted in the data field.                       *)
InlineDataIsDelivered ==
  \A t \in Tasks :
    InlineOf[t] # None /\ delivered[t] # None => delivered[t] = InlineOf[t]
=============================================================================
