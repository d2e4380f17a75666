----------------------------- MODULE DataCache -----------------------------
(***************************************************************************)
(* The dispatcher's data cache (dispatcher/prefetch.py).  Each operator is *)
(* one method, executed under the cache's own lock.                        *)
(*                                                                         *)
(* last_access is abstracted to the order of accesses: lru lists the keys  *)
(* of the cache, the least recently used one first.  The hit and miss      *)
(* counters are left out.                                                  *)
(***************************************************************************)
EXTENDS Integers, Sequences, SequencesExt

CONSTANTS
  Keys,    \* cache keys
  Data,    \* encoded data
  Size,    \* [Data -> Nat], len(data)
  Limit,   \* max_size_bytes
  None

VARIABLES
  cache,   \* _cache: [Keys -> Data \cup {None}]
  lru,     \* its keys, in the order of last_access
  total    \* _total_size

cacheVars == <<cache, lru, total>>

TypeOK ==
  /\ cache \in [Keys -> Data \cup {None}]
  /\ lru \in Seq(Keys)
  /\ IsInjective(lru)
  /\ ToSet(lru) = {key \in Keys : cache[key] # None}
  /\ total \in Int

Init ==
  /\ cache = [key \in Keys |-> None]
  /\ lru = <<>>
  /\ total = 0

(* Some of the keys, in their order, without one that is there at most     *)
(* once.                                                                   *)
Without(keys, key) ==
  IF \E i \in DOMAIN keys : keys[i] = key
  THEN RemoveAt(keys, CHOOSE i \in DOMAIN keys : keys[i] = key)
  ELSE keys

Touch(key) == Append(Without(lru, key), key)

(* The bytes the entries of a sequence of keys take.                       *)
SizeOf(keys) ==
  LET sum[n \in 0 .. Len(keys)] ==
        IF n = 0 THEN 0 ELSE sum[n - 1] + Size[cache[keys[n]]]
  IN  sum[Len(keys)]
Held == SizeOf(lru)

-----------------------------------------------------------------------------
(* get_ref, when it finds an entry and when it does not.                   *)
Hit(key) ==
  /\ cache[key] # None
  /\ lru' = Touch(key)
  /\ UNCHANGED <<cache, total>>

Miss(key) ==
  /\ cache[key] = None
  /\ UNCHANGED cacheVars

(* put: how many of the oldest entries go before data fits, or none is     *)
(* left.                                                                   *)
Fits(data, n) ==
  \/ total - SizeOf(SubSeq(lru, 1, n)) + Size[data] <= Limit
  \/ n = Len(lru)

Evicted(data) ==
  CHOOSE n \in 0 .. Len(lru) :
    Fits(data, n) /\ \A m \in 0 .. n - 1 : ~Fits(data, m)

Put(key, data) ==
  LET n    == Evicted(data)
      gone == SubSeq(lru, 1, n)
      kept == Without(SubSeq(lru, n + 1, Len(lru)), key)
  IN  /\ cache' = [k \in Keys |-> IF k = key THEN data
                                  ELSE IF k \in ToSet(gone) THEN None
                                  ELSE cache[k]]
      /\ lru' = Append(kept, key)
      /\ total' = total - SizeOf(gone) + Size[data]

Invalidate_KeepsSize(key) ==  \* mutant
  /\ cache' = [cache EXCEPT ![key] = None]
  /\ lru' = Without(lru, key)
  /\ UNCHANGED total

Invalidate(key) ==
  /\ cache' = [cache EXCEPT ![key] = None]
  /\ lru' = Without(lru, key)
  /\ total' = IF cache[key] = None THEN total ELSE total - Size[cache[key]]

Clear == cache' = [key \in Keys |-> None] /\ lru' = <<>> /\ total' = 0
=============================================================================
