---------------------------- MODULE PrefetchProofs ----------------------------
(***************************************************************************)
(* Proofs about DataCache and Prefetch for all keys, sizes, limits, tasks  *)
(* and numbers of threads.                                                 *)
(*                                                                         *)
(* The size counter is compared with a sum over the entries, a recursive   *)
(* function.  The provers know nothing of those: the first sections prove  *)
(* what the sum is (SumIs), by minimal counterexample, and how it changes  *)
(* when a sequence of keys is cut or appended to, or loses an element.     *)
(* With that each operation of the cache is described once (HitStep,       *)
(* PutStep, InvalidateStep), and three invariants are shown to be          *)
(* inductive over the steps of the handlers: SizeInv, LoadInv and          *)
(* VersionInv.                                                             *)
(***************************************************************************)
EXTENDS Prefetch, FiniteSetTheorems, SequenceTheorems, WellFoundedInduction,
        TLAPS

-----------------------------------------------------------------------------
(* Sums.                                                                   *)

(* SizeOf, of given entries.                                               *)
SizeIn(entry, keys) ==
  LET sum[n \in 0 .. Len(keys)] ==
        IF n = 0 THEN 0 ELSE sum[n - 1] + Size[entry[keys[n]]]
  IN  sum[Len(keys)]

(* Among numbers there is a least one.                                     *)
LEMMA LeastExists ==
  ASSUME NEW S, S \subseteq Nat, S # {}
  PROVE  \E n \in S : \A m \in S : n <= m
<1>1. PICK n \in S : \A m \in S : ~ (<<m, n>> \in OpToRel(<, Nat))
  BY NatLessThanWellFounded, WFMin
<1>2. ASSUME NEW m \in S PROVE n <= m
  <2>1. m \in Nat /\ n \in Nat
    OBVIOUS
  <2>2. ~ (m < n)
    BY <1>1, <2>1 DEF OpToRel
  <2> QED BY <2>1, <2>2
<1> QED BY <1>2

(* The sequences of keys whose sizes can be added.                         *)
Entries(entry, keys) ==
  keys \in Seq(Keys) /\ \A i \in DOMAIN keys : entry[keys[i]] \in Data

Sums(entry, keys, n, g) ==
  \A k \in 0 .. n :
    g[k] = IF k = 0 THEN 0 ELSE g[k - 1] + Size[entry[keys[k]]]

LEMMA SumsExist ==
  ASSUME NEW entry, NEW keys, Entries(entry, keys)
  PROVE  \E g \in [0 .. Len(keys) -> Nat] : Sums(entry, keys, Len(keys), g)
<1> DEFINE Has(n) == \E g \in [0 .. n -> Nat] : Sums(entry, keys, n, g)
           S == {n \in 0 .. Len(keys) : ~Has(n)}
<1> SUFFICES ASSUME S # {} PROVE FALSE
  BY DEF Entries
<1>1. PICK n \in S : \A m \in S : n <= m
  <2>1. S \subseteq Nat
    BY DEF Entries
  <2> HIDE DEF S
  <2> QED BY <2>1, LeastExists
<1>2. CASE n = 0
  <2>1. [k \in 0 .. 0 |-> 0] \in [0 .. 0 -> Nat]
    OBVIOUS
  <2>2. Sums(entry, keys, 0, [k \in 0 .. 0 |-> 0])
    BY DEF Sums
  <2> QED BY <1>1, <1>2, <2>1, <2>2
<1>3. CASE n # 0
  <2>1. n \in Nat /\ n - 1 \in 0 .. Len(keys) /\ n \in DOMAIN keys
    BY <1>3 DEF Entries
  <2>2. n - 1 \notin S
    BY <1>1, <2>1
  <2>3. PICK g \in [0 .. n - 1 -> Nat] : Sums(entry, keys, n - 1, g)
    BY <2>1, <2>2
  <2> DEFINE last == g[n - 1] + Size[entry[keys[n]]]
             h == [k \in 0 .. n |-> IF k = n THEN last ELSE g[k]]
  <2>4. last \in Nat
    BY <2>1, <2>3, PrefetchAssumption DEF Entries
  <2>5. h \in [0 .. n -> Nat]
    BY <2>1, <2>3, <2>4
  <2>6. ASSUME NEW k \in 0 .. n
        PROVE  h[k] = IF k = 0 THEN 0 ELSE h[k - 1] + Size[entry[keys[k]]]
    <3>1. CASE k = n
      BY <2>1, <2>6, <3>1
    <3>2. CASE k # n
      <4>1. k \in 0 .. n - 1 /\ (k # 0 => k - 1 \in 0 .. n /\ k - 1 # n)
        BY <2>1, <3>2
      <4>2. g[k] = IF k = 0 THEN 0 ELSE g[k - 1] + Size[entry[keys[k]]]
        BY <2>3, <4>1 DEF Sums
      <4> QED BY <2>1, <3>2, <4>1, <4>2
    <3> QED BY <3>1, <3>2
  <2>7. Sums(entry, keys, n, h)
    <3> HIDE DEF h
    <3> QED BY <2>6 DEF Sums
  <2> HIDE DEF h
  <2> QED BY <1>1, <2>5, <2>7
<1> QED BY <1>2, <1>3

LEMMA SumsAgree ==
  ASSUME NEW entry, NEW keys, NEW n \in Nat, NEW g, NEW h,
         Sums(entry, keys, n, g), Sums(entry, keys, n, h)
  PROVE  \A k \in 0 .. n : g[k] = h[k]
<1> DEFINE S == {k \in 0 .. n : g[k] # h[k]}
<1> SUFFICES ASSUME S # {} PROVE FALSE
  OBVIOUS
<1>1. PICK k \in S : \A m \in S : k <= m
  <2>1. S \subseteq Nat
    OBVIOUS
  <2> HIDE DEF S
  <2> QED BY <2>1, LeastExists
<1>2. k # 0
  BY <1>1 DEF Sums
<1>3. k - 1 \in 0 .. n /\ k - 1 \notin S
  BY <1>1, <1>2
<1> QED BY <1>1, <1>2, <1>3 DEF Sums

(* Whatever adds up like the sum is the sum.                               *)
LEMMA SumIs ==
  ASSUME NEW entry, NEW keys, Entries(entry, keys), NEW g,
         Sums(entry, keys, Len(keys), g)
  PROVE  SizeIn(entry, keys) = g[Len(keys)]
<1> DEFINE N == 0 .. Len(keys)
           Rec(f) == f = [n \in N |-> IF n = 0 THEN 0
                                      ELSE f[n - 1] + Size[entry[keys[n]]]]
<1>1. PICK f \in [N -> Nat] : Sums(entry, keys, Len(keys), f)
  BY SumsExist
<1>2. Rec(f)
  BY <1>1 DEF Sums
<1>3. SizeIn(entry, keys) = (CHOOSE sum : Rec(sum))[Len(keys)]
  BY DEF SizeIn
<1> HIDE DEF Rec
<1>4. PICK s : s = CHOOSE sum : Rec(sum)
  OBVIOUS
<1>5. Rec(s)
  BY <1>2, <1>4
<1>6. Sums(entry, keys, Len(keys), s)
  BY <1>5 DEF Rec, Sums
<1>7. Len(keys) \in Nat
  BY DEF Entries
<1> QED BY <1>3, <1>4, <1>6, <1>7, SumsAgree

LEMMA SumOf ==
  ASSUME NEW entry, NEW keys, Entries(entry, keys)
  PROVE  \E g \in [0 .. Len(keys) -> Nat] :
           /\ Sums(entry, keys, Len(keys), g)
           /\ SizeIn(entry, keys) = g[Len(keys)]
BY SumsExist, SumIs

LEMMA SizeInNat ==
  ASSUME NEW entry, NEW keys, Entries(entry, keys)
  PROVE  SizeIn(entry, keys) \in Nat
BY SumOf DEF Entries

-----------------------------------------------------------------------------
(* Sums of sequences that change.                                          *)

Agree(entry, other, keys) ==
  \A i \in DOMAIN keys : other[keys[i]] = entry[keys[i]]

LEMMA SizeOfSame ==
  ASSUME NEW entry, NEW other, NEW keys, Entries(entry, keys),
         Agree(entry, other, keys)
  PROVE  Entries(other, keys) /\ SizeIn(other, keys) = SizeIn(entry, keys)
<1>1. Entries(other, keys) /\ DOMAIN keys = 1 .. Len(keys)
  BY DEF Entries, Agree
<1>2. PICK g : /\ Sums(entry, keys, Len(keys), g)
               /\ SizeIn(entry, keys) = g[Len(keys)]
  BY SumOf
<1>3. Sums(other, keys, Len(keys), g)
  BY <1>1, <1>2 DEF Sums, Agree
<1> QED BY <1>1, <1>2, <1>3, SumIs

LEMMA SizeOfAppend ==
  ASSUME NEW entry, NEW keys, Entries(entry, keys),
         NEW key \in Keys, entry[key] \in Data
  PROVE  /\ Entries(entry, Append(keys, key))
         /\ SizeIn(entry, Append(keys, key))
              = SizeIn(entry, keys) + Size[entry[key]]
<1> DEFINE n == Len(keys)
           more == Append(keys, key)
<1>1. /\ n \in Nat /\ DOMAIN keys = 1 .. n
      /\ more \in Seq(Keys) /\ Len(more) = n + 1 /\ DOMAIN more = 1 .. n + 1
      /\ more[n + 1] = key /\ \A i \in 1 .. n : more[i] = keys[i]
  BY DEF Entries
<1>2. Entries(entry, more)
  BY <1>1 DEF Entries
<1>3. PICK g : Sums(entry, keys, n, g) /\ SizeIn(entry, keys) = g[n]
  BY SumOf
<1>4. PICK h : Sums(entry, more, n + 1, h) /\ SizeIn(entry, more) = h[n + 1]
  BY <1>1, <1>2, SumOf
<1>5. Sums(entry, keys, n, h)
  BY <1>1, <1>4 DEF Sums
<1>6. g[n] = h[n]
  BY <1>1, <1>3, <1>5, SumsAgree
<1>7. h[n + 1] = h[n] + Size[entry[key]]
  BY <1>1, <1>4 DEF Sums
<1> QED BY <1>2, <1>3, <1>4, <1>6, <1>7

(* A stretch of a sequence.                                                *)
LEMMA PartIs ==
  ASSUME NEW S, NEW s \in Seq(S), NEW m \in Nat, NEW l \in Nat,
         NEW first, NEW last, first = m + 1, last = m + l, last <= Len(s),
         NEW part, part = SubSeq(s, first, last)
  PROVE  /\ part \in Seq(S)
         /\ Len(part) = l
         /\ \A i \in 1 .. l : part[i] = s[m + i]
<1>1. /\ Len(s) \in Nat /\ first \in Int /\ last \in Int
      /\ DOMAIN s = 1 .. Len(s)
  OBVIOUS
<1>2. \A i \in first .. last : s[i] \in S
  BY <1>1
<1>3. /\ SubSeq(s, first, last) \in Seq(S)
      /\ Len(SubSeq(s, first, last))
           = IF first <= last THEN last - first + 1 ELSE 0
      /\ \A i \in 1 .. last - first + 1 :
           SubSeq(s, first, last)[i] = s[first + i - 1]
  BY <1>1, <1>2, SubSeqProperties
<1>4. /\ part \in Seq(S)
      /\ Len(part) = IF first <= last THEN last - first + 1 ELSE 0
      /\ \A i \in 1 .. last - first + 1 : part[i] = s[first + i - 1]
  BY <1>3, Zenon
<1>5. Len(part) = l
  BY <1>1, <1>4
<1>6. ASSUME NEW i \in 1 .. l PROVE part[i] = s[m + i]
  <2>1. i \in 1 .. last - first + 1 /\ first + i - 1 = m + i
    OBVIOUS
  <2> QED BY <1>4, <2>1, Zenon
<1> QED BY <1>4, <1>5, <1>6

(* A sequence that is cut in two.                                          *)
Cut(s, n, head, tail) ==
  head = SubSeq(s, 1, n) /\ tail = SubSeq(s, n + 1, Len(s))

LEMMA PartCells ==
  ASSUME NEW S, NEW s \in Seq(S), NEW n \in 0 .. Len(s),
         NEW head, NEW tail, Cut(s, n, head, tail)
  PROVE  /\ head \in Seq(S) /\ Len(head) = n
         /\ \A i \in 1 .. n : head[i] = s[i]
         /\ tail \in Seq(S) /\ Len(tail) = Len(s) - n
         /\ \A i \in 1 .. Len(s) - n : tail[i] = s[n + i]
<1>1. /\ 0 \in Nat /\ n \in Nat /\ Len(s) - n \in Nat
      /\ 1 = 0 + 1 /\ n = 0 + n /\ n <= Len(s)
      /\ Len(s) = n + (Len(s) - n) /\ Len(s) <= Len(s)
      /\ \A i \in 1 .. n : 0 + i = i
  OBVIOUS
<1>2. /\ head \in Seq(S) /\ Len(head) = n
      /\ \A i \in 1 .. n : head[i] = s[0 + i]
  BY <1>1, PartIs DEF Cut
<1>3. /\ tail \in Seq(S) /\ Len(tail) = Len(s) - n
      /\ \A i \in 1 .. Len(s) - n : tail[i] = s[n + i]
  <2>1. PICK l, first, last :
          l = Len(s) - n /\ first = n + 1 /\ last = Len(s)
    OBVIOUS
  <2>2. n \in Nat /\ l \in Nat /\ first = n + 1 /\ last = n + l /\ last <= Len(s)
    BY <1>1, <2>1
  <2>3. tail = SubSeq(s, first, last)
    BY <2>1 DEF Cut
  <2>4. /\ tail \in Seq(S) /\ Len(tail) = l
        /\ \A i \in 1 .. l : tail[i] = s[n + i]
    BY <2>2, <2>3, PartIs
  <2> QED BY <2>1, <2>4
<1> QED BY <1>1, <1>2, <1>3

(* A sequence of keys is cut in two.                                       *)
LEMMA SizeOfParts ==
  ASSUME NEW entry, NEW keys, Entries(entry, keys), NEW n \in 0 .. Len(keys),
         NEW head, NEW tail, Cut(keys, n, head, tail)
  PROVE  /\ Entries(entry, head) /\ Entries(entry, tail)
         /\ SizeIn(entry, keys) = SizeIn(entry, head) + SizeIn(entry, tail)
<1>1. PICK all : all = Len(keys)
  OBVIOUS
<1>2. /\ head \in Seq(Keys) /\ Len(head) = n
      /\ \A i \in 1 .. n : head[i] = keys[i]
      /\ tail \in Seq(Keys) /\ Len(tail) = Len(keys) - n
      /\ \A i \in 1 .. Len(keys) - n : tail[i] = keys[n + i]
  <2>1. keys \in Seq(Keys)
    BY DEF Entries
  <2> QED BY <2>1, PartCells
<1>3. /\ all \in Nat /\ n \in Nat /\ all - n \in Nat /\ n \in 0 .. all
      /\ DOMAIN keys = 1 .. all /\ DOMAIN head = 1 .. n
      /\ DOMAIN tail = 1 .. all - n
  BY <1>1, <1>2 DEF Entries
<1>4. /\ \A i \in 1 .. n : head[i] = keys[i]
      /\ \A i \in 1 .. all - n : tail[i] = keys[n + i]
  BY <1>1, <1>2, Zenon
<1>5. Entries(entry, head) /\ Entries(entry, tail)
  <2>1. \A i \in 1 .. n : i \in 1 .. all
    BY <1>3
  <2>2. \A i \in 1 .. all - n : n + i \in 1 .. all
    BY <1>3
  <2>3. \A i \in 1 .. all : entry[keys[i]] \in Data
    BY <1>3 DEF Entries
  <2>4. \A i \in DOMAIN head : entry[head[i]] \in Data
    BY <1>3, <1>4, <2>1, <2>3
  <2>5. \A i \in DOMAIN tail : entry[tail[i]] \in Data
    BY <1>3, <1>4, <2>2, <2>3
  <2> QED BY <1>2, <2>4, <2>5 DEF Entries
<1>6. PICK g \in [0 .. all -> Nat] :
        Sums(entry, keys, all, g) /\ SizeIn(entry, keys) = g[all]
  BY <1>1, SumOf
<1>7. PICK h : h = [k \in 0 .. all - n |-> g[n + k] - g[n]]
  OBVIOUS
<1>8. Sums(entry, head, n, g)
  <2> SUFFICES ASSUME NEW k \in 0 .. n
               PROVE  g[k] = IF k = 0 THEN 0
                             ELSE g[k - 1] + Size[entry[head[k]]]
    BY Zenon DEF Sums
  <2>1. k \in 0 .. all /\ (k # 0 => k \in 1 .. n)
    BY <1>3
  <2> QED BY <1>4, <1>6, <2>1 DEF Sums
<1>9. ASSUME NEW k \in 0 .. all - n
      PROVE  h[k] = IF k = 0 THEN 0 ELSE h[k - 1] + Size[entry[tail[k]]]
  <2>1. CASE k = 0
    BY <1>3, <1>6, <1>7, <2>1
  <2>2. CASE k # 0
    <3>1. /\ n + k \in 0 .. all /\ n + k # 0 /\ k \in 1 .. all - n
          /\ (n + k) - 1 = n + (k - 1) /\ k - 1 \in 0 .. all - n
          /\ n + (k - 1) \in 0 .. all
      BY <1>3, <1>9, <2>2
    <3>2. g[n + k] = g[n + (k - 1)] + Size[entry[tail[k]]]
      BY <1>4, <1>6, <3>1 DEF Sums
    <3>3. Size[entry[tail[k]]] \in Nat
      BY <1>3, <1>5, <3>1, PrefetchAssumption DEF Entries
    <3>4. g[n + (k - 1)] \in Nat /\ g[n] \in Nat
      BY <1>3, <1>6, <3>1
    <3> QED BY <1>7, <2>2, <3>1, <3>2, <3>3, <3>4
  <2> QED BY <2>1, <2>2
<1>10. Sums(entry, tail, all - n, h)
  BY <1>9, Zenon DEF Sums
<1>11. SizeIn(entry, head) = g[n] /\ SizeIn(entry, tail) = h[all - n]
  <2>1. Len(head) = n /\ Len(tail) = all - n
    BY <1>1, <1>2
  <2>2. Sums(entry, head, Len(head), g) /\ Sums(entry, tail, Len(tail), h)
    BY <1>8, <1>10, <2>1
  <2>3. SizeIn(entry, head) = g[Len(head)] /\ SizeIn(entry, tail) = h[Len(tail)]
    BY <1>5, <2>2, SumIs
  <2> QED BY <2>1, <2>3
<1>12. h[all - n] = g[all] - g[n] /\ g[all] \in Nat /\ g[n] \in Nat
  BY <1>3, <1>6, <1>7
<1>13. SizeIn(entry, keys) = SizeIn(entry, head) + SizeIn(entry, tail)
  BY <1>6, <1>11, <1>12
<1> QED BY <1>5, <1>13

(* A sequence one element is taken out of.                                 *)
LEMMA RestIs ==
  ASSUME NEW s \in Seq(Keys), NEW i \in DOMAIN s,
         NEW rest, rest = Cache!RemoveAt(s, i)
  PROVE  /\ rest \in Seq(Keys) /\ Len(rest) = Len(s) - 1
         /\ \A k \in 1 .. Len(s) - 1 :
              rest[k] = IF k < i THEN s[k] ELSE s[k + 1]
<1>1. PICK n, l, m : n = Len(s) /\ l = n - i /\ m = i - 1
  OBVIOUS
<1>2. /\ n \in Nat /\ l \in Nat /\ m \in Nat /\ i \in Nat /\ i \in 1 .. n
      /\ 1 = 0 + 1 /\ m = 0 + m /\ n = i + l /\ n = m + 1 + l
  BY <1>1
<1>3. PICK zero, one, next : zero = 0 /\ one = 1 /\ next = i + 1
  OBVIOUS
<1>4. PICK head, tail : head = SubSeq(s, one, m) /\ tail = SubSeq(s, next, n)
  OBVIOUS
<1>5. /\ head \in Seq(Keys) /\ Len(head) = m
      /\ \A k \in 1 .. m : head[k] = s[k]
  <2>1. zero \in Nat /\ one = zero + 1 /\ m = zero + m /\ m <= Len(s)
    BY <1>1, <1>2, <1>3
  <2>2. /\ head \in Seq(Keys) /\ Len(head) = m
        /\ \A k \in 1 .. m : head[k] = s[zero + k]
    BY <1>2, <1>4, <2>1, PartIs
  <2> QED BY <1>3, <2>2
<1>6. /\ tail \in Seq(Keys) /\ Len(tail) = l
      /\ \A k \in 1 .. l : tail[k] = s[i + k]
  <2>1. i \in Nat /\ l \in Nat /\ next = i + 1 /\ n = i + l /\ n <= Len(s)
    BY <1>1, <1>2, <1>3
  <2>2. PICK j : j = i
    OBVIOUS
  <2>3. j \in Nat /\ l \in Nat /\ next = j + 1 /\ n = j + l /\ n <= Len(s)
    BY <2>1, <2>2
  <2>4. /\ tail \in Seq(Keys) /\ Len(tail) = l
        /\ \A k \in 1 .. l : tail[k] = s[j + k]
    BY <1>4, <2>3, PartIs, SMTT(60)
  <2> QED BY <2>2, <2>4
<1>7. rest = head \o tail
  BY <1>1, <1>3, <1>4 DEF Cache!RemoveAt
<1>8. /\ rest \in Seq(Keys) /\ Len(rest) = m + l
      /\ \A k \in 1 .. m + l :
           rest[k] = IF k <= m THEN head[k] ELSE tail[k - m]
  <2>1. /\ head \o tail \in Seq(Keys)
        /\ Len(head \o tail) = Len(head) + Len(tail)
        /\ \A k \in 1 .. Len(head) + Len(tail) :
             (head \o tail)[k] = IF k <= Len(head) THEN head[k]
                                 ELSE tail[k - Len(head)]
    BY <1>5, <1>6, ConcatProperties, Zenon
  <2> QED BY <1>5, <1>6, <1>7, <2>1, Zenon
<1>9. Len(rest) = Len(s) - 1
  BY <1>1, <1>2, <1>8
<1>10. ASSUME NEW k \in 1 .. Len(s) - 1
       PROVE  rest[k] = IF k < i THEN s[k] ELSE s[k + 1]
  <2>1. k \in 1 .. m + l
    BY <1>1, <1>2
  <2>2. CASE k < i
    <3>1. k \in 1 .. m
      BY <1>1, <1>2, <2>2
    <3> QED BY <1>5, <1>8, <2>1, <2>2, <3>1
  <2>3. CASE ~ (k < i)
    <3>1. ~ (k <= m) /\ k - m \in 1 .. l /\ i + (k - m) = k + 1
      <4>1. k \in Nat /\ k <= m + l /\ m = i - 1 /\ i <= k
        BY <1>1, <1>2, <2>1, <2>3
      <4>2. i \in Nat /\ l \in Nat
        BY <1>2
      <4> QED BY <4>1, <4>2
    <3> QED BY <1>6, <1>8, <2>1, <2>3, <3>1
  <2> QED BY <2>2, <2>3
<1> QED BY <1>8, <1>9, <1>10

LEMMA SizeOfRest ==
  ASSUME NEW entry, NEW keys, Entries(entry, keys), NEW i \in DOMAIN keys,
         NEW rest, rest = Cache!RemoveAt(keys, i)
  PROVE  /\ Entries(entry, rest)
         /\ SizeIn(entry, keys) = SizeIn(entry, rest) + Size[entry[keys[i]]]
<1>1. PICK n : n = Len(keys) - 1
  OBVIOUS
<1>2. /\ keys \in Seq(Keys) /\ DOMAIN keys = 1 .. n + 1 /\ n \in Nat
      /\ Len(keys) = n + 1 /\ i \in 1 .. n + 1
  BY <1>1 DEF Entries
<1>3. /\ rest \in Seq(Keys) /\ Len(rest) = n
      /\ \A k \in 1 .. n : rest[k] = IF k < i THEN keys[k] ELSE keys[k + 1]
  BY <1>1, <1>2, RestIs
<1>4. DOMAIN rest = 1 .. n
  BY <1>3
<1>5. \A k \in 1 .. n + 1 : entry[keys[k]] \in Data /\ Size[entry[keys[k]]] \in Nat
  BY <1>2, PrefetchAssumption DEF Entries
<1>6. Entries(entry, rest)
  <2>1. \A k \in 1 .. n : k \in 1 .. n + 1 /\ k + 1 \in 1 .. n + 1
    BY <1>2
  <2> QED BY <1>3, <1>4, <1>5, <2>1 DEF Entries
<1>7. PICK g \in [0 .. n + 1 -> Nat] :
        Sums(entry, keys, n + 1, g) /\ SizeIn(entry, keys) = g[n + 1]
  BY <1>2, SumOf
<1>8. PICK size : size = Size[entry[keys[i]]]
  OBVIOUS
<1>9. PICK h : h = [k \in 0 .. n |-> IF k < i THEN g[k] ELSE g[k + 1] - size]
  OBVIOUS
<1>10. size \in Nat /\ g[i] = g[i - 1] + size
  BY <1>2, <1>5, <1>7, <1>8 DEF Sums
<1>11. ASSUME NEW k \in 0 .. n
       PROVE  h[k] = IF k = 0 THEN 0 ELSE h[k - 1] + Size[entry[rest[k]]]
  <2>1. /\ k \in Nat /\ k \in 0 .. n + 1 /\ k + 1 \in 0 .. n + 1
        /\ (k # 0 => /\ k - 1 \in 0 .. n /\ k - 1 \in 0 .. n + 1
                     /\ k \in 1 .. n /\ k \in 1 .. n + 1)
        /\ (k + 1) - 1 = k
        /\ k + 1 # 0
    BY <1>2
  <2>2. CASE k = 0
    BY <1>2, <1>7, <1>9, <2>2 DEF Sums
  <2>3. CASE k # 0 /\ k < i
    <3>1. h[k] = g[k] /\ h[k - 1] = g[k - 1] /\ rest[k] = keys[k]
      BY <1>2, <1>3, <1>9, <2>1, <2>3
    <3> QED BY <1>7, <2>1, <2>3, <3>1 DEF Sums
  <2>4. CASE k # 0 /\ k = i
    <3>1. h[k] = g[k + 1] - size /\ h[k - 1] = g[k - 1] /\ rest[k] = keys[k + 1]
      <4>1. ~ (k < i) /\ k - 1 < i
        BY <1>2, <2>4
      <4>2. h[k] = g[k + 1] - size
        BY <1>9, <4>1
      <4>3. h[k - 1] = g[k - 1]
        BY <1>9, <2>1, <2>4, <4>1
      <4>4. rest[k] = keys[k + 1]
        BY <1>3, <2>1, <2>4, <4>1
      <4> QED BY <4>2, <4>3, <4>4
    <3>2. g[k + 1] = g[k] + Size[entry[keys[k + 1]]]
      BY <1>7, <2>1 DEF Sums
    <3>3. /\ g[k - 1] \in Nat /\ g[k] \in Nat
          /\ Size[entry[keys[k + 1]]] \in Nat /\ g[k] = g[k - 1] + size
      <4>1. k + 1 \in 1 .. n + 1
        BY <1>2, <2>1
      <4>2. Size[entry[keys[k + 1]]] \in Nat
        BY <1>5, <4>1
      <4>3. g[k - 1] \in Nat /\ g[k] \in Nat
        BY <1>7, <2>1, <2>4
      <4> QED BY <1>10, <2>4, <4>2, <4>3
    <3> QED BY <1>10, <2>4, <3>1, <3>2, <3>3
  <2>5. CASE k # 0 /\ i < k
    <3>1. /\ h[k] = g[k + 1] - size /\ h[k - 1] = g[k] - size
          /\ rest[k] = keys[k + 1]
      <4>1. ~ (k < i) /\ ~ (k - 1 < i) /\ (k - 1) + 1 = k
        BY <1>2, <2>1, <2>5
      <4> QED BY <1>3, <1>9, <2>1, <2>5, <4>1
    <3>2. g[k + 1] = g[k] + Size[entry[keys[k + 1]]]
      BY <1>7, <2>1 DEF Sums
    <3>3. g[k] \in Nat /\ Size[entry[keys[k + 1]]] \in Nat
      BY <1>2, <1>5, <1>7, <2>1, <2>5
    <3> QED BY <1>10, <2>5, <3>1, <3>2, <3>3
  <2> QED BY <1>2, <2>1, <2>2, <2>3, <2>4, <2>5
<1>12. Sums(entry, rest, Len(rest), h)
  BY <1>3, <1>11, Zenon DEF Sums
<1>13. SizeIn(entry, rest) = h[n]
  <2>1. SizeIn(entry, rest) = h[Len(rest)]
    BY <1>6, <1>12, SumIs
  <2> QED BY <1>3, <2>1
<1>14. g[n + 1] = h[n] + size
  <2>1. n \in 0 .. n /\ n \in 0 .. n + 1 /\ n + 1 \in 0 .. n + 1
    BY <1>2
  <2>2. CASE n < i
    <3>1. n + 1 = i /\ h[n] = g[n] /\ i - 1 = n
      BY <1>2, <1>9, <2>1, <2>2
    <3> QED BY <1>10, <3>1
  <2>3. CASE ~ (n < i)
    <3>1. h[n] = g[n + 1] - size /\ g[n + 1] \in Nat
      BY <1>7, <1>9, <2>1, <2>3
    <3> QED BY <1>10, <3>1
  <2> QED BY <2>2, <2>3
<1> QED BY <1>6, <1>7, <1>8, <1>13, <1>14

Distinct(s) == \A i, j \in DOMAIN s : s[i] = s[j] => i = j
Elements(s) == {s[i] : i \in DOMAIN s}

(* A sequence of distinct keys, one of which is taken out.                 *)
LEMMA WithoutIs ==
  ASSUME NEW s \in Seq(Keys), Distinct(s), NEW key,
         NEW rest, rest = Cache!Without(s, key)
  PROVE  /\ rest \in Seq(Keys)
         /\ Distinct(rest)
         /\ Elements(rest) = Elements(s) \ {key}
<1>1. CASE key \notin Elements(s)
  <2>1. rest = s
    BY <1>1, Zenon DEF Cache!Without, Elements
  <2> QED BY <1>1, <2>1
<1>2. CASE key \in Elements(s)
  <2>1. PICK i : i = CHOOSE j \in DOMAIN s : s[j] = key
    OBVIOUS
  <2>2. i \in DOMAIN s /\ s[i] = key
    BY <1>2, <2>1, Zenon DEF Elements
  <2>3. rest = Cache!RemoveAt(s, i)
    BY <2>1, <2>2, Zenon DEF Cache!Without
  <2>4. PICK n : n = Len(s) - 1
    OBVIOUS
  <2>5. /\ DOMAIN s = 1 .. n + 1 /\ n \in Nat /\ Len(s) = n + 1
        /\ i \in 1 .. n + 1
    BY <2>2, <2>4
  <2>6. /\ rest \in Seq(Keys) /\ Len(rest) = n
        /\ \A k \in 1 .. n : rest[k] = IF k < i THEN s[k] ELSE s[k + 1]
    BY <2>2, <2>3, <2>4, RestIs
  <2>7. DOMAIN rest = 1 .. n
    BY <2>6
  <2>8. PICK old : old = [k \in 1 .. n |-> IF k < i THEN k ELSE k + 1]
    OBVIOUS
  <2>9. ASSUME NEW k \in 1 .. n
        PROVE  old[k] \in 1 .. n + 1 /\ old[k] # i /\ rest[k] = s[old[k]]
    <3>1. CASE k < i
      <4>1. old[k] = k /\ k \in 1 .. n + 1 /\ k # i
        BY <2>5, <2>8, <3>1
      <4> QED BY <2>6, <3>1, <4>1
    <3>2. CASE ~ (k < i)
      <4>1. old[k] = k + 1 /\ k + 1 \in 1 .. n + 1 /\ k + 1 # i
        BY <2>5, <2>8, <3>2
      <4> QED BY <2>6, <3>2, <4>1
    <3> QED BY <3>1, <3>2
  <2>10. \A k, l \in 1 .. n : old[k] = old[l] => k = l
    BY <2>5, <2>8
  <2>11. ASSUME NEW j \in 1 .. n + 1, j # i
         PROVE  \E k \in 1 .. n : old[k] = j
    <3>1. CASE j < i
      <4>1. j \in 1 .. n /\ old[j] = j
        BY <2>5, <2>8, <3>1
      <4> QED BY <4>1
    <3>2. CASE ~ (j < i)
      <4>1. j - 1 \in 1 .. n /\ ~ (j - 1 < i) /\ (j - 1) + 1 = j
        BY <2>5, <2>11, <3>2
      <4>2. old[j - 1] = j
        BY <2>8, <4>1
      <4> QED BY <4>1, <4>2
    <3> QED BY <3>1, <3>2
  <2>12. Distinct(rest)
    <3> SUFFICES ASSUME NEW k \in 1 .. n, NEW l \in 1 .. n, rest[k] = rest[l]
                 PROVE  k = l
      BY <2>7, Zenon DEF Distinct
    <3>1. s[old[k]] = s[old[l]]
      BY <2>9
    <3>2. old[k] = old[l]
      BY <2>5, <2>9, <3>1 DEF Distinct
    <3> QED BY <2>10, <3>2
  <2>13. Elements(rest) \subseteq Elements(s) \ {key}
    <3>1. \A k \in 1 .. n : s[old[k]] # s[i]
      BY <2>5, <2>9, Zenon DEF Distinct
    <3> SUFFICES ASSUME NEW k \in 1 .. n
                 PROVE  rest[k] \in Elements(s) \ {key}
      BY <2>7, Zenon DEF Elements
    <3>2. old[k] \in DOMAIN s /\ rest[k] = s[old[k]]
      BY <2>5, <2>9
    <3> QED BY <2>2, <3>1, <3>2 DEF Elements
  <2>14. Elements(s) \ {key} \subseteq Elements(rest)
    <3> SUFFICES ASSUME NEW j \in 1 .. n + 1, s[j] # key
                 PROVE  s[j] \in Elements(rest)
      BY <2>5, Zenon DEF Elements
    <3>1. PICK k \in 1 .. n : old[k] = j
      BY <2>2, <2>11, Zenon
    <3>2. rest[k] = s[j]
      BY <2>9, <3>1
    <3> QED BY <2>7, <3>2, Zenon DEF Elements
  <2> QED BY <2>6, <2>12, <2>13, <2>14, Zenon
<1> QED BY <1>1, <1>2

LEMMA SizeOfWithout ==
  ASSUME NEW entry, NEW keys, Entries(entry, keys), NEW key,
         NEW rest, rest = Cache!Without(keys, key)
  PROVE  /\ Entries(entry, rest)
         /\ SizeIn(entry, keys)
              = SizeIn(entry, rest)
                + IF key \in Elements(keys) THEN Size[entry[key]] ELSE 0
<1>1. SizeIn(entry, keys) \in Nat
  BY SizeInNat
<1>2. CASE key \notin Elements(keys)
  <2>1. rest = keys
    BY <1>2, Zenon DEF Cache!Without, Elements
  <2> QED BY <1>1, <1>2, <2>1
<1>3. CASE key \in Elements(keys)
  <2>1. PICK i : i = CHOOSE j \in DOMAIN keys : keys[j] = key
    OBVIOUS
  <2>2. i \in DOMAIN keys /\ keys[i] = key
    BY <1>3, <2>1, Zenon DEF Elements
  <2>3. rest = Cache!RemoveAt(keys, i)
    BY <2>1, <2>2, Zenon DEF Cache!Without
  <2>4. /\ Entries(entry, rest)
        /\ SizeIn(entry, keys) = SizeIn(entry, rest) + Size[entry[keys[i]]]
    BY <2>2, <2>3, SizeOfRest
  <2> QED BY <1>3, <2>2, <2>4
<1> QED BY <1>2, <1>3

LEMMA AppendIs ==
  ASSUME NEW s \in Seq(Keys), Distinct(s), NEW key \in Keys,
         key \notin Elements(s), NEW more, more = Append(s, key)
  PROVE  /\ more \in Seq(Keys)
         /\ Distinct(more)
         /\ Elements(more) = Elements(s) \cup {key}
<1>1. PICK n : n = Len(s)
  OBVIOUS
<1>2. /\ n \in Nat /\ DOMAIN s = 1 .. n /\ more \in Seq(Keys)
      /\ DOMAIN more = 1 .. n + 1 /\ more[n + 1] = key
      /\ \A i \in 1 .. n : more[i] = s[i]
  <2>1. /\ more \in Seq(Keys) /\ Len(more) = n + 1 /\ more[n + 1] = key
        /\ \A i \in 1 .. n : more[i] = s[i]
    <3>1. /\ Append(s, key) \in Seq(Keys)
          /\ Len(Append(s, key)) = Len(s) + 1
          /\ \A i \in 1 .. Len(s) : Append(s, key)[i] = s[i]
          /\ Append(s, key)[Len(s) + 1] = key
      BY AppendProperties
    <3> QED BY <1>1, <3>1, Zenon
  <2> QED BY <1>1, <2>1
<1>3. \A i \in 1 .. n + 1 : i \in 1 .. n \/ i = n + 1
  BY <1>2
<1>4. \A i \in 1 .. n : i \in 1 .. n + 1 /\ s[i] # key
  BY <1>2 DEF Elements
<1>5. n + 1 \in 1 .. n + 1
  BY <1>2
<1>6. Distinct(more)
  <2>1. ASSUME NEW i \in 1 .. n + 1, NEW j \in 1 .. n + 1, more[i] = more[j]
        PROVE  i = j
    <3>1. CASE i = n + 1
      BY <1>2, <1>3, <1>4, <2>1, <3>1, Zenon
    <3>2. CASE j = n + 1
      BY <1>2, <1>3, <1>4, <2>1, <3>2, Zenon
    <3>3. CASE i \in 1 .. n /\ j \in 1 .. n
      BY <1>2, <2>1, <3>3, Zenon DEF Distinct
    <3> QED BY <1>3, <3>1, <3>2, <3>3, Zenon
  <2> QED BY <1>2, <2>1, Zenon DEF Distinct
<1>7. Elements(more) = Elements(s) \cup {key}
  BY <1>2, <1>3, <1>4, <1>5, Zenon DEF Elements
<1> QED BY <1>2, <1>6, <1>7

(* A sequence of distinct keys that is cut in two.                         *)
LEMMA PartsDistinct ==
  ASSUME NEW s \in Seq(Keys), Distinct(s), NEW n \in 0 .. Len(s),
         NEW head, NEW tail, Cut(s, n, head, tail)
  PROVE  /\ head \in Seq(Keys) /\ tail \in Seq(Keys)
         /\ Distinct(tail)
         /\ Elements(s) = Elements(head) \cup Elements(tail)
         /\ Elements(head) \cap Elements(tail) = {}
<1>1. PICK all : all = Len(s)
  OBVIOUS
<1>2. /\ head \in Seq(Keys) /\ Len(head) = n
      /\ \A i \in 1 .. n : head[i] = s[i]
      /\ tail \in Seq(Keys) /\ Len(tail) = all - n
      /\ \A i \in 1 .. all - n : tail[i] = s[n + i]
  BY <1>1, PartCells
<1>3. /\ all \in Nat /\ n \in Nat /\ n <= all /\ DOMAIN s = 1 .. all
      /\ DOMAIN head = 1 .. n /\ DOMAIN tail = 1 .. all - n
  BY <1>1, <1>2
<1>4. \A i \in 1 .. n : i \in 1 .. all
  BY <1>3
<1>5. \A i \in 1 .. all - n : n + i \in 1 .. all
  BY <1>3
<1>6. \A i \in 1 .. all :
        i \notin 1 .. n => i - n \in 1 .. all - n /\ n + (i - n) = i
  BY <1>3
<1>7. Distinct(tail)
  <2> SUFFICES ASSUME NEW i \in 1 .. all - n, NEW j \in 1 .. all - n,
                      tail[i] = tail[j]
               PROVE  i = j
    BY <1>3, Zenon DEF Distinct
  <2>1. s[n + i] = s[n + j]
    BY <1>2
  <2>2. n + i = n + j
    BY <1>3, <1>5, <2>1 DEF Distinct
  <2> QED BY <1>3, <2>2
<1>8. Elements(head) \subseteq Elements(s) /\ Elements(tail) \subseteq Elements(s)
  <2>1. \A i \in DOMAIN head : head[i] \in Elements(s)
    BY <1>2, <1>3, <1>4 DEF Elements
  <2>2. \A i \in DOMAIN tail : tail[i] \in Elements(s)
    BY <1>2, <1>3, <1>5 DEF Elements
  <2> QED BY <2>1, <2>2, Zenon DEF Elements
<1>9. Elements(s) \subseteq Elements(head) \cup Elements(tail)
  <2> SUFFICES ASSUME NEW i \in 1 .. all
               PROVE  s[i] \in Elements(head) \cup Elements(tail)
    BY <1>3, Zenon DEF Elements
  <2>1. CASE i \in 1 .. n
    BY <1>2, <1>3, <2>1 DEF Elements
  <2>2. CASE i \notin 1 .. n
    <3>1. i - n \in DOMAIN tail /\ tail[i - n] = s[i]
      BY <1>2, <1>3, <1>6, <2>2
    <3> QED BY <3>1 DEF Elements
  <2> QED BY <2>1, <2>2
<1>10. ASSUME NEW i \in 1 .. n, NEW j \in 1 .. all - n PROVE head[i] # tail[j]
  <2>1. s[i] # s[n + j]
    <3>1. i # n + j
      BY <1>3
    <3> QED BY <1>3, <1>4, <1>5, <3>1 DEF Distinct
  <2> QED BY <1>2, <2>1
<1>11. Elements(head) \cap Elements(tail) = {}
  BY <1>3, <1>10 DEF Elements
<1> QED BY <1>2, <1>7, <1>8, <1>9, <1>11

-----------------------------------------------------------------------------
(* The operations of the cache.                                            *)

(* Entries c, with their keys in the order l.                              *)
Holds(c, l) ==
  /\ c \in [Keys -> Data \cup {None}]
  /\ l \in Seq(Keys)
  /\ Distinct(l)
  /\ Elements(l) = {key \in Keys : c[key] # None}

LEMMA HoldsEntries ==
  ASSUME NEW c, NEW l, Holds(c, l), NEW keys \in Seq(Keys),
         Elements(keys) \subseteq Elements(l)
  PROVE  Entries(c, keys)
<1> SUFFICES ASSUME NEW i \in DOMAIN keys PROVE c[keys[i]] \in Data
  BY Zenon DEF Entries
<1>1. keys[i] \in Elements(l)
  BY DEF Elements
<1> QED BY <1>1 DEF Holds

(* An entry becomes the newest one.                                        *)
LEMMA TouchHolds ==
  ASSUME NEW c, NEW l, Holds(c, l), NEW key \in Keys, c[key] # None,
         NEW m, m = Append(Cache!Without(l, key), key)
  PROVE  Holds(c, m) /\ SizeIn(c, m) = SizeIn(c, l)
<1>1. PICK rest : rest = Cache!Without(l, key)
  OBVIOUS
<1>2. /\ rest \in Seq(Keys) /\ Distinct(rest)
      /\ Elements(rest) = Elements(l) \ {key}
  BY <1>1, WithoutIs DEF Holds
<1>3. key \in Elements(l) /\ c[key] \in Data
  BY DEF Holds
<1>4. /\ m \in Seq(Keys) /\ Distinct(m)
      /\ Elements(m) = Elements(rest) \cup {key}
  BY <1>1, <1>2, AppendIs
<1>5. Entries(c, l)
  BY HoldsEntries DEF Holds
<1>6. /\ Entries(c, rest)
      /\ SizeIn(c, l) = SizeIn(c, rest) + Size[c[key]]
  BY <1>1, <1>3, <1>5, SizeOfWithout
<1>7. SizeIn(c, m) = SizeIn(c, rest) + Size[c[key]]
  BY <1>1, <1>3, <1>6, SizeOfAppend
<1> QED BY <1>2, <1>3, <1>4, <1>6, <1>7 DEF Holds

(* An entry goes.                                                          *)
Drops(c, l, key, d, m) ==
  /\ d = [c EXCEPT ![key] = None]
  /\ m = Cache!Without(l, key)

LEMMA InvalidateHolds ==
  ASSUME NEW c, NEW l, Holds(c, l), NEW key \in Keys,
         NEW d, NEW m, Drops(c, l, key, d, m)
  PROVE  /\ Holds(d, m)
         /\ SizeIn(c, l)
              = SizeIn(d, m) + IF c[key] = None THEN 0 ELSE Size[c[key]]
<1>1. /\ m \in Seq(Keys) /\ Distinct(m)
      /\ Elements(m) = Elements(l) \ {key}
  BY WithoutIs DEF Holds, Drops
<1>2. Holds(d, m)
  BY <1>1 DEF Holds, Drops
<1>3. Entries(c, l)
  BY HoldsEntries DEF Holds
<1>4. /\ Entries(c, m)
      /\ SizeIn(c, l)
           = SizeIn(c, m) + IF key \in Elements(l) THEN Size[c[key]] ELSE 0
  BY <1>3, SizeOfWithout DEF Drops
<1>5. Agree(c, d, m)
  <2>1. \A i \in DOMAIN m : m[i] \in Keys /\ m[i] # key
    BY <1>1 DEF Elements
  <2> QED BY <2>1 DEF Holds, Agree, Drops
<1>6. SizeIn(d, m) = SizeIn(c, m)
  BY <1>4, <1>5, SizeOfSame
<1>7. key \in Elements(l) <=> c[key] # None
  BY DEF Holds
<1> QED BY <1>2, <1>4, <1>6, <1>7

(* The n oldest entries make room for a new one.                           *)
Puts(c, l, key, data, n, gone, tail, d, m) ==
  /\ Cut(l, n, gone, tail)
  /\ d = [k \in Keys |-> IF k = key THEN data
                         ELSE IF k \in Elements(gone) THEN None
                         ELSE c[k]]
  /\ m = Append(Cache!Without(tail, key), key)

LEMMA PutHolds ==
  ASSUME NEW c, NEW l, Holds(c, l), NEW key \in Keys, NEW data \in Data,
         NEW n \in 0 .. Len(l), NEW gone, NEW tail, NEW d, NEW m,
         Puts(c, l, key, data, n, gone, tail, d, m)
  PROVE  /\ Holds(d, m)
         /\ \E extra \in Nat :
              /\ SizeIn(c, l) - SizeIn(c, gone) + Size[data]
                   = SizeIn(d, m) + extra
              /\ c[key] = None => extra = 0
         /\ SizeIn(c, gone) \in Nat
         /\ n = 0 => d = [c EXCEPT ![key] = data]
<1>1. PICK kept : /\ kept = Cache!Without(tail, key)
                  /\ m = Append(kept, key) /\ Cut(l, n, gone, tail)
  BY DEF Puts
<1>2. /\ gone \in Seq(Keys) /\ tail \in Seq(Keys) /\ Distinct(tail)
      /\ Elements(l) = Elements(gone) \cup Elements(tail)
      /\ Elements(gone) \cap Elements(tail) = {}
  <2>1. l \in Seq(Keys) /\ Distinct(l)
    BY DEF Holds
  <2> QED BY <1>1, <2>1, PartsDistinct
<1>3. /\ kept \in Seq(Keys) /\ Distinct(kept)
      /\ Elements(kept) = Elements(tail) \ {key}
  BY <1>1, <1>2, WithoutIs
<1>4. /\ m \in Seq(Keys) /\ Distinct(m)
      /\ Elements(m) = Elements(kept) \cup {key}
  BY <1>1, <1>3, AppendIs
<1>5. Elements(gone) \cup Elements(tail) \subseteq Keys
  BY <1>2 DEF Elements
<1>6. Holds(d, m)
  <2>1. d \in [Keys -> Data \cup {None}]
    BY DEF Holds, Puts
  <2>2. Elements(m) = {k \in Keys : d[k] # None}
    BY <1>2, <1>3, <1>4, <1>5, PrefetchAssumption DEF Holds, Puts
  <2> QED BY <1>4, <2>1, <2>2 DEF Holds
<1>7. Entries(c, l)
  BY HoldsEntries DEF Holds
<1>8. /\ Entries(c, gone) /\ Entries(c, tail)
      /\ SizeIn(c, l) = SizeIn(c, gone) + SizeIn(c, tail)
  BY <1>1, <1>7, SizeOfParts
<1>9. PICK extra : extra = IF key \in Elements(tail) THEN Size[c[key]] ELSE 0
  OBVIOUS
<1>10. Entries(c, kept) /\ SizeIn(c, tail) = SizeIn(c, kept) + extra
  BY <1>1, <1>8, <1>9, SizeOfWithout
<1>11. extra \in Nat /\ (c[key] = None => extra = 0)
  <2>1. key \in Elements(tail) => c[key] # None /\ c[key] \in Data
    BY <1>2 DEF Holds
  <2> QED BY <1>9, <2>1, PrefetchAssumption
<1>12. Agree(c, d, kept)
  <2>1. \A i \in DOMAIN kept :
          kept[i] \in Keys /\ kept[i] # key /\ kept[i] \notin Elements(gone)
    BY <1>2, <1>3, <1>5 DEF Elements
  <2> QED BY <2>1 DEF Agree, Puts
<1>13. Entries(d, kept) /\ SizeIn(d, kept) = SizeIn(c, kept)
  BY <1>10, <1>12, SizeOfSame
<1>14. d[key] = data
  BY DEF Puts
<1>15. SizeIn(d, m) = SizeIn(c, kept) + Size[data]
  BY <1>1, <1>13, <1>14, SizeOfAppend
<1>16. SizeIn(c, gone) \in Nat /\ SizeIn(c, kept) \in Nat /\ Size[data] \in Nat
  BY <1>8, <1>10, SizeInNat, PrefetchAssumption
<1>17. SizeIn(c, l) - SizeIn(c, gone) + Size[data] = SizeIn(d, m) + extra
  BY <1>8, <1>10, <1>11, <1>15, <1>16
<1>18. n = 0 => d = [c EXCEPT ![key] = data]
  <2> SUFFICES ASSUME n = 0 PROVE d = [c EXCEPT ![key] = data]
    OBVIOUS
  <2>1. Len(gone) = 0
    BY <1>1, PartCells DEF Holds
  <2>2. Elements(gone) = {}
    BY <1>2, <2>1 DEF Elements
  <2> QED BY <2>2 DEF Holds, Puts
<1> QED BY <1>6, <1>11, <1>16, <1>17, <1>18

-----------------------------------------------------------------------------
(* The steps of the cache.                                                 *)

CacheInv == Holds(cache, lru) /\ total \in Int

LEMMA CacheInvIsType == (CacheInv <=> Cache!TypeOK) /\ (CacheInv <=> Cache!TypeOK)'
BY DEF CacheInv, Holds, Distinct, Elements, Cache!TypeOK, Cache!IsInjective,
       Cache!ToSet

LEMMA CacheStarts ==
  ASSUME Cache!Init
  PROVE  CacheInv /\ total = 0 /\ SizeIn(cache, lru) = 0
<1>1. PICK c, l : c = cache /\ l = lru
  OBVIOUS
<1>2. c = [key \in Keys |-> None] /\ l = <<>> /\ l \in Seq(Keys) /\ Len(l) = 0
  BY <1>1 DEF Cache!Init
<1>3. Holds(c, l)
  BY <1>2 DEF Holds, Distinct, Elements
<1>4. SizeIn(c, l) = 0
  <2>1. Entries(c, l)
    BY <1>2 DEF Entries
  <2>2. PICK g : Sums(c, l, Len(l), g) /\ SizeIn(c, l) = g[Len(l)]
    BY <2>1, SumOf
  <2> QED BY <1>2, <2>2 DEF Sums
<1> QED BY <1>1, <1>3, <1>4 DEF Cache!Init, CacheInv

LEMMA EvictedIs ==
  ASSUME CacheInv, NEW data \in Data
  PROVE  Cache!Evicted(data) \in 0 .. Len(lru)
<1>1. PICK all : all = Len(lru)
  OBVIOUS
<1>2. all \in Nat
  BY <1>1 DEF CacheInv, Holds
<1> DEFINE S == {n \in 0 .. all : Cache!Fits(data, n)}
<1>3. all \in S
  BY <1>1, <1>2 DEF Cache!Fits
<1>4. PICK n \in S : \A m \in S : n <= m
  <2>1. S \subseteq Nat /\ S # {}
    BY <1>2, <1>3
  <2> HIDE DEF S
  <2> QED BY <2>1, LeastExists
<1>5. \A m \in 0 .. n - 1 : ~ Cache!Fits(data, m)
  <2>1. \A m \in 0 .. n - 1 : m \in 0 .. all /\ ~ (n <= m)
    BY <1>2, <1>4
  <2> QED BY <1>4, <2>1
<1>6. \E k \in 0 .. all :
        Cache!Fits(data, k) /\ \A m \in 0 .. k - 1 : ~ Cache!Fits(data, m)
  BY <1>4, <1>5, Zenon
<1> QED BY <1>1, <1>6, Zenon DEF Cache!Evicted

LEMMA HitStep ==
  ASSUME CacheInv, NEW key \in Keys, Cache!Hit(key)
  PROVE  /\ CacheInv'
         /\ SizeIn(cache', lru') = SizeIn(cache, lru)
         /\ total' = total /\ cache' = cache
<1>1. PICK c, l, m : c = cache /\ l = lru /\ m = lru'
  OBVIOUS
<1>2. /\ c[key] # None /\ m = Append(Cache!Without(l, key), key)
      /\ cache' = c /\ total' = total
  BY <1>1 DEF Cache!Hit, Cache!Touch
<1>3. Holds(c, l)
  BY <1>1 DEF CacheInv
<1>4. Holds(c, m) /\ SizeIn(c, m) = SizeIn(c, l)
  BY <1>2, <1>3, TouchHolds
<1> QED BY <1>1, <1>2, <1>4 DEF CacheInv

LEMMA PutStep ==
  ASSUME CacheInv, NEW key \in Keys, NEW data \in Data, Cache!Put(key, data)
  PROVE  /\ CacheInv'
         /\ \E extra \in Nat :
              /\ total' - SizeIn(cache', lru')
                   = (total - SizeIn(cache, lru)) + extra
              /\ cache[key] = None => extra = 0
         /\ cache'[key] = data
         /\ \A k \in Keys \ {key} : cache'[k] \in {cache[k], None}
         /\ ~ (Cache!Evicted(data) > 0) => cache' = [cache EXCEPT ![key] = data]
<1>1. PICK c, l, n : c = cache /\ l = lru /\ n = Cache!Evicted(data)
  OBVIOUS
<1>2. PICK gone, tail :
        gone = SubSeq(l, 1, n) /\ tail = SubSeq(l, n + 1, Len(l))
  OBVIOUS
<1>3. PICK kept, d, m :
        /\ kept = Cache!Without(tail, key)
        /\ d = [k \in Keys |-> IF k = key THEN data
                               ELSE IF k \in Elements(gone) THEN None
                               ELSE c[k]]
        /\ m = Append(kept, key)
  OBVIOUS
<1>4. n \in 0 .. Len(l) /\ Holds(c, l)
  BY <1>1, EvictedIs DEF CacheInv
<1>5. /\ cache' = d /\ lru' = m
      /\ total' = total - Cache!SizeOf(gone) + Size[data]
  BY <1>1, <1>2, <1>3 DEF Cache!Put, Cache!ToSet, Elements
<1>6. Cache!SizeOf(gone) = SizeIn(c, gone)
  BY <1>1 DEF Cache!SizeOf, SizeIn
<1>7. PICK extra \in Nat :
        /\ Holds(d, m)
        /\ SizeIn(c, l) - SizeIn(c, gone) + Size[data] = SizeIn(d, m) + extra
        /\ c[key] = None => extra = 0
        /\ SizeIn(c, gone) \in Nat
        /\ n = 0 => d = [c EXCEPT ![key] = data]
  <2>1. Puts(c, l, key, data, n, gone, tail, d, m)
    BY <1>2, <1>3 DEF Cut, Puts
  <2>3. /\ Holds(d, m)
        /\ \E extra \in Nat :
             /\ SizeIn(c, l) - SizeIn(c, gone) + Size[data]
                  = SizeIn(d, m) + extra
             /\ c[key] = None => extra = 0
        /\ SizeIn(c, gone) \in Nat
        /\ n = 0 => d = [c EXCEPT ![key] = data]
    BY <1>4, <2>1, PutHolds
  <2> QED BY <2>3
<1>8. CacheInv'
  <2>1. total' \in Int
    BY <1>5, <1>6, <1>7, PrefetchAssumption DEF CacheInv
  <2> QED BY <1>5, <1>7, <2>1 DEF CacheInv
<1>9. SizeIn(c, l) \in Nat /\ SizeIn(d, m) \in Nat
  <2>1. Entries(c, l) /\ Entries(d, m)
    BY <1>4, <1>7, HoldsEntries DEF Holds
  <2> QED BY <2>1, SizeInNat
<1>10. total' - SizeIn(cache', lru') = (total - SizeIn(cache, lru)) + extra
  <2>1. total \in Int /\ Size[data] \in Nat
    BY PrefetchAssumption DEF CacheInv
  <2> QED BY <1>1, <1>5, <1>6, <1>7, <1>9, <2>1
<1>11. cache'[key] = data /\ \A k \in Keys \ {key} : cache'[k] \in {c[k], None}
  BY <1>3, <1>5
<1>12. ~ (n > 0) => cache' = [c EXCEPT ![key] = data]
  BY <1>4, <1>5, <1>7
<1> QED BY <1>1, <1>7, <1>8, <1>10, <1>11, <1>12

LEMMA InvalidateStep ==
  ASSUME CacheInv, NEW key \in Keys, Cache!Invalidate(key)
  PROVE  /\ CacheInv'
         /\ total' - SizeIn(cache', lru') = total - SizeIn(cache, lru)
         /\ cache' = [cache EXCEPT ![key] = None]
<1>1. PICK c, l, d, m : c = cache /\ l = lru /\ d = cache' /\ m = lru'
  OBVIOUS
<1>2. /\ d = [c EXCEPT ![key] = None]
      /\ m = Cache!Without(l, key)
      /\ total' = IF c[key] = None THEN total ELSE total - Size[c[key]]
  BY <1>1 DEF Cache!Invalidate
<1>3. Holds(c, l)
  BY <1>1 DEF CacheInv
<1>4. /\ Holds(d, m)
      /\ SizeIn(c, l)
           = SizeIn(d, m) + IF c[key] = None THEN 0 ELSE Size[c[key]]
  <2>1. Drops(c, l, key, d, m)
    BY <1>2 DEF Drops
  <2> QED BY <1>3, <2>1, InvalidateHolds
<1>5. total \in Int /\ (c[key] # None => Size[c[key]] \in Nat)
  BY <1>3, PrefetchAssumption DEF CacheInv, Holds
<1>6. SizeIn(c, l) \in Nat /\ SizeIn(d, m) \in Nat
  <2>1. Entries(c, l) /\ Entries(d, m)
    BY <1>3, <1>4, HoldsEntries DEF Holds
  <2> QED BY <2>1, SizeInNat
<1>7. total' \in Int /\ total' - SizeIn(d, m) = total - SizeIn(c, l)
  BY <1>2, <1>4, <1>5, <1>6
<1> QED BY <1>1, <1>2, <1>4, <1>7 DEF CacheInv

-----------------------------------------------------------------------------
(* The invariants.                                                         *)

SizeInv ==
  /\ total >= SizeIn(cache, lru)
  /\ ~overwrote => total = SizeIn(cache, lru)

(* The threads that are about to load, or to store, the data of a key.     *)
Loading(key) ==
  {th \in Threads : thread[th].op = "load" /\ KeyOf[thread[th].task] = key}
Storing(key) ==
  {th \in Threads : thread[th].op = "put" /\ KeyOf[thread[th].task] = key}

(* While nothing leaves the cache: before a key is stored, its loads are   *)
(* those of the threads about to store it; afterwards only threads that    *)
(* missed it before may still load it.                                     *)
LoadInv ==
  ~evicted => \A key \in Keys :
    /\ cache[key] = None => loads[key] = Cardinality(Storing(key))
    /\ cache[key] # None =>
         loads[key] + Cardinality(Loading(key)) <= Cardinality(Threads)

(* The data of a key that is only read from Storage, wherever they are.    *)
VersionInv ==
  /\ \A key \in Keys : storage[key] \in Versions[key]
  /\ \A key \in Keys : OnlyFromStorage(key) =>
       /\ cache[key] \in Versions[key] \cup {None}
       /\ \A th \in Storing(key) : thread[th].data \in Versions[key]
  /\ \A t \in Tasks : OnlyFromStorage(KeyOf[t]) =>
       delivered[t] \in Versions[KeyOf[t]] \cup {None}

-----------------------------------------------------------------------------
(* Types.                                                                  *)

Calls == {Idle} \cup [op : {"lookup", "load", "fetch"}, task : Tasks]
                \cup [op : {"put"}, task : Tasks, data : Data]

LEMMA CallIs ==
  ASSUME NEW call \in Calls
  PROVE  /\ call.op \in {"idle", "lookup", "load", "fetch", "put"}
         /\ call.op # "idle" => call.task \in Tasks
         /\ call.op = "put" => call.data \in Data
BY DEF Calls, Idle

LEMMA DataForIs ==
  ASSUME TypeOK, NEW t \in Tasks
  PROVE  DataFor(t) \in Data
BY PrefetchAssumption DEF TypeOK, DataFor

LEMMA TypeStarts == Init => TypeOK
<1> SUFFICES ASSUME Init PROVE TypeOK
  OBVIOUS
<1>1. Cache!TypeOK
  BY CacheStarts, CacheInvIsType DEF Init
<1> QED BY <1>1, Zenon DEF Init, TypeOK

LEMMA TypeStep == TypeOK /\ [Next]_vars => TypeOK'
<1> SUFFICES ASSUME TypeOK, [Next]_vars PROVE TypeOK'
  OBVIOUS
<1>0. CacheInv /\ thread \in [Threads -> Calls]
  BY CacheInvIsType DEF TypeOK, Calls
<1>1. ASSUME CacheInv', thread' \in [Threads -> Calls],
             storage' \in [Keys -> Data],
             delivered' \in [Tasks -> Data \cup {None}],
             loads' \in [Keys -> Nat], changes' \in Nat,
             overwrote' \in BOOLEAN, evicted' \in BOOLEAN
      PROVE  TypeOK'
  BY <1>1, CacheInvIsType DEF TypeOK, Calls
<1>2. ASSUME NEW th \in Threads, NEW t \in Tasks, Begin(th, t) PROVE TypeOK'
  <2>1. thread' \in [Threads -> Calls]
    BY <1>0, <1>2 DEF Begin, Goto, Calls
  <2>2. CacheInv'
    BY <1>0, <1>2 DEF Begin, cacheVars, CacheInv
  <2> QED BY <1>1, <1>2, <2>1, <2>2 DEF Begin, TypeOK
<1>3. ASSUME NEW th \in Threads, Lookup(th) PROVE TypeOK'
  <2>1. PICK t : t = thread[th].task
    OBVIOUS
  <2>2. t \in Tasks /\ KeyOf[t] \in Keys
    BY <1>0, <1>3, <2>1, CallIs, PrefetchAssumption DEF Lookup, At
  <2>3. thread' \in [Threads -> Calls]
    BY <1>0, <1>3, <2>1, <2>2 DEF Lookup, Goto, Calls
  <2>4. Cache!Hit(KeyOf[t]) \/ Cache!Miss(KeyOf[t])
    BY <1>3, <2>1 DEF Lookup
  <2>5. CacheInv'
    <3>1. CASE Cache!Hit(KeyOf[t])
      BY <1>0, <2>2, <3>1, HitStep
    <3>2. CASE Cache!Miss(KeyOf[t])
      BY <1>0, <3>2 DEF Cache!Miss, Cache!cacheVars, CacheInv
    <3> QED BY <2>4, <3>1, <3>2
  <2> QED BY <1>1, <1>3, <2>3, <2>5 DEF Lookup, TypeOK
<1>4. ASSUME NEW th \in Threads, Load(th) PROVE TypeOK'
  <2>1. PICK t : t = thread[th].task
    OBVIOUS
  <2>2. t \in Tasks /\ KeyOf[t] \in Keys
    BY <1>0, <1>4, <2>1, CallIs, PrefetchAssumption DEF Load, At
  <2>3. DataFor(t) \in Data
    BY <2>2, DataForIs
  <2>4. thread' \in [Threads -> Calls]
    BY <1>0, <1>4, <2>1, <2>2, <2>3 DEF Load, Goto, Calls
  <2>5. loads' \in [Keys -> Nat]
    BY <1>4, <2>1, <2>2 DEF Load, TypeOK
  <2>6. CacheInv'
    BY <1>0, <1>4 DEF Load, cacheVars, CacheInv
  <2> QED BY <1>1, <1>4, <2>4, <2>5, <2>6 DEF Load, TypeOK
<1>5. ASSUME NEW th \in Threads, LoadFails(th) PROVE TypeOK'
  <2>1. thread' \in [Threads -> Calls]
    BY <1>0, <1>5 DEF LoadFails, Goto, Calls
  <2>2. CacheInv'
    BY <1>0, <1>5 DEF LoadFails, cacheVars, CacheInv
  <2> QED BY <1>1, <1>5, <2>1, <2>2 DEF LoadFails, TypeOK
<1>6. ASSUME NEW th \in Threads, Store(th) PROVE TypeOK'
  <2>1. PICK t, data : t = thread[th].task /\ data = thread[th].data
    OBVIOUS
  <2>2. t \in Tasks /\ KeyOf[t] \in Keys /\ data \in Data
    BY <1>0, <1>6, <2>1, CallIs, PrefetchAssumption DEF Store, At
  <2>3. thread' \in [Threads -> Calls]
    BY <1>0, <1>6, <2>1, <2>2 DEF Store, Goto, Calls
  <2>4. Cache!Put(KeyOf[t], data)
    BY <1>6, <2>1 DEF Store
  <2>5. CacheInv'
    BY <1>0, <2>2, <2>4, PutStep
  <2>6. overwrote' \in BOOLEAN /\ evicted' \in BOOLEAN
    BY <1>6 DEF Store, TypeOK
  <2> QED BY <1>1, <1>6, <2>3, <2>5, <2>6 DEF Store, TypeOK
<1>7. ASSUME NEW th \in Threads, Fetch(th) PROVE TypeOK'
  <2>1. PICK t : t = thread[th].task
    OBVIOUS
  <2>2. t \in Tasks /\ KeyOf[t] \in Keys
    BY <1>0, <1>7, <2>1, CallIs, PrefetchAssumption DEF Fetch, At
  <2>3. thread' \in [Threads -> Calls]
    BY <1>0, <1>7 DEF Fetch, Goto, Calls
  <2>4. delivered' \in [Tasks -> Data \cup {None}]
    BY <1>0, <1>7, <2>1, <2>2 DEF Fetch, TypeOK, CacheInv, Holds
  <2>5. CacheInv'
    BY <1>0, <1>7 DEF Fetch, cacheVars, CacheInv
  <2> QED BY <1>1, <1>7, <2>3, <2>4, <2>5 DEF Fetch, TypeOK
<1>8. ASSUME NEW key \in Keys, Ingest(key) PROVE TypeOK'
  <2>1. storage' \in [Keys -> Data] /\ changes' \in Nat
    <3>1. PICK data \in Versions[key] \ {storage[key]} :
            storage' = [storage EXCEPT ![key] = data]
      BY <1>8 DEF Ingest
    <3>2. data \in Data
      BY <3>1, PrefetchAssumption
    <3> QED BY <1>8, <3>1, <3>2 DEF Ingest, Changes, TypeOK
  <2>2. CacheInv'
    BY <1>0, <1>8 DEF Ingest, cacheVars, CacheInv
  <2> QED BY <1>0, <1>1, <1>8, <2>1, <2>2 DEF Ingest, TypeOK
<1>9. ASSUME NEW key \in Keys, Invalidate(key) PROVE TypeOK'
  <2>1. CacheInv' /\ changes' \in Nat
    BY <1>0, <1>9, InvalidateStep DEF Invalidate, Changes, TypeOK
  <2> QED BY <1>0, <1>1, <1>9, <2>1 DEF Invalidate, TypeOK
<1>10. CASE Clear
  <2>1. CacheInv' /\ changes' \in Nat
    <3>1. PICK c, l : c = cache' /\ l = lru'
      OBVIOUS
    <3>2. /\ c = [key \in Keys |-> None] /\ l = <<>> /\ l \in Seq(Keys)
          /\ Len(l) = 0 /\ total' = 0
      BY <1>10, <3>1 DEF Clear, Cache!Clear
    <3>3. Holds(c, l)
      BY <3>2 DEF Holds, Distinct, Elements
    <3> QED BY <1>10, <3>1, <3>2, <3>3 DEF Clear, Changes, TypeOK, CacheInv
  <2> QED BY <1>0, <1>1, <1>10, <2>1 DEF Clear, TypeOK
<1>11. CASE UNCHANGED vars
  <2>1. CacheInv'
    BY <1>0, <1>11 DEF vars, cacheVars, CacheInv
  <2> QED BY <1>0, <1>1, <1>11, <2>1 DEF vars, TypeOK
<1> QED BY <1>2, <1>3, <1>4, <1>5, <1>6, <1>7, <1>8, <1>9, <1>10, <1>11
        DEF Next

(* The entries, the order of accesses and the threads keep their types:    *)
(* the cache holds exactly the keys that are in the order.                 *)
THEOREM TypeCorrect == Spec => []TypeOK
BY TypeStarts, TypeStep, PTL DEF Spec

-----------------------------------------------------------------------------
(* The size of the cache.                                                  *)

LEMMA HeldInNat == CacheInv => SizeIn(cache, lru) \in Nat
<1> SUFFICES ASSUME CacheInv PROVE SizeIn(cache, lru) \in Nat
  OBVIOUS
<1>1. PICK c, l : c = cache /\ l = lru
  OBVIOUS
<1>2. Entries(c, l)
  BY <1>1, HoldsEntries DEF CacheInv, Holds
<1> QED BY <1>1, <1>2, SizeInNat

LEMMA SizeStep == TypeOK /\ TypeOK' /\ SizeInv /\ [Next]_vars => SizeInv'
<1> SUFFICES ASSUME TypeOK, TypeOK', SizeInv, [Next]_vars PROVE SizeInv'
  OBVIOUS
<1>1. CacheInv /\ CacheInv'
  BY CacheInvIsType DEF TypeOK
<1>2. total \in Int /\ SizeIn(cache, lru) \in Nat
  BY <1>1, HeldInNat DEF CacheInv
<1>3. total' \in Int /\ SizeIn(cache', lru') \in Int
  <2>1. (CacheInv => SizeIn(cache, lru) \in Nat)'
    BY HeldInNat, PTL
  <2> QED BY <1>1, <2>1 DEF CacheInv
<1>4. ASSUME UNCHANGED <<cache, lru, total>>, UNCHANGED overwrote
      PROVE  SizeInv'
  BY <1>4 DEF SizeInv
<1>5. ASSUME total' - SizeIn(cache', lru') = total - SizeIn(cache, lru),
             UNCHANGED overwrote
      PROVE  SizeInv'
  <2>1. /\ total' >= SizeIn(cache', lru')
        /\ ~overwrote => total' = SizeIn(cache', lru')
    BY <1>2, <1>3, <1>5 DEF SizeInv
  <2> QED BY <1>5, <2>1 DEF SizeInv
<1>6. ASSUME NEW th \in Threads, Lookup(th) PROVE SizeInv'
  <2>1. PICK t : t = thread[th].task
    OBVIOUS
  <2>2. KeyOf[t] \in Keys
    BY <1>6, <2>1, CallIs, PrefetchAssumption DEF Lookup, At, TypeOK, Calls
  <2>3. CASE Cache!Hit(KeyOf[t])
    <3>1. SizeIn(cache', lru') = SizeIn(cache, lru) /\ total' = total
      BY <1>1, <2>2, <2>3, HitStep
    <3> QED BY <1>2, <1>5, <1>6, <3>1 DEF Lookup
  <2>4. CASE Cache!Miss(KeyOf[t])
    BY <1>4, <1>6, <2>4 DEF Lookup, Cache!Miss, Cache!cacheVars
  <2> QED BY <1>6, <2>1, <2>3, <2>4 DEF Lookup
<1>7. ASSUME NEW th \in Threads, Store(th) PROVE SizeInv'
  <2>1. PICK key, data : key = KeyOf[thread[th].task] /\ data = thread[th].data
    OBVIOUS
  <2>2. key \in Keys /\ data \in Data
    BY <1>7, <2>1, CallIs, PrefetchAssumption DEF Store, At, TypeOK, Calls
  <2>3. Cache!Put(key, data) /\ overwrote' = (overwrote \/ cache[key] # None)
    BY <1>7, <2>1 DEF Store
  <2>4. PICK extra \in Nat :
          /\ total' - SizeIn(cache', lru')
               = (total - SizeIn(cache, lru)) + extra
          /\ cache[key] = None => extra = 0
    BY <1>1, <2>2, <2>3, PutStep
  <2>5. total' >= SizeIn(cache', lru')
    BY <1>2, <1>3, <2>4 DEF SizeInv
  <2>6. ~overwrote' => total' = SizeIn(cache', lru')
    <3> SUFFICES ASSUME ~overwrote' PROVE total' = SizeIn(cache', lru')
      OBVIOUS
    <3>1. ~overwrote /\ cache[key] = None
      BY <2>3, Zenon
    <3>2. total = SizeIn(cache, lru)
      BY <3>1, Zenon DEF SizeInv
    <3>3. total' - SizeIn(cache', lru') = 0
      BY <1>2, <2>4, <3>1, <3>2
    <3> QED BY <1>3, <3>3
  <2> QED BY <2>5, <2>6 DEF SizeInv
<1>8. ASSUME NEW key \in Keys, Invalidate(key) PROVE SizeInv'
  BY <1>1, <1>5, <1>8, InvalidateStep DEF Invalidate
<1>9. CASE Clear
  <2>1. Cache!Init'
    BY <1>9 DEF Clear, Cache!Clear, Cache!Init
  <2>2. (Cache!Init => CacheInv /\ total = 0 /\ SizeIn(cache, lru) = 0)'
    BY CacheStarts, PTL
  <2> QED BY <2>1, <2>2 DEF SizeInv
<1>10. ASSUME NEW th \in Threads, NEW t \in Tasks, Begin(th, t) PROVE SizeInv'
  BY <1>4, <1>10 DEF Begin, cacheVars
<1>11. ASSUME NEW th \in Threads, Load(th) \/ LoadFails(th) \/ Fetch(th)
       PROVE  SizeInv'
  BY <1>4, <1>11 DEF Load, LoadFails, Fetch, cacheVars
<1>12. ASSUME NEW key \in Keys, Ingest(key) PROVE SizeInv'
  BY <1>4, <1>12 DEF Ingest, cacheVars
<1>13. CASE UNCHANGED vars
  BY <1>4, <1>13 DEF vars, cacheVars
<1> QED BY <1>6, <1>7, <1>8, <1>9, <1>10, <1>11, <1>12, <1>13 DEF Next

(* The size that decides about evictions is never less than the size of    *)
(* the entries (_total_size in DataCache.put, invalidate and clear), and   *)
(* it is that size until an entry is replaced.                             *)
THEOREM SizeIsKept == Spec => []TotalIsHeld
<1>1. Init => SizeInv
  BY CacheStarts DEF Init, SizeInv
<1>2. SizeInv => TotalIsHeld
  BY DEF SizeInv, TotalIsHeld, Cache!Held, Cache!SizeOf, SizeIn
<1> QED BY <1>1, <1>2, SizeStep, TypeCorrect, PTL DEF Spec

-----------------------------------------------------------------------------
(* How often data is loaded.                                               *)

LEMMA Counts ==
  ASSUME NEW S \in SUBSET Threads, NEW T \in SUBSET Threads, NEW th \in Threads
  PROVE  /\ Cardinality(S) \in Nat /\ Cardinality(Threads) \in Nat
         /\ Cardinality(S) <= Cardinality(Threads)
         /\ th \in S => Cardinality(S \ {th}) = Cardinality(S) - 1
         /\ th \notin S => Cardinality(S \cup {th}) = Cardinality(S) + 1
         /\ S \cap T = {} =>
              Cardinality(S) + Cardinality(T) <= Cardinality(Threads)
<1>1. IsFiniteSet(Threads)
  BY PrefetchAssumption
<1>2. IsFiniteSet(S) /\ IsFiniteSet(T)
  BY <1>1, FS_Subset
<1>3. /\ Cardinality(S) \in Nat /\ Cardinality(T) \in Nat
      /\ Cardinality(Threads) \in Nat
      /\ Cardinality(S) <= Cardinality(Threads)
  BY <1>1, <1>2, FS_CardinalityType, FS_Subset
<1>4. S \cap T = {} => Cardinality(S) + Cardinality(T) <= Cardinality(Threads)
  <2> SUFFICES ASSUME S \cap T = {}
               PROVE  Cardinality(S) + Cardinality(T) <= Cardinality(Threads)
    OBVIOUS
  <2>1. /\ IsFiniteSet(S \cup T) /\ Cardinality({}) = 0
        /\ Cardinality(S \cup T)
             = Cardinality(S) + Cardinality(T) - Cardinality(S \cap T)
    BY <1>2, FS_Union, FS_EmptySet
  <2>2. Cardinality(S \cup T) <= Cardinality(Threads)
    <3>1. S \cup T \in SUBSET Threads
      OBVIOUS
    <3> QED BY <1>1, <3>1, FS_Subset
  <2>3. Cardinality(S \cap T) = 0
    BY <2>1, Zenon
  <2>4. PICK all : all = Cardinality(S \cup T)
    OBVIOUS
  <2>5. all = Cardinality(S) + Cardinality(T) - 0
    BY <2>1, <2>3, <2>4
  <2> QED BY <1>3, <2>2, <2>4, <2>5
<1> QED BY <1>2, <1>3, <1>4, FS_RemoveElement, FS_AddElement

(* No step but those of a thread at the key changes who loads or stores.   *)
LEMMA LoadStep == TypeOK /\ TypeOK' /\ LoadInv /\ [Next]_vars => LoadInv'
<1> SUFFICES ASSUME TypeOK, TypeOK', LoadInv, [Next]_vars, ~evicted',
                    NEW key \in Keys
             PROVE  /\ cache'[key] = None
                         => loads'[key] = Cardinality(Storing(key)')
                    /\ cache'[key] # None
                         => loads'[key] + Cardinality(Loading(key)')
                              <= Cardinality(Threads)
  BY Zenon DEF LoadInv
<1> DEFINE Kept ==
      /\ cache'[key] = None => loads'[key] = Cardinality(Storing(key)')
      /\ cache'[key] # None => loads'[key] + Cardinality(Loading(key)')
                                 <= Cardinality(Threads)
<1> SUFFICES Kept
  OBVIOUS
<1>1. CacheInv /\ thread \in [Threads -> Calls] /\ thread' \in [Threads -> Calls]
  BY CacheInvIsType DEF TypeOK, Calls
<1>2. loads[key] \in Nat /\ loads'[key] \in Nat
  BY DEF TypeOK
<1>3. PICK ls, ss, lt, st : /\ ls = Loading(key) /\ ss = Storing(key)
                            /\ lt = Loading(key)' /\ st = Storing(key)'
  OBVIOUS
<1>4. ls \subseteq Threads /\ ss \subseteq Threads /\ ls \cap ss = {}
  BY <1>3 DEF Loading, Storing
<1>5. ASSUME ~evicted
      PROVE  /\ cache[key] = None => loads[key] = Cardinality(ss)
             /\ cache[key] # None
                  => loads[key] + Cardinality(ls) <= Cardinality(Threads)
  BY <1>3, <1>5 DEF LoadInv
<1>6. ASSUME UNCHANGED evicted, UNCHANGED cache, UNCHANGED loads, lt = ls, st = ss
      PROVE  Kept
  BY <1>3, <1>5, <1>6
<1>7. ASSUME NEW th \in Threads, NEW t \in Tasks, Begin(th, t) PROVE Kept
  <2>1. lt = ls /\ st = ss
    BY <1>1, <1>3, <1>7 DEF Begin, Goto, Loading, Storing, Idle
  <2> QED BY <1>6, <1>7, <2>1 DEF Begin, cacheVars
<1>8. ASSUME NEW th \in Threads, Lookup(th) PROVE Kept
  <2>1. PICK t : t = thread[th].task
    OBVIOUS
  <2>2. evicted' = evicted /\ loads' = loads /\ cache' = cache /\ st = ss
    BY <1>1, <1>3, <1>8 DEF Lookup, Goto, At, Storing, Cache!Hit, Cache!Miss,
                            Cache!cacheVars
  <2>3. CASE KeyOf[t] # key \/ cache[key] # None
    <3>1. lt = ls
      BY <1>1, <1>3, <1>8, <2>1, <2>3
         DEF Lookup, Goto, At, Loading, Cache!Hit, Cache!Miss
    <3> QED BY <1>6, <2>2, <3>1
  <2>4. CASE cache[key] = None
    BY <1>3, <1>5, <2>2, <2>4
  <2> QED BY <2>3, <2>4
<1>9. ASSUME NEW th \in Threads, Load(th) PROVE Kept
  <2>1. PICK t : t = thread[th].task
    OBVIOUS
  <2>2. t \in Tasks /\ KeyOf[t] \in Keys
    BY <1>1, <1>9, <2>1, CallIs, PrefetchAssumption DEF Load, At
  <2>3. /\ evicted' = evicted /\ cache' = cache
        /\ loads' = [loads EXCEPT ![KeyOf[t]] = @ + 1]
        /\ thread[th].op = "load"
        /\ thread' = [thread EXCEPT ![th] =
                        [op |-> "put", task |-> t, data |-> DataFor(t)]]
    BY <1>9, <2>1 DEF Load, Goto, At, cacheVars
  <2>4. CASE KeyOf[t] # key
    <3>1. lt = ls /\ st = ss
      BY <1>1, <1>3, <2>1, <2>3, <2>4 DEF Loading, Storing
    <3>2. loads'[key] = loads[key]
      BY <2>2, <2>3, <2>4 DEF TypeOK
    <3> QED BY <1>3, <1>5, <2>3, <3>1, <3>2
  <2>5. CASE KeyOf[t] = key
    <3>1. /\ lt = ls \ {th} /\ st = ss \cup {th}
          /\ th \in ls /\ th \notin ss
      BY <1>1, <1>3, <2>1, <2>3, <2>5 DEF Loading, Storing
    <3>2. loads'[key] = loads[key] + 1
      BY <2>2, <2>3, <2>5 DEF TypeOK
    <3>3. /\ Cardinality(lt) = Cardinality(ls) - 1
          /\ Cardinality(st) = Cardinality(ss) + 1
          /\ Cardinality(ls) \in Nat /\ Cardinality(Threads) \in Nat
      BY <1>4, <3>1, Counts
    <3> QED BY <1>2, <1>3, <1>5, <2>3, <3>2, <3>3
  <2> QED BY <2>4, <2>5
<1>10. ASSUME NEW th \in Threads, LoadFails(th) PROVE Kept
  <2>1. /\ evicted' = evicted /\ cache' = cache /\ loads' = loads
        /\ thread[th].op = "load" /\ thread' = [thread EXCEPT ![th] = Idle]
    BY <1>10 DEF LoadFails, Goto, At, cacheVars
  <2>2. st = ss /\ lt = ls \ {th}
    BY <1>1, <1>3, <2>1 DEF Loading, Storing, Idle
  <2>3. /\ Cardinality(lt) \in Nat /\ Cardinality(ls) \in Nat
        /\ Cardinality(Threads) \in Nat /\ Cardinality(lt) <= Cardinality(ls)
    <3>1. th \notin ls => lt = ls
      BY <2>2
    <3>2. lt \in SUBSET Threads /\ ls \in SUBSET Threads
      BY <1>4, <2>2
    <3>3. Cardinality(lt) \in Nat /\ Cardinality(ls) \in Nat
          /\ Cardinality(Threads) \in Nat
      BY <3>2, Counts
    <3>4. th \in ls => Cardinality(lt) = Cardinality(ls) - 1
      BY <2>2, <3>2, Counts
    <3> QED BY <3>1, <3>3, <3>4
  <2> QED BY <1>2, <1>3, <1>5, <2>1, <2>2, <2>3
<1>11. ASSUME NEW th \in Threads, Store(th) PROVE Kept
  <2>1. PICK t, k, data : /\ t = thread[th].task /\ k = KeyOf[t]
                          /\ data = thread[th].data
    OBVIOUS
  <2>2. t \in Tasks /\ k \in Keys /\ data \in Data
    BY <1>1, <1>11, <2>1, CallIs, PrefetchAssumption DEF Store, At
  <2>3. /\ Cache!Put(k, data) /\ loads' = loads
        /\ evicted' = (evicted \/ Cache!Evicted(data) > 0)
        /\ thread[th].op = "put"
        /\ thread' = [thread EXCEPT ![th] = [op |-> "fetch", task |-> t]]
    BY <1>11, <2>1 DEF Store, Goto, At
  <2>4. ~evicted /\ ~ (Cache!Evicted(data) > 0)
    BY <2>3, Zenon
  <2>5. cache' = [cache EXCEPT ![k] = data]
    BY <1>1, <2>2, <2>3, <2>4, PutStep
  <2>6. lt = ls
    BY <1>1, <1>3, <2>3 DEF Loading
  <2>7. CASE k # key
    <3>1. st = ss /\ cache'[key] = cache[key]
      BY <1>1, <1>3, <2>1, <2>3, <2>5, <2>7 DEF Storing, CacheInv, Holds
    <3> QED BY <1>3, <1>5, <2>3, <2>4, <2>6, <3>1
  <2>8. CASE k = key
    <3>1. cache'[key] # None
      BY <1>1, <2>2, <2>5, <2>8, PrefetchAssumption DEF CacheInv, Holds
    <3>2. loads[key] + Cardinality(ls) <= Cardinality(Threads)
      <4>1. CASE cache[key] = None
        <5>1. loads[key] = Cardinality(ss)
          BY <1>5, <2>4, <4>1
        <5>2. Cardinality(ss) + Cardinality(ls) <= Cardinality(Threads)
          BY <1>4, Counts
        <5> QED BY <5>1, <5>2
      <4>2. CASE cache[key] # None
        BY <1>5, <2>4, <4>2
      <4> QED BY <4>1, <4>2
    <3> QED BY <1>3, <2>3, <2>6, <3>1, <3>2
  <2> QED BY <2>7, <2>8
<1>12. ASSUME NEW th \in Threads, Fetch(th) PROVE Kept
  <2>1. /\ evicted' = evicted /\ cache' = cache /\ loads' = loads
        /\ thread[th].op = "fetch" /\ thread' = [thread EXCEPT ![th] = Idle]
    BY <1>12 DEF Fetch, Goto, At, cacheVars
  <2>2. st = ss /\ lt = ls
    BY <1>1, <1>3, <2>1 DEF Loading, Storing, Idle
  <2> QED BY <1>6, <2>1, <2>2
<1>13. ASSUME NEW k \in Keys, Ingest(k) PROVE Kept
  BY <1>3, <1>6, <1>13 DEF Ingest, cacheVars, Loading, Storing
<1>14. ASSUME NEW k \in Keys, Invalidate(k) PROVE Kept
  BY <1>14 DEF Invalidate
<1>15. CASE Clear
  BY <1>15 DEF Clear
<1>16. CASE UNCHANGED vars
  BY <1>3, <1>6, <1>16 DEF vars, cacheVars, Loading, Storing
<1> HIDE DEF Kept
<1> QED BY <1>7, <1>8, <1>9, <1>10, <1>11, <1>12, <1>13, <1>14, <1>15, <1>16
        DEF Next

(* As long as nothing leaves the cache, the data of a key are loaded no    *)
(* more often than there are threads that can miss it at the same time     *)
(* (_prefetch_data has no lock between its lookup and its put).            *)
THEOREM LoadsAreBounded == Spec => []LoadedOncePerHandler
<1>1. Init => LoadInv
  <2> SUFFICES ASSUME Init, NEW key \in Keys
               PROVE  /\ cache[key] = None
                      /\ loads[key] = Cardinality(Storing(key))
    BY Zenon DEF LoadInv
  <2>1. Storing(key) = {}
    BY DEF Init, Storing, Idle
  <2> QED BY <2>1, FS_EmptySet DEF Init, Cache!Init
<1>2. TypeOK /\ LoadInv => LoadedOncePerHandler
  <2> SUFFICES ASSUME TypeOK, LoadInv, ~evicted, NEW key \in Keys
               PROVE  loads[key] <= Cardinality(Threads)
    BY Zenon DEF LoadedOncePerHandler
  <2>1. Loading(key) \in SUBSET Threads /\ Storing(key) \in SUBSET Threads
    BY DEF Loading, Storing
  <2>2. PICK ls, ss : ls = Loading(key) /\ ss = Storing(key)
    OBVIOUS
  <2>3. /\ Cardinality(Threads) \in Nat /\ loads[key] \in Nat
        /\ Cardinality(ls) \in Nat
        /\ Cardinality(ss) \in Nat /\ Cardinality(ss) <= Cardinality(Threads)
    <3>1. IsFiniteSet(Threads)
      BY PrefetchAssumption
    <3>2. IsFiniteSet(ls) /\ IsFiniteSet(ss)
      BY <2>1, <2>2, <3>1, FS_Subset
    <3> QED BY <2>1, <2>2, <3>1, <3>2, FS_Subset, FS_CardinalityType DEF TypeOK
  <2>4. CASE cache[key] = None
    BY <2>2, <2>3, <2>4 DEF LoadInv
  <2>5. CASE cache[key] # None
    BY <2>2, <2>3, <2>5 DEF LoadInv
  <2> QED BY <2>4, <2>5
<1> QED BY <1>1, <1>2, LoadStep, TypeCorrect, PTL DEF Spec

-----------------------------------------------------------------------------
(* Whose data is delivered.                                                *)

LEMMA VersionStep == TypeOK /\ TypeOK' /\ VersionInv /\ [Next]_vars => VersionInv'
<1> SUFFICES ASSUME TypeOK, TypeOK', VersionInv, [Next]_vars PROVE VersionInv'
  OBVIOUS
<1>1. CacheInv /\ thread \in [Threads -> Calls] /\ thread' \in [Threads -> Calls]
  BY CacheInvIsType DEF TypeOK, Calls
<1>2. ASSUME \A key \in Keys : storage'[key] \in Versions[key],
             \A key \in Keys : OnlyFromStorage(key) =>
               cache'[key] \in Versions[key] \cup {None},
             \A key \in Keys : OnlyFromStorage(key) =>
               \A th \in Storing(key)' : thread'[th].data \in Versions[key],
             \A t \in Tasks : OnlyFromStorage(KeyOf[t]) =>
               delivered'[t] \in Versions[KeyOf[t]] \cup {None}
      PROVE  VersionInv'
  BY <1>2, Zenon DEF VersionInv, OnlyFromStorage
<1>3. /\ \A key \in Keys : storage[key] \in Versions[key]
      /\ \A key \in Keys : OnlyFromStorage(key) =>
           cache[key] \in Versions[key] \cup {None}
      /\ \A key \in Keys : OnlyFromStorage(key) =>
           \A th \in Storing(key) : thread[th].data \in Versions[key]
      /\ \A t \in Tasks : OnlyFromStorage(KeyOf[t]) =>
           delivered[t] \in Versions[KeyOf[t]] \cup {None}
  BY Zenon DEF VersionInv
<1>4. ASSUME NEW th \in Threads,
             \A u \in Threads \ {th} : thread'[u] = thread[u],
             thread'[th].op # "put"
      PROVE  \A key \in Keys : OnlyFromStorage(key) =>
               \A u \in Storing(key)' : thread'[u].data \in Versions[key]
  <2> SUFFICES ASSUME NEW key \in Keys, OnlyFromStorage(key),
                      NEW u \in Storing(key)'
               PROVE  thread'[u].data \in Versions[key]
    OBVIOUS
  <2>1. u \in Threads /\ u # th
    BY <1>4 DEF Storing
  <2>2. thread'[u] = thread[u] /\ u \in Storing(key)
    BY <1>4, <2>1 DEF Storing
  <2> QED BY <1>3, <2>2
<1>5. ASSUME NEW th \in Threads, NEW t \in Tasks, Begin(th, t) PROVE VersionInv'
  <2>1. /\ \A u \in Threads \ {th} : thread'[u] = thread[u]
        /\ thread'[th].op # "put"
    BY <1>1, <1>5 DEF Begin, Goto
  <2> QED BY <1>2, <1>3, <1>4, <1>5, <2>1 DEF Begin, cacheVars
<1>6. ASSUME NEW th \in Threads, Lookup(th) PROVE VersionInv'
  <2>1. /\ \A u \in Threads \ {th} : thread'[u] = thread[u]
        /\ thread'[th].op # "put"
    BY <1>1, <1>6 DEF Lookup, Goto
  <2>2. cache' = cache
    BY <1>6 DEF Lookup, Cache!Hit, Cache!Miss, Cache!cacheVars
  <2> QED BY <1>2, <1>3, <1>4, <1>6, <2>1, <2>2 DEF Lookup
<1>7. ASSUME NEW th \in Threads, Load(th) PROVE VersionInv'
  <2>1. PICK t : t = thread[th].task
    OBVIOUS
  <2>2. t \in Tasks /\ KeyOf[t] \in Keys
    BY <1>1, <1>7, <2>1, CallIs, PrefetchAssumption DEF Load, At
  <2>3. thread' = [thread EXCEPT ![th] =
                     [op |-> "put", task |-> t, data |-> DataFor(t)]]
    BY <1>7, <2>1 DEF Load, Goto
  <2>4. ASSUME NEW key \in Keys, OnlyFromStorage(key), NEW u \in Storing(key)'
        PROVE  thread'[u].data \in Versions[key]
    <3>1. CASE u = th
      <4>1. KeyOf[t] = key /\ thread'[u].data = DataFor(t)
        BY <1>1, <2>3, <2>4, <3>1 DEF Storing
      <4>2. DataFor(t) = storage[key]
        BY <2>2, <2>4, <4>1 DEF OnlyFromStorage, DataFor
      <4> QED BY <1>3, <4>1, <4>2
    <3>2. CASE u # th
      <4>1. thread'[u] = thread[u] /\ u \in Storing(key)
        BY <1>1, <2>3, <2>4, <3>2 DEF Storing
      <4> QED BY <1>3, <2>4, <4>1
    <3> QED BY <3>1, <3>2
  <2> QED BY <1>2, <1>3, <1>7, <2>4 DEF Load, cacheVars
<1>8. ASSUME NEW th \in Threads, LoadFails(th) PROVE VersionInv'
  <2>1. /\ \A u \in Threads \ {th} : thread'[u] = thread[u]
        /\ thread'[th].op # "put"
    BY <1>1, <1>8 DEF LoadFails, Goto, Idle
  <2> QED BY <1>2, <1>3, <1>4, <1>8, <2>1 DEF LoadFails, cacheVars
<1>9. ASSUME NEW th \in Threads, Store(th) PROVE VersionInv'
  <2>1. PICK t, k, data : /\ t = thread[th].task /\ k = KeyOf[t]
                          /\ data = thread[th].data
    OBVIOUS
  <2>2. t \in Tasks /\ k \in Keys /\ data \in Data
    BY <1>1, <1>9, <2>1, CallIs, PrefetchAssumption DEF Store, At
  <2>3. /\ \A u \in Threads \ {th} : thread'[u] = thread[u]
        /\ thread'[th].op # "put"
    BY <1>1, <1>9 DEF Store, Goto
  <2>4. /\ cache'[k] = data
        /\ \A key \in Keys \ {k} : cache'[key] \in {cache[key], None}
    BY <1>1, <1>9, <2>1, <2>2, PutStep DEF Store
  <2>5. th \in Storing(k)
    BY <1>9, <2>1 DEF Storing, Store, At
  <2>6. ASSUME NEW key \in Keys, OnlyFromStorage(key)
        PROVE  cache'[key] \in Versions[key] \cup {None}
    BY <1>3, <2>1, <2>4, <2>5, <2>6
  <2> QED BY <1>2, <1>3, <1>4, <1>9, <2>3, <2>6 DEF Store
<1>10. ASSUME NEW th \in Threads, Fetch(th) PROVE VersionInv'
  <2>1. /\ \A u \in Threads \ {th} : thread'[u] = thread[u]
        /\ thread'[th].op # "put"
    BY <1>1, <1>10 DEF Fetch, Goto, Idle
  <2>2. PICK t : t = thread[th].task
    OBVIOUS
  <2>3. t \in Tasks /\ KeyOf[t] \in Keys
    BY <1>1, <1>10, <2>2, CallIs, PrefetchAssumption DEF Fetch, At
  <2>4. delivered' = [delivered EXCEPT ![t] = cache[KeyOf[t]]]
    BY <1>10, <2>2 DEF Fetch
  <2>5. ASSUME NEW u \in Tasks, OnlyFromStorage(KeyOf[u])
        PROVE  delivered'[u] \in Versions[KeyOf[u]] \cup {None}
    <3>1. CASE u = t
      BY <1>3, <2>3, <2>4, <2>5, <3>1 DEF TypeOK
    <3>2. CASE u # t
      BY <1>3, <2>4, <2>5, <3>2 DEF TypeOK
    <3> QED BY <3>1, <3>2
  <2> QED BY <1>2, <1>3, <1>4, <1>10, <2>1, <2>5 DEF Fetch, cacheVars
<1>11. ASSUME cache' = cache \/ \A key \in Keys : cache'[key] \in {cache[key], None},
              \A key \in Keys : storage'[key] \in Versions[key],
              UNCHANGED <<thread, delivered>>
       PROVE  VersionInv'
  <2>1. \A key \in Keys : OnlyFromStorage(key) =>
          cache'[key] \in Versions[key] \cup {None}
    BY <1>3, <1>11
  <2>2. \A key \in Keys : OnlyFromStorage(key) =>
          \A th \in Storing(key)' : thread'[th].data \in Versions[key]
    BY <1>3, <1>11 DEF Storing
  <2> QED BY <1>2, <1>3, <1>11, <2>1, <2>2
<1>12. ASSUME NEW key \in Keys, Ingest(key) PROVE VersionInv'
  <2>1. PICK data \in Versions[key] \ {storage[key]} :
          storage' = [storage EXCEPT ![key] = data]
    BY <1>12 DEF Ingest
  <2>2. \A k \in Keys : storage'[k] \in Versions[k]
    BY <1>3, <2>1 DEF TypeOK
  <2> QED BY <1>11, <1>12, <2>2 DEF Ingest, cacheVars
<1>13. ASSUME NEW key \in Keys, Invalidate(key) PROVE VersionInv'
  <2>1. cache' = [cache EXCEPT ![key] = None]
    BY <1>1, <1>13, InvalidateStep DEF Invalidate
  <2>2. \A k \in Keys : cache'[k] \in {cache[k], None}
    BY <1>1, <2>1 DEF CacheInv, Holds
  <2> QED BY <1>3, <1>11, <1>13, <2>2 DEF Invalidate
<1>14. CASE Clear
  <2>1. \A k \in Keys : cache'[k] \in {cache[k], None}
    BY <1>14 DEF Clear, Cache!Clear
  <2> QED BY <1>3, <1>11, <1>14, <2>1 DEF Clear
<1>15. CASE UNCHANGED vars
  BY <1>3, <1>11, <1>15 DEF vars, cacheVars
<1> QED BY <1>5, <1>6, <1>7, <1>8, <1>9, <1>10, <1>12, <1>13, <1>14, <1>15
        DEF Next

(* Whatever is evicted, replaced or ingested between the lookup of a       *)
(* handler and its fetch, a task that names symbols, whose key no task     *)
(* with inline data shares, is handed a version of its own data            *)
(* (_prefetch_data and _prepare_assignment).                               *)
THEOREM DataIsOwn == Spec => []StorageDataIsOwn
<1>1. Init => VersionInv
  BY DEF Init, Cache!Init, VersionInv, Storing, Idle
<1>2. VersionInv => StorageDataIsOwn
  BY DEF VersionInv, StorageDataIsOwn
<1> QED BY <1>1, <1>2, VersionStep, TypeCorrect, PTL DEF Spec
=============================================================================
