----------------------------- MODULE ExpiringLru -----------------------------
(***************************************************************************)
(* The bounded map of src/src/lru.ts: a JavaScript Map iterates in         *)
(* insertion order, so it is the sequence of its entries, the least        *)
(* recently used first.  Each operator gives what an operation leaves, or  *)
(* returns; `now` is the clock it reads and `max` the map's size.          *)
(***************************************************************************)
EXTENDS Integers, Sequences, FiniteSets, SequencesExt

CONSTANT EvictionScan  \* how many entries eviction looks at for a lapsed one

ASSUME ScanAssumption == EvictionScan \in Nat \ {0}

LruEntry(K, V) == [key : K, val : V, exp : Int]

LruKeys(es) == {es[i].key : i \in DOMAIN es}

Position(es, k) == CHOOSE i \in DOMAIN es : es[i].key = k

\* A map has one entry for a key, and a bounded one at most max entries.
OneEntryEach(es) == \A i, j \in DOMAIN es : es[i].key = es[j].key => i = j
WithinSize(es, max) == OneEntryEach(es) /\ Len(es) <= max

\* delete
Without(es, k) == IF k \in LruKeys(es) THEN RemoveAt(es, Position(es, k)) ELSE es

\* get returns a value ...
HasLive(es, k, now) == \E i \in DOMAIN es : es[i].key = k /\ es[i].exp > now

ValueOf(es, k) == es[Position(es, k)].val

\* ... and leaves the entry as the most recently used, or drops it if it has lapsed.
AfterGet(es, k, now) ==
  IF HasLive(es, k, now)
  THEN Append(Without(es, k), es[Position(es, k)])
  ELSE Without(es, k)

\* #evictOne: the first lapsed entry among the oldest few, else the oldest.
Victim(es, now) ==
  LET lapsed == {i \in DOMAIN es : i <= EvictionScan /\ es[i].exp <= now}
  IN  IF lapsed = {} THEN 1 ELSE CHOOSE i \in lapsed : \A j \in lapsed : i <= j

\* set: an entry that has lapsed already only deletes the old one.  One
\* eviction is enough, for the map was within its size before.
WithEntry(es, k, v, exp) == Append(Without(es, k), [key |-> k, val |-> v, exp |-> exp])

AfterSet(es, k, v, exp, now, max) ==
  LET all == WithEntry(es, k, v, exp) IN
  IF exp <= now THEN Without(es, k)
  ELSE IF Len(all) > max THEN RemoveAt(all, Victim(all, now))
  ELSE all

\* The keys whose live entries a set pushes out.
Displaced(es, k, v, exp, now, max) ==
  LET all == WithEntry(es, k, v, exp)
      out == all[Victim(all, now)]
  IN  IF exp > now /\ Len(all) > max /\ out.exp > now THEN {out.key} ELSE {}
=============================================================================
