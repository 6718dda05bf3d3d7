-------------------------- MODULE ExpiringLruProofs --------------------------
(***************************************************************************)
(* What the operations of the bounded map do to its set of entries, for    *)
(* maps of every size and entries of every type S with keys and expiries.  *)
(***************************************************************************)
EXTENDS ExpiringLru, TLAPS, WellFoundedInduction

\* Dropping one position of a map without repeated keys drops that entry only.
LEMMA RemoveAtDrops ==
  ASSUME NEW S, NEW es \in Seq(S), NEW i \in DOMAIN es, OneEntryEach(es)
  PROVE  /\ RemoveAt(es, i) \in Seq(S)
         /\ Len(RemoveAt(es, i)) = Len(es) - 1
         /\ OneEntryEach(RemoveAt(es, i))
         /\ ToSet(RemoveAt(es, i)) = ToSet(es) \ {es[i]}
<1> DEFINE new == RemoveAt(es, i)
           from(j) == IF j < i THEN j ELSE j + 1
<1>1. i \in 1..Len(es) /\ Len(es) \in Nat
  OBVIOUS
<1>2. /\ new \in Seq(S) /\ Len(new) = Len(es) - 1
      /\ \A j \in 1..(Len(es) - 1) : new[j] = es[from(j)]
  <2> DEFINE a == SubSeq(es, 1, i - 1)
             b == SubSeq(es, i + 1, Len(es))
  <2>1. a \in Seq(S) /\ Len(a) = i - 1 /\ \A j \in 1..(i - 1) : a[j] = es[j]
    BY <1>1
  <2>2. /\ b \in Seq(S) /\ Len(b) = Len(es) - i
        /\ \A j \in 1..(Len(es) - i) : b[j] = es[i + j]
    BY <1>1
  <2>3. /\ a \o b \in Seq(S) /\ Len(a \o b) = Len(es) - 1
        /\ \A j \in 1..(Len(es) - 1) :
             (a \o b)[j] = IF j <= Len(a) THEN a[j] ELSE b[j - Len(a)]
    <3> HIDE DEF a, b
    <3>1. a \in Seq(S) /\ b \in Seq(S)
      BY <2>1, <2>2
    <3>2. Len(a) + Len(b) = Len(es) - 1
      BY <1>1, <2>1, <2>2
    <3>3. /\ a \o b \in Seq(S) /\ Len(a \o b) = Len(a) + Len(b)
          /\ \A j \in 1..(Len(a) + Len(b)) :
               (a \o b)[j] = IF j <= Len(a) THEN a[j] ELSE b[j - Len(a)]
      BY <3>1
    <3> QED BY <3>2, <3>3
  <2>4. \A j \in 1..(Len(es) - 1) : (a \o b)[j] = es[from(j)]
    <3> HIDE DEF a, b
    <3> SUFFICES ASSUME NEW j \in 1..(Len(es) - 1) PROVE (a \o b)[j] = es[from(j)]
      OBVIOUS
    <3>1. CASE j < i
      BY <1>1, <2>1, <2>3, <3>1
    <3>2. CASE ~(j < i)
      <4>1. j - Len(a) \in 1..(Len(es) - i) /\ i + (j - Len(a)) = j + 1
        BY <1>1, <2>1, <3>2
      <4>2. (a \o b)[j] = b[j - Len(a)]
        BY <1>1, <2>1, <2>3, <3>2
      <4>3. b[j - Len(a)] = es[i + (j - Len(a))]
        BY <2>2, <4>1
      <4> QED BY <3>2, <4>1, <4>2, <4>3
    <3> QED BY <3>1, <3>2
  <2> QED BY <2>3, <2>4 DEF RemoveAt
<1>3. DOMAIN new = 1..(Len(es) - 1)
  BY <1>1, <1>2
<1>4. \A j \in DOMAIN new : new[j] = es[from(j)] /\ from(j) \in DOMAIN es /\ from(j) # i
  BY <1>1, <1>2, <1>3
<1>5. OneEntryEach(new)
  <2>1. \A j, k \in DOMAIN new : from(j) = from(k) => j = k
    BY <1>1, <1>3
  <2> QED BY <2>1, <1>4 DEF OneEntryEach
<1>6. ToSet(new) \subseteq ToSet(es) \ {es[i]}
  <2> SUFFICES ASSUME NEW j \in DOMAIN new PROVE new[j] \in ToSet(es) \ {es[i]}
    BY DEF ToSet
  <2>1. new[j] = es[from(j)] /\ from(j) \in DOMAIN es /\ from(j) # i
    BY <1>4
  <2>2. es[from(j)] # es[i]
    BY <2>1 DEF OneEntryEach
  <2> QED BY <2>1, <2>2 DEF ToSet
<1>7. ToSet(es) \ {es[i]} \subseteq ToSet(new)
  <2> SUFFICES ASSUME NEW j \in DOMAIN es, es[j] # es[i] PROVE es[j] \in ToSet(new)
    BY DEF ToSet
  <2> DEFINE k == IF j < i THEN j ELSE j - 1
  <2>1. k \in DOMAIN new /\ from(k) = j
    BY <1>1, <1>3
  <2>2. new[k] = es[j]
    BY <2>1, <1>4
  <2> QED BY <2>1, <2>2 DEF ToSet
<1> QED BY <1>2, <1>5, <1>6, <1>7

\* Adding an entry under a key that is not there.
LEMMA AppendAdds ==
  ASSUME NEW S, NEW es \in Seq(S), NEW e \in S, OneEntryEach(es),
         \A x \in ToSet(es) : x.key # e.key
  PROVE  /\ Append(es, e) \in Seq(S) /\ Len(Append(es, e)) = Len(es) + 1
         /\ OneEntryEach(Append(es, e))
         /\ ToSet(Append(es, e)) = ToSet(es) \cup {e}
<1> DEFINE new == Append(es, e)
<1>1. /\ new \in Seq(S) /\ Len(new) = Len(es) + 1 /\ Len(es) \in Nat
      /\ DOMAIN new = 1..(Len(es) + 1) /\ DOMAIN es = 1..Len(es)
      /\ \A j \in 1..Len(es) : new[j] = es[j]
      /\ new[Len(es) + 1] = e
  OBVIOUS
<1>2. \A j \in 1..Len(es) : es[j].key # e.key
  BY <1>1 DEF ToSet
<1>3. \A j \in DOMAIN new : j \in 1..Len(es) \/ j = Len(es) + 1
  BY <1>1
<1>4. OneEntryEach(new)
  BY <1>1, <1>2, <1>3 DEF OneEntryEach
<1>5. ToSet(new) = ToSet(es) \cup {e}
  BY <1>1, <1>3 DEF ToSet
<1> QED BY <1>1, <1>4, <1>5

\* What a key of the map stands for.
LEMMA PositionFinds ==
  ASSUME NEW S, NEW es \in Seq(S), NEW k \in LruKeys(es), OneEntryEach(es)
  PROVE  /\ Position(es, k) \in DOMAIN es /\ es[Position(es, k)].key = k
         /\ es[Position(es, k)] \in ToSet(es)
         /\ \A e \in ToSet(es) : e.key = k => e = es[Position(es, k)]
<1>1. Position(es, k) \in DOMAIN es /\ es[Position(es, k)].key = k
  BY DEF Position, LruKeys
<1> QED BY <1>1 DEF OneEntryEach, ToSet

LEMMA KeysAreEntries ==
  ASSUME NEW es, NEW k
  PROVE  k \in LruKeys(es) <=> \E e \in ToSet(es) : e.key = k
BY DEF LruKeys, ToSet

LEMMA LiveIsEntry ==
  ASSUME NEW es, NEW k, NEW now
  PROVE  HasLive(es, k, now) <=> \E e \in ToSet(es) : e.key = k /\ e.exp > now
BY DEF HasLive, ToSet

\* A delete leaves all other entries.
LEMMA WithoutDeletes ==
  ASSUME NEW S, NEW es \in Seq(S), NEW k, OneEntryEach(es)
  PROVE  /\ Without(es, k) \in Seq(S) /\ Len(Without(es, k)) <= Len(es)
         /\ OneEntryEach(Without(es, k))
         /\ ToSet(Without(es, k)) = {e \in ToSet(es) : e.key # k}
         /\ k \in LruKeys(es) => Len(Without(es, k)) = Len(es) - 1
<1>1. CASE k \notin LruKeys(es)
  <2>1. \A e \in ToSet(es) : e.key # k
    BY <1>1, KeysAreEntries
  <2> QED BY <1>1, <2>1 DEF Without
<1>2. CASE k \in LruKeys(es)
  <2> DEFINE p == Position(es, k)
  <2>1. /\ p \in DOMAIN es /\ es[p].key = k
        /\ \A e \in ToSet(es) : e.key = k => e = es[p]
    BY <1>2, PositionFinds
  <2>2. /\ RemoveAt(es, p) \in Seq(S) /\ Len(RemoveAt(es, p)) = Len(es) - 1
        /\ OneEntryEach(RemoveAt(es, p))
        /\ ToSet(RemoveAt(es, p)) = ToSet(es) \ {es[p]}
    BY <2>1, RemoveAtDrops
  <2>3. Without(es, k) = RemoveAt(es, p)
    BY <1>2 DEF Without
  <2>4. ToSet(es) \ {es[p]} = {e \in ToSet(es) : e.key # k}
    BY <2>1
  <2> QED BY <2>2, <2>3, <2>4
<1> QED BY <1>1, <1>2

\* A get drops the entry of its key if that has lapsed and changes no other.
LEMMA GetKeeps ==
  ASSUME NEW S, NEW es \in Seq(S), NEW k, NEW now, OneEntryEach(es)
  PROVE  /\ AfterGet(es, k, now) \in Seq(S) /\ Len(AfterGet(es, k, now)) <= Len(es)
         /\ OneEntryEach(AfterGet(es, k, now))
         /\ ToSet(AfterGet(es, k, now)) = {e \in ToSet(es) : e.key # k \/ e.exp > now}
<1> DEFINE rest == Without(es, k)
<1>1. /\ rest \in Seq(S) /\ Len(rest) <= Len(es) /\ OneEntryEach(rest)
      /\ ToSet(rest) = {e \in ToSet(es) : e.key # k}
      /\ k \in LruKeys(es) => Len(rest) = Len(es) - 1
  BY WithoutDeletes
<1>2. CASE ~HasLive(es, k, now)
  <2>1. \A e \in ToSet(es) : e.key = k => ~(e.exp > now)
    BY <1>2, LiveIsEntry
  <2>2. {e \in ToSet(es) : e.key # k} = {e \in ToSet(es) : e.key # k \/ e.exp > now}
    BY <2>1
  <2> QED BY <1>1, <1>2, <2>2 DEF AfterGet
<1>3. CASE HasLive(es, k, now)
  <2> DEFINE found == es[Position(es, k)]
  <2>1. PICK e \in ToSet(es) : e.key = k /\ e.exp > now
    BY <1>3, LiveIsEntry
  <2>2. k \in LruKeys(es)
    BY <2>1, KeysAreEntries
  <2>3. found = e
    BY <2>1, <2>2, PositionFinds
  <2>4. \A x \in ToSet(es) : x.key = k => x = e
    BY <2>2, <2>3, PositionFinds
  <2>5. found \in S
    BY <2>1, <2>3 DEF ToSet
  <2>6. /\ Append(rest, found) \in Seq(S) /\ Len(Append(rest, found)) = Len(rest) + 1
        /\ OneEntryEach(Append(rest, found))
        /\ ToSet(Append(rest, found)) = ToSet(rest) \cup {found}
    <3>1. \A x \in ToSet(rest) : x.key # found.key
      BY <1>1, <2>1, <2>3
    <3> QED BY <1>1, <2>5, <3>1, AppendAdds
  <2>7. ToSet(rest) \cup {found} = {x \in ToSet(es) : x.key # k \/ x.exp > now}
    BY <1>1, <2>1, <2>3, <2>4
  <2>8. Len(rest) = Len(es) - 1 /\ Len(es) \in Nat
    BY <1>1, <2>2
  <2> QED BY <1>3, <2>6, <2>7, <2>8 DEF AfterGet
<1> QED BY <1>2, <1>3

\* The value a get returns is that of a live entry of its key.
LEMMA GetReturns ==
  ASSUME NEW S, NEW es \in Seq(S), NEW k, NEW now, OneEntryEach(es), HasLive(es, k, now)
  PROVE  \E e \in ToSet(es) : e.key = k /\ e.exp > now /\ ValueOf(es, k) = e.val
<1>1. PICK e \in ToSet(es) : e.key = k /\ e.exp > now
  BY LiveIsEntry
<1>2. k \in LruKeys(es)
  BY <1>1, KeysAreEntries
<1>3. es[Position(es, k)] = e
  BY <1>1, <1>2, PositionFinds
<1> QED BY <1>1, <1>3 DEF ValueOf

\* A set of natural numbers has a least element.
LEMMA LeastExists ==
  ASSUME NEW T, T \subseteq Nat, T # {}
  PROVE  \E i \in T : \A j \in T : i <= j
<1>1. PICK i \in T : \A j \in T : ~(<<j, i>> \in OpToRel(<, Nat))
  BY WFMin, NatLessThanWellFounded
<1>2. \A j \in T : <<j, i>> \in Nat \X Nat
  OBVIOUS
<1>3. \A j \in T : ~(j < i)
  BY <1>1, <1>2 DEF OpToRel
<1> QED BY <1>3

\* Eviction takes an entry of the map; if it is live, nothing the eviction
\* looked at had lapsed.
LEMMA VictimIsEntry ==
  ASSUME NEW S, NEW es \in Seq(S), es # << >>, NEW now
  PROVE  /\ Victim(es, now) \in DOMAIN es
         /\ Victim(es, now) = 1 \/ es[Victim(es, now)].exp <= now
<1> DEFINE lapsed == {i \in DOMAIN es : i <= EvictionScan /\ es[i].exp <= now}
<1>1. CASE lapsed = {}
  BY <1>1 DEF Victim
<1>2. CASE lapsed # {}
  <2>1. lapsed \subseteq Nat
    OBVIOUS
  <2>2. \E i \in lapsed : \A j \in lapsed : i <= j
    BY <1>2, <2>1, LeastExists
  <2>3. Victim(es, now) \in lapsed
    BY <1>2, <2>2 DEF Victim
  <2> QED BY <2>3
<1> QED BY <1>1, <1>2

\* A set keeps the map within its size, stores the new entry unless it has
\* lapsed, and pushes out at most one other, which has lapsed or is displaced.
LEMMA SetStores ==
  ASSUME NEW S, NEW es \in Seq(S), NEW k, NEW v, NEW exp \in Int, NEW now \in Int,
         NEW max \in Nat \ {0}, WithinSize(es, max),
         NEW new \in S, new = [key |-> k, val |-> v, exp |-> exp],
         NEW after, after = AfterSet(es, k, v, exp, now, max)
  PROVE  /\ after \in Seq(S) /\ WithinSize(after, max)
         /\ ToSet(after) \subseteq {e \in ToSet(es) : e.key # k} \cup {new}
         /\ exp > now => new \in ToSet(after)
         /\ ~(exp > now) => ToSet(after) = {e \in ToSet(es) : e.key # k}
         /\ \A e \in ToSet(es) :
              \/ e.key = k \/ e \in ToSet(after)
              \/ ~(e.exp > now)
              \/ e.key \in Displaced(es, k, v, exp, now, max)
<1> DEFINE others == {e \in ToSet(es) : e.key # k}
           rest   == Without(es, k)
           all    == WithEntry(es, k, v, exp)
<1>1. /\ rest \in Seq(S) /\ Len(rest) <= Len(es) /\ OneEntryEach(rest)
      /\ ToSet(rest) = others
  BY WithoutDeletes DEF WithinSize
<1>2. Len(es) \in Nat /\ Len(rest) \in Nat /\ Len(rest) <= max
  BY <1>1 DEF WithinSize
<1>3. CASE exp <= now
  <2>1. after = rest
    BY <1>3 DEF AfterSet
  <2> QED BY <1>1, <1>2, <1>3, <2>1 DEF WithinSize
<1>4. CASE exp > now
  <2>1. /\ all \in Seq(S) /\ Len(all) = Len(rest) + 1 /\ OneEntryEach(all)
        /\ ToSet(all) = others \cup {new}
    <3>1. \A x \in ToSet(rest) : x.key # new.key
      BY <1>1
    <3> QED BY <1>1, <3>1, AppendAdds DEF WithEntry
  <2>2. CASE Len(all) <= max
    <3>1. after = all
      BY <1>4, <2>1, <2>2, <1>2 DEF AfterSet
    <3> QED BY <1>4, <2>1, <2>2, <3>1 DEF WithinSize
  <2>3. CASE Len(all) > max
    <3> DEFINE w == Victim(all, now)
    <3>1. all # << >> /\ Len(all) = max + 1 /\ Len(all) \in Nat
      BY <1>2, <2>1, <2>3
    <3>2. w \in DOMAIN all /\ (w = 1 \/ all[w].exp <= now)
      BY <2>1, <3>1, VictimIsEntry
    <3>3. after = RemoveAt(all, w)
      BY <1>4, <2>3 DEF AfterSet
    <3>4. /\ after \in Seq(S) /\ Len(after) = max /\ OneEntryEach(after)
          /\ ToSet(after) = ToSet(all) \ {all[w]}
      BY <2>1, <3>1, <3>2, <3>3, RemoveAtDrops
    <3>5. all[w] # new
      <4>1. all[Len(all)] = new /\ Len(all) \in DOMAIN all
        BY <1>1, <1>2, <2>1 DEF WithEntry
      <4>2. CASE w = 1
        <5>1. w # Len(all)
          BY <3>1, <4>2
        <5>2. all[w].key # all[Len(all)].key
          BY <2>1, <3>2, <4>1, <5>1 DEF OneEntryEach
        <5> QED BY <4>1, <5>2
      <4>3. CASE all[w].exp <= now
        BY <1>4, <4>3
      <4> QED BY <3>2, <4>2, <4>3
    <3>6. Displaced(es, k, v, exp, now, max)
            = IF all[w].exp > now THEN {all[w].key} ELSE {}
      BY <1>4, <2>3 DEF Displaced
    <3>7. \A e \in others : e \in ToSet(after) \/ e = all[w]
      BY <2>1, <3>4
    <3> QED BY <1>4, <2>1, <3>4, <3>5, <3>6, <3>7 DEF WithinSize
  <2> QED BY <2>1, <2>2, <2>3, <1>2
<1>5. exp <= now \/ exp > now
  OBVIOUS
<1> HIDE DEF rest, all
<1> QED BY <1>3, <1>4, <1>5

\* The same of a map from K to V, in the form it is used.
LEMMA EntryStored ==
  ASSUME NEW K, NEW V, NEW es \in Seq(LruEntry(K, V)), NEW k \in K, NEW v \in V,
         NEW exp \in Int, NEW t \in Int, NEW max \in Nat \ {0}, WithinSize(es, max)
  PROVE  LET new   == [key |-> k, val |-> v, exp |-> exp]
             after == AfterSet(es, k, v, exp, t, max)
         IN
         /\ after \in Seq(LruEntry(K, V)) /\ WithinSize(after, max)
         /\ ToSet(after) \subseteq {e \in ToSet(es) : e.key # k} \cup {new}
         /\ exp > t => new \in ToSet(after)
         /\ \A e \in ToSet(es) :
              \/ e.key = k \/ e \in ToSet(after)
              \/ ~(e.exp > t)
              \/ e.key \in Displaced(es, k, v, exp, t, max)
<1> DEFINE new   == [key |-> k, val |-> v, exp |-> exp]
           after == AfterSet(es, k, v, exp, t, max)
<1>1. new \in LruEntry(K, V)
  BY DEF LruEntry
<1> HIDE DEF after
<1>2. after = AfterSet(es, k, v, exp, t, max)
  BY DEF after
<1> QED BY <1>1, <1>2, SetStores
=============================================================================
