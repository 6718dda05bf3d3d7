---------------------------- MODULE AccessProofs ----------------------------
(***************************************************************************)
(* Proofs about what a client of a hosted server may do.                   *)
(*                                                                         *)
(* RateLimits: no key takes more of a limit than its burst and its rate    *)
(* allow, for any users and clients, any prices and bursts and maps of any *)
(* size.  A bucket that has expired or was never there counts as full.     *)
(* That it may, rests on the time at which it expires: by then it is full  *)
(* again (FillsInTime), so that nothing is gained by forgetting it.        *)
(*                                                                         *)
(* Permissions: no scope is asked for a second time in vain, for any       *)
(* accounts, registrations and requests.                                   *)
(***************************************************************************)
EXTENDS RateLimits, Permissions, ExpiringLruProofs, FiniteSetTheorems

BucketEntry(l) == LruEntry(KeysOf(l), [tokens : Nat, updatedAt : Nat])

RateTypeOK ==
  /\ tick \in Nat /\ taken \in Nat /\ lost \in BOOLEAN
  /\ watched.limit \in Limit /\ watched.key \in KeysOf(watched.limit) /\ watched.since \in Nat
  /\ \A l \in Limit : buckets[l] \in Seq(BucketEntry(l)) /\ WithinSize(buckets[l], MaxKeys)

\* An entry expires when its bucket is full again, not before.
FillsInTime ==
  \A l \in Limit : \A e \in ToSet(buckets[l]) :
    e.val.tokens <= Full[l] /\ e.val.updatedAt <= tick /\ e.exp = e.val.updatedAt + Full[l]

\* The live entries of the key that is watched.
Live == {e \in ToSet(buckets[watched.limit]) : e.key = watched.key /\ e.exp > tick}

Since == tick - watched.since

\* What was taken and what is left is what the limit has given.
Balance ==
  /\ tick < watched.since => taken = 0 /\ ~lost
  /\ tick >= watched.since /\ ~lost =>
       /\ \A e \in Live : taken + TokensIn(watched.limit, e.val) <= Full[watched.limit] + Since
       /\ Live = {} => taken <= Since

RateInv == RateTypeOK /\ FillsInTime /\ Balance /\ LostToMany

-----------------------------------------------------------------------------
(* A bucket *)

LEMMA LimitNumbers ==
  ASSUME NEW l \in Limit
  PROVE  Price[l] \in Nat \ {0} /\ Full[l] \in Nat \ {0} /\ Price[l] <= Full[l]
BY RateAssumption

LEMMA TokensInBounded ==
  ASSUME NEW l \in Limit, NEW b, b.tokens \in Nat, b.updatedAt \in Nat, tick \in Nat,
         b.updatedAt <= tick
  PROVE  /\ TokensIn(l, b) \in Nat /\ TokensIn(l, b) <= Full[l]
         /\ b.updatedAt = tick /\ b.tokens <= Full[l] => TokensIn(l, b) = b.tokens
BY LimitNumbers DEF TokensIn

LEMMA EntryFields ==
  ASSUME RateTypeOK, NEW l \in Limit, NEW e \in ToSet(buckets[l])
  PROVE  /\ e \in BucketEntry(l) /\ e.key \in KeysOf(l) /\ e.exp \in Int
         /\ e.val.tokens \in Nat /\ e.val.updatedAt \in Nat
<1>1. buckets[l] \in Seq(BucketEntry(l))
  BY DEF RateTypeOK
<1>2. e \in BucketEntry(l)
  BY <1>1 DEF ToSet
<1> QED BY <1>2 DEF BucketEntry, LruEntry

\* The tokens of a key are those of its live entry, or a full bucket.
LEMMA TokensAre ==
  ASSUME RateTypeOK, FillsInTime, NEW l \in Limit, NEW k
  PROVE  /\ Tokens(l, k) \in Nat /\ Tokens(l, k) <= Full[l]
         /\ \/ \E e \in ToSet(buckets[l]) : e.key = k /\ e.exp > tick /\ Tokens(l, k) = TokensIn(l, e.val)
            \/ /\ \A e \in ToSet(buckets[l]) : ~(e.key = k /\ e.exp > tick)
               /\ Tokens(l, k) = Full[l]
<1>1. /\ buckets[l] \in Seq(BucketEntry(l)) /\ OneEntryEach(buckets[l]) /\ tick \in Nat
  BY DEF RateTypeOK, WithinSize
<1>2. CASE HasLive(buckets[l], k, tick)
  <2>1. PICK e \in ToSet(buckets[l]) : e.key = k /\ e.exp > tick /\ ValueOf(buckets[l], k) = e.val
    BY <1>1, <1>2, GetReturns
  <2>2. Tokens(l, k) = TokensIn(l, e.val)
    BY <1>2, <2>1 DEF Tokens, Bucket
  <2>3. TokensIn(l, e.val) \in Nat /\ TokensIn(l, e.val) <= Full[l]
    BY <1>1, EntryFields, TokensInBounded DEF FillsInTime
  <2> QED BY <2>1, <2>2, <2>3
<1>3. CASE ~HasLive(buckets[l], k, tick)
  <2>1. \A e \in ToSet(buckets[l]) : ~(e.key = k /\ e.exp > tick)
    BY <1>3, LiveIsEntry
  <2> DEFINE full == [tokens |-> Full[l], updatedAt |-> tick]
  <2>2. Tokens(l, k) = TokensIn(l, full)
    BY <1>3 DEF Tokens, Bucket
  <2>3. TokensIn(l, full) = Full[l]
    BY <1>1, LimitNumbers DEF TokensIn
  <2> QED BY <2>1, <2>2, <2>3, LimitNumbers
<1> QED BY <1>2, <1>3

LEMMA ChargeFits ==
  ASSUME RateTypeOK, FillsInTime, NEW l \in Limit, NEW k
  PROVE  /\ Charge(l, k) \in Nat /\ Tokens(l, k) \in Nat
         /\ Tokens(l, k) - Charge(l, k) \in 0..Full[l]
<1>1. Tokens(l, k) \in Nat /\ Tokens(l, k) <= Full[l]
  BY TokensAre
<1> QED BY <1>1, LimitNumbers DEF Charge, Allowed

\* A check leaves the new bucket of its key and, unless it pushes one out, the
\* others that are live.
LEMMA TakeKeeps ==
  ASSUME RateTypeOK, FillsInTime, NEW l \in Limit, NEW k \in KeysOf(l),
         NEW new, new = [key |-> k, val |-> Left(l, k), exp |-> FullAgain(l)],
         NEW after, after = Take(l, k)
  PROVE  /\ after \in Seq(BucketEntry(l)) /\ WithinSize(after, MaxKeys)
         /\ ToSet(after) \subseteq {e \in ToSet(buckets[l]) : e.key # k} \cup {new}
         /\ new \in ToSet(after)
         /\ \A e \in ToSet(buckets[l]) :
              e.key # k /\ e.exp > tick => e \in ToSet(after) \/ e.key \in TakePushesOut(l, k)
<1> DEFINE looked == Looked(l, k)
<1>1. /\ buckets[l] \in Seq(BucketEntry(l)) /\ WithinSize(buckets[l], MaxKeys) /\ tick \in Nat
      /\ MaxKeys \in Nat \ {0} /\ OneEntryEach(buckets[l]) /\ Len(buckets[l]) <= MaxKeys
      /\ Len(buckets[l]) \in Nat
  BY RateAssumption DEF RateTypeOK, WithinSize
<1>2. /\ looked \in Seq(BucketEntry(l)) /\ Len(looked) <= Len(buckets[l]) /\ OneEntryEach(looked)
      /\ ToSet(looked) = {e \in ToSet(buckets[l]) : e.key # k \/ e.exp > tick}
  BY <1>1, GetKeeps DEF Looked
<1>3. WithinSize(looked, MaxKeys)
  <2>1. Len(looked) \in Nat
    BY <1>2
  <2> QED BY <1>1, <1>2, <2>1 DEF WithinSize
<1>4. FullAgain(l) \in Int /\ FullAgain(l) > tick
  BY <1>1, LimitNumbers DEF FullAgain
<1>5. Left(l, k) \in [tokens : Nat, updatedAt : Nat]
  BY <1>1, ChargeFits DEF Left
<1>6. new \in BucketEntry(l)
  BY <1>4, <1>5 DEF BucketEntry, LruEntry
<1>7. after = AfterSet(looked, k, Left(l, k), FullAgain(l), tick, MaxKeys)
  BY DEF Take
<1>8. TakePushesOut(l, k) = Displaced(looked, k, Left(l, k), FullAgain(l), tick, MaxKeys)
  BY DEF TakePushesOut
<1> HIDE DEF looked
<1>9. /\ after \in Seq(BucketEntry(l)) /\ WithinSize(after, MaxKeys)
      /\ ToSet(after) \subseteq {e \in ToSet(looked) : e.key # k} \cup {new}
      /\ FullAgain(l) > tick => new \in ToSet(after)
      /\ \A e \in ToSet(looked) :
           \/ e.key = k \/ e \in ToSet(after)
           \/ ~(e.exp > tick)
           \/ e.key \in Displaced(looked, k, Left(l, k), FullAgain(l), tick, MaxKeys)
  <2>1. tick \in Int
    BY <1>1
  <2> QED BY <1>1, <1>2, <1>3, <1>4, <1>6, <1>7, <2>1, SetStores
<1> QED BY <1>2, <1>4, <1>8, <1>9

-----------------------------------------------------------------------------
(* A bucket is pushed out by more keys than are kept. *)

LEMMA KeysAreFinite == ASSUME NEW l \in Limit PROVE IsFiniteSet(KeysOf(l))
<1> DEFINE f == [p \in Principal |-> KeyFor(l, p)]
<1>1. f \in Surjection(Principal, KeysOf(l))
  BY DEF KeysOf, Surjection
<1> QED BY <1>1, RateAssumption, FS_Surjection

LEMMA ManyKeys ==
  ASSUME RateTypeOK, FillsInTime, NEW l \in Limit, NEW k \in KeysOf(l), TakePushesOut(l, k) # {}
  PROVE  Cardinality(KeysOf(l)) > MaxKeys
<1> DEFINE looked == Looked(l, k)
           rest   == Without(looked, k)
           new    == [key |-> k, val |-> Left(l, k), exp |-> FullAgain(l)]
           all    == WithEntry(looked, k, Left(l, k), FullAgain(l))
<1>1. /\ buckets[l] \in Seq(BucketEntry(l)) /\ OneEntryEach(buckets[l]) /\ tick \in Nat
      /\ MaxKeys \in Nat \ {0}
  BY RateAssumption DEF RateTypeOK, WithinSize
<1>2. looked \in Seq(BucketEntry(l)) /\ OneEntryEach(looked)
  BY <1>1, GetKeeps DEF Looked
<1>3. new \in BucketEntry(l)
  <2>1. Left(l, k) \in [tokens : Nat, updatedAt : Nat]
    BY <1>1, ChargeFits DEF Left
  <2> QED BY <1>1, <2>1, LimitNumbers DEF FullAgain, BucketEntry, LruEntry
<1>4. TakePushesOut(l, k) = Displaced(looked, k, Left(l, k), FullAgain(l), tick, MaxKeys)
  BY DEF TakePushesOut
<1>5. Len(all) > MaxKeys
  BY <1>4 DEF Displaced
<1> HIDE DEF looked
<1>6. /\ rest \in Seq(BucketEntry(l)) /\ OneEntryEach(rest)
      /\ ToSet(rest) = {e \in ToSet(looked) : e.key # k}
  BY <1>2, WithoutDeletes
<1> HIDE DEF rest
<1>7. all = Append(rest, new)
  BY DEF WithEntry, rest
<1>8. all \in Seq(BucketEntry(l)) /\ OneEntryEach(all)
  <2>1. \A x \in ToSet(rest) : x.key # new.key
    BY <1>6
  <2> QED BY <1>3, <1>6, <1>7, <2>1, AppendAdds
<1> HIDE DEF all, new
<1> DEFINE f == [i \in 1..Len(all) |-> all[i].key]
<1>9. f \in Injection(1..Len(all), KeysOf(l))
  <2>1. DOMAIN all = 1..Len(all)
    BY <1>8
  <2>2. \A i \in 1..Len(all) : all[i].key \in KeysOf(l)
    <3>1. \A e \in BucketEntry(l) : e.key \in KeysOf(l)
      BY DEF BucketEntry, LruEntry
    <3> QED BY <1>8, <3>1
  <2>3. \A i, j \in 1..Len(all) : all[i].key = all[j].key => i = j
    BY <1>8, <2>1 DEF OneEntryEach
  <2>4. f \in [1..Len(all) -> KeysOf(l)]
    BY <2>2
  <2>5. \A i, j \in 1..Len(all) : f[i] = f[j] => i = j
    BY <2>3
  <2>6. IsInjective(f)
    BY <2>4, <2>5 DEF IsInjective
  <2> QED BY <2>4, <2>6 DEF Injection
<1>10. Len(all) \in Nat
  BY <1>8
<1>11. Cardinality(1..Len(all)) = Len(all) /\ IsFiniteSet(1..Len(all))
  <2>1. 1 \in Int /\ Len(all) \in Int
    BY <1>10
  <2>2. /\ IsFiniteSet(1..Len(all))
        /\ Cardinality(1..Len(all)) = IF 1 > Len(all) THEN 0 ELSE Len(all) - 1 + 1
    BY <2>1, FS_Interval, Zenon
  <2> QED BY <1>10, <2>2
<1>12. Cardinality(1..Len(all)) <= Cardinality(KeysOf(l))
  BY <1>9, KeysAreFinite, FS_Injection
<1>13. Cardinality(KeysOf(l)) \in Nat
  BY KeysAreFinite, FS_CardinalityType
<1> QED BY <1>1, <1>5, <1>10, <1>11, <1>12, <1>13

-----------------------------------------------------------------------------
(* Steps *)

LEMMA TickKeeps == RateInv /\ RateTick => RateInv'
<1> SUFFICES ASSUME RateInv, RateTick PROVE RateInv'
  OBVIOUS
<1> USE DEF RateInv
<1>1. tick \in Nat /\ tick' = tick + 1 /\ UNCHANGED <<buckets, watched, lost, taken>>
  BY DEF RateTick, RateTypeOK
<1>2. RateTypeOK'
  BY <1>1 DEF RateTypeOK, BucketEntry
<1>3. FillsInTime'
  <2> SUFFICES ASSUME NEW l \in Limit, NEW e \in ToSet(buckets[l])
               PROVE  e.val.updatedAt <= tick + 1
    BY <1>1 DEF FillsInTime
  <2>1. e.val.updatedAt \in Nat /\ e.val.updatedAt <= tick
    BY EntryFields DEF FillsInTime
  <2> QED BY <1>1, <2>1
<1>4. LostToMany'
  BY <1>1 DEF LostToMany
<1>5. Balance'
  <2> DEFINE l == watched.limit
  <2>1. l \in Limit /\ watched.since \in Nat /\ taken \in Nat /\ Full[l] \in Nat \ {0}
    BY LimitNumbers DEF RateTypeOK
  <2>2. /\ \A e \in ToSet(buckets[l]) :
             /\ e.val.tokens \in Nat /\ e.val.updatedAt \in Nat /\ e.exp \in Int
             /\ e.val.tokens <= Full[l] /\ e.val.updatedAt <= tick /\ e.exp = e.val.updatedAt + Full[l]
    BY <2>1, EntryFields DEF FillsInTime
  <2>3. \A e \in ToSet(buckets[l]) :
          /\ TokensIn(l, e.val) \in Nat /\ TokensIn(l, e.val) <= Full[l]
          /\ TokensIn(l, e.val)' \in Nat /\ TokensIn(l, e.val)' <= TokensIn(l, e.val) + 1
          /\ ~(e.exp > tick + 1) => TokensIn(l, e.val) + 1 >= Full[l] \/ ~(e.exp > tick)
    BY <1>1, <2>1, <2>2 DEF TokensIn
  <2>4. Live' = {e \in ToSet(buckets[l]) : e.key = watched.key /\ e.exp > tick + 1}
    BY <1>1 DEF Live
  <2>5. Live' \subseteq Live
    BY <1>1, <2>2, <2>4 DEF Live
  <2>6. CASE tick + 1 < watched.since
    BY <1>1, <2>1, <2>6 DEF Balance
  <2>7. CASE tick + 1 = watched.since
    <3>1. taken = 0 /\ ~lost
      BY <1>1, <2>1, <2>7 DEF Balance
    <3>2. \A e \in Live' : TokensIn(l, e.val)' <= Full[l]
      <4>1. \A e \in ToSet(buckets[l]) : TokensIn(l, e.val)' <= Full[l]
        BY <1>1, <2>1, <2>2 DEF TokensIn
      <4> QED BY <2>4, <4>1
    <3>3. \A e \in Live' : TokensIn(l, e.val)' \in Nat
      BY <2>3, <2>4
    <3>4. Since' = 0
      BY <1>1, <2>1, <2>7 DEF Since
    <3>5. l' = l /\ taken' = taken
      BY <1>1
    <3> QED BY <1>1, <2>1, <2>7, <3>1, <3>2, <3>3, <3>4, <3>5 DEF Balance
  <2>8. CASE tick >= watched.since
    <3> SUFFICES ASSUME ~lost
                 PROVE  /\ \A e \in Live' : taken + TokensIn(l, e.val)' <= Full[l] + Since + 1
                        /\ Live' = {} => taken <= Since + 1
      <4>1. Since' = Since + 1 /\ Since \in Nat
        BY <1>1, <2>1, <2>8 DEF Since
      <4> QED BY <1>1, <2>1, <2>8, <4>1 DEF Balance
    <3>1. /\ \A e \in Live : taken + TokensIn(l, e.val) <= Full[l] + Since
          /\ Live = {} => taken <= Since
      BY <2>8 DEF Balance
    <3>2. Since \in Nat
      BY <1>1, <2>1, <2>8 DEF Since
    <3>3. \A e \in Live' : taken + TokensIn(l, e.val)' <= Full[l] + Since + 1
      <4> SUFFICES ASSUME NEW e \in Live'
                   PROVE  taken + TokensIn(l, e.val)' <= Full[l] + Since + 1
        OBVIOUS
      <4>1. e \in Live /\ e \in ToSet(buckets[l])
        BY <2>4, <2>5
      <4> QED BY <2>1, <2>3, <3>1, <3>2, <4>1
    <3>4. ASSUME Live' = {}, Live # {} PROVE taken <= Since + 1
      <4>1. PICK e \in Live : TRUE
        BY <3>4
      <4>2. e \in ToSet(buckets[l]) /\ e.exp > tick /\ ~(e.exp > tick + 1)
        BY <2>4, <3>4 DEF Live
      <4>3. TokensIn(l, e.val) + 1 >= Full[l] /\ TokensIn(l, e.val) \in Nat
        BY <2>3, <4>2
      <4>4. taken + TokensIn(l, e.val) <= Full[l] + Since
        BY <3>1
      <4> QED BY <2>1, <3>2, <4>3, <4>4
    <3> QED BY <2>1, <3>1, <3>2, <3>3, <3>4
  <2> QED BY <1>1, <2>1, <2>6, <2>7, <2>8
<1> QED BY <1>2, <1>3, <1>4, <1>5

\* What the checks of a call take from the bucket that is watched.
LEMMA CallKeeps ==
  ASSUME NEW p \in Principal, NEW write \in BOOLEAN
  PROVE  RateInv /\ ToolsCall(p, write) => RateInv'
<1> SUFFICES ASSUME RateInv, ToolsCall(p, write) PROVE RateInv'
  OBVIOUS
<1> USE DEF RateInv
<1> DEFINE l == watched.limit
           k == watched.key
           checked == Checked(p, write)
           key(m) == KeyFor(m, p)
           new(m) == [key |-> key(m), val |-> Left(m, key(m)), exp |-> FullAgain(m)]
<1>1. /\ tick \in Nat /\ taken \in Nat /\ lost \in BOOLEAN /\ watched.since \in Nat
      /\ l \in Limit /\ k \in KeysOf(l) /\ Full[l] \in Nat \ {0}
  BY LimitNumbers DEF RateTypeOK
<1>2. /\ buckets' = [m \in Limit |-> IF m \in checked THEN Take(m, key(m)) ELSE buckets[m]]
      /\ taken' = IF lost THEN taken ELSE taken + TakenBy(checked, p)
      /\ lost' = (lost \/ LosesWatched(checked, p))
      /\ tick' = tick /\ watched' = watched
  BY DEF ToolsCall
<1> HIDE DEF checked
<1>3. \A m \in Limit : key(m) \in KeysOf(m)
  BY DEF KeysOf
<1>4. \A m \in Limit :
        LET after == buckets'[m] IN
        /\ after \in Seq(BucketEntry(m)) /\ WithinSize(after, MaxKeys)
        /\ ToSet(after) \subseteq ToSet(buckets[m]) \cup {new(m)}
        /\ m \notin checked => ToSet(after) = ToSet(buckets[m])
        /\ m \in checked =>
             /\ ToSet(after) \subseteq {e \in ToSet(buckets[m]) : e.key # key(m)} \cup {new(m)}
             /\ new(m) \in ToSet(after)
             /\ \A e \in ToSet(buckets[m]) :
                  e.key # key(m) /\ e.exp > tick => e \in ToSet(after) \/ e.key \in TakePushesOut(m, key(m))
  <2> SUFFICES ASSUME NEW m \in Limit, NEW after, after = buckets'[m]
               PROVE  /\ after \in Seq(BucketEntry(m)) /\ WithinSize(after, MaxKeys)
                      /\ ToSet(after) \subseteq ToSet(buckets[m]) \cup {new(m)}
                      /\ m \notin checked => ToSet(after) = ToSet(buckets[m])
                      /\ m \in checked =>
                           /\ ToSet(after) \subseteq {e \in ToSet(buckets[m]) : e.key # key(m)} \cup {new(m)}
                           /\ new(m) \in ToSet(after)
                           /\ \A e \in ToSet(buckets[m]) :
                                e.key # key(m) /\ e.exp > tick
                                  => e \in ToSet(after) \/ e.key \in TakePushesOut(m, key(m))
    OBVIOUS
  <2>1. CASE m \in checked
    <3>1. after = Take(m, key(m)) /\ key(m) \in KeysOf(m)
      BY <1>2, <1>3, <2>1
    <3> HIDE DEF key
    <3>2. /\ after \in Seq(BucketEntry(m)) /\ WithinSize(after, MaxKeys)
          /\ ToSet(after) \subseteq {e \in ToSet(buckets[m]) : e.key # key(m)} \cup {new(m)}
          /\ new(m) \in ToSet(after)
          /\ \A e \in ToSet(buckets[m]) :
               e.key # key(m) /\ e.exp > tick => e \in ToSet(after) \/ e.key \in TakePushesOut(m, key(m))
      BY <3>1, TakeKeeps
    <3> QED BY <2>1, <3>2
  <2>2. CASE m \notin checked
    <3>1. after = buckets[m]
      BY <1>2, <2>2
    <3> QED BY <2>2, <3>1 DEF RateTypeOK
  <2> QED BY <2>1, <2>2
<1>5. \A m \in Limit :
        /\ Charge(m, key(m)) \in Nat /\ Tokens(m, key(m)) \in Nat
        /\ Tokens(m, key(m)) - Charge(m, key(m)) \in 0..Full[m]
  BY ChargeFits
<1> HIDE DEF key
<1>6. RateTypeOK'
  <2>1. taken' \in Nat
    <3>1. TakenBy(checked, p) \in Nat
      BY <1>1, <1>5 DEF TakenBy, Watching, key
    <3> QED BY <1>1, <1>2, <3>1
  <2>2. lost' \in BOOLEAN
    BY <1>1, <1>2 DEF LosesWatched
  <2>3. \A m \in Limit : buckets'[m] \in Seq(BucketEntry(m)) /\ WithinSize(buckets'[m], MaxKeys)
    BY <1>4
  <2> QED BY <1>1, <1>2, <2>1, <2>2, <2>3 DEF RateTypeOK, BucketEntry
<1>7. FillsInTime'
  <2> SUFFICES ASSUME NEW m \in Limit, NEW e \in ToSet(buckets'[m])
               PROVE  e.val.tokens <= Full[m] /\ e.val.updatedAt <= tick /\ e.exp = e.val.updatedAt + Full[m]
    BY <1>2 DEF FillsInTime
  <2>1. CASE e \in ToSet(buckets[m])
    BY <2>1 DEF FillsInTime
  <2>2. CASE e = new(m)
    <3>1. Full[m] \in Nat
      BY LimitNumbers
    <3> QED BY <1>1, <1>5, <2>2, <3>1 DEF Left, FullAgain
  <2> QED BY <1>4, <2>1, <2>2
<1>8. LostToMany'
  <2> SUFFICES ASSUME lost' PROVE Cardinality(KeysOf(l)) > MaxKeys
    BY <1>2 DEF LostToMany
  <2>1. CASE lost
    BY <2>1 DEF LostToMany
  <2>2. CASE ~lost
    <3>1. k \in TakePushesOut(l, KeyFor(l, p))
      BY <1>2, <2>2 DEF LosesWatched
    <3> QED BY <1>1, <1>3, <3>1, ManyKeys DEF key
  <2> QED BY <1>1, <2>1, <2>2
<1>9. Balance'
  <2>2. Live' = {e \in ToSet(buckets'[l]) : e.key = k /\ e.exp > tick} /\ Since' = Since
    BY <1>2 DEF Live, Since
  <2>3. CASE tick < watched.since
    <3>1. taken = 0 /\ ~lost
      BY <2>3 DEF Balance
    <3>2. TakenBy(checked, p) = 0 /\ ~LosesWatched(checked, p)
      BY <1>1, <2>3 DEF TakenBy, Watching, LosesWatched
    <3> QED BY <1>1, <1>2, <2>3, <3>1, <3>2 DEF Balance
  <2>4. CASE tick >= watched.since
    <3> SUFFICES ASSUME ~lost'
                 PROVE  /\ \A e \in Live' : taken' + TokensIn(l, e.val) <= Full[l] + Since
                        /\ Live' = {} => taken' <= Since
      BY <1>1, <1>2, <2>2, <2>4 DEF Balance, TokensIn
    <3>0. ~lost /\ ~LosesWatched(checked, p)
      BY <1>2
    <3>1. /\ \A e \in Live : taken + TokensIn(l, e.val) <= Full[l] + Since
          /\ Live = {} => taken <= Since
          /\ Since \in Nat
      BY <1>1, <2>4, <3>0 DEF Balance, Since
    <3>2. CASE l \notin checked
      <4>1. taken' = taken
        BY <1>1, <1>2, <3>0, <3>2 DEF TakenBy
      <4>2. Live' = Live
        BY <1>1, <1>4, <2>2, <3>2 DEF Live
      <4> QED BY <3>1, <4>1, <4>2
    <3>3. CASE l \in checked /\ key(l) # k
      <4>1. taken' = taken
        BY <1>1, <1>2, <3>0, <3>3 DEF TakenBy, Watching, key
      <4>2. Live' \subseteq Live
        <5>1. ToSet(buckets'[l]) \subseteq ToSet(buckets[l]) \cup {new(l)} /\ new(l).key # k
          BY <1>1, <1>4, <3>3
        <5> QED BY <2>2, <5>1 DEF Live
      <4>3. k \notin TakePushesOut(l, key(l))
        BY <2>4, <3>0, <3>3 DEF LosesWatched, key
      <4>4. Live \subseteq Live'
        BY <1>1, <1>4, <2>2, <3>3, <4>3 DEF Live
      <4> QED BY <3>1, <4>1, <4>2, <4>4
    <3>4. CASE l \in checked /\ key(l) = k
      <4>1. taken' = taken + Charge(l, k)
        BY <1>1, <1>2, <2>4, <3>0, <3>4 DEF TakenBy, Watching, key
      <4>2. /\ Charge(l, k) \in Nat /\ Tokens(l, k) \in Nat
            /\ Tokens(l, k) - Charge(l, k) \in 0..Full[l]
        BY <1>1, <1>5, <3>4
      <4>3. taken + Tokens(l, k) <= Full[l] + Since
        <5>1. CASE \E e \in ToSet(buckets[l]) : e.key = k /\ e.exp > tick /\ Tokens(l, k) = TokensIn(l, e.val)
          BY <3>1, <5>1 DEF Live
        <5>2. CASE /\ \A e \in ToSet(buckets[l]) : ~(e.key = k /\ e.exp > tick)
                   /\ Tokens(l, k) = Full[l]
          <6>1. Live = {}
            BY <5>2 DEF Live
          <6> QED BY <1>1, <3>1, <5>2, <6>1
        <5> QED BY <1>1, <5>1, <5>2, TokensAre
      <4>4. Live' = {new(l)}
        <5>1. new(l).key = k /\ new(l).exp > tick
          BY <1>1, <3>4 DEF FullAgain
        <5> QED BY <1>1, <1>4, <2>2, <3>4, <5>1
      <4>5. TokensIn(l, new(l).val) = Tokens(l, k) - Charge(l, k)
        <5>1. /\ new(l).val.tokens = Tokens(l, k) - Charge(l, k) /\ new(l).val.updatedAt = tick
          BY <3>4 DEF Left
        <5> QED BY <1>1, <4>2, <5>1, TokensInBounded
      <4>6. taken' + (Tokens(l, k) - Charge(l, k)) <= Full[l] + Since
        BY <1>1, <3>1, <4>1, <4>2, <4>3
      <4>7. \A e \in Live' : TokensIn(l, e.val) = Tokens(l, k) - Charge(l, k)
        BY <4>4, <4>5
      <4> QED BY <4>4, <4>6, <4>7
    <3> QED BY <3>2, <3>3, <3>4
  <2> QED BY <1>1, <2>3, <2>4
<1> QED BY <1>6, <1>7, <1>8, <1>9

-----------------------------------------------------------------------------

\* For any number of users and clients, a key takes no more of a limit than a
\* full bucket and what came back meanwhile, unless more keys are active than are
\* kept, which for the limits of a user takes as many users.
THEOREM LimitsHold == RateSpec => []CallsBounded
<1>1. RateInit => RateInv
  <2> SUFFICES ASSUME RateInit PROVE RateInv
    OBVIOUS
  <2>1. \A l \in Limit : buckets[l] = << >>
    BY DEF RateInit
  <2>2. /\ watched.limit \in Limit /\ watched.key \in KeysOf(watched.limit) /\ watched.since \in Nat
    BY RateAssumption DEF RateInit
  <2>3. RateTypeOK
    <3>1. \A l \in Limit : buckets[l] \in Seq(BucketEntry(l)) /\ WithinSize(buckets[l], MaxKeys)
      <4>1. \A l \in Limit : << >> \in Seq(BucketEntry(l))
        OBVIOUS
      <4>2. WithinSize(<< >>, MaxKeys)
        BY RateAssumption DEF WithinSize, OneEntryEach
      <4> QED BY <2>1, <4>1, <4>2
    <3> QED BY <2>2, <3>1 DEF RateInit, RateTypeOK
  <2>4. FillsInTime /\ LostToMany
    BY <2>1 DEF RateInit, FillsInTime, LostToMany, ToSet
  <2>5. Balance
    BY <2>1, <2>2 DEF RateInit, Balance, Live, Since, ToSet
  <2> QED BY <2>3, <2>4, <2>5 DEF RateInv
<1>2. RateInv /\ [RateNext]_rateVars => RateInv'
  <2>1. RateInv /\ UNCHANGED rateVars => RateInv'
    BY DEF rateVars, RateInv, RateTypeOK, BucketEntry, FillsInTime, Balance, Live, Since, TokensIn,
       LostToMany
  <2> QED BY <2>1, TickKeeps, CallKeeps DEF RateNext
<1>3. RateInv => CallsBounded
  <2> SUFFICES ASSUME RateInv, ~lost, tick >= watched.since
               PROVE  taken <= Full[watched.limit] + (tick - watched.since)
    BY DEF RateInv, CallsBounded, WithinBudget
  <2>1. /\ watched.limit \in Limit /\ Full[watched.limit] \in Nat /\ taken \in Nat
        /\ tick \in Nat /\ watched.since \in Nat /\ Since = tick - watched.since
    BY LimitNumbers DEF RateInv, RateTypeOK, Since
  <2>2. CASE Live = {}
    BY <2>1, <2>2 DEF RateInv, Balance
  <2>3. CASE Live # {}
    <3>1. PICK e \in Live : taken + TokensIn(watched.limit, e.val) <= Full[watched.limit] + Since
      BY <2>3 DEF RateInv, Balance
    <3>2. e \in ToSet(buckets[watched.limit])
      BY DEF Live
    <3>3. TokensIn(watched.limit, e.val) \in Nat
      BY <2>1, <3>2, EntryFields, TokensInBounded DEF RateInv, FillsInTime
    <3> QED BY <2>1, <3>1, <3>3
  <2> QED BY <2>2, <2>3
<1> QED BY <1>1, <1>2, <1>3, PTL DEF RateSpec

-----------------------------------------------------------------------------
(* Permissions.  All that is offered in vain is a scope only some accounts *)
(* can hold (EligibilityAssumption), and those are never stepped up.        *)

\* The account can hold what eligibility says, and what it approved.
PermTypeOK ==
  /\ eligible \in Eligibility
  /\ wanted \subseteq Tool
  /\ approved \subseteq eligible
  /\ setting.hosted \in BOOLEAN

\* Of what a hosted connection's consent screens have offered, what is not
\* approved can only be a scope that some accounts cannot hold, and such a
\* scope is not offered again by a step-up.
OfferedInVain ==
  /\ stepped => setting.hosted
  /\ phase \notin {"run", "told"} => told = {}
  /\ setting.hosted => offered \ approved \subseteq NO_STEP_UP_SCOPES
  /\ setting.hosted /\ phase = "out" => approved = {} /\ offered = {}
  /\ setting.hosted /\ phase = "consent" => approved \subseteq asked /\ asked \subseteq SCOPES
  /\ approved \subseteq SCOPES \/ ~setting.hosted

PermInv == PermTypeOK /\ OfferedInVain /\ NothingAskedTwice

\* The tables, as far as the steps use them.
LEMMA ScopesKnown ==
  /\ \A t \in Tool : ScopesOf[t] \subseteq SCOPES
  /\ HOSTED_INITIAL_SCOPES \subseteq SCOPES
  /\ ScopesOf["add_report_comment"] = {"reports:write"}
<1>1. ScopesOf["add_report_comment"] = {"reports:write"}
  BY DEF ScopesOf
<1>2. HOSTED_INITIAL_SCOPES \subseteq SCOPES
  BY DEF HOSTED_INITIAL_SCOPES, DEFAULT_LOGIN_SCOPES, READ_SCOPES, RESEARCHER_ONLY_SCOPES, SCOPES
<1>3. ASSUME NEW t \in Tool PROVE ScopesOf[t] \subseteq SCOPES
  BY DEF Tool, ScopesOf, SCOPES
<1> QED  BY <1>1, <1>2, <1>3

\* The consent screen grants what it shows and the account can hold: what it
\* offered in vain is what only some accounts can hold.
LEMMA ConsentKeeps == ASSUME PermInv, ConsentToAll \/ ConsentInPart PROVE PermInv'
<1>1. PICK out \in SUBSET (asked \cap eligible) : Consent(out)
  BY DEF ConsentToAll, ConsentInPart
<1>2. PermTypeOK'
  BY <1>1 DEF PermInv, PermTypeOK, Consent
<1>3. setting.hosted => offered' \ approved' \subseteq NO_STEP_UP_SCOPES
  <2> SUFFICES ASSUME setting.hosted, NEW s \in offered', s \notin approved' PROVE s \in NO_STEP_UP_SCOPES
    OBVIOUS
  <2>1. s \notin out /\ (s \in offered \/ s \in asked) /\ ~(s \in asked /\ s \in eligible)
    BY <1>1 DEF Consent
  <2>2. approved \subseteq asked /\ asked \subseteq SCOPES
    BY <1>1 DEF Consent, PermInv, OfferedInVain
  <2>3. CASE s \in asked
    BY <2>1, <2>2, <2>3, EligibilityAssumption DEF PermInv, PermTypeOK, NO_STEP_UP_SCOPES
  <2>4. CASE s \notin asked
    BY <2>1, <2>2, <2>4 DEF PermInv, OfferedInVain
  <2> QED  BY <2>3, <2>4
<1>4. setting.hosted => approved' \subseteq SCOPES
  BY <1>1 DEF Consent, PermInv, OfferedInVain
<1>5. phase' \in {"ready", "sent"} /\ told' = {} /\ stepped' = FALSE /\ setting' = setting
  BY <1>1 DEF Consent, PermInv, OfferedInVain
<1>6. OfferedInVain'
  BY <1>3, <1>4, <1>5 DEF OfferedInVain
<1>7. NothingAskedTwice'
  BY <1>5 DEF NothingAskedTwice
<1> QED  BY <1>2, <1>6, <1>7 DEF PermInv

\* A step-up adds to what is approved, and none of those scopes.
LEMMA StepUpKeeps == ASSUME PermInv, NEW t \in wanted, StepUp(t) PROVE PermInv'
<1>1. /\ setting.hosted /\ asked' = approved \cup MissingFor(t) /\ stepped' /\ phase' = "consent" /\ told = {}
      /\ UNCHANGED <<setting, eligible, void, approved, offered, wanted, todo, told>>
  BY DEF StepUp, Challenged, account, PermInv, OfferedInVain
<1>2. MissingFor(t) \subseteq SCOPES /\ MissingFor(t) \cap (approved \cup NO_STEP_UP_SCOPES) = {}
  BY ScopesKnown DEF MissingFor, PermInv, PermTypeOK
<1>3. PermTypeOK'
  BY <1>1 DEF PermInv, PermTypeOK
<1>4. OfferedInVain'
  BY <1>1, <1>2 DEF PermInv, OfferedInVain
<1>5. NothingAskedTwice'
  BY <1>1, <1>2 DEF PermInv, OfferedInVain, NothingAskedTwice
<1> QED  BY <1>3, <1>4, <1>5 DEF PermInv

\* ToAsk: what an answer asks for has not been approved.
LEMMA AskedIsNew ==
  ASSUME NEW required, required \ granted # {}
  PROVE  ToAsk(required, FALSE) \cap approved = {}
BY DEF ToAsk, granted, withheld

\* A tool that runs adds to the answers only what has not been approved; when the
\* API honours every scope approved, it refuses no tool that has its scopes.
LEMMA RunKeeps == ASSUME PermInv, NEW t \in todo, Run(t) PROVE PermInv'
<1>1. /\ phase = "run" /\ phase' = phase /\ wanted' \subseteq wanted
      /\ UNCHANGED <<setting, eligible, void, asked, stepped, approved, offered>>
  BY DEF Run, account, connection
<1>2. PermTypeOK'
  BY <1>1 DEF PermInv, PermTypeOK
<1>3. OfferedInVain'
  BY <1>1 DEF PermInv, OfferedInVain
<1>4. ASSUME void = {} PROVE told' \cap approved = {}
  <2>1. told \cap approved = {}
    BY <1>4 DEF PermInv, NothingAskedTwice
  <2>2. ScopesOf[t] \subseteq granted => ApiAccepts(t)
    <3>1. CASE t = "add_report_comment"
      BY <1>4, <3>1, ScopesKnown DEF ApiAccepts, ApiWants
    <3>2. CASE t # "add_report_comment"
      BY <1>4, <3>2 DEF ApiAccepts, ApiWants
    <3> QED  BY <3>1, <3>2
  <2>3. told' = told \/ (~(ScopesOf[t] \subseteq granted) /\ told' = told \cup ToAsk(ScopesOf[t], FALSE))
    BY <2>2 DEF Run
  <2> QED  BY <2>1, <2>3, AskedIsNew
<1>5. NothingAskedTwice'
  BY <1>1, <1>4 DEF NothingAskedTwice
<1> QED  BY <1>2, <1>3, <1>5 DEF PermInv

\* The client's other steps: a connection that begins afresh forgets what it was
\* offered, and what it had.
LEMMA OtherProgressKeeps ==
  ASSUME PermInv, Connect \/ RunTools \/ Answers \/ Reauthorize \/ GiveUp PROVE PermInv'
<1> USE DEF PermInv, PermTypeOK, OfferedInVain, NothingAskedTwice, account, connection
<1>1. CASE Connect
  BY <1>1, ScopesKnown DEF Connect
<1>2. CASE RunTools
  BY <1>2 DEF RunTools
<1>3. CASE Answers
  BY <1>3 DEF Answers
<1>4. CASE Reauthorize
  BY <1>4 DEF Reauthorize
<1>5. CASE GiveUp
  BY <1>5 DEF GiveUp
<1> QED  BY <1>1, <1>2, <1>3, <1>4, <1>5

\* New requests, roles gained and grants revoked.
LEMMA AccountKeeps ==
  ASSUME PermInv,
         \/ \E tools \in Requests : SendRequest(tools)
         \/ \E more \in Eligibility : Gains(more)
         \/ \E s \in Revocable : Revoked(s)
  PROVE  PermInv'
<1> USE DEF PermInv, PermTypeOK, OfferedInVain, NothingAskedTwice, account, connection
<1>1. ASSUME NEW tools \in Requests, SendRequest(tools) PROVE PermInv'
  BY <1>1, RequestsAssumption DEF SendRequest
<1>2. ASSUME NEW more \in Eligibility, Gains(more) PROVE PermInv'
  BY <1>2 DEF Gains
<1>3. ASSUME NEW s \in Revocable, Revoked(s) PROVE PermInv'
  BY <1>3 DEF Revoked
<1> QED  BY <1>1, <1>2, <1>3

\* The invariant holds throughout.
LEMMA PermInvariant == PermSpec => []PermInv
<1>1. PermInit => PermInv
  BY DEF PermInit, PermInv, PermTypeOK, OfferedInVain, NothingAskedTwice
<1>2. PermInv /\ [PermNext]_permVars => PermInv'
  <2> SUFFICES ASSUME PermInv, [PermNext]_permVars PROVE PermInv'
    OBVIOUS
  <2>1. CASE UNCHANGED permVars
    BY <2>1 DEF permVars, account, connection, PermInv, PermTypeOK, OfferedInVain, NothingAskedTwice
  <2> QED  BY <2>1, ConsentKeeps, StepUpKeeps, RunKeeps, OtherProgressKeeps, AccountKeeps DEF PermNext, Progress
<1> QED  BY <1>1, <1>2, PTL DEF PermSpec

\* No step-up shows a scope that this connection's consent screens have offered
\* without granting it, and no answer asks for an approved scope while the API
\* honours all of them.
THEOREM NothingAskedTwiceHolds == PermSpec => []NothingAskedTwice
<1>1. PermInv => NothingAskedTwice
  BY DEF PermInv
<1> QED  BY <1>1, PermInvariant, PTL
=============================================================================
