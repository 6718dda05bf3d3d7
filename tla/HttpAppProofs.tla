---------------------------- MODULE HttpAppProofs ----------------------------
(***************************************************************************)
(* Proofs about the hosted server for any number of requests and subjects, *)
(* caches of any size and any lifetimes.                                   *)
(***************************************************************************)
EXTENDS HttpApp, ExpiringLruProofs

\* The entries of the two maps and the exchanges, as they are typed.
LEMMA EntriesTyped ==
  ASSUME ExchangeInv
  PROVE  /\ \A c \in ToSet(cache) : c \in LruEntry(Subject, ApiToken)
         /\ \A m \in ToSet(refused) : m \in LruEntry(Subject, {TRUE})
         /\ \A e \in running : e \in [subject : Subject, by : Request, at : Nat, answer : Answers]
BY DEF ExchangeInv, ExchangeTypeOK, ToSet

\* A subject is refused exactly if its marker has not expired.
LEMMA RefusedIsMarked ==
  ASSUME NEW s
  PROVE  IsRefused(s) <=> \E m \in ToSet(refused) : m.key = s /\ m.exp > now
BY LiveIsEntry DEF IsRefused

\* Reading a marker drops it at most if it has expired, so what is refused
\* stays as it was.
LEMMA MarkersKept ==
  ASSUME ExchangeInv, NEW s, refused' = AfterGet(refused, s, now), UNCHANGED now
  PROVE  /\ refused' \in Seq(LruEntry(Subject, {TRUE}))
         /\ WithinSize(refused', CacheSize)
         /\ ToSet(refused') \subseteq ToSet(refused)
         /\ \A x : IsRefused(x)' <=> IsRefused(x)
<1>1. /\ refused' \in Seq(LruEntry(Subject, {TRUE})) /\ Len(refused') <= Len(refused)
      /\ OneEntryEach(refused')
      /\ ToSet(refused') = {e \in ToSet(refused) : e.key # s \/ e.exp > now}
  BY GetKeeps DEF ExchangeInv, ExchangeTypeOK, WithinSize
<1>2. WithinSize(refused', CacheSize)
  BY <1>1, ExchangeAssumption DEF ExchangeInv, ExchangeTypeOK, WithinSize
<1>3. \A x : IsRefused(x)' <=> \E m \in ToSet(refused') : m.key = x /\ m.exp > now
  BY LiveIsEntry DEF IsRefused
<1> QED BY <1>1, <1>2, <1>3, RefusedIsMarked

\* ReadRefused changes nothing but the order of the markers.
LEMMA ReadKeeps ==
  ASSUME ExchangeInv, NEW s, ReadRefused(s)
  PROVE  ExchangeInv' /\ \A x : IsRefused(x)' <=> IsRefused(x)
<1> USE DEF ReadRefused, serverVars
<1>1. /\ refused' \in Seq(LruEntry(Subject, {TRUE}))
      /\ WithinSize(refused', CacheSize)
      /\ ToSet(refused') \subseteq ToSet(refused)
      /\ \A x : IsRefused(x)' <=> IsRefused(x)
  BY MarkersKept
<1>2. ExchangeTypeOK' /\ WithinSize(cache', CacheSize)
  BY <1>1 DEF ExchangeInv, ExchangeTypeOK
<1>3. OneExchange' /\ CacheKeepsMargin' /\ CachedWereIssued'
  BY DEF ExchangeInv, OneExchange, CacheKeepsMargin, CachedWereIssued
<1>4. RefusalRemembered' /\ NotCachedAndRefused' /\ AnswersInv' /\ MarkersLast'
  BY <1>1 DEF ExchangeInv, RefusalRemembered, NotCachedAndRefused, AnswersInv, MarkersLast
<1> QED BY <1>1, <1>2, <1>3, <1>4 DEF ExchangeInv

\* exchanged(subject) keeps the invariant, adds at most one exchange, and one
\* is under way if the caller has to wait.
LEMMA ExchangedKeeps ==
  ASSUME ExchangeInv, NEW s \in Subject, NEW r \in Request,
         NEW c, c \in {cache, Without(cache, s)},
         Exchanged(r, s, c), UNCHANGED <<now, serverVars>>
  PROVE  /\ ExchangeInv'
         /\ ToSet(cache') \subseteq ToSet(c) /\ ToSet(c) \subseteq ToSet(cache)
         /\ running \subseteq running'
         /\ \A e \in running' \ running : e.answer = Unanswered
         /\ Given(s, c) = "wait" => \E e \in running' : e.subject = s
<1> USE DEF serverVars
<1>1. /\ refused' \in Seq(LruEntry(Subject, {TRUE}))
      /\ WithinSize(refused', CacheSize)
      /\ ToSet(refused') \subseteq ToSet(refused)
      /\ \A x : IsRefused(x)' <=> IsRefused(x)
  BY MarkersKept DEF Exchanged
<1>2. /\ c \in Seq(LruEntry(Subject, ApiToken)) /\ WithinSize(c, CacheSize)
      /\ ToSet(c) \subseteq ToSet(cache)
  <2>1. cache \in Seq(LruEntry(Subject, ApiToken)) /\ WithinSize(cache, CacheSize)
    BY DEF ExchangeInv, ExchangeTypeOK
  <2>2. CASE c = Without(cache, s)
    BY <2>1, <2>2, WithoutDeletes, ExchangeAssumption DEF WithinSize
  <2> QED BY <2>1, <2>2
<1>3. /\ cache' \in Seq(LruEntry(Subject, ApiToken)) /\ WithinSize(cache', CacheSize)
      /\ ToSet(cache') \subseteq ToSet(c)
  <2>1. CASE IsRefused(s)
    BY <1>2, <2>1 DEF Exchanged
  <2>2. CASE ~IsRefused(s)
    <3>1. cache' = AfterGet(c, s, now)
      BY <2>2 DEF Exchanged
    <3> QED BY <1>2, <3>1, GetKeeps, ExchangeAssumption DEF WithinSize
  <2> QED BY <2>1, <2>2
<1>4. \/ running' = running
      \/ /\ running' = running \cup {Started(r, s)}
         /\ ~IsRefused(s) /\ \A e \in running : e.subject # s
  BY DEF Exchanged, Joined, Given
<1>5. Started(r, s) \in [subject : Subject, by : Request, at : Nat, answer : Answers]
  BY DEF Started, Answers, Unanswered, ExchangeInv, ExchangeTypeOK
<1>6. ExchangeTypeOK'
  BY <1>1, <1>3, <1>4, <1>5 DEF ExchangeInv, ExchangeTypeOK, Exchanged
<1>7. OneExchange'
  BY <1>4 DEF ExchangeInv, OneExchange, Started
<1>8. CacheKeepsMargin' /\ CachedWereIssued'
  BY <1>2, <1>3 DEF ExchangeInv, CacheKeepsMargin, CachedWereIssued
<1>9. RefusalRemembered' /\ MarkersLast'
  BY <1>1 DEF ExchangeInv, RefusalRemembered, MarkersLast, Exchanged
<1>10. NotCachedAndRefused'
  <2>1. \A x : HasLive(cache, x, now)' => HasLive(cache, x, now)
    BY <1>2, <1>3, LiveIsEntry
  <2> QED BY <1>1, <2>1 DEF ExchangeInv, NotCachedAndRefused
<1>11. AnswersInv'
  <2> SUFFICES ASSUME NEW e \in running'
               PROVE  /\ ~IsRefused(e.subject)' /\ e.at <= now'
                      /\ e.answer.kind = "token" =>
                           LET t == e.answer.token IN
                           /\ t.of = e.subject /\ t.n <= count'[t.of]
                           /\ e.at + e.answer.life <= t.exp /\ t.exp <= ExpiresAt[t.of]
                           /\ \A x \in ToSet(cache') : x.val # t
    BY DEF AnswersInv
  <2>1. CASE e \in running
    BY <1>1, <1>2, <1>3, <2>1 DEF ExchangeInv, AnswersInv
  <2>2. CASE e = Started(r, s) /\ ~IsRefused(s)
    BY <1>1, <2>2 DEF Started, Unanswered, ExchangeInv, ExchangeTypeOK
  <2> QED BY <1>4, <2>1, <2>2
<1>12. Given(s, c) = "wait" => \E e \in running' : e.subject = s
  <2> SUFFICES ASSUME Given(s, c) = "wait" PROVE \E e \in running' : e.subject = s
    OBVIOUS
  <2>1. running' = Joined(r, s)
    BY DEF Exchanged
  <2>2. Started(r, s).subject = s
    BY DEF Started
  <2> QED BY <2>1, <2>2 DEF Joined
<1>13. /\ running \subseteq running'
       /\ \A e \in running' \ running : e.answer = Unanswered
  BY <1>4 DEF Started
<1> QED BY <1>1, <1>2, <1>3, <1>6, <1>7, <1>8, <1>9, <1>10, <1>11, <1>12, <1>13 DEF ExchangeInv

\* Forgetting the cached token of a subject.
LEMMA ForgetKeeps ==
  ASSUME ExchangeInv, NEW s, cache' = Without(cache, s),
         UNCHANGED <<now, serverVars, refused, told, running>>
  PROVE  /\ ExchangeInv'
         /\ ToSet(cache') = {c \in ToSet(cache) : c.key # s}
<1> USE DEF serverVars
<1>1. /\ cache' \in Seq(LruEntry(Subject, ApiToken)) /\ WithinSize(cache', CacheSize)
      /\ ToSet(cache') = {c \in ToSet(cache) : c.key # s}
  BY WithoutDeletes, ExchangeAssumption DEF ExchangeInv, ExchangeTypeOK, WithinSize
<1>2. ExchangeTypeOK' /\ WithinSize(refused', CacheSize)
  BY <1>1 DEF ExchangeInv, ExchangeTypeOK
<1>3. OneExchange' /\ CacheKeepsMargin' /\ CachedWereIssued' /\ MarkersLast'
  BY <1>1 DEF ExchangeInv, OneExchange, CacheKeepsMargin, CachedWereIssued, MarkersLast
<1>4. \A x : /\ IsRefused(x)' <=> IsRefused(x)
             /\ HasLive(cache, x, now)' => HasLive(cache, x, now)
  BY <1>1, LiveIsEntry DEF IsRefused
<1>5. RefusalRemembered' /\ NotCachedAndRefused' /\ AnswersInv'
  BY <1>1, <1>4 DEF ExchangeInv, RefusalRemembered, NotCachedAndRefused, AnswersInv
<1> QED BY <1>1, <1>2, <1>3, <1>5 DEF ExchangeInv

\* An exchange that settles without a refusal: what its answer is cached as.
LEMMA GrantsKeeps ==
  ASSUME ExchangeInv, NEW e \in running, Grants(e), UNCHANGED <<now, serverVars>>
  PROVE  /\ ExchangeInv'
         /\ \A c \in ToSet(cache') : c \in ToSet(cache) \/ c.val = e.answer.token
         /\ e.answer.token \in ApiToken
<1> USE DEF serverVars
<1> DEFINE s == e.subject
           t == e.answer.token
           until == UsableUntil(e)
           new == [key |-> s, val |-> t, exp |-> until]
<1>1. /\ s \in Subject /\ e.at \in Nat /\ e.answer.kind = "token"
      /\ t \in ApiToken /\ e.answer.life \in Nat
  <2>1. e.answer \in Answers /\ s \in Subject /\ e.at \in Nat /\ e.answer.kind = "token"
    BY EntriesTyped DEF Grants
  <2>2. e.answer \in [kind : {"token"}, token : ApiToken, life : Nat]
    BY <2>1 DEF Answers, Unanswered, Refusal
  <2> QED BY <2>1, <2>2
<1>2. /\ t.of = s /\ t.n <= count[s] /\ e.at + e.answer.life <= t.exp
      /\ t.exp <= ExpiresAt[s] /\ ~IsRefused(s)
  BY <1>1 DEF ExchangeInv, AnswersInv
<1>3. ExpiresAt[s] \in Nat /\ Margin \in Nat /\ now \in Nat /\ CacheSize \in Nat \ {0} /\ t.exp \in Nat
  BY <1>1, ExchangeAssumption DEF ExchangeInv, ExchangeTypeOK, ApiToken
<1>4. until \in Int /\ until + Margin <= t.exp /\ until + Margin <= ExpiresAt[s]
  BY <1>1, <1>2, <1>3 DEF UsableUntil
<1>5. new \in LruEntry(Subject, ApiToken)
  BY <1>1, <1>4 DEF LruEntry
<1>6. /\ cache' \in Seq(LruEntry(Subject, ApiToken)) /\ WithinSize(cache', CacheSize)
      /\ ToSet(cache') \subseteq ToSet(cache) \cup {new}
  <2>1. cache' = AfterSet(cache, s, t, until, now, CacheSize)
    BY DEF Grants
  <2>2. cache \in Seq(LruEntry(Subject, ApiToken)) /\ WithinSize(cache, CacheSize)
    BY DEF ExchangeInv, ExchangeTypeOK
  <2>3. now \in Int /\ CacheSize \in Nat \ {0}
    BY <1>3
  <2> HIDE DEF s, t, until
  <2> QED BY <1>1, <1>4, <2>1, <2>2, <2>3, EntryStored
<1>7. running' = running \ {e} /\ UNCHANGED <<refused, told>>
  BY DEF Grants
<1>8. ExchangeTypeOK' /\ WithinSize(refused', CacheSize) /\ OneExchange'
  BY <1>6, <1>7 DEF ExchangeInv, ExchangeTypeOK, OneExchange
<1>9. CacheKeepsMargin' /\ CachedWereIssued' /\ MarkersLast'
  BY <1>2, <1>4, <1>6, <1>7 DEF ExchangeInv, CacheKeepsMargin, CachedWereIssued, MarkersLast
<1>10. \A x : /\ IsRefused(x)' <=> IsRefused(x)
              /\ HasLive(cache, x, now)' => HasLive(cache, x, now) \/ x = s
  BY <1>6, <1>7, LiveIsEntry DEF IsRefused
<1>11. RefusalRemembered' /\ NotCachedAndRefused'
  BY <1>2, <1>7, <1>10 DEF ExchangeInv, RefusalRemembered, NotCachedAndRefused
<1>12. AnswersInv'
  <2> SUFFICES ASSUME NEW f \in running'
               PROVE  /\ ~IsRefused(f.subject)' /\ f.at <= now'
                      /\ f.answer.kind = "token" =>
                           LET u == f.answer.token IN
                           /\ u.of = f.subject /\ u.n <= count'[u.of]
                           /\ f.at + f.answer.life <= u.exp /\ u.exp <= ExpiresAt[u.of]
                           /\ \A x \in ToSet(cache') : x.val # u
    BY DEF AnswersInv
  <2>1. f \in running /\ f.subject # s
    BY <1>7 DEF ExchangeInv, OneExchange
  <2>2. f.answer.kind = "token" => f.answer.token # t
    BY <1>2, <2>1 DEF ExchangeInv, AnswersInv
  <2> QED BY <1>6, <1>10, <2>1, <2>2 DEF ExchangeInv, AnswersInv
<1> QED BY <1>1, <1>6, <1>8, <1>9, <1>11, <1>12 DEF ExchangeInv

\* An exchange that is refused: its subject is no longer cached and marked.
LEMMA RefusesKeeps ==
  ASSUME ExchangeInv, NEW e \in running, Refuses(e), UNCHANGED <<now, serverVars>>
  PROVE  ExchangeInv' /\ ToSet(cache') \subseteq ToSet(cache)
<1> USE DEF serverVars
<1> DEFINE s == e.subject
           until == RefusedUntil(s)
           new == [key |-> s, val |-> TRUE, exp |-> until]
           others == {m \in ToSet(refused) : m.key # s}
           pushed == Displaced(refused, s, TRUE, until, now, CacheSize)
<1>1. s \in Subject /\ now \in Nat /\ until \in Int /\ until = ExpiresAt[s] /\ CacheSize \in Nat \ {0}
  BY EntriesTyped, ExchangeAssumption DEF RefusedUntil, ExchangeInv, ExchangeTypeOK
<1>2. new \in LruEntry(Subject, {TRUE})
  BY <1>1 DEF LruEntry
<1>3. /\ refused' \in Seq(LruEntry(Subject, {TRUE})) /\ WithinSize(refused', CacheSize)
      /\ ToSet(refused') \subseteq others \cup {new}
      /\ until > now => new \in ToSet(refused')
      /\ \A m \in others : m \in ToSet(refused') \/ ~(m.exp > now) \/ m.key \in pushed
  <2>1. refused' = AfterSet(refused, s, TRUE, until, now, CacheSize)
    BY DEF Refuses
  <2>2. refused \in Seq(LruEntry(Subject, {TRUE})) /\ WithinSize(refused, CacheSize)
    BY DEF ExchangeInv, ExchangeTypeOK
  <2>3. now \in Int /\ TRUE \in {TRUE}
    BY <1>1
  <2> HIDE DEF s, until
  <2> QED BY <1>1, <2>1, <2>2, <2>3, EntryStored
<1>4. /\ running' = running \ {e} /\ told' = (told \cup {s}) \ pushed
      /\ cache' = Without(cache, s)
  BY DEF Refuses
<1>5. /\ cache' \in Seq(LruEntry(Subject, ApiToken)) /\ WithinSize(cache', CacheSize)
      /\ ToSet(cache') = {c \in ToSet(cache) : c.key # s}
  BY <1>4, WithoutDeletes, ExchangeAssumption DEF ExchangeInv, ExchangeTypeOK, WithinSize
<1>6. ExchangeTypeOK' /\ OneExchange'
  BY <1>1, <1>3, <1>4, <1>5 DEF ExchangeInv, ExchangeTypeOK, OneExchange
<1>7. CacheKeepsMargin' /\ CachedWereIssued' /\ MarkersLast'
  BY <1>1, <1>3, <1>5 DEF ExchangeInv, CacheKeepsMargin, CachedWereIssued, MarkersLast
<1>8. \A x : /\ IsRefused(x)' => IsRefused(x) \/ x = s
             /\ HasLive(cache, x, now)' => HasLive(cache, x, now) /\ x # s
  <2>1. \A x : IsRefused(x)' <=> \E m \in ToSet(refused') : m.key = x /\ m.exp > now
    BY LiveIsEntry DEF IsRefused
  <2> QED BY <1>3, <1>5, <2>1, LiveIsEntry, RefusedIsMarked
<1>9. RefusalRemembered'
  <2> SUFFICES ASSUME NEW x \in told' PROVE IsRefused(x)' \/ now' >= ExpiresAt[x]
    BY DEF RefusalRemembered
  <2>0. IsRefused(x)' <=> \E m \in ToSet(refused') : m.key = x /\ m.exp > now
    BY LiveIsEntry DEF IsRefused
  <2>1. CASE x = s
    <3>1. until > now \/ now >= ExpiresAt[s]
      BY <1>1
    <3> QED BY <1>3, <2>0, <2>1, <3>1
  <2>2. CASE x # s
    <3>1. x \in told /\ x \notin pushed
      BY <1>4, <2>2
    <3>2. IsRefused(x) \/ now >= ExpiresAt[x]
      BY <3>1 DEF ExchangeInv, RefusalRemembered
    <3>3. ASSUME IsRefused(x) PROVE IsRefused(x)'
      <4>1. PICK m \in ToSet(refused) : m.key = x /\ m.exp > now
        BY <3>3, RefusedIsMarked
      <4> QED BY <1>3, <2>0, <2>2, <3>1, <4>1
    <3> QED BY <3>2, <3>3
  <2> QED BY <2>1, <2>2
<1>10. NotCachedAndRefused'
  BY <1>8 DEF ExchangeInv, NotCachedAndRefused
<1>11. AnswersInv'
  <2> SUFFICES ASSUME NEW f \in running'
               PROVE  /\ ~IsRefused(f.subject)' /\ f.at <= now'
                      /\ f.answer.kind = "token" =>
                           LET u == f.answer.token IN
                           /\ u.of = f.subject /\ u.n <= count'[u.of]
                           /\ f.at + f.answer.life <= u.exp /\ u.exp <= ExpiresAt[u.of]
                           /\ \A x \in ToSet(cache') : x.val # u
    BY DEF AnswersInv
  <2>1. f \in running /\ f.subject # s
    BY <1>4 DEF ExchangeInv, OneExchange
  <2> QED BY <1>5, <1>8, <2>1 DEF ExchangeInv, AnswersInv
<1> QED BY <1>3, <1>5, <1>6, <1>7, <1>9, <1>10, <1>11 DEF ExchangeInv

\* An exchange that fails leaves the maps alone.
LEMMA FailsKeeps ==
  ASSUME ExchangeInv, NEW e \in running, Fails(e), UNCHANGED <<now, serverVars>>
  PROVE  ExchangeInv'
<1> USE DEF Fails, cacheVars, serverVars
<1>1. \A x : IsRefused(x)' <=> IsRefused(x)
  BY DEF IsRefused
<1>2. ExchangeTypeOK' /\ OneExchange' /\ AnswersInv'
  BY <1>1 DEF ExchangeInv, ExchangeTypeOK, OneExchange, AnswersInv
<1>3. CacheKeepsMargin' /\ CachedWereIssued' /\ MarkersLast'
  BY DEF ExchangeInv, CacheKeepsMargin, CachedWereIssued, MarkersLast
<1>4. RefusalRemembered' /\ NotCachedAndRefused'
  BY <1>1 DEF ExchangeInv, RefusalRemembered, NotCachedAndRefused
<1> QED BY <1>2, <1>3, <1>4 DEF ExchangeInv

\* The authorization server issues a token no exchange or entry has.
LEMMA IssueKeeps ==
  ASSUME ExchangeInv, NEW e \in running, Issue(e)
  PROVE  /\ ExchangeInv'
         /\ \A f \in running : \E g \in running' : g.subject = f.subject
         /\ \A x \in Subject : count[x] <= count'[x]
         /\ \A f \in running' :
              \/ f \in running
              \/ /\ f.answer.token.of = e.subject
                 /\ f.answer.token.n = count[e.subject] + 1
<1> USE DEF cacheVars
<1> DEFINE s == e.subject
           exp == IF now + Lifetime <= ExpiresAt[s] THEN now + Lifetime ELSE ExpiresAt[s]
           t == [of |-> s, n |-> count[s] + 1, exp |-> exp]
           a == [kind |-> "token", life |-> exp - now, token |-> t]
           new == [subject |-> s, by |-> e.by, at |-> e.at, answer |-> a]
<1>1. /\ e = [subject |-> s, by |-> e.by, at |-> e.at, answer |-> e.answer]
      /\ s \in Subject /\ e.by \in Request /\ e.at \in Nat
  BY EntriesTyped
<1>2. /\ now \in Nat /\ ExpiresAt[s] \in Nat /\ Lifetime \in Nat /\ count[s] \in Nat
      /\ count \in [Subject -> Nat] /\ now < ExpiresAt[s]
  BY <1>1, ExchangeAssumption DEF ExchangeInv, ExchangeTypeOK, Issue
<1>3. exp \in Nat /\ exp - now \in Nat /\ exp <= ExpiresAt[s]
  BY <1>2
<1>4. t \in ApiToken
  BY <1>1, <1>2, <1>3 DEF ApiToken
<1>5. a \in Answers
  BY <1>3, <1>4 DEF Answers
<1>6. running' = (running \ {e}) \cup {new}
  BY <1>1 DEF Issue, Answered
<1>7. /\ count' = [count EXCEPT ![s] = @ + 1]
      /\ UNCHANGED <<now, revoked, cache, refused, told>> /\ ~IsRefused(s) /\ e.at <= now
  BY DEF Issue, ExchangeInv, AnswersInv
<1>8. /\ count' \in [Subject -> Nat] /\ count'[s] = count[s] + 1
      /\ \A x \in Subject : count[x] <= count'[x]
  BY <1>1, <1>2, <1>7
<1>9. new \in [subject : Subject, by : Request, at : Nat, answer : Answers]
  BY <1>1, <1>5
<1>10. ExchangeTypeOK'
  BY <1>6, <1>7, <1>8, <1>9 DEF ExchangeInv, ExchangeTypeOK
<1>11. OneExchange'
  BY <1>6 DEF ExchangeInv, OneExchange
<1>12. \A x : IsRefused(x)' <=> IsRefused(x)
  BY <1>7 DEF IsRefused
<1>13. /\ CacheKeepsMargin' /\ MarkersLast' /\ WithinSize(cache', CacheSize)
       /\ WithinSize(refused', CacheSize)
  BY <1>7 DEF ExchangeInv, CacheKeepsMargin, MarkersLast
<1>14. RefusalRemembered' /\ NotCachedAndRefused'
  BY <1>7, <1>12 DEF ExchangeInv, RefusalRemembered, NotCachedAndRefused
<1>15. \A c \in ToSet(cache) : c.key \in Subject /\ c.val.n \in Nat /\ c.val.n <= count[c.key]
  BY EntriesTyped DEF LruEntry, ApiToken, ExchangeInv, CachedWereIssued
<1>16. CachedWereIssued'
  <2> SUFFICES ASSUME NEW c \in ToSet(cache) PROVE c.val.n <= count'[c.key]
    BY <1>7 DEF CachedWereIssued
  <2>1. count[c.key] \in Nat /\ count'[c.key] \in Nat /\ count[c.key] <= count'[c.key]
    BY <1>2, <1>8, <1>15
  <2> QED BY <1>15, <2>1
<1>17. AnswersInv'
  <2> SUFFICES ASSUME NEW f \in running'
               PROVE  /\ ~IsRefused(f.subject)' /\ f.at <= now'
                      /\ f.answer.kind = "token" =>
                           LET u == f.answer.token IN
                           /\ u.of = f.subject /\ u.n <= count'[u.of]
                           /\ f.at + f.answer.life <= u.exp /\ u.exp <= ExpiresAt[u.of]
                           /\ \A x \in ToSet(cache') : x.val # u
    BY DEF AnswersInv
  <2>1. CASE f = new
    <3>1. \A c \in ToSet(cache) : c.val # t
      <4> SUFFICES ASSUME NEW c \in ToSet(cache), c.val = t PROVE FALSE
        OBVIOUS
      <4>1. c.key = s /\ c.val.n <= count[s]
        BY <1>15 DEF ExchangeInv, CacheKeepsMargin
      <4> QED BY <1>2, <4>1
    <3>2. e.at + (exp - now) <= exp
      BY <1>1, <1>2, <1>3, <1>7
    <3> QED BY <1>3, <1>7, <1>8, <1>12, <2>1, <3>1, <3>2
  <2>2. CASE f \in running
    <3>1. f.answer.kind = "token" =>
            /\ f.answer.token \in ApiToken /\ f.answer.token.of \in Subject
            /\ f.answer.token.n \in Nat
      <4>1. f.answer \in Answers
        BY <2>2, EntriesTyped
      <4> QED BY <4>1 DEF Answers, Unanswered, Refusal, ApiToken
    <3>2. f.answer.kind = "token" => f.answer.token.n <= count'[f.answer.token.of]
      <4> SUFFICES ASSUME f.answer.kind = "token"
                   PROVE  f.answer.token.n <= count'[f.answer.token.of]
        OBVIOUS
      <4> DEFINE u == f.answer.token
      <4>1. u.n <= count[u.of]
        BY <2>2 DEF ExchangeInv, AnswersInv
      <4>2. count[u.of] \in Nat /\ count'[u.of] \in Nat /\ count[u.of] <= count'[u.of]
        BY <1>2, <1>8, <3>1
      <4> QED BY <3>1, <4>1, <4>2
    <3> QED BY <1>7, <1>12, <2>2, <3>2 DEF ExchangeInv, AnswersInv
  <2> QED BY <1>6, <2>1, <2>2
<1>18. /\ \A f \in running : \E g \in running' : g.subject = f.subject
       /\ \A f \in running' : f \in running \/ f = new
  <2>1. \A f \in running : \E g \in running' : g.subject = f.subject
    <3> SUFFICES ASSUME NEW f \in running PROVE \E g \in running' : g.subject = f.subject
      OBVIOUS
    <3>1. CASE f = e
      <4>1. new \in running' /\ new.subject = f.subject
        BY <1>6, <3>1
      <4> HIDE DEF new
      <4> QED BY <4>1
    <3>2. CASE f # e
      BY <1>6, <3>2
    <3> QED BY <3>1, <3>2
  <2> QED BY <1>6, <2>1
<1> QED BY <1>8, <1>10, <1>11, <1>13, <1>14, <1>16, <1>17, <1>18 DEF ExchangeInv

\* The authorization server refuses.
LEMMA RefuseKeeps ==
  ASSUME ExchangeInv, NEW e \in running, Refuse(e)
  PROVE  /\ ExchangeInv'
         /\ \A f \in running : \E g \in running' : g.subject = f.subject
         /\ \A f \in running' : f \in running \/ f.answer = Refusal
<1> USE DEF cacheVars, serverVars
<1> DEFINE new == [subject |-> e.subject, by |-> e.by, at |-> e.at, answer |-> Refusal]
<1>1. /\ e = [subject |-> e.subject, by |-> e.by, at |-> e.at, answer |-> e.answer]
      /\ e.subject \in Subject /\ e.by \in Request /\ e.at \in Nat
  BY EntriesTyped
<1>2. running' = (running \ {e}) \cup {new}
  BY <1>1 DEF Refuse, Answered
<1>3. UNCHANGED <<now, revoked, count, cache, refused, told>>
  BY DEF Refuse
<1>4. new \in [subject : Subject, by : Request, at : Nat, answer : Answers]
  BY <1>1 DEF Answers
<1>5. ExchangeTypeOK' /\ OneExchange'
  BY <1>2, <1>3, <1>4 DEF ExchangeInv, ExchangeTypeOK, OneExchange
<1>6. \A x : IsRefused(x)' <=> IsRefused(x)
  BY <1>3 DEF IsRefused
<1>7. AnswersInv'
  BY <1>2, <1>3, <1>6 DEF ExchangeInv, AnswersInv, Refusal
<1>8. CacheKeepsMargin' /\ CachedWereIssued' /\ MarkersLast'
  BY <1>3 DEF ExchangeInv, CacheKeepsMargin, CachedWereIssued, MarkersLast
<1>9. RefusalRemembered' /\ NotCachedAndRefused'
  BY <1>3, <1>6 DEF ExchangeInv, RefusalRemembered, NotCachedAndRefused
<1>10. /\ \A f \in running : \E g \in running' : g.subject = f.subject
       /\ \A f \in running' : f \in running \/ f.answer = Refusal
  <2>1. \A f \in running : \E g \in running' : g.subject = f.subject
    <3> SUFFICES ASSUME NEW f \in running PROVE \E g \in running' : g.subject = f.subject
      OBVIOUS
    <3>1. CASE f = e
      <4>1. new \in running' /\ new.subject = f.subject
        BY <1>2, <3>1
      <4> HIDE DEF new
      <4> QED BY <4>1
    <3>2. CASE f # e
      BY <1>2, <3>2
    <3> QED BY <3>1, <3>2
  <2> QED BY <1>2, <2>1
<1> QED BY <1>3, <1>5, <1>7, <1>8, <1>9, <1>10 DEF ExchangeInv

\* Time passes: a marker lapses only when its subject has expired.
LEMMA TickKeeps ==
  ASSUME ExchangeInv, Tick
  PROVE  ExchangeInv'
<1> USE DEF Tick, cacheVars, serverVars
<1>1. now \in Nat /\ now' = now + 1
  BY DEF ExchangeInv, ExchangeTypeOK
<1>2. \A c \in ToSet(cache) : c.exp \in Int
  BY EntriesTyped DEF LruEntry
<1>3. \A m \in ToSet(refused) : m.exp \in Int /\ m.exp = ExpiresAt[m.key]
  BY EntriesTyped DEF LruEntry, ExchangeInv, MarkersLast
<1>4. \A x : IsRefused(x)' <=> \E m \in ToSet(refused) : m.key = x /\ m.exp > now'
  BY LiveIsEntry DEF IsRefused
<1>5. \A x : /\ IsRefused(x)' => IsRefused(x)
             /\ IsRefused(x) => IsRefused(x)' \/ now' >= ExpiresAt[x]
  BY <1>1, <1>3, <1>4, RefusedIsMarked
<1>6. \A x : HasLive(cache, x, now)' => HasLive(cache, x, now)
  BY <1>1, <1>2, LiveIsEntry
<1>7. ExchangeTypeOK' /\ OneExchange'
  BY <1>1 DEF ExchangeInv, ExchangeTypeOK, OneExchange
<1>8. CacheKeepsMargin' /\ CachedWereIssued' /\ MarkersLast'
  BY DEF ExchangeInv, CacheKeepsMargin, CachedWereIssued, MarkersLast
<1>9. RefusalRemembered'
  <2> SUFFICES ASSUME NEW x \in told PROVE IsRefused(x)' \/ now' >= ExpiresAt[x]
    BY DEF RefusalRemembered
  <2>1. ExpiresAt[x] \in Nat
    BY ExchangeAssumption DEF ExchangeInv, ExchangeTypeOK
  <2> QED BY <1>1, <1>5, <2>1 DEF ExchangeInv, RefusalRemembered
<1>10. NotCachedAndRefused'
  BY <1>5, <1>6 DEF ExchangeInv, NotCachedAndRefused
<1>11. AnswersInv'
  <2>1. \A e \in running : e.at <= now'
    BY <1>1, EntriesTyped DEF ExchangeInv, AnswersInv
  <2> QED BY <1>5, <2>1 DEF ExchangeInv, AnswersInv
<1> QED BY <1>7, <1>8, <1>9, <1>10, <1>11 DEF ExchangeInv

\* The exchanger knows nothing of a revocation until it asks.
LEMMA RevokeKeeps ==
  ASSUME ExchangeInv, NEW s \in Subject, Revoke(s)
  PROVE  ExchangeInv'
<1> USE DEF Revoke, cacheVars
<1>1. \A x : IsRefused(x)' <=> IsRefused(x)
  BY DEF IsRefused
<1>2. ExchangeTypeOK' /\ OneExchange' /\ AnswersInv'
  BY <1>1 DEF ExchangeInv, ExchangeTypeOK, OneExchange, AnswersInv
<1>3. CacheKeepsMargin' /\ CachedWereIssued' /\ MarkersLast'
  BY DEF ExchangeInv, CacheKeepsMargin, CachedWereIssued, MarkersLast
<1>4. RefusalRemembered' /\ NotCachedAndRefused'
  BY <1>1 DEF ExchangeInv, RefusalRemembered, NotCachedAndRefused
<1> QED BY <1>2, <1>3, <1>4 DEF ExchangeInv

-----------------------------------------------------------------------------
(* The requests *)

\* What the invariant says of a token in use and of a cached one.
LEMMA TokensTyped ==
  ASSUME IInv
  PROVE  /\ \A t \in known : t \in ApiToken /\ t.of \in Subject /\ t.n \in Nat
         /\ \A r \in Request : tok[r] # None => tok[r] \in ApiToken
         /\ \A c \in ToSet(cache) : c.key \in Subject /\ c.val \in ApiToken /\ c.val.of = c.key
         /\ count \in [Subject -> Nat]
BY EntriesTyped DEF IInv, TypeOK, ApiToken, LruEntry, ExchangeInv, ExchangeTypeOK, CacheKeepsMargin

\* The end of a request.
LEMMA EndKeeps ==
  ASSUME IInv, NEW r \in Request, NEW o, End(r, o), ExchangeInv',
         running' = running, count' = count, cache' = cache
  PROVE  IInv' /\ CallsUnrefused
<1>1. \A q \in Request : q # r => pc'[q] = pc[q] /\ of'[q] = of[q] /\ tok'[q] = tok[q]
  BY DEF End, IInv, TypeOK
<1>2. pc'[r] = "idle" /\ tok'[r] = None /\ known' = known
  BY DEF End, IInv, TypeOK
<1>3. TypeOK'
  BY DEF End, IInv, TypeOK, Places, Outcomes
<1>4. NobodyForgotten'
  BY <1>1, <1>2 DEF IInv, NobodyForgotten, Waiting
<1>5. TokensInv'
  <2>1. \A e \in running : e.answer.kind = "token" => e.answer.token # None
    <3> SUFFICES ASSUME NEW e \in running, e.answer.kind = "token" PROVE e.answer.token # None
      OBVIOUS
    <3>1. e.answer \in Answers
      BY EntriesTyped DEF IInv
    <3>2. e.answer.token \in ApiToken
      BY <3>1 DEF Answers, Unanswered, Refusal
    <3> QED BY <3>2, AppAssumption
  <2> QED BY <1>1, <1>2, <2>1 DEF IInv, TokensInv, Calling
<1> QED BY <1>1, <1>2, <1>3, <1>4, <1>5 DEF IInv, Calling, CallsUnrefused

\* A request moves, and may let go of its token, but not touch the exchanger.
LEMMA MoveKeeps ==
  ASSUME IInv, NEW r \in Request, pc[r] # "idle",
         NEW to \in Places \ ({"idle"} \cup Waiting \cup Calling), NEW t \in {None, tok[r]},
         ExchangeInv', running' = running, count' = count, ToSet(cache') \subseteq ToSet(cache),
         pc' = [pc EXCEPT ![r] = to], tok' = [tok EXCEPT ![r] = t],
         out' \in [Request -> Outcomes], gone' \subseteq Request, of' = of,
         \/ known' = known
         \/ /\ known' = known \cup {tok[r]} /\ tok[r] # None /\ t = None
            /\ \A c \in ToSet(cache') : c.key # of[r]
  PROVE  IInv' /\ CallsUnrefused
<1>1. /\ \A q \in Request : q # r => pc'[q] = pc[q] /\ tok'[q] = tok[q]
      /\ pc'[r] = to /\ tok'[r] = t
  BY DEF IInv, TypeOK
<1>2. TypeOK'
  BY TokensTyped DEF IInv, TypeOK, Places
<1>3. NobodyForgotten'
  BY <1>1 DEF IInv, NobodyForgotten
<1>4. \A e \in running : e.answer.kind = "token" => e.answer.token # None
  <2> SUFFICES ASSUME NEW e \in running, e.answer.kind = "token" PROVE e.answer.token # None
    OBVIOUS
  <2>1. e.answer \in Answers
    BY EntriesTyped DEF IInv
  <2>2. e.answer.token \in ApiToken
    BY <2>1 DEF Answers, Unanswered, Refusal
  <2> QED BY <2>2, AppAssumption
<1>5. \A x \in known' : x.n <= count'[x.of] /\ \A c \in ToSet(cache') : c.val # x
  <2> SUFFICES ASSUME NEW x \in known'
               PROVE  x.n <= count[x.of] /\ \A c \in ToSet(cache') : c.val # x
    OBVIOUS
  <2>1. CASE x \in known
    BY <2>1 DEF IInv, TokensInv
  <2>2. CASE x = tok[r] /\ tok[r] # None /\ \A c \in ToSet(cache') : c.key # of[r]
    BY <2>2, TokensTyped DEF IInv, TokensInv
  <2> QED BY <2>1, <2>2
<1>6. \A q \in Request :
        /\ IF pc'[q] = "idle" THEN tok'[q] = None ELSE of'[q] \in Subject
        /\ pc'[q] \in Calling => tok'[q] # None
        /\ tok'[q] # None => tok'[q].of = of'[q] /\ tok'[q].n <= count'[of'[q]]
  BY <1>1 DEF IInv, TokensInv
<1>7. \A e \in running : e.answer.kind = "token" =>
        e.answer.token \notin known' /\ \A q \in Request : tok'[q] # e.answer.token
  BY <1>1, <1>4 DEF IInv, TokensInv
<1>8. TokensInv'
  BY <1>5, <1>6, <1>7 DEF TokensInv
<1> QED BY <1>1, <1>2, <1>3, <1>8 DEF IInv, CallsUnrefused

\* A request asks the exchanger.  If it is given a token at once, that one was
\* cached, and no token seen refused is.
LEMMA AskKeeps ==
  ASSUME IInv, NEW r \in Request, pc[r] # "idle",
         NEW c, NEW wait \in Waiting, NEW next \in {"scoped"} \cup Calling,
         AskExchanger(r, c, wait, next),
         \/ c = cache /\ known' = known
         \/ c = Without(cache, of[r]) /\ known' = known \cup {tok[r]} /\ tok[r] # None
  PROVE  /\ IInv'
         /\ CallsUnrefused
<1> DEFINE s == of[r]
<1>1. s \in Subject /\ c \in {cache, Without(cache, s)} /\ UNCHANGED <<now, serverVars>>
  BY DEF IInv, TokensInv, AskExchanger
<1>2. Exchanged(r, s, c)
  BY DEF AskExchanger
<1>3. /\ ExchangeInv'
      /\ ToSet(cache') \subseteq ToSet(c) /\ ToSet(c) \subseteq ToSet(cache)
      /\ running \subseteq running'
      /\ \A e \in running' \ running : e.answer = Unanswered
      /\ Given(s, c) = "wait" => \E e \in running' : e.subject = s
  BY <1>1, <1>2, ExchangedKeeps DEF IInv
<1>4. /\ count' = count /\ of' = of /\ gone' = gone
      /\ \A q \in Request : q # r => pc'[q] = pc[q] /\ tok'[q] = tok[q]
  BY <1>1 DEF AskExchanger, serverVars, IInv, TypeOK
<1>5. \A e \in running' : e.answer.kind = "token" => e \in running
  BY <1>3 DEF Unanswered
<1>6. \A x \in ToSet(c) : known' # known => x.key # s
  <2>1. CASE c = Without(cache, s)
    <3>1. cache \in Seq(LruEntry(Subject, ApiToken)) /\ OneEntryEach(cache)
      BY DEF IInv, ExchangeInv, ExchangeTypeOK, WithinSize
    <3> QED BY <2>1, <3>1, WithoutDeletes
  <2> QED BY <2>1
<1>7. \A x \in known' : x.n <= count[x.of] /\ \A y \in ToSet(c) : y.val # x
  <2> SUFFICES ASSUME NEW x \in known'
               PROVE  x.n <= count[x.of] /\ \A y \in ToSet(c) : y.val # x
    OBVIOUS
  <2>1. CASE x \in known
    BY <1>3, <2>1 DEF IInv, TokensInv
  <2>2. CASE x \notin known
    <3>1. x = tok[r] /\ tok[r] # None /\ \A y \in ToSet(c) : y.key # s
      BY <1>6, <2>2
    <3> QED BY <1>3, <3>1, TokensTyped DEF IInv, TokensInv
  <2> QED BY <2>1, <2>2
<1>8. \A e \in running : e.answer.kind = "token" => e.answer.token \notin known'
  BY DEF IInv, TokensInv
\* What happens to the request.
<1>9. CASE Given(s, c) = "cached"
  <2> DEFINE t == ValueOf(c, s)
  <2>1. /\ pc' = [pc EXCEPT ![r] = next] /\ out' = out
        /\ tok' = [tok EXCEPT ![r] = IF next \in Calling THEN t ELSE @]
    BY <1>9 DEF AskExchanger
  <2>2. HasLive(c, s, now)
    BY <1>9 DEF Given
  <2>3. cache \in Seq(LruEntry(Subject, ApiToken)) /\ OneEntryEach(cache)
    BY DEF IInv, ExchangeInv, ExchangeTypeOK, WithinSize
  <2>4. c \in Seq(LruEntry(Subject, ApiToken)) /\ OneEntryEach(c)
    BY <1>1, <2>3, WithoutDeletes
  <2>5. PICK z \in ToSet(c) : z.key = s /\ t = z.val
    BY <2>2, <2>4, GetReturns
  <2>6. /\ t \in ApiToken /\ t.of = s /\ t.n <= count[s] /\ t \notin known'
        /\ \A e \in running : e.answer.kind = "token" => e.answer.token # t
    BY <1>3, <1>7, <2>5, TokensTyped
    DEF IInv, ExchangeInv, CachedWereIssued, AnswersInv
  <2>7. t # None
    BY <2>6, AppAssumption
  <2>8. /\ pc'[r] = next /\ next \notin Waiting
        /\ tok'[r] = IF next \in Calling THEN t ELSE tok[r]
    BY <2>1 DEF IInv, TypeOK, Waiting, Calling
  <2>9. TypeOK'
    BY <1>4, <2>1, <2>6, TokensTyped DEF IInv, TypeOK, Places
  <2>10. NobodyForgotten'
    BY <1>3, <1>4, <2>8 DEF IInv, NobodyForgotten
  <2>11. TokensInv'
    <3>1. \A x \in known' : x.n <= count'[x.of] /\ \A y \in ToSet(cache') : y.val # x
      BY <1>3, <1>4, <1>7
    <3>2. \A q \in Request :
            /\ IF pc'[q] = "idle" THEN tok'[q] = None ELSE of'[q] \in Subject
            /\ pc'[q] \in Calling => tok'[q] # None
            /\ tok'[q] # None => tok'[q].of = of'[q] /\ tok'[q].n <= count'[of'[q]]
      <4> SUFFICES ASSUME NEW q \in Request
                   PROVE  /\ IF pc'[q] = "idle" THEN tok'[q] = None ELSE of'[q] \in Subject
                          /\ pc'[q] \in Calling => tok'[q] # None
                          /\ tok'[q] # None =>
                               tok'[q].of = of'[q] /\ tok'[q].n <= count'[of'[q]]
        OBVIOUS
      <4>1. CASE q # r
        BY <1>4, <4>1 DEF IInv, TokensInv
      <4>2. CASE q = r
        <5>1. tok'[r] = tok[r] \/ tok'[r] = t
          BY <2>8
        <5>2. pc'[r] # "idle" /\ (pc'[r] \in Calling => tok'[r] = t)
          BY <2>8 DEF Calling
        <5> HIDE DEF t
        <5> QED BY <1>1, <1>4, <2>6, <2>7, <4>2, <5>1, <5>2 DEF IInv, TokensInv
      <4> QED BY <4>1, <4>2
    <3>3. \A e \in running' : e.answer.kind = "token" =>
            e.answer.token \notin known' /\ \A q \in Request : tok'[q] # e.answer.token
      BY <1>4, <1>5, <1>8, <2>6, <2>8 DEF IInv, TokensInv
    <3> QED BY <3>1, <3>2, <3>3 DEF TokensInv
  <2> QED BY <1>3, <1>4, <2>6, <2>8, <2>9, <2>10, <2>11
      DEF IInv, CallsUnrefused
<1>10. CASE Given(s, c) # "cached"
  <2> DEFINE to == IF Given(s, c) = "refused" THEN "answer" ELSE wait
  <2>1. /\ pc' = [pc EXCEPT ![r] = to] /\ tok' = tok
        /\ out' \in [Request -> Outcomes]
    BY <1>10 DEF AskExchanger, IInv, TypeOK, Outcomes
  <2>2. /\ pc'[r] = to /\ to \notin Calling /\ to # "idle"
        /\ to \in Waiting => Given(s, c) = "wait"
    BY <1>10, <2>1 DEF Given, IInv, TypeOK, Waiting, Calling
  <2>3. TypeOK'
    BY <1>4, <2>1, TokensTyped DEF IInv, TypeOK, Places
  <2>4. NobodyForgotten'
    BY <1>3, <1>4, <2>2 DEF IInv, NobodyForgotten
  <2>5. TokensInv'
    <3>1. \A x \in known' : x.n <= count'[x.of] /\ \A y \in ToSet(cache') : y.val # x
      BY <1>3, <1>4, <1>7
    <3>2. \A q \in Request :
            /\ IF pc'[q] = "idle" THEN tok'[q] = None ELSE of'[q] \in Subject
            /\ pc'[q] \in Calling => tok'[q] # None
            /\ tok'[q] # None => tok'[q].of = of'[q] /\ tok'[q].n <= count'[of'[q]]
      BY <1>1, <1>4, <2>1, <2>2 DEF IInv, TokensInv
    <3>3. \A e \in running' : e.answer.kind = "token" =>
            e.answer.token \notin known' /\ \A q \in Request : tok'[q] # e.answer.token
      BY <1>5, <1>8, <2>1 DEF IInv, TokensInv
    <3> QED BY <3>1, <3>2, <3>3 DEF TokensInv
  <2> QED BY <1>3, <1>4, <2>2, <2>3, <2>4, <2>5
      DEF IInv, CallsUnrefused
<1> QED BY <1>9, <1>10

\* What a settled exchange may add to the cache.
CacheGains(e, o) ==
  \A c \in ToSet(cache') :
    c \in ToSet(cache) \/ (o = "token" /\ c.val = e.answer.token)

\* An exchange settles and everyone who waits for it goes on.
LEMMA DeliverKeeps ==
  ASSUME IInv, NEW e \in running, NEW o \in {"token", "dead", "error"}, Deliver(e, o),
         ExchangeInv', running' = running \ {e},
         o = "token" => e.answer.kind = "token" /\ e.answer.token \in ApiToken,
         CacheGains(e, o)
  PROVE  /\ IInv'
         /\ CallsUnrefused
<1> DEFINE t == e.answer.token
           waits(r) == pc[r] \in Waiting /\ of[r] = e.subject
<1>1. /\ count' = count /\ known' = known /\ of' = of /\ gone' = gone
      /\ \A r \in Request :
           /\ pc'[r] = IF waits(r) THEN AfterWait(r, o) ELSE pc[r]
           /\ tok'[r] = IF waits(r) /\ o = "token" /\ pc[r] # "scopes" THEN t ELSE tok[r]
           /\ out'[r] = IF waits(r) /\ o # "token" THEN o ELSE out[r]
      /\ pc' = [r \in Request |-> pc'[r]] /\ tok' = [r \in Request |-> tok'[r]]
      /\ out' = [r \in Request |-> out'[r]]
  BY DEF Deliver, serverVars
<1>2. \A r \in Request : waits(r) =>
        /\ AfterWait(r, o) \in {"answer", "scoped", "call", "recall"}
        /\ AfterWait(r, o) \in Calling => o = "token" /\ pc[r] # "scopes"
  BY DEF AfterWait, Waiting, Calling
<1>3. o = "token" =>
        /\ t \in ApiToken /\ t # None /\ t \notin known
        /\ t.of = e.subject /\ t.n <= count[t.of]
        /\ \A c \in ToSet(cache) : c.val # t
  BY AppAssumption DEF IInv, ExchangeInv, AnswersInv, TokensInv
<1>4. TypeOK'
  <2>1. \A r \in Request : pc'[r] \in Places
    BY <1>1, <1>2 DEF IInv, TypeOK, Places, Calling
  <2>2. \A r \in Request : tok'[r] \in ApiToken \cup {None}
    BY <1>1, <1>3 DEF IInv, TypeOK
  <2>3. \A r \in Request : out'[r] \in Outcomes
    BY <1>1 DEF IInv, TypeOK, Outcomes
  <2> QED BY <1>1, <2>1, <2>2, <2>3 DEF IInv, TypeOK
<1>5. NobodyForgotten'
  <2> SUFFICES ASSUME NEW r \in Request, pc'[r] \in Waiting
               PROVE  \E f \in running' : f.subject = of'[r]
    BY DEF NobodyForgotten
  <2>1. ~waits(r) /\ pc[r] \in Waiting
    BY <1>1, <1>2 DEF Waiting
  <2> QED BY <1>1, <2>1 DEF IInv, NobodyForgotten
<1>6. TokensInv'
  <2>1. \A x \in known' : x.n <= count'[x.of] /\ \A c \in ToSet(cache') : c.val # x
    BY <1>1, <1>3 DEF IInv, TokensInv, CacheGains
  <2>2. \A r \in Request :
          /\ IF pc'[r] = "idle" THEN tok'[r] = None ELSE of'[r] \in Subject
          /\ pc'[r] \in Calling => tok'[r] # None
          /\ tok'[r] # None => tok'[r].of = of'[r] /\ tok'[r].n <= count'[of'[r]]
    <3> SUFFICES ASSUME NEW r \in Request
                 PROVE  /\ IF pc'[r] = "idle" THEN tok'[r] = None ELSE of'[r] \in Subject
                        /\ pc'[r] \in Calling => tok'[r] # None
                        /\ tok'[r] # None => tok'[r].of = of'[r] /\ tok'[r].n <= count'[of'[r]]
      OBVIOUS
    <3>1. CASE waits(r)
      <4>1. of[r] \in Subject
        BY <3>1 DEF IInv, TokensInv, Waiting
      <4> QED BY <1>1, <1>2, <1>3, <3>1, <4>1 DEF IInv, TokensInv
    <3>2. CASE ~waits(r)
      BY <1>1, <3>2 DEF IInv, TokensInv
    <3> QED BY <3>1, <3>2
  <2>3. \A f \in running' : f.answer.kind = "token" =>
          f.answer.token \notin known' /\ \A r \in Request : tok'[r] # f.answer.token
    <3> SUFFICES ASSUME NEW f \in running', f.answer.kind = "token"
                 PROVE  /\ f.answer.token \notin known'
                        /\ \A r \in Request : tok'[r] # f.answer.token
      OBVIOUS
    <3>1. f.subject # e.subject
      BY DEF IInv, ExchangeInv, OneExchange
    <3>2. f.answer.token.of = f.subject
      BY DEF IInv, ExchangeInv, AnswersInv
    <3>3. f.answer.token \notin known /\ \A r \in Request : tok[r] # f.answer.token
      BY DEF IInv, TokensInv
    <3> QED BY <1>1, <1>3, <3>1, <3>2, <3>3
  <2> QED BY <2>1, <2>2, <2>3 DEF TokensInv
<1> QED BY <1>1, <1>2, <1>3, <1>4, <1>5, <1>6 DEF IInv, Calling, CallsUnrefused

\* Each settlement, then, keeps the invariant.
LEMMA SettleKeeps ==
  ASSUME IInv, NEW e \in running, ExchangeSettles(e)
  PROVE  IInv' /\ CallsUnrefused
<1>1. ExchangeInv /\ UNCHANGED <<now, serverVars>>
  BY DEF ExchangeSettles, Deliver, IInv
<1>2. CASE Grants(e) /\ Deliver(e, "token")
  <2>1. ExchangeInv' /\ e.answer.token \in ApiToken 
        /\ \A c \in ToSet(cache') : c \in ToSet(cache) \/ c.val = e.answer.token
    BY <1>1, <1>2, GrantsKeeps
  <2>2. running' = running \ {e} /\ e.answer.kind = "token"
    BY <1>2 DEF Grants
  <2>3. CacheGains(e, "token")
    BY <2>1 DEF CacheGains
  <2> QED BY <1>2, <2>1, <2>2, <2>3, DeliverKeeps
<1>3. CASE Refuses(e) /\ Deliver(e, "dead")
  <2>1. ExchangeInv' /\ ToSet(cache') \subseteq ToSet(cache)
    BY <1>1, <1>3, RefusesKeeps
  <2>2. running' = running \ {e}
    BY <1>3 DEF Refuses
  <2>3. CacheGains(e, "dead")
    BY <2>1 DEF CacheGains
  <2> QED BY <1>3, <2>1, <2>2, <2>3, DeliverKeeps
<1>4. CASE Fails(e) /\ Deliver(e, "error")
  <2>1. ExchangeInv'
    BY <1>1, <1>4, FailsKeeps
  <2>2. running' = running \ {e} /\ CacheGains(e, "error")
    BY <1>4 DEF Fails, cacheVars, CacheGains
  <2> QED BY <1>4, <2>1, <2>2, DeliverKeeps
<1> QED BY <1>2, <1>3, <1>4 DEF ExchangeSettles

\* If the exchanger changes on its own, requests stay where they are.
LEMMA RequestsStay ==
  ASSUME IInv, ExchangeInv', UNCHANGED requestVars, cache' = cache,
         \A f \in running : \E g \in running' : g.subject = f.subject,
         \A x \in Subject : count[x] <= count'[x],
         \A f \in running' : f.answer.kind = "token" =>
           \/ f \in running
           \/ /\ f.answer.token.of \in Subject
              /\ f.answer.token.n = count[f.answer.token.of] + 1
  PROVE  IInv'
<1> USE DEF requestVars
<1>1. TypeOK' /\ NobodyForgotten'
  BY DEF IInv, TypeOK, NobodyForgotten
<1>2. /\ count \in [Subject -> Nat] /\ count' \in [Subject -> Nat]
      /\ \A x \in known : x.of \in Subject /\ x.n \in Nat
      /\ \A r \in Request : tok[r] # None => tok[r].of \in Subject /\ tok[r].n \in Nat
  BY TokensTyped DEF IInv, ExchangeInv, ExchangeTypeOK, ApiToken
<1>3. \A x \in known : x.n <= count[x.of] /\ x.n <= count'[x.of]
  <2>1. \A x \in known : /\ x.n <= count[x.of] /\ count[x.of] <= count'[x.of]
                         /\ count[x.of] \in Nat /\ count'[x.of] \in Nat /\ x.n \in Nat
    BY <1>2 DEF IInv, TokensInv
  <2> QED BY <2>1
<1>4. \A r \in Request : tok[r] # None =>
        tok[r].of = of[r] /\ tok[r].n <= count[of[r]] /\ tok[r].n <= count'[of[r]]
  <2>1. \A r \in Request : tok[r] # None =>
          /\ tok[r].of = of[r] /\ of[r] \in Subject
          /\ tok[r].n <= count[of[r]] /\ count[of[r]] <= count'[of[r]]
          /\ count[of[r]] \in Nat /\ count'[of[r]] \in Nat /\ tok[r].n \in Nat
    BY <1>2 DEF IInv, TokensInv
  <2> QED BY <2>1
<1>5. \A f \in running' : f.answer.kind = "token" =>
        f.answer.token \notin known /\ \A r \in Request : tok[r] # f.answer.token
  <2> SUFFICES ASSUME NEW f \in running', f.answer.kind = "token"
               PROVE  /\ f.answer.token \notin known
                      /\ \A r \in Request : tok[r] # f.answer.token
    OBVIOUS
  <2> DEFINE u == f.answer.token
  <2>1. CASE f \in running
    BY <2>1 DEF IInv, TokensInv
  <2>2. CASE u.of \in Subject /\ u.n = count[u.of] + 1
    <3>1. ~(u.n <= count[u.of])
      BY <1>2, <2>2
    <3>2. u \notin known
      BY <1>3, <3>1
    <3>3. u # None => \A r \in Request : tok[r] # u
      BY <1>4, <3>1
    <3>4. u # None
      <4>1. f.answer \in Answers
        BY DEF ExchangeInv, ExchangeTypeOK
      <4>2. u \in ApiToken
        BY <4>1 DEF Answers, Unanswered, Refusal
      <4> QED BY <4>2, AppAssumption
    <3> QED BY <3>2, <3>3, <3>4
  <2> QED BY <2>1, <2>2
<1>6. TokensInv'
  BY <1>3, <1>4, <1>5 DEF IInv, TokensInv
<1> QED BY <1>1, <1>6 DEF IInv

\* The steps of the exchanger's surroundings.
LEMMA SurroundingsKeep ==
  ASSUME IInv, UNCHANGED requestVars,
         \/ Tick
         \/ \E s \in Subject : Revoke(s)
         \/ \E e \in running : Issue(e) \/ Refuse(e)
  PROVE  IInv' /\ CallsUnrefused
<1>1. CallsUnrefused
  BY DEF CallsUnrefused, requestVars
<1>2. ExchangeInv /\ count \in [Subject -> Nat]
  BY DEF IInv, ExchangeInv, ExchangeTypeOK
<1>3. CASE Tick
  <2>1. ExchangeInv' /\ UNCHANGED <<count, cache, running>>
    BY <1>2, <1>3, TickKeeps DEF Tick, serverVars, cacheVars
  <2>2. \A x \in Subject : count[x] <= count'[x]
    BY <1>2, <2>1
  <2> QED BY <1>1, <2>1, <2>2, RequestsStay
<1>4. ASSUME NEW s \in Subject, Revoke(s) PROVE IInv'
  <2>1. ExchangeInv' /\ UNCHANGED <<count, cache, running>>
    BY <1>2, <1>4, RevokeKeeps DEF Revoke, cacheVars
  <2>2. \A x \in Subject : count[x] <= count'[x]
    BY <1>2, <2>1
  <2> QED BY <2>1, <2>2, RequestsStay
<1>5. ASSUME NEW e \in running, Issue(e) PROVE IInv'
  <2>1. /\ ExchangeInv' /\ cache' = cache /\ e.subject \in Subject
        /\ \A f \in running : \E g \in running' : g.subject = f.subject
        /\ \A x \in Subject : count[x] <= count'[x]
        /\ \A f \in running' :
             \/ f \in running
             \/ /\ f.answer.token.of = e.subject
                /\ f.answer.token.n = count[e.subject] + 1
    BY <1>2, <1>5, IssueKeeps, EntriesTyped DEF Issue, cacheVars
  <2>2. \A f \in running' : f.answer.kind = "token" =>
           \/ f \in running
           \/ /\ f.answer.token.of \in Subject
              /\ f.answer.token.n = count[f.answer.token.of] + 1
    BY <2>1
  <2> QED BY <2>1, <2>2, RequestsStay
<1>6. ASSUME NEW e \in running, Refuse(e) PROVE IInv'
  <2>1. /\ ExchangeInv' /\ UNCHANGED <<count, cache>>
        /\ \A f \in running : \E g \in running' : g.subject = f.subject
        /\ \A f \in running' : f \in running \/ f.answer = Refusal
    BY <1>2, <1>6, RefuseKeeps DEF Refuse, serverVars, cacheVars
  <2>2. /\ \A x \in Subject : count[x] <= count'[x]
        /\ \A f \in running' : f.answer.kind = "token" => f \in running
    BY <1>2, <2>1 DEF Refusal
  <2> QED BY <2>1, <2>2, RequestsStay
<1> QED BY <1>1, <1>3, <1>4, <1>5, <1>6

\* Steps of requests that do not involve the exchanger.
LEMMA ExchangerRests ==
  ASSUME ExchangeInv, UNCHANGED exchangeVars
  PROVE  ExchangeInv' /\ running' = running /\ count' = count /\ cache' = cache
BY DEF ExchangeInv, exchangeVars, serverVars, cacheVars, ExchangeTypeOK, WithinSize,
       OneEntryEach, OneExchange, CacheKeepsMargin, RefusalRemembered, NotCachedAndRefused,
       AnswersInv, CachedWereIssued, MarkersLast, IsRefused, HasLive

\* The steps of a request.
LEMMA StepKeeps ==
  ASSUME IInv, NEW r \in Request, Step(r)
  PROVE  IInv' /\ CallsUnrefused
<1>0. /\ ExchangeInv
      /\ UNCHANGED exchangeVars =>
           ExchangeInv' /\ running' = running /\ count' = count /\ cache' = cache
  BY ExchangerRests DEF IInv
<1>1. \A s : ReadRefused(s) =>
        ExchangeInv' /\ running' = running /\ count' = count /\ cache' = cache
  <2> SUFFICES ASSUME NEW s, ReadRefused(s)
               PROVE  ExchangeInv' /\ running' = running /\ count' = count /\ cache' = cache
    OBVIOUS
  <2>1. ExchangeInv'
    BY <1>0, ReadKeeps
  <2> QED BY <2>1 DEF ReadRefused, serverVars
<1>2. ASSUME Unauthorized(r) \/ Reject(r) \/ Answer(r) \/ AnswerStreamed(r) \/ Stop(r)
      PROVE  IInv' /\ CallsUnrefused
  <2>1. PICK o : End(r, o)
    BY <1>2 DEF Unauthorized, Reject, Answer, AnswerStreamed, Stop
  <2>2. ExchangeInv' /\ running' = running /\ count' = count /\ cache' = cache
    BY <1>0, <1>1, <1>2 DEF Unauthorized, Reject, Answer, AnswerStreamed, Stop
  <2> QED BY <2>1, <2>2, EndKeeps
<1>3. CASE Verified(r)
  <2>1. ExchangeInv' /\ running' = running /\ count' = count /\ cache' = cache
    BY <1>1, <1>3 DEF Verified
  <2>2. /\ pc[r] # "idle" /\ "body" \in Places \ ({"idle"} \cup Waiting \cup Calling)
        /\ pc' = [pc EXCEPT ![r] = "body"] /\ tok' = [tok EXCEPT ![r] = tok[r]]
        /\ UNCHANGED <<of, known>> /\ out' \in [Request -> Outcomes] /\ gone' \subseteq Request
    BY <1>3 DEF Verified, Places, Waiting, Calling, IInv, TypeOK
  <2> QED BY <2>1, <2>2, MoveKeeps
<1>4. CASE NoTool(r)
  <2>1. ExchangeInv' /\ running' = running /\ count' = count /\ cache' = cache
    BY <1>0, <1>4 DEF NoTool
  <2>2. /\ pc[r] # "idle" /\ "answer" \in Places \ ({"idle"} \cup Waiting \cup Calling)
        /\ pc' = [pc EXCEPT ![r] = "answer"] /\ tok' = [tok EXCEPT ![r] = tok[r]]
        /\ UNCHANGED <<of, known>> /\ out' \in [Request -> Outcomes] /\ gone' \subseteq Request
    BY <1>4 DEF NoTool, Places, Waiting, Calling, IInv, TypeOK
  <2> QED BY <2>1, <2>2, MoveKeeps
<1>5. CASE GrantedScopes(r)
  <2>1. /\ pc[r] # "idle" /\ known' = known /\ "scopes" \in Waiting
        /\ "scoped" \in {"scoped"} \cup Calling /\ AskExchanger(r, cache, "scopes", "scoped")
    BY <1>5 DEF GrantedScopes, Waiting
  <2> QED BY <2>1, AskKeeps
<1>6. CASE CallApi(r)
  <2>1. /\ pc[r] # "idle" /\ known' = known /\ "token" \in Waiting
        /\ "call" \in {"scoped"} \cup Calling /\ AskExchanger(r, cache, "token", "call")
    BY <1>6 DEF CallApi, Waiting, Calling
  <2> QED BY <2>1, AskKeeps
<1>7. CASE ApiRefuses(r)
  <2> DEFINE c == Without(cache, of[r])
  <2>1. /\ pc[r] # "idle" /\ known' = known \cup {tok[r]} /\ tok[r] # None
        /\ "retoken" \in Waiting /\ "recall" \in {"scoped"} \cup Calling
        /\ AskExchanger(r, c, "retoken", "recall")
    BY <1>7 DEF ApiRefuses, Waiting, Calling, Invalidated, IInv, TokensInv
  <2> HIDE DEF c
  <2>2. c = Without(cache, of[r])
    BY DEF c
  <2> QED BY <2>1, <2>2, AskKeeps
<1>8. CASE AnswerWithoutCall(r) \/ ApiFails(r)
  <2>1. ExchangeInv' /\ running' = running /\ count' = count /\ cache' = cache
    BY <1>0, <1>8 DEF AnswerWithoutCall, ApiFails
  <2>2. /\ pc[r] # "idle" /\ "answer" \in Places \ ({"idle"} \cup Waiting \cup Calling)
        /\ pc' = [pc EXCEPT ![r] = "answer"] /\ tok' = [tok EXCEPT ![r] = None]
        /\ UNCHANGED <<of, known>> /\ out' \in [Request -> Outcomes] /\ gone' \subseteq Request
    BY <1>8 DEF AnswerWithoutCall, ApiFails, ToolEnds, Places, Waiting, Calling, IInv, TypeOK,
                Outcomes
  <2> QED BY <2>1, <2>2, MoveKeeps
<1>9. CASE ApiServes(r)
  <2>1. ExchangeInv' /\ running' = running /\ count' = count /\ cache' = cache
    BY <1>0, <1>9 DEF ApiServes
  <2>2. /\ pc[r] # "idle" /\ "scoped" \in Places \ ({"idle"} \cup Waiting \cup Calling)
        /\ pc' = [pc EXCEPT ![r] = "scoped"] /\ tok' = [tok EXCEPT ![r] = None]
        /\ UNCHANGED <<of, known>> /\ out' \in [Request -> Outcomes] /\ gone' \subseteq Request
    BY <1>9 DEF ApiServes, Places, Waiting, Calling, IInv, TypeOK
  <2> QED BY <2>1, <2>2, MoveKeeps
<1>10. CASE ApiRefusesAgain(r)
  <2>1. /\ cache' = Without(cache, of[r]) /\ UNCHANGED <<now, serverVars, refused, told, running>>
    BY <1>10 DEF ApiRefusesAgain, Invalidated
  <2>2. ExchangeInv' /\ ToSet(cache') = {c \in ToSet(cache) : c.key # of[r]}
    BY <1>0, <2>1, ForgetKeeps
  <2>3. /\ running' = running /\ count' = count /\ ToSet(cache') \subseteq ToSet(cache)
        /\ \A c \in ToSet(cache') : c.key # of[r]
    BY <2>1, <2>2 DEF serverVars
  <2>4. /\ pc[r] # "idle" /\ "answer" \in Places \ ({"idle"} \cup Waiting \cup Calling) /\ tok[r] # None
        /\ pc' = [pc EXCEPT ![r] = "answer"] /\ tok' = [tok EXCEPT ![r] = None]
        /\ of' = of /\ known' = known \cup {tok[r]}
        /\ out' \in [Request -> Outcomes] /\ gone' \subseteq Request
    BY <1>10 DEF ApiRefusesAgain, ToolEnds, Places, Waiting, Calling, IInv, TypeOK, TokensInv,
                 Outcomes
  <2> QED BY <2>2, <2>3, <2>4, MoveKeeps
<1> QED BY <1>2, <1>3, <1>4, <1>5, <1>6, <1>7, <1>8, <1>9, <1>10 DEF Step

\* Arrivals, and clients that leave.
LEMMA ClientsKeep ==
  ASSUME IInv, NEW r \in Request, Leave(r) \/ \E s \in Brings[r] : Arrive(r, s)
  PROVE  IInv' /\ CallsUnrefused
<1>1. UNCHANGED exchangeVars
  BY DEF Leave, Arrive
<1>2. /\ ExchangeInv' /\ running' = running /\ count' = count /\ cache' = cache
  BY <1>1, ExchangerRests DEF IInv
<1>3. CASE Leave(r)
  <2>1. TypeOK' /\ NobodyForgotten' /\ TokensInv'
    BY <1>2, <1>3 DEF Leave, IInv, TypeOK, NobodyForgotten, TokensInv
  <2> QED BY <1>2, <1>3, <2>1 DEF IInv, CallsUnrefused, Leave
<1>4. ASSUME NEW s \in Brings[r], Arrive(r, s) PROVE IInv' /\ CallsUnrefused
  <2>1. s \in Subject
    BY AppAssumption
  <2>2. /\ pc[r] = "idle" /\ UNCHANGED <<tok, gone, known>>
        /\ pc' = [pc EXCEPT ![r] = "verify"] /\ of' = [of EXCEPT ![r] = s]
        /\ out' = [out EXCEPT ![r] = "none"]
    BY <1>4 DEF Arrive
  <2>3. TypeOK'
    BY <2>1, <2>2 DEF IInv, TypeOK, Places, Outcomes
  <2>4. \A q \in Request : /\ pc'[q] = IF q = r THEN "verify" ELSE pc[q]
                           /\ of'[q] = IF q = r THEN s ELSE of[q]
    BY <2>2 DEF IInv, TypeOK
  <2>5. NobodyForgotten'
    BY <1>2, <2>4 DEF IInv, NobodyForgotten, Waiting
  <2>6. TokensInv'
    BY <1>2, <2>1, <2>2, <2>4 DEF IInv, TokensInv, Calling
  <2>7. CallsUnrefused
    BY <2>4 DEF CallsUnrefused, Calling
  <2> QED BY <1>2, <2>3, <2>5, <2>6, <2>7 DEF IInv
<1> QED BY <1>3, <1>4

-----------------------------------------------------------------------------
(* The theorems *)

\* What every step does.
LEMMA NextKeeps ==
  ASSUME IInv, Next
  PROVE  IInv' /\ CallsUnrefused
<1>1. ASSUME NEW r \in Request, Step(r) PROVE IInv' /\ CallsUnrefused
  BY <1>1, StepKeeps
<1>2. ASSUME NEW r \in Request, Leave(r) \/ \E s \in Brings[r] : Arrive(r, s)
      PROVE  IInv' /\ CallsUnrefused
  BY <1>2, ClientsKeep
<1>3. ASSUME NEW e \in running, ExchangeSettles(e) PROVE IInv' /\ CallsUnrefused
  BY <1>3, SettleKeeps
<1>4. ASSUME UNCHANGED requestVars,
             \/ Tick
             \/ \E s \in Subject : Revoke(s)
             \/ \E e \in running : Issue(e) \/ Refuse(e)
      PROVE  IInv' /\ CallsUnrefused
  BY <1>4, SurroundingsKeep
<1> QED BY <1>1, <1>2, <1>3, <1>4 DEF Next

\* The exchanger's invariants and those of the requests hold of any number of
\* requests, subjects, entries, and whatever the lifetimes.
THEOREM HostedInv == Spec => []IInv
<1>1. Init => IInv
  <2> SUFFICES ASSUME Init PROVE IInv
    OBVIOUS
  <2>1. ExchangeInv
    BY ExchangeAssumption DEF Init, ExchangeInit, ExchangeInv, ExchangeTypeOK, WithinSize,
       OneEntryEach, OneExchange, CacheKeepsMargin, RefusalRemembered, NotCachedAndRefused,
       AnswersInv, CachedWereIssued, MarkersLast, HasLive, ToSet
  <2>2. TypeOK
    BY DEF Init, TypeOK, Places, Outcomes
  <2>3. NobodyForgotten /\ TokensInv
    BY DEF Init, ExchangeInit, NobodyForgotten, TokensInv, Waiting, Calling
  <2> QED BY <2>1, <2>2, <2>3 DEF IInv
<1>2. IInv /\ [Next]_vars => IInv'
  <2>1. ASSUME IInv, UNCHANGED vars PROVE IInv'
    <3>1. ExchangeInv' /\ UNCHANGED <<running, count, cache, requestVars>>
      BY <2>1, ExchangerRests DEF vars, IInv
    <3> QED BY <2>1, <3>1 DEF IInv, TypeOK, NobodyForgotten, TokensInv, requestVars
  <2> QED BY <2>1, NextKeeps
<1> QED BY <1>1, <1>2, PTL DEF Spec

\* No request calls the API with a token this server has seen refused,
\* whichever of the concurrent requests it was refused to.
THEOREM RefusedTokensRest == Spec => NoRefusedTokenReused
<1>1. IInv /\ [Next]_vars => [CallsUnrefused]_vars
  BY NextKeeps
<1> QED BY <1>1, HostedInv, PTL DEF Spec, NoRefusedTokenReused

\* A tool call that ended because its session is dead is answered 401, unless
\* its token expired meanwhile or newer refusals pushed its own out.
THEOREM DeadSessionsAnswered == Spec => DeadSessionGets401
<1> DEFINE A == \A r \in Request :
                  pc[r] = "answer" /\ pc'[r] = "idle" /\ out'[r] = "dead"
                    => now >= ExpiresAt[of[r]] \/ of[r] \notin told
<1>1. ASSUME IInv, Next PROVE A
  <2> SUFFICES ASSUME NEW r \in Request, pc[r] = "answer", pc'[r] = "idle", out'[r] = "dead"
               PROVE  now >= ExpiresAt[of[r]] \/ of[r] \notin told
    OBVIOUS
  <2>1. IsRefused(of[r]) => ~Answer(r)
    BY <1>1 DEF Answer, End, IInv, TypeOK
  <2>2. ASSUME NEW q \in Request, Step(q) PROVE Answer(r)
    <3>1. q = r
      BY <1>1, <2>2 DEF Step, Unauthorized, Verified, Reject, NoTool, GrantedScopes,
         AnswerWithoutCall, CallApi, ApiServes, ApiFails, ApiRefuses, ApiRefusesAgain, Answer,
         AnswerStreamed, Stop, End, AskExchanger, ToolEnds, IInv, TypeOK
    <3>2. ~Unauthorized(r) /\ ~Reject(r) /\ ~AnswerStreamed(r) /\ ~Stop(r)
      BY <1>1 DEF Unauthorized, Reject, AnswerStreamed, Stop, End, IInv, TypeOK
    <3>3. /\ ~Verified(r) /\ ~NoTool(r) /\ ~GrantedScopes(r) /\ ~AnswerWithoutCall(r)
          /\ ~CallApi(r) /\ ~ApiServes(r) /\ ~ApiFails(r) /\ ~ApiRefuses(r)
          /\ ~ApiRefusesAgain(r)
      BY <1>1 DEF Verified, NoTool, GrantedScopes, AnswerWithoutCall, CallApi, ApiServes,
         ApiFails, ApiRefuses, ApiRefusesAgain, Calling
    <3> QED BY <2>2, <3>1, <3>2, <3>3 DEF Step
  <2>3. ASSUME ~\E q \in Request : Step(q) PROVE FALSE
    <3>1. CASE UNCHANGED requestVars
      BY <3>1 DEF requestVars
    <3>2. ASSUME NEW q \in Request, Leave(q) \/ \E s \in Brings[q] : Arrive(q, s) PROVE FALSE
      BY <1>1, <3>2 DEF Leave, Arrive, IInv, TypeOK
    <3>3. ASSUME NEW e \in running, ExchangeSettles(e) PROVE FALSE
      BY <3>3 DEF ExchangeSettles, Deliver, Waiting
    <3> QED BY <1>1, <2>3, <3>1, <3>2, <3>3 DEF Next
  <2>4. of[r] \in told => IsRefused(of[r]) \/ now >= ExpiresAt[of[r]]
    BY <1>1 DEF IInv, ExchangeInv, RefusalRemembered
  <2> QED BY <2>1, <2>2, <2>3, <2>4
<1>2. IInv /\ [Next]_vars => [A]_vars
  BY <1>1
<1> QED BY <1>2, HostedInv, PTL DEF Spec, DeadSessionGets401

\* A cached token is given up before it or its subject expires, however long its
\* exchange took.
THEOREM CachedTokensLast == Spec => []CacheKeepsMargin
<1>1. IInv => CacheKeepsMargin
  BY DEF IInv, ExchangeInv
<1> QED BY <1>1, HostedInv, PTL

\* A refused subject stays refused until it expires, or until newer refusals
\* push its marker out.
THEOREM RefusalsRemembered == Spec => []RefusalRemembered
<1>1. IInv => RefusalRemembered
  BY DEF IInv, ExchangeInv
<1> QED BY <1>1, HostedInv, PTL

\* Whoever waits for an exchange has one under way, whichever client has left.
THEOREM WaitersAreServed == Spec => []NobodyForgotten
<1>1. IInv => NobodyForgotten
  BY DEF IInv
<1> QED BY <1>1, HostedInv, PTL

=============================================================================
