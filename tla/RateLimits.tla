----------------------------- MODULE RateLimits -----------------------------
(***************************************************************************)
(* The rate limits of the hosted server: a token bucket for each user and  *)
(* client, for each user, and for each user's writes (src/src/             *)
(* rate-limit.ts), kept in bounded maps and asked in this order by every   *)
(* tools/call (src/src/transports/http-app.ts).                            *)
(*                                                                         *)
(* A bucket gains one unit a tick.  In these units a call takes Price from *)
(* a bucket and a full one holds Full: a limit of `burst` calls, with      *)
(* `perMinute` coming back, has Price = 60 s / perMinute and Full = burst  *)
(* times Price, which is also the time in which it fills (#refillMs).      *)
(***************************************************************************)
EXTENDS ExpiringLru

CONSTANTS
  Principal,     \* a user through a client: pairs
  Price, Full,   \* of each limit
  MaxKeys,       \* the buckets each limit keeps
  LastTick       \* bound on time

Limit == {"perClient", "perUser", "writes"}

\* createHttpApp gives a user twice the rate and twice the burst of one client.
ASSUME RateAssumption ==
  /\ IsFiniteSet(Principal)
  /\ Price \in [Limit -> Nat \ {0}] /\ Full \in [Limit -> Nat \ {0}]
  /\ \A l \in Limit : Price[l] <= Full[l]
  /\ Price["perClient"] = 2 * Price["perUser"] /\ Full["perClient"] = Full["perUser"]
  /\ MaxKeys \in Nat \ {0} /\ LastTick \in Nat

VARIABLES
  tick,
  buckets,   \* the map of each limit
  watched,   \* a limit, a key of it and a time: any, chosen at the start
  lost,      \* its bucket was pushed out since, before it was full
  taken      \* what that key took of that limit since, until then

rateVars == <<tick, buckets, watched, lost, taken>>

KeyFor(l, p) == IF l = "perClient" THEN p ELSE <<p[1]>>
KeysOf(l) == {KeyFor(l, p) : p \in Principal}

RateInit ==
  /\ tick = 0 /\ buckets = [l \in Limit |-> <<>>]
  /\ \E l \in Limit : \E k \in KeysOf(l), t \in 0..LastTick : watched = [limit |-> l, key |-> k, since |-> t]
  /\ taken = 0 /\ lost = FALSE

-----------------------------------------------------------------------------
(* RateLimiter.take *)

Bucket(l, k) ==
  IF HasLive(buckets[l], k, tick) THEN ValueOf(buckets[l], k) ELSE [tokens |-> Full[l], updatedAt |-> tick]

TokensIn(l, b) ==
  LET refilled == b.tokens + (tick - b.updatedAt) IN IF refilled > Full[l] THEN Full[l] ELSE refilled

Tokens(l, k) == TokensIn(l, Bucket(l, k))

Allowed(l, k) == Tokens(l, k) >= Price[l]
Charge(l, k) == IF Allowed(l, k) THEN Price[l] ELSE 0
Left(l, k) == [tokens |-> Tokens(l, k) - Charge(l, k), updatedAt |-> tick]

Looked(l, k) == AfterGet(buckets[l], k, tick)
FullAgain_OneShort(l) == tick + Full[l] - 1
FullAgain(l) == tick + Full[l]
Take(l, k) == AfterSet(Looked(l, k), k, Left(l, k), FullAgain(l), tick, MaxKeys)
TakePushesOut(l, k) == Displaced(Looked(l, k), k, Left(l, k), FullAgain(l), tick, MaxKeys)

-----------------------------------------------------------------------------
(* The rateLimit of a tools/call: the first refusal ends it. *)

Checked(p, write) ==
  LET Passes(l) == Allowed(l, KeyFor(l, p))
  IN  {"perClient"}
      \cup (IF Passes("perClient") THEN {"perUser"} ELSE {})
      \cup (IF write /\ Passes("perClient") /\ Passes("perUser") THEN {"writes"} ELSE {})

\* What the checks of a call do to the bucket that is watched.
Watching(l, k) == l = watched.limit /\ k = watched.key /\ tick >= watched.since
TakenBy(checked, p) ==
  LET l == watched.limit
  IN  IF l \in checked /\ Watching(l, KeyFor(l, p)) THEN Charge(l, watched.key) ELSE 0
LosesWatched(checked, p) ==
  LET l == watched.limit
  IN  l \in checked /\ tick >= watched.since /\ watched.key \in TakePushesOut(l, KeyFor(l, p))

ToolsCall(p, write) ==
  LET checked == Checked(p, write) IN
  /\ buckets' = [l \in Limit |-> IF l \in checked THEN Take(l, KeyFor(l, p)) ELSE buckets[l]]
  /\ taken' = IF lost THEN taken ELSE taken + TakenBy(checked, p)
  /\ lost' = (lost \/ LosesWatched(checked, p))
  /\ UNCHANGED <<tick, watched>>

RateTick ==
  /\ tick < LastTick /\ tick' = tick + 1
  /\ UNCHANGED <<buckets, watched, lost, taken>>

RateNext == RateTick \/ \E p \in Principal, write \in BOOLEAN : ToolsCall(p, write)

RateSpec == RateInit /\ [][RateNext]_rateVars

-----------------------------------------------------------------------------
(* Properties *)

\* From no time on has a key taken more of a limit than a full bucket and what
\* came back meanwhile, whether its bucket was kept or had expired, unless the
\* bucket was pushed out before it was full again ...
WithinBudget == ~lost /\ tick >= watched.since => taken <= Full[watched.limit] + (tick - watched.since)

\* ... which takes more keys than are kept: the limit of a user holds whatever
\* the number of its clients.
LostToMany == lost => Cardinality(KeysOf(watched.limit)) > MaxKeys

CallsBounded == WithinBudget /\ LostToMany
=============================================================================
