---------------------------- MODULE TokenExchange ----------------------------
(***************************************************************************)
(* The hosted server's token exchange (auth/hosted/token-exchange.ts): for *)
(* the token a client presents, a subject, it obtains a token for the API. *)
(* Exchanges are cached until shortly before they expire and shared by the *)
(* requests that need one at the same time; a subject the authorization    *)
(* server refused to exchange is remembered as refused.                    *)
(*                                                                         *)
(* The clock counts half minutes.  An exchange runs from the call of       *)
(* #doExchange to its settlement; the authorization server answers it in   *)
(* between.  Whatever makes an exchange fail other than a refusal (no      *)
(* answer within the time limit, an unreadable or broader one, a subject   *)
(* without a known scope) is the one outcome "failed".  Scopes are left    *)
(* out: a token is what the API accepts or refuses.                        *)
(***************************************************************************)
EXTENDS ExpiringLru

CONSTANTS
  Subject,    \* tokens presented by clients
  Request,    \* requests served at the same time
  ExpiresAt,  \* ExpiresAt[s]: when the subject token s expires
  CacheSize,  \* entries of each of the two bounded maps
  Lifetime,   \* of an exchanged token, unless the subject expires sooner
  Margin,     \* EXPIRY_MARGIN_SECONDS
  MaxTokens,  \* bound on the tokens issued for one subject
  MaxTime     \* bound on the clock

ASSUME ExchangeAssumption ==
  /\ ExpiresAt \in [Subject -> Nat]
  /\ CacheSize \in Nat \ {0}
  /\ Lifetime \in Nat /\ Margin \in Nat
  /\ MaxTokens \in Nat /\ MaxTime \in Nat

VARIABLES
  now,      \* the clock
  revoked,  \* subjects the authorization server no longer exchanges
  count,    \* count[s]: tokens issued for s
  cache,    \* #cache: exchanged tokens by subject
  refused,  \* #refused: subjects that may not be exchanged
  running,  \* the exchanges under way; their subjects are the keys of #inflight
  told      \* history: subjects refused, and not displaced from #refused since

serverVars   == <<revoked, count>>
cacheVars    == <<cache, refused, told>>
exchangeVars == <<now, serverVars, cacheVars, running>>

\* The n-th token issued for a subject, and when it really expires.
ApiToken == [of : Subject, n : Nat, exp : Nat]

Unanswered == [kind |-> "none"]
Refusal    == [kind |-> "refused"]
Answers    == {Unanswered, Refusal} \cup [kind : {"token"}, token : ApiToken, life : Nat]

ExchangeTypeOK ==
  /\ now \in Nat
  /\ revoked \subseteq Subject
  /\ count \in [Subject -> Nat]
  /\ cache \in Seq(LruEntry(Subject, ApiToken))
  /\ refused \in Seq(LruEntry(Subject, {TRUE}))
  /\ running \subseteq [subject : Subject, by : Request, at : Nat, answer : Answers]
  /\ told \subseteq Subject

ExchangeInit ==
  /\ now = 0 /\ revoked = {} /\ count = [s \in Subject |-> 0]
  /\ cache = << >> /\ refused = << >> /\ running = {} /\ told = {}

-----------------------------------------------------------------------------
(* The exchanger's operations: parts of the steps of a request *)

IsRefused(s) == HasLive(refused, s, now)

\* invalidate(subject), whichever token the API refused.
Invalidated_Kept(s) == cache
Invalidated(s) == Without(cache, s)

\* What exchanged(subject) answers at once, the cache being c.
Given(s, c) ==
  IF IsRefused(s) THEN "refused" ELSE IF HasLive(c, s, now) THEN "cached" ELSE "wait"

Started(r, s) == [subject |-> s, by |-> r, at |-> now, answer |-> Unanswered]

\* A caller that has to wait joins the exchange under way, or starts one.
Joined(r, s) ==
  IF \E e \in running : e.subject = s THEN running ELSE running \cup {Started(r, s)}

\* exchanged(subject) called by request r.
Exchanged(r, s, c) ==
  /\ refused' = AfterGet(refused, s, now)
  /\ cache' = IF IsRefused(s) THEN c ELSE AfterGet(c, s, now)
  /\ running' = IF Given(s, c) = "wait" THEN Joined(r, s) ELSE running
  /\ UNCHANGED told

\* Cached until shortly before the sooner of the two expiries; the issued
\* token's is counted from when it was asked for.
UsableUntil_FromAnswer(e) ==
  LET exp == now + e.answer.life
  IN  (IF exp <= ExpiresAt[e.subject] THEN exp ELSE ExpiresAt[e.subject]) - Margin
UsableUntil(e) ==
  LET exp == e.at + e.answer.life
  IN  (IF exp <= ExpiresAt[e.subject] THEN exp ELSE ExpiresAt[e.subject]) - Margin

\* The three ways an exchange settles: with a token ...
Grants(e) ==
  /\ e.answer.kind = "token"
  /\ cache' = AfterSet(cache, e.subject, e.answer.token, UsableUntil(e), now, CacheSize)
  /\ running' = running \ {e}
  /\ UNCHANGED <<refused, told>>

\* ... refused, which is remembered for as long as the subject is valid ...
RefusedUntil_Margin(s) == ExpiresAt[s] - Margin
RefusedUntil(s) == ExpiresAt[s]

Refuses(e) ==
  LET s == e.subject IN
  /\ e.answer = Refusal
  /\ cache' = Without(cache, s)
  /\ refused' = AfterSet(refused, s, TRUE, RefusedUntil(s), now, CacheSize)
  /\ told' = (told \cup {s}) \ Displaced(refused, s, TRUE, RefusedUntil(s), now, CacheSize)
  /\ running' = running \ {e}

\* ... or with any other error, whatever the server did.
Fails(e) ==
  /\ running' = running \ {e}
  /\ UNCHANGED cacheVars

-----------------------------------------------------------------------------
(* The authorization server, and time *)

Answered(e, a) == running' = (running \ {e}) \cup {[e EXCEPT !.answer = a]}

\* It issues a token that lives no longer than the subject ...
Issue(e) ==
  LET s   == e.subject
      exp == IF now + Lifetime <= ExpiresAt[s] THEN now + Lifetime ELSE ExpiresAt[s]
  IN
  /\ e.answer = Unanswered
  /\ s \notin revoked /\ now < ExpiresAt[s] /\ count[s] < MaxTokens
  /\ count' = [count EXCEPT ![s] = @ + 1]
  /\ Answered(e, [kind |-> "token", life |-> exp - now,
                  token |-> [of |-> s, n |-> count[s] + 1, exp |-> exp]])
  /\ UNCHANGED <<now, revoked, cacheVars>>

\* ... or refuses a subject that is revoked or expired.
Refuse(e) ==
  /\ e.answer = Unanswered
  /\ e.subject \in revoked \/ now >= ExpiresAt[e.subject]
  /\ Answered(e, Refusal)
  /\ UNCHANGED <<now, serverVars, cacheVars>>

Revoke(s) ==
  /\ s \notin revoked
  /\ revoked' = revoked \cup {s}
  /\ UNCHANGED <<now, count, cacheVars, running>>

Tick ==
  /\ now < MaxTime
  /\ now' = now + 1
  /\ UNCHANGED <<serverVars, cacheVars, running>>

-----------------------------------------------------------------------------
(* What the exchanger promises *)

\* Concurrent requests for a subject share one exchange (#inflight), so its
\* answers cannot overtake each other.
OneExchange == \A e, f \in running : e.subject = f.subject => e = f

\* A cached token is dropped at least the margin before it really expires and
\* never outlives its subject, however long the exchange took.
CacheKeepsMargin ==
  \A c \in ToSet(cache) :
    /\ c.exp + Margin <= c.val.exp
    /\ c.exp + Margin <= ExpiresAt[c.key]
    /\ c.val.of = c.key

\* A refused subject is remembered until it expires, unless newer refusals
\* pushed it out.
RefusalRemembered == \A s \in told : IsRefused(s) \/ now >= ExpiresAt[s]

\* No subject is both served from the cache and refused: a refusal removes
\* what is cached and no exchange that was granted earlier can come after it.
NotCachedAndRefused == \A s \in Subject : ~(HasLive(cache, s, now) /\ IsRefused(s))

\* What makes them inductive: only subjects that are not refused are being
\* exchanged; the token an exchange was answered with is its subject's, expires
\* no sooner than the exchanger will believe, and is not in the cache yet.
AnswersInv ==
  \A e \in running :
    /\ ~IsRefused(e.subject) /\ e.at <= now
    /\ e.answer.kind = "token" =>
         LET t == e.answer.token IN
         /\ t.of = e.subject /\ t.n <= count[t.of]
         /\ e.at + e.answer.life <= t.exp /\ t.exp <= ExpiresAt[t.of]
         /\ \A c \in ToSet(cache) : c.val # t

CachedWereIssued == \A c \in ToSet(cache) : c.val.n <= count[c.key]

\* A refusal is remembered for as long as its subject is valid.
MarkersLast == \A m \in ToSet(refused) : m.exp = ExpiresAt[m.key]

ExchangeInv ==
  /\ ExchangeTypeOK
  /\ WithinSize(cache, CacheSize) /\ WithinSize(refused, CacheSize)
  /\ OneExchange /\ CacheKeepsMargin /\ RefusalRemembered /\ NotCachedAndRefused
  /\ AnswersInv /\ CachedWereIssued /\ MarkersLast
=============================================================================
