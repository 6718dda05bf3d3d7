---------------------------- MODULE LocalSession ----------------------------
(***************************************************************************)
(* The stored login and the processes that share it: the LocalSession of   *)
(* each stdio server (src/src/auth/stdio/session.ts), `login`              *)
(* (login.ts) and `logout`, the credential store, and the authorization    *)
(* server, which rotates a refresh token at every use and ends the grant   *)
(* when a rotated one comes back.                                          *)
(*                                                                         *)
(* The credentials lock is what Mutex promises (FileLock implements it):   *)
(* `holder` has it, a dead process loses it.  Waiting for it may always    *)
(* fail (CREDENTIALS_BUSY), as FileLock's calls may.                       *)
(*                                                                         *)
(* A token <<g, n>> is the n-th pair of access and refresh token of the    *)
(* grant g; a stored credential is the pair in it.  A refresh given up on, *)
(* or whose sender died, may be performed at any later time, or never.     *)
(* Left out: scopes and subjects read from the cached credential, the      *)
(* resource check (assertCredentialsFor), grants without a refresh token,  *)
(* and what happens inside a single save, which renames or sets one entry. *)
(***************************************************************************)
EXTENDS Naturals, FiniteSets

CONSTANTS
  Proc,    \* stdio servers
  Caller,  \* tool calls that need a token
  Home,    \* Home[c] is the process the caller runs in
  Cli,     \* login and logout commands
  Grant,   \* grants a login may obtain; bounds the number of logins
  MaxGen,  \* bound on rotations of one grant
  None,
  Faults   \* the failures a run allows: "lost", "save", "crash"

ASSUME SessionAssumption ==
  /\ Home \in [Caller -> Proc]
  /\ MaxGen \in Nat
  /\ None \notin Proc \cup Cli
  /\ Proc \cap Cli = {}

Token == Grant \X (0..MaxGen)

ASSUME NoneIsNoToken == None \notin Token

VARIABLES
  store,     \* the stored credential, or None
  holder,    \* who has the credentials lock, or None
  issued,    \* grants the authorization server has issued
  newest,    \* newest[g]: number of g's newest token pair
  ended,     \* grants that are revoked or were ended by reuse detection
  replayed,  \* rotated refresh tokens that came back and ended their grant
  stale,     \* tokens with less than REFRESH_SKEW_SECONDS of validity left
  bad,       \* access tokens the API refuses although they look fresh
  cached,    \* cached[p]: #cached of p's session
  forced,    \* processes whose #cached was invalidated (expiry set to 0)
  rpc,       \* rpc[p]: where p's #refreshing is, "none" without one
  mine,      \* mine[x]: what x loaded, or got from the authorization server
  cpc,       \* cpc[c]: where a caller is in getAccessToken
  tok,       \* tok[c]: what it has read or been given
  kpc,       \* kpc[k]: where a command is
  saved,     \* history: tokens that have been in the store
  signedOut, \* history: grants whose credential a logout deleted
  orphaned,  \* history: rotated pairs that were lost before they were stored
  unanswered \* tokens whose refresh was sent and given up on without an answer

asVars     == <<issued, newest, ended, replayed>>
timeVars   == <<stale, bad>>
callerVars == <<cpc, tok>>
sessVars   == <<cached, forced>>
histVars   == <<saved, signedOut, orphaned, unanswered>>
vars == <<store, holder, asVars, timeVars, sessVars, rpc, mine, callerVars, kpc, histVars>>

TypeOK ==
  /\ store \in Token \cup {None}
  /\ holder \in Proc \cup Cli \cup {None}
  /\ issued \subseteq Grant
  /\ newest \in [Grant -> 0..MaxGen]
  /\ ended \subseteq Grant /\ replayed \subseteq Token
  /\ stale \subseteq Token /\ bad \subseteq Token
  /\ cached \in [Proc -> Token \cup {None}]
  /\ forced \subseteq Proc
  /\ rpc \in [Proc -> {"none", "lock", "request", "save"}]
  /\ mine \in [Proc \cup Cli -> Token \cup {None}]
  /\ cpc \in [Caller -> {"idle", "load", "loaded", "wait", "have"}]
  /\ tok \in [Caller -> Token \cup {None}]
  /\ kpc \in [Cli -> {"idle", "login", "revoke", "delete"}]
  /\ saved \subseteq Token /\ signedOut \subseteq Grant
  /\ orphaned \subseteq Token /\ unanswered \subseteq Token

Init ==
  /\ store = None /\ holder = None
  /\ issued = {} /\ newest = [g \in Grant |-> 0] /\ ended = {} /\ replayed = {}
  /\ stale = {} /\ bad = {}
  /\ cached = [p \in Proc |-> None] /\ forced = {}
  /\ rpc = [p \in Proc |-> "none"]
  /\ mine = [x \in Proc \cup Cli |-> None]
  /\ cpc = [c \in Caller |-> "idle"] /\ tok = [c \in Caller |-> None]
  /\ kpc = [k \in Cli |-> "idle"]
  /\ saved = {} /\ signedOut = {} /\ orphaned = {} /\ unanswered = {}

-----------------------------------------------------------------------------
(* getAccessToken *)

\* What p does with the credential t it holds at this instant: hand it out if
\* it is fresh, else wait for the refresh under way, starting one if there is none.
HandOutOrRefresh(c, t, fresh) ==
  LET p == Home[c] IN
  IF fresh
  THEN /\ cpc' = [cpc EXCEPT ![c] = "have"]
       /\ tok' = [tok EXCEPT ![c] = t]
       /\ UNCHANGED rpc
  ELSE /\ cpc' = [cpc EXCEPT ![c] = "wait"]
       /\ tok' = [tok EXCEPT ![c] = None]
       /\ rpc' = [rpc EXCEPT ![p] = IF @ = "none" THEN "lock" ELSE @]

GetAccessToken(c) ==
  LET p == Home[c] IN
  /\ cpc[c] = "idle"
  /\ IF cached[p] = None
     THEN cpc' = [cpc EXCEPT ![c] = "load"] /\ UNCHANGED <<tok, rpc>>
     ELSE HandOutOrRefresh(c, cached[p], cached[p] \notin stale /\ p \notin forced)
  /\ UNCHANGED <<store, holder, asVars, timeVars, sessVars, mine, kpc, histVars>>

\* #load reads the store without the lock ...
Load(c) ==
  /\ cpc[c] = "load"
  /\ tok' = [tok EXCEPT ![c] = store]
  /\ cpc' = [cpc EXCEPT ![c] = "loaded"]
  /\ UNCHANGED <<store, holder, asVars, timeVars, sessVars, rpc, mine, kpc, histVars>>

\* ... and what it read replaces #cached when it returns, however late.
Loaded(c) ==
  LET p == Home[c] IN
  /\ cpc[c] = "loaded"
  /\ cached' = [cached EXCEPT ![p] = tok[c]]
  /\ forced' = forced \ {p}
  /\ IF tok[c] = None                                      \* NOT_LOGGED_IN
     THEN cpc' = [cpc EXCEPT ![c] = "idle"] /\ UNCHANGED <<tok, rpc>>
     ELSE HandOutOrRefresh(c, tok[c], tok[c] \notin stale)
  /\ UNCHANGED <<store, holder, asVars, timeVars, mine, kpc, histVars>>

\* The API accepts the token ...
Accepted(c) ==
  /\ cpc[c] = "have"
  /\ cpc' = [cpc EXCEPT ![c] = "idle"]
  /\ tok' = [tok EXCEPT ![c] = None]
  /\ UNCHANGED <<store, holder, asVars, timeVars, sessVars, rpc, mine, kpc, histVars>>

\* ... or refuses it: the client invalidates it and asks again, or gives up.
Invalidate_Always(c) ==
  LET p == Home[c] IN
  /\ cpc[c] = "have"
  /\ tok[c] \in stale \cup bad \/ tok[c][1] \in ended
  /\ forced' = IF cached[p] = None THEN forced ELSE forced \cup {p}
  /\ cpc' = [cpc EXCEPT ![c] = "idle"]
  /\ tok' = [tok EXCEPT ![c] = None]
  /\ UNCHANGED <<store, holder, asVars, timeVars, cached, rpc, mine, kpc, histVars>>

Invalidate(c) ==
  LET p == Home[c] IN
  /\ cpc[c] = "have"
  /\ tok[c] \in stale \cup bad \/ tok[c][1] \in ended
  /\ forced' = IF cached[p] = tok[c] THEN forced \cup {p} ELSE forced
  /\ cpc' = [cpc EXCEPT ![c] = "idle"]
  /\ tok' = [tok EXCEPT ![c] = None]
  /\ UNCHANGED <<store, holder, asVars, timeVars, cached, rpc, mine, kpc, histVars>>

-----------------------------------------------------------------------------
(* #refresh, under the credentials lock *)

\* The refresh settles: every caller that waits gets the token t, or the error.
Settle_AnswersOne(p, t) ==
  LET waiting == {c \in Caller : Home[c] = p /\ cpc[c] = "wait"}
      served == IF waiting = {} THEN {} ELSE {CHOOSE c \in waiting : TRUE} IN
  /\ rpc' = [rpc EXCEPT ![p] = "none"]
  /\ holder' = IF holder = p THEN None ELSE holder
  /\ mine' = [mine EXCEPT ![p] = None]
  /\ cpc' = [c \in Caller |->
               IF c \notin served THEN cpc[c] ELSE IF t = None THEN "idle" ELSE "have"]
  /\ tok' = [c \in Caller |-> IF c \in served THEN t ELSE tok[c]]

Settle(p, t) ==
  /\ rpc' = [rpc EXCEPT ![p] = "none"]
  /\ holder' = IF holder = p THEN None ELSE holder
  /\ mine' = [mine EXCEPT ![p] = None]
  /\ LET served == {c \in Caller : Home[c] = p /\ cpc[c] = "wait"} IN
     /\ cpc' = [c \in Caller |->
                  IF c \notin served THEN cpc[c] ELSE IF t = None THEN "idle" ELSE "have"]
     /\ tok' = [c \in Caller |-> IF c \in served THEN t ELSE tok[c]]

Busy(p) ==
  /\ rpc[p] = "lock"
  /\ Settle(p, None)
  /\ UNCHANGED <<store, asVars, timeVars, sessVars, kpc, histVars>>

\* With the lock, the store is read again: nobody changes it until the release.
RefreshLoad_UsesCached(p) ==
  /\ rpc[p] = "lock" /\ holder = None /\ cached[p] # None
  /\ holder' = p
  /\ mine' = [mine EXCEPT ![p] = cached[p]]
  /\ rpc' = [rpc EXCEPT ![p] = "request"]
  /\ UNCHANGED <<store, asVars, timeVars, sessVars, callerVars, kpc, histVars>>

RefreshLoad(p) ==
  /\ rpc[p] = "lock" /\ holder = None
  /\ \/ /\ store = None                                    \* NOT_LOGGED_IN
        /\ Settle(p, None)
        /\ UNCHANGED sessVars
     \/ /\ store # None /\ store \notin stale /\ store # cached[p]   \* refreshed elsewhere
        /\ cached' = [cached EXCEPT ![p] = store]
        /\ forced' = forced \ {p}
        /\ Settle(p, store)
     \/ /\ store # None /\ ~(store \notin stale /\ store # cached[p])
        /\ holder' = p
        /\ mine' = [mine EXCEPT ![p] = store]
        /\ rpc' = [rpc EXCEPT ![p] = "request"]
        /\ UNCHANGED <<sessVars, callerVars>>
  /\ UNCHANGED <<store, asVars, timeVars, kpc, histVars>>

\* The pair that replaces t.
Successor(t) == <<t[1], t[2] + 1>>

\* The authorization server rotates: the pair it was asked with is used up.
Rotates(t) ==
  /\ t[1] \notin ended /\ t[2] = newest[t[1]] /\ t[2] < MaxGen
  /\ newest' = [newest EXCEPT ![t[1]] = @ + 1]
  /\ UNCHANGED <<issued, ended, replayed>>

\* It refuses a dead grant, and ends the one a used-up token belongs to.
Refuses(t) ==
  /\ t[1] \in ended \/ t[2] # newest[t[1]]
  /\ ended' = ended \cup {t[1]}
  /\ replayed' = IF t[1] \in ended THEN replayed ELSE replayed \cup {t}
  /\ UNCHANGED <<issued, newest>>

Refreshed(p) ==
  /\ rpc[p] = "request"
  /\ Rotates(mine[p])
  /\ mine' = [mine EXCEPT ![p] = Successor(@)]
  /\ rpc' = [rpc EXCEPT ![p] = "save"]
  /\ UNCHANGED <<store, holder, timeVars, sessVars, callerVars, kpc, histVars>>

\* No answer comes within postForm's timeout, or the connection breaks:
\* UPSTREAM_UNAVAILABLE, and the store keeps the pair that was sent.
AnswerLost(p) ==
  /\ "lost" \in Faults
  /\ rpc[p] = "request"
  /\ Settle(p, None)
  /\ unanswered' = unanswered \cup {mine[p]}
  /\ UNCHANGED <<store, asVars, timeVars, sessVars, kpc, saved, signedOut, orphaned>>

\* The request nobody waits for is performed: at once, where only the answer
\* was lost, or after others of the same pair.  As a pair may be given up on
\* more than once it stays in the set: a second time can only end the grant.
PerformedLate(t) ==
  /\ \/ Rotates(t) /\ orphaned' = orphaned \cup {Successor(t)}
     \/ Refuses(t) /\ UNCHANGED orphaned
  /\ UNCHANGED <<store, holder, timeVars, sessVars, rpc, mine, callerVars, kpc,
                 saved, signedOut, unanswered>>

\* The request did not reach it, or it answered with an error and did nothing.
Unreachable(p) ==
  /\ rpc[p] = "request"
  /\ Settle(p, None)
  /\ UNCHANGED <<store, asVars, timeVars, sessVars, kpc, histVars>>

\* invalid_grant or invalid_scope: the stored grant is dead and is removed.
Rejected_ByAnyError(p) ==
  /\ rpc[p] = "request"
  /\ store' = None
  /\ cached' = [cached EXCEPT ![p] = None]
  /\ forced' = forced \ {p}
  /\ Settle(p, None)
  /\ UNCHANGED <<asVars, timeVars, kpc, histVars>>

Rejected(p) ==
  /\ rpc[p] = "request"
  /\ Refuses(mine[p])
  /\ store' = None
  /\ cached' = [cached EXCEPT ![p] = None]
  /\ forced' = forced \ {p}
  /\ Settle(p, None)
  /\ UNCHANGED <<timeVars, kpc, histVars>>

RemovalFails(p) ==
  /\ "save" \in Faults
  /\ rpc[p] = "request"
  /\ Refuses(mine[p])
  /\ Settle(p, None)
  /\ UNCHANGED <<store, timeVars, sessVars, kpc, histVars>>

\* The new pair is stored, and only then cached and handed out.
Save_InMemoryOnly(p) ==
  /\ rpc[p] = "save"
  /\ saved' = saved \cup {mine[p]}
  /\ cached' = [cached EXCEPT ![p] = mine[p]]
  /\ forced' = forced \ {p}
  /\ Settle(p, mine[p])
  /\ UNCHANGED <<store, asVars, timeVars, kpc, signedOut, orphaned, unanswered>>

Save(p) ==
  /\ rpc[p] = "save"
  /\ store' = mine[p]
  /\ saved' = saved \cup {mine[p]}
  /\ cached' = [cached EXCEPT ![p] = mine[p]]
  /\ forced' = forced \ {p}
  /\ Settle(p, mine[p])
  /\ UNCHANGED <<asVars, timeVars, kpc, signedOut, orphaned, unanswered>>

SaveFails_Ignored(p) ==
  /\ "save" \in Faults
  /\ rpc[p] = "save"
  /\ cached' = [cached EXCEPT ![p] = mine[p]]
  /\ forced' = forced \ {p}
  /\ Settle(p, mine[p])
  /\ UNCHANGED <<store, asVars, timeVars, kpc, histVars>>

SaveFails(p) ==
  /\ "save" \in Faults
  /\ rpc[p] = "save"
  /\ Settle(p, None)
  /\ orphaned' = orphaned \cup {mine[p]}
  /\ UNCHANGED <<store, asVars, timeVars, sessVars, kpc, saved, signedOut, unanswered>>

\* The process dies, its lock is recovered, and the client starts it again; a
\* request it had sent is still on its way.
Crash(p) ==
  /\ "crash" \in Faults
  /\ rpc[p] # "none"
  /\ rpc' = [rpc EXCEPT ![p] = "none"]
  /\ holder' = IF holder = p THEN None ELSE holder
  /\ mine' = [mine EXCEPT ![p] = None]
  /\ cpc' = [c \in Caller |-> IF Home[c] = p THEN "idle" ELSE cpc[c]]
  /\ tok' = [c \in Caller |-> IF Home[c] = p THEN None ELSE tok[c]]
  /\ cached' = [cached EXCEPT ![p] = None]
  /\ forced' = forced \ {p}
  /\ orphaned' = IF rpc[p] = "save" THEN orphaned \cup {mine[p]} ELSE orphaned
  /\ unanswered' = IF rpc[p] = "request" THEN unanswered \cup {mine[p]} ELSE unanswered
  /\ UNCHANGED <<store, asVars, timeVars, kpc, saved, signedOut>>

-----------------------------------------------------------------------------
(* login and logout *)

\* The code is redeemed outside the lock; only the save is made under it.
Redeem(k, g) ==
  /\ kpc[k] = "idle" /\ g \notin issued
  /\ issued' = issued \cup {g}
  /\ mine' = [mine EXCEPT ![k] = <<g, 0>>]
  /\ kpc' = [kpc EXCEPT ![k] = "login"]
  /\ UNCHANGED <<store, holder, newest, ended, replayed, timeVars, sessVars, rpc, callerVars, histVars>>

EndCommand(k) ==
  /\ kpc' = [kpc EXCEPT ![k] = "idle"]
  /\ mine' = [mine EXCEPT ![k] = None]

SaveLogin_Unlocked(k) ==
  /\ kpc[k] = "login"
  /\ store' = mine[k]
  /\ saved' = saved \cup {mine[k]}
  /\ EndCommand(k)
  /\ UNCHANGED <<holder, asVars, timeVars, sessVars, rpc, callerVars, signedOut, orphaned, unanswered>>

SaveLogin(k) ==
  /\ kpc[k] = "login" /\ holder = None
  /\ store' = mine[k]
  /\ saved' = saved \cup {mine[k]}
  /\ EndCommand(k)
  /\ UNCHANGED <<holder, asVars, timeVars, sessVars, rpc, callerVars, signedOut, orphaned, unanswered>>

\* CREDENTIALS_BUSY: the tokens just obtained are dropped, the grant lives on.
LoginBusy(k) ==
  /\ kpc[k] = "login"
  /\ EndCommand(k)
  /\ UNCHANGED <<store, holder, asVars, timeVars, sessVars, rpc, callerVars, histVars>>

LogoutLoad(k) ==
  /\ kpc[k] = "idle" /\ holder = None /\ store # None
  /\ holder' = k
  /\ mine' = [mine EXCEPT ![k] = store]
  /\ kpc' = [kpc EXCEPT ![k] = "revoke"]
  /\ UNCHANGED <<store, asVars, timeVars, sessVars, rpc, callerVars, histVars>>

\* Revocation, which may fail; local deletion happens anyway.
Revoke(k) ==
  /\ kpc[k] = "revoke"
  /\ ended' \in {ended, ended \cup {mine[k][1]}}
  /\ kpc' = [kpc EXCEPT ![k] = "delete"]
  /\ UNCHANGED <<store, holder, issued, newest, replayed, timeVars, sessVars, rpc, mine, callerVars, histVars>>

Delete(k) ==
  /\ kpc[k] = "delete"
  /\ store' = None
  /\ signedOut' = signedOut \cup {mine[k][1]}
  /\ holder' = IF holder = k THEN None ELSE holder
  /\ EndCommand(k)
  /\ UNCHANGED <<asVars, timeVars, sessVars, rpc, callerVars, saved, orphaned, unanswered>>

\* The user interrupts a command.
CommandDies(k) ==
  /\ "crash" \in Faults
  /\ kpc[k] # "idle"
  /\ holder' = IF holder = k THEN None ELSE holder
  /\ EndCommand(k)
  /\ UNCHANGED <<store, asVars, timeVars, sessVars, rpc, callerVars, histVars>>

-----------------------------------------------------------------------------
(* Time, and decisions taken elsewhere *)

InUse == ({store} \cup {cached[p] : p \in Proc} \cup {tok[c] : c \in Caller}) \ {None}

Expire(t) ==
  /\ t \notin stale /\ t[2] < MaxGen
  /\ stale' = stale \cup {t}
  /\ UNCHANGED <<store, holder, asVars, bad, sessVars, rpc, mine, callerVars, kpc, histVars>>

\* The API stops accepting an access token before it expires.
Spoil(t) ==
  /\ t \notin stale \cup bad /\ t[2] < MaxGen
  /\ bad' = bad \cup {t}
  /\ UNCHANGED <<store, holder, asVars, stale, sessVars, rpc, mine, callerVars, kpc, histVars>>

\* The user revokes the grant elsewhere, or the account loses its permissions.
EndGrant(g) ==
  /\ g \in issued \ ended
  /\ ended' = ended \cup {g}
  /\ UNCHANGED <<store, holder, issued, newest, replayed, timeVars, sessVars, rpc, mine, callerVars, kpc, histVars>>

-----------------------------------------------------------------------------
RefreshStep(p) ==
  \/ Busy(p) \/ RefreshLoad(p) \/ Refreshed(p) \/ AnswerLost(p)
  \/ Unreachable(p) \/ Rejected(p) \/ RemovalFails(p)
  \/ Save(p) \/ SaveFails(p)

CallerStep(c) == GetAccessToken(c) \/ Load(c) \/ Loaded(c) \/ Accepted(c) \/ Invalidate(c)

Command(k) ==
  \/ \E g \in Grant : Redeem(k, g)
  \/ SaveLogin(k) \/ LoginBusy(k) \/ LogoutLoad(k) \/ Revoke(k) \/ Delete(k)
  \/ CommandDies(k)

Next ==
  \/ \E c \in Caller : CallerStep(c)
  \/ \E p \in Proc : RefreshStep(p) \/ Crash(p)
  \/ \E k \in Cli : Command(k)
  \/ \E t \in unanswered : PerformedLate(t)
  \/ \E t \in InUse : Expire(t) \/ Spoil(t)
  \/ \E g \in Grant : EndGrant(g)

Spec == Init /\ [][Next]_vars

\* A process keeps running its refresh and its loads; the wait for the lock has
\* a limit.
Fairness ==
  /\ \A p \in Proc : WF_vars(RefreshStep(p))
  /\ \A c \in Caller : WF_vars(Load(c)) /\ WF_vars(Loaded(c))

FairSpec == Spec /\ Fairness

-----------------------------------------------------------------------------
(* Why the lock and the second load are enough: the inductive invariant *)

Grants(tokens) == {t[1] : t \in tokens}

\* A refresh works, under the lock, on the grant that is stored: on the very
\* pair it loaded, until the authorization server gave it the next one.
RefreshInHand ==
  \A p \in Proc :
    /\ rpc[p] \in {"request", "save"} =>
         holder = p /\ store # None /\ mine[p] # None /\ mine[p][1] = store[1]
    /\ rpc[p] = "request" => mine[p] = store
    /\ rpc[p] = "save" => mine[p] = Successor(store) /\ mine[p][2] = newest[store[1]]

LogoutInHand ==
  \A k \in Cli : kpc[k] \in {"revoke", "delete"} =>
    holder = k /\ store # None /\ mine[k] = store

\* What a login is about to store is of a grant nobody else has seen.
LoginInHand ==
  /\ \A k \in Cli : kpc[k] = "login" =>
       /\ mine[k] # None /\ mine[k][2] = 0 /\ newest[mine[k][1]] = 0
       /\ mine[k][1] \in issued \ Grants(saved)
  /\ \A k, l \in Cli : kpc[k] = "login" /\ kpc[l] = "login" /\ k # l =>
       mine[k][1] # mine[l][1]

Recorded ==
  /\ store \in saved \cup {None}
  /\ Grants(saved) \subseteq issued
  /\ signedOut \subseteq Grants(saved)
  /\ \A g \in Grant \ issued : newest[g] = 0

\* The pairs of the stored grant were stored in their order, none was sent
\* before it was stored, and the server is at most one pair ahead of the store.
InOrder ==
  /\ unanswered \subseteq saved
  /\ store # None =>
       /\ \A t \in saved : t[1] = store[1] => t[2] <= store[2]
       /\ newest[store[1]] \in {store[2], store[2] + 1}

-----------------------------------------------------------------------------
(* Properties *)

\* session.ts:6 "several processes sharing one login never replay a rotated
\* refresh token": a used-up token comes back only where a refresh of that very
\* token got no answer, so that it may still be on its way when the next one
\* succeeds, or where the pair that replaced it was lost before it was stored.
NoReplay == \A t \in replayed : t \in unanswered \/ Successor(t) \in orphaned

\* What the store holds of a living grant is its newest pair, or the process
\* that holds the lock has the newest pair in its hands and is about to store
\* it; unless the newest pair was lost.
StoredIsNewest ==
  store # None /\ store[1] \notin ended /\ <<store[1], newest[store[1]]>> \notin orphaned =>
    \/ store[2] = newest[store[1]]
    \/ \E p \in Proc :
         holder = p /\ rpc[p] = "save" /\ mine[p] = <<store[1], newest[store[1]]>>

\* Stores the rotated pair before handing out the new access token: no process
\* ever has a token that has not been stored.
HandedOutWasStored ==
  /\ \A p \in Proc : cached[p] \in saved \cup {None}
  /\ \A c \in Caller : tok[c] \in saved \cup {None}

\* A credential removed by a logout is never put back by a refresh.
SignedOutStaysOut == store # None => store[1] \notin signedOut

\* An answer 401 to an old token never spoils a newer one.
OnlyRefusedTokensForced ==
  \A p \in forced : cached[p] \in stale \cup bad \/ cached[p][1] \in ended

\* All of it, whatever fails.
IInv ==
  /\ TypeOK /\ RefreshInHand /\ LogoutInHand /\ LoginInHand /\ Recorded /\ InOrder
  /\ HandedOutWasStored /\ SignedOutStaysOut

\* The store changes to another grant, or from nothing, only to what a login
\* just obtained: a refresh that waited never overwrites a login.
LoginNotOverwritten ==
  [][store' # None /\ (store = None \/ store'[1] # store[1]) =>
       \E k \in Cli : kpc[k] = "login" /\ store' = mine[k]]_vars

\* A refresh removes a login only when the grant it belongs to is dead, so
\* never the login that replaced it.
OnlyDeadLoginRemoved ==
  [][store # None /\ store' = None =>
       \/ store[1] \in ended'
       \/ \E k \in Cli : kpc[k] = "delete" /\ mine[k] = store]_vars

\* Every caller is answered.
CallersAnswered == \A c \in Caller : cpc[c] \in {"load", "wait"} ~> cpc[c] \in {"idle", "have"}

-----------------------------------------------------------------------------
(* The login the processes share: see StoredLogin *)
SigningOut == \E k \in Cli : kpc[k] \in {"revoke", "delete"}

L == INSTANCE StoredLogin WITH
       login <- store, known <- Grants(saved), over <- ended, leaving <- SigningOut

\* session.ts:6, :243: servers, logins and logouts in any number of processes
\* move one login forward: no pair is replaced by an earlier one or another
\* grant's, a grant is stored by one login, and nothing touches the login a
\* logout is removing.
ImplementsStoredLogin == L!Spec
=============================================================================
