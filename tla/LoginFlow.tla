------------------------------ MODULE LoginFlow ------------------------------
(***************************************************************************)
(* The commands `login` (auth/stdio/login.ts) and `logout`                 *)
(* (auth/stdio/session.ts), run in any number of terminals, with the       *)
(* receiver of the browser's redirect (auth/stdio/loopback.ts), the        *)
(* requests to the authorization server (auth/oauth.ts), the credentials   *)
(* lock, which keeps what Mutex promises, and the stores.                  *)
(*                                                                         *)
(* An authorization is what one login asks the user for; its `state` and   *)
(* PKCE verifier are its own, so it stands for them, for its code and for  *)
(* the tokens the code is redeemed for.  Browser tabs stay open: an        *)
(* authorization may be answered at any time, any number of times, and the *)
(* answer goes to its port, whoever listens there by then.  The command    *)
(* line passes no abort signal, so `cancelled` does not occur.             *)
(***************************************************************************)
EXTENDS CredentialStore

CONSTANTS
  Port,
  IssSent  \* the authorization server says that its answers name it

Redirect == [port : Port, issuer : Issuer]

ASSUME FlowAssumption ==
  /\ IssSent \in BOOLEAN
  /\ None \notin Process \cup Port \cup Issuer \cup Redirect

VARIABLES
  pc,       \* pc[p]: where the command in terminal p is
  target,   \* target[p]: its configured issuer
  auth,     \* auth[p]: the authorization a login asks for
  port,     \* port[p]: the port its receiver listens on, or None
  outcome,  \* outcome[p]: what the promise `code` has come to
  got,      \* got[p]: the authorization whose code it was given
  holder,   \* who has the credentials lock, or None
  asked     \* asked[a]: port and issuer an authorization was asked for with

flowVars == <<pc, target, auth, port, outcome, got, holder, asked>>
vars == <<storeVars, flowVars>>

Listening == {"present", "wait"}
Locked    == {"read", "replace", "load", "revoke", "reread", "delete"}
Places    == {"idle", "choose", "discover", "redeem", "lock", "signout", "logout"}
               \cup Listening \cup Locked

FlowTypeOK ==
  /\ pc \in [Process -> Places]
  /\ target \in [Process -> Issuer \cup {None}]
  /\ auth \in [Process -> Login \cup {None}]
  /\ port \in [Process -> Port \cup {None}]
  /\ outcome \in [Process -> {"open", "code", "error"}]
  /\ got \in [Process -> Login \cup {None}]
  /\ holder \in Process \cup {None}
  /\ asked \in [Login -> Redirect \cup {None}]

TypeOK == StoreTypeOK /\ FlowTypeOK

Init ==
  /\ StoreInit
  /\ pc = [p \in Process |-> "idle"] /\ target = [p \in Process |-> None]
  /\ auth = [p \in Process |-> None] /\ port = [p \in Process |-> None]
  /\ outcome = [p \in Process |-> "open"] /\ got = [p \in Process |-> None]
  /\ holder = None /\ asked = [a \in Login |-> None]

Go(p, from, to) == pc[p] = from /\ pc' = [pc EXCEPT ![p] = to]

\* The command ends or dies: its sockets are closed and its lock is freed.
Leave(p) ==
  /\ pc' = [pc EXCEPT ![p] = "idle"]
  /\ target' = [target EXCEPT ![p] = None]
  /\ auth' = [auth EXCEPT ![p] = None]
  /\ port' = [port EXCEPT ![p] = None]
  /\ outcome' = [outcome EXCEPT ![p] = "open"]
  /\ got' = [got EXCEPT ![p] = None]
  /\ holder' = IF holder = p THEN None ELSE holder
  /\ UNCHANGED asked

-----------------------------------------------------------------------------
(* From the start of the command to the authorization code *)

Start(p, i, where) ==
  /\ Go(p, "idle", where)
  /\ target' = [target EXCEPT ![p] = i]
  /\ UNCHANGED <<storeVars, auth, port, outcome, got, holder, asked>>

ChooseStore(p, from, to) ==
  /\ Go(p, from, to)
  /\ \E k \in Kinds : Choose(p, k)
  /\ UNCHANGED <<target, auth, port, outcome, got, holder, asked>>

\* The server is discovered; a receiver listens on a free port, and the user
\* is sent to the server with a new authorization.
Listen(p, a, n) ==
  /\ Go(p, "discover", "present")
  /\ asked[a] = None /\ \A q \in Process : port[q] # n
  /\ auth' = [auth EXCEPT ![p] = a]
  /\ port' = [port EXCEPT ![p] = n]
  /\ asked' = [asked EXCEPT ![a] = [port |-> n, issuer |-> target[p]]]
  /\ UNCHANGED <<storeVars, target, outcome, got, holder>>

\* evaluateCallback: an answer to authorization a that names issuer iss, or
\* none, and carries a code, an error or neither.
Evaluate_AnyState(p, a, iss, carries) ==
  IF iss = "other" \/ (iss = "none" /\ IssSent) THEN "error"
  ELSE IF carries = "code" THEN "code"
  ELSE "error"
Evaluate(p, a, iss, carries) ==
  IF a # auth[p] THEN "ignore"
  ELSE IF iss = "other" \/ (iss = "none" /\ IssSent) THEN "error"
  ELSE IF carries = "code" THEN "code"
  ELSE "error"

\* The browser delivers an answer to whoever listens on its port.  The first
\* one that is not ignored settles the promise.
Callback_IgnoredOnesCount(p, a, iss, carries) ==
  LET o == Evaluate(p, a, iss, carries) IN
  /\ pc[p] \in Listening /\ outcome[p] = "open"
  /\ asked[a] # None /\ asked[a].port = port[p]
  /\ outcome' = [outcome EXCEPT ![p] = o]
  /\ got' = [got EXCEPT ![p] = IF o = "code" THEN a ELSE @]
  /\ UNCHANGED <<storeVars, pc, target, auth, port, holder, asked>>
Callback(p, a, iss, carries) ==
  LET o == Evaluate(p, a, iss, carries) IN
  /\ pc[p] \in Listening /\ outcome[p] = "open"
  /\ asked[a] # None /\ asked[a].port = port[p]
  /\ o # "ignore"
  /\ outcome' = [outcome EXCEPT ![p] = o]
  /\ got' = [got EXCEPT ![p] = IF o = "code" THEN a ELSE @]
  /\ UNCHANGED <<storeVars, pc, target, auth, port, holder, asked>>

Timeout(p) ==
  /\ pc[p] \in Listening /\ outcome[p] = "open"
  /\ outcome' = [outcome EXCEPT ![p] = "error"]
  /\ UNCHANGED <<storeVars, pc, target, auth, port, got, holder, asked>>

\* The URL is shown and the browser opener has ended or was stopped.
Presented(p) ==
  /\ Go(p, "present", "wait")
  /\ UNCHANGED <<storeVars, target, auth, port, outcome, got, holder, asked>>

\* The code has arrived: close the receiver, redeem the code.
CodeArrived(p) ==
  /\ Go(p, "wait", "redeem") /\ outcome[p] = "code"
  /\ port' = [port EXCEPT ![p] = None]
  /\ UNCHANGED <<storeVars, target, auth, outcome, got, holder, asked>>

NoCode(p) ==
  /\ pc[p] = "wait" /\ outcome[p] = "error"
  /\ Leave(p) /\ Abandon(p)

-----------------------------------------------------------------------------
(* From the code to the stored login *)

\* The server answers with tokens, whether or not it checks the verifier.
Redeemed(p) ==
  /\ Go(p, "redeem", "lock")
  /\ UNCHANGED <<storeVars, target, auth, port, outcome, got, holder, asked>>

\* Any step may fail: no store can be chosen, the server is not reached or
\* answers something else, no port, the lock stays busy, the store fails.
Fails(p) ==
  /\ pc[p] # "idle" /\ pc[p] \notin Listening
  /\ Leave(p) /\ Abandon(p)

TakeLock_Ignored(p, from, to) ==
  /\ Go(p, from, to)
  /\ holder' = p
  /\ UNCHANGED <<storeVars, target, auth, port, outcome, got, asked>>
TakeLock(p, from, to) ==
  /\ holder = None
  /\ Go(p, from, to)
  /\ holder' = p
  /\ UNCHANGED <<storeVars, target, auth, port, outcome, got, asked>>

Read(p, from, to) ==
  /\ Go(p, from, to)
  /\ ReadEntries(p)
  /\ UNCHANGED <<target, auth, port, outcome, got, holder, asked>>

\* The login ends with its tokens stored under its issuer.
Save(p) ==
  /\ pc[p] = "replace"
  /\ Put(p, target[p], got[p])
  /\ Leave(p)

-----------------------------------------------------------------------------
(* logout *)

\* Nothing stored: not signed in.
NotSignedIn(p) ==
  /\ pc[p] = "load" /\ Answers(p)
  /\ Loaded(p, target[p]) = None
  /\ Leave(p) /\ Abandon(p)

LoadLogin(p) ==
  /\ Go(p, "load", "revoke") /\ Answers(p)
  /\ Loaded(p, target[p]) # None
  /\ UNCHANGED <<storeVars, target, auth, port, outcome, got, holder, asked>>

\* Revocation is tried; the login is deleted whatever comes of it.
Revoked(p) ==
  /\ Go(p, "revoke", "reread")
  /\ UNCHANGED <<storeVars, target, auth, port, outcome, got, holder, asked>>

Delete(p) ==
  /\ pc[p] = "delete"
  /\ Put(p, target[p], None)
  /\ Leave(p)

-----------------------------------------------------------------------------
LoginStep(p) ==
  \/ ChooseStore(p, "choose", "discover")
  \/ \E a \in Login, n \in Port : Listen(p, a, n)
  \/ Presented(p) \/ Timeout(p) \/ CodeArrived(p) \/ NoCode(p)
  \/ Redeemed(p) \/ TakeLock(p, "lock", "read") \/ Read(p, "read", "replace") \/ Save(p)

LogoutStep(p) ==
  \/ ChooseStore(p, "signout", "logout")
  \/ TakeLock(p, "logout", "load") \/ NotSignedIn(p) \/ LoadLogin(p)
  \/ Revoked(p) \/ Read(p, "reread", "delete") \/ Delete(p)

Step(p) == LoginStep(p) \/ LogoutStep(p) \/ Fails(p)

World ==
  \/ KeyringChanges /\ UNCHANGED flowVars
  \/ \E p \in Process, i \in Issuer : Start(p, i, "choose") \/ Start(p, i, "signout")
  \/ \E p \in Process, a \in Login, iss \in {"own", "other", "none"},
        carries \in {"code", "error", "nothing"} : Callback(p, a, iss, carries)
  \/ \E p \in Process : pc[p] # "idle" /\ Leave(p) /\ Abandon(p)

Next == World \/ \E p \in Process : Step(p)

Spec == Init /\ [][Next]_vars

\* Commands keep executing; requests, the opener of the browser and the wait
\* for the lock have time limits.
Fairness == \A p \in Process : WF_vars(Step(p))

FairSpec == Spec /\ Fairness

-----------------------------------------------------------------------------
(* Properties *)

\* A receiver that got a code got that of its own authorization, and holds its
\* port and issuer; who changes a store has the lock and has read what is there.
Orderly(p) ==
  /\ pc[p] \in {"idle", "choose", "discover"} => auth[p] = None
  /\ got[p] \in {auth[p], None} /\ (outcome[p] = "code" => got[p] # None)
  /\ pc[p] # "idle" => target[p] # None
  /\ auth[p] # None => asked[auth[p]] # None /\ asked[auth[p]].issuer = target[p]
  /\ pc[p] \in {"redeem", "lock", "read", "replace"} => outcome[p] = "code"
  /\ pc[p] \in Locked => holder = p
  /\ pc[p] \in {"replace", "delete"} /\ kind[p] = "file" => entries[p] = ReadAll
FlowInv == \A p \in Process : Orderly(p)

\* Tokens are kept under the issuer they were asked of, so that they are never
\* offered to another, although ports are used again and old browser tabs
\* answer late (credential-store.ts: keyed by the issuer).
Stored(i) == {keychain[i], ReadAll[i]} \ {None}
LoginsOfTheirIssuer ==
  \A i \in Issuer : \A a \in Stored(i) : asked[a] # None /\ asked[a].issuer = i

IInv == TypeOK /\ FlowInv /\ NoEntryLost /\ LoginsOfTheirIssuer

\* A command that was started ends, whatever the browser does.
CommandsEnd == \A p \in Process : pc[p] # "idle" ~> pc[p] = "idle"
=============================================================================
