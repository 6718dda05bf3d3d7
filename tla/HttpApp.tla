------------------------------- MODULE HttpApp -------------------------------
(***************************************************************************)
(* Requests to the hosted server from their arrival to their answer        *)
(* (transports/http-app.ts, and http-server.ts for what a disconnect or    *)
(* the deadline does), with the tool call they carry (tools/define-tool.ts *)
(* executeTool) and its requests to the API (graphql/client.ts), on the    *)
(* token exchange.                                                         *)
(*                                                                         *)
(* A request whose method, host, origin or Authorization header is refused *)
(* changes nothing and is left out: requests arrive with a subject token   *)
(* that was validly issued.  Whether a tool call passes its scope, rate    *)
(* limit and approval checks is a free choice, for they do not depend on   *)
(* the exchanger.                                                          *)
(***************************************************************************)
EXTENDS TokenExchange

CONSTANTS
  Brings,   \* Brings[r]: the subjects that request may come with
  Leeway,   \* CLOCK_TOLERANCE_SECONDS
  Patient,  \* clients stay, and no deadline passes
  None

ASSUME AppAssumption ==
  /\ Brings \in [Request -> SUBSET Subject]
  /\ Leeway \in Nat /\ Patient \in BOOLEAN
  /\ None \notin ApiToken

VARIABLES
  pc,    \* pc[r]: where a request is
  of,    \* of[r]: its subject
  tok,   \* tok[r]: the API token it calls with, or called with last
  out,   \* out[r]: what the tool call came to, then the answer given
  gone,  \* requests whose client left or whose deadline passed
  known  \* history: API tokens this server has seen refused

requestVars == <<pc, of, tok, out, gone, known>>
vars == <<exchangeVars, requestVars>>

Waiting == {"scopes", "token", "retoken"}   \* for an exchange
Calling == {"call", "recall"}               \* the API, for the first or second time
Places  == {"idle", "verify", "body", "scoped", "answer"} \cup Waiting \cup Calling
Outcomes == {"none", "ok", "error", "dead", "401"}

TypeOK ==
  /\ pc \in [Request -> Places]
  /\ of \in [Request -> Subject \cup {None}]
  /\ tok \in [Request -> ApiToken \cup {None}]
  /\ out \in [Request -> Outcomes]
  /\ gone \subseteq Request
  /\ known \subseteq ApiToken

Init ==
  /\ ExchangeInit
  /\ pc = [r \in Request |-> "idle"] /\ of = [r \in Request |-> None]
  /\ tok = [r \in Request |-> None] /\ out = [r \in Request |-> "none"]
  /\ gone = {} /\ known = {}

-----------------------------------------------------------------------------
(* Before the tool call *)

Arrive(r, s) ==
  /\ pc[r] = "idle"
  /\ pc' = [pc EXCEPT ![r] = "verify"]
  /\ of' = [of EXCEPT ![r] = s]
  /\ out' = [out EXCEPT ![r] = "none"]
  /\ UNCHANGED <<exchangeVars, tok, gone, known>>

\* The request is over, answered with o; of the answers, those about a dead
\* session are told apart.
End(r, o) ==
  /\ pc' = [pc EXCEPT ![r] = "idle"]
  /\ out' = [out EXCEPT ![r] = IF o \in {"dead", "401"} THEN o ELSE "none"]
  /\ of' = [of EXCEPT ![r] = None]
  /\ tok' = [tok EXCEPT ![r] = None]
  /\ gone' = gone \ {r}
  /\ UNCHANGED known

\* isRefused(subject) read by a request, which counts as a use of the marker.
ReadRefused(s) ==
  /\ refused' = AfterGet(refused, s, now)
  /\ UNCHANGED <<now, serverVars, cache, running, told>>

\* The token has expired, with some leeway, or its subject was refused: 401.
Unauthorized(r) ==
  /\ pc[r] = "verify"
  /\ \/ now >= ExpiresAt[of[r]] + Leeway /\ UNCHANGED exchangeVars
     \/ now < ExpiresAt[of[r]] + Leeway /\ IsRefused(of[r]) /\ ReadRefused(of[r])
  /\ End(r, "401")

Verified(r) ==
  /\ pc[r] = "verify"
  /\ now < ExpiresAt[of[r]] + Leeway /\ ~IsRefused(of[r])
  /\ ReadRefused(of[r])
  /\ pc' = [pc EXCEPT ![r] = "body"]
  /\ UNCHANGED <<of, tok, out, gone, known>>

\* 503 when the keys cannot be fetched; 413, 400 or 403 for the body.
Reject(r) ==
  /\ pc[r] \in {"verify", "body"}
  /\ End(r, "none")
  /\ UNCHANGED exchangeVars

\* A body that calls no tool is answered without an exchange.
NoTool(r) ==
  /\ pc[r] = "body" /\ r \notin gone
  /\ pc' = [pc EXCEPT ![r] = "answer"]
  /\ UNCHANGED <<exchangeVars, of, tok, out, gone, known>>

-----------------------------------------------------------------------------
(* The tool call *)

\* exchanged(subject), the cache being c: go on with the cached token or wait.
\* A wait on behalf of a client that is gone ends at once, if it has a signal.
AskExchanger(r, c, wait, next) ==
  LET s == of[r] IN
  /\ Exchanged(r, s, c)
  /\ CASE Given(s, c) = "refused" ->
            /\ pc' = [pc EXCEPT ![r] = "answer"]
            /\ out' = [out EXCEPT ![r] = "dead"]
            /\ UNCHANGED <<of, tok, gone>>
       [] Given(s, c) = "cached" ->
            /\ pc' = [pc EXCEPT ![r] = next]
            /\ tok' = [tok EXCEPT ![r] = IF next \in Calling THEN ValueOf(c, s) ELSE @]
            /\ UNCHANGED <<of, out, gone>>
       [] OTHER ->
            /\ pc' = [pc EXCEPT ![r] = wait]
            /\ UNCHANGED <<of, tok, out, gone>>
  /\ UNCHANGED <<now, serverVars>>

\* grantedScopes: the first use of the exchange, made without a signal.
GrantedScopes(r) ==
  /\ pc[r] = "body" /\ r \notin gone
  /\ AskExchanger(r, cache, "scopes", "scoped")
  /\ UNCHANGED known

\* The tool call ends with outcome o, an answer to be sent.
ToolEnds(r, o) ==
  /\ pc' = [pc EXCEPT ![r] = "answer"]
  /\ out' = [out EXCEPT ![r] = o]
  /\ tok' = [tok EXCEPT ![r] = None]
  /\ UNCHANGED <<of, gone>>

\* A check fails, or the tool needs no API request, or waits for approval.
AnswerWithoutCall(r) ==
  /\ pc[r] = "scoped"
  /\ \E o \in {"ok", "error"} : ToolEnds(r, o)
  /\ UNCHANGED <<exchangeVars, known>>

\* The tool's next request to the API: getAccessToken.
CallApi(r) ==
  /\ pc[r] = "scoped"
  /\ AskExchanger(r, cache, "token", "call")
  /\ UNCHANGED known

\* The API serves a token that has not expired: the tool makes another
\* request, or ends.
ApiServes(r) ==
  /\ pc[r] \in Calling /\ r \notin gone
  /\ now < tok[r].exp
  /\ pc' = [pc EXCEPT ![r] = "scoped"]
  /\ tok' = [tok EXCEPT ![r] = None]
  /\ UNCHANGED <<exchangeVars, of, out, gone, known>>

\* Any error but a refusal of the token.
ApiFails(r) ==
  /\ pc[r] \in Calling /\ r \notin gone
  /\ ToolEnds(r, "error")
  /\ UNCHANGED <<exchangeVars, known>>

\* It refuses the token: forget it and ask for another ...
ApiRefuses(r) ==
  /\ pc[r] = "call" /\ r \notin gone
  /\ known' = known \cup {tok[r]}
  /\ AskExchanger(r, Invalidated(of[r]), "retoken", "recall")

\* ... once.
ApiRefusesAgain(r) ==
  /\ pc[r] = "recall" /\ r \notin gone
  /\ known' = known \cup {tok[r]}
  /\ cache' = Invalidated(of[r])
  /\ ToolEnds(r, "error")
  /\ UNCHANGED <<now, serverVars, refused, told, running>>

\* The exchange e settles: those that wait for it go on with the token, or end.
AfterWait(r, o) ==
  IF o # "token" THEN "answer"
  ELSE CASE pc[r] = "scopes"  -> "scoped"
         [] pc[r] = "token"   -> "call"
         [] pc[r] = "retoken" -> "recall"

Deliver_ToStarter(e, o) ==
  LET waiters == {r \in Request : pc[r] \in Waiting /\ of[r] = e.subject /\ r = e.by} IN
  /\ pc' = [r \in Request |-> IF r \in waiters THEN AfterWait(r, o) ELSE pc[r]]
  /\ tok' = [r \in Request |->
               IF r \in waiters /\ o = "token" /\ pc[r] # "scopes" THEN e.answer.token ELSE tok[r]]
  /\ out' = [r \in Request |-> IF r \in waiters /\ o # "token" THEN o ELSE out[r]]
  /\ UNCHANGED <<of, gone, known, now, serverVars>>
Deliver(e, o) ==
  LET waiters == {r \in Request : pc[r] \in Waiting /\ of[r] = e.subject} IN
  /\ pc' = [r \in Request |-> IF r \in waiters THEN AfterWait(r, o) ELSE pc[r]]
  /\ tok' = [r \in Request |->
               IF r \in waiters /\ o = "token" /\ pc[r] # "scopes" THEN e.answer.token ELSE tok[r]]
  /\ out' = [r \in Request |-> IF r \in waiters /\ o # "token" THEN o ELSE out[r]]
  /\ UNCHANGED <<of, gone, known, now, serverVars>>

ExchangeSettles(e) ==
  \/ Grants(e)  /\ Deliver(e, "token")
  \/ Refuses(e) /\ Deliver(e, "dead")
  \/ Fails(e)   /\ Deliver(e, "error")

-----------------------------------------------------------------------------
(* The answer *)

\* While it is a plain JSON body, it is replaced if the subject was refused.
Answer_AsIs(r) ==
  /\ pc[r] = "answer"
  /\ ReadRefused(of[r])
  /\ End(r, out[r])
Answer(r) ==
  /\ pc[r] = "answer"
  /\ ReadRefused(of[r])
  /\ End(r, IF IsRefused(of[r]) THEN "401" ELSE out[r])

\* An answer that is streamed already stays as it is.
AnswerStreamed(r) ==
  /\ pc[r] = "answer"
  /\ ReadRefused(of[r])
  /\ End(r, "none")

\* The client disconnects, or the deadline passes ...
Leave(r) ==
  /\ ~Patient
  /\ pc[r] # "idle" /\ r \notin gone
  /\ gone' = gone \cup {r}
  /\ UNCHANGED <<exchangeVars, pc, of, tok, out, known>>

\* ... and what is waiting with a signal stops; the exchange goes on.
Stop_Cancels(r) ==
  /\ r \in gone /\ pc[r] \in {"body", "answer", "token", "retoken"} \cup Calling
  /\ End(r, "none")
  /\ running' = {e \in running : e.by # r}
  /\ UNCHANGED <<now, serverVars, cacheVars>>
Stop(r) ==
  /\ r \in gone /\ pc[r] \in {"body", "answer", "token", "retoken"} \cup Calling
  /\ End(r, "none")
  /\ UNCHANGED exchangeVars

-----------------------------------------------------------------------------
Step(r) ==
  \/ Unauthorized(r) \/ Verified(r) \/ Reject(r) \/ NoTool(r)
  \/ GrantedScopes(r) \/ AnswerWithoutCall(r) \/ CallApi(r)
  \/ ApiServes(r) \/ ApiFails(r) \/ ApiRefuses(r) \/ ApiRefusesAgain(r)
  \/ Answer(r) \/ AnswerStreamed(r) \/ Stop(r)

Next ==
  \/ \E r \in Request : Step(r) \/ Leave(r) \/ \E s \in Brings[r] : Arrive(r, s)
  \/ \E e \in running : ExchangeSettles(e)
  \/ \E e \in running : (Issue(e) \/ Refuse(e)) /\ UNCHANGED requestVars
  \/ (Tick \/ \E s \in Subject : Revoke(s)) /\ UNCHANGED requestVars

Spec == Init /\ [][Next]_vars

\* The time limits of the exchange, of a request to the API and of reading a
\* body settle each of them, and a tool makes finitely many requests.
Fairness ==
  /\ \A r \in Request : WF_vars(Step(r)) /\ SF_vars(AnswerWithoutCall(r))
  /\ \A s \in Subject : WF_vars(\E e \in running : e.subject = s /\ ExchangeSettles(e))

FairSpec == Spec /\ Fairness

-----------------------------------------------------------------------------
(* Properties *)

\* A request never calls the API with a token the server has seen refused,
\* whoever it was refused to (client.ts retries with a fresh one).
CallsUnrefused ==
  \A r \in Request : pc'[r] \in Calling /\ pc'[r] # pc[r] => tok'[r] \notin known'
NoRefusedTokenReused == [][CallsUnrefused]_vars

\* A waiting request has an exchange to wait for.
NobodyForgotten ==
  \A r \in Request : pc[r] \in Waiting => \E e \in running : e.subject = of[r]

\* The tokens in use are those of their subjects; a token that was refused is
\* neither cached nor on its way from the authorization server.
TokensInv ==
  /\ \A t \in known : t.n <= count[t.of] /\ \A c \in ToSet(cache) : c.val # t
  /\ \A r \in Request :
       /\ IF pc[r] = "idle" THEN tok[r] = None ELSE of[r] \in Subject
       /\ pc[r] \in Calling => tok[r] # None
       /\ tok[r] # None => tok[r].of = of[r] /\ tok[r].n <= count[of[r]]
  /\ \A e \in running : e.answer.kind = "token" =>
       e.answer.token \notin known /\ \A r \in Request : tok[r] # e.answer.token

IInv == ExchangeInv /\ TypeOK /\ NobodyForgotten /\ TokensInv

\* A tool call that ended because its session is dead is answered 401 and not
\* with the tool's error (http-app.ts:434), unless the answer is streamed
\* already (AnswerStreamed, whose session's next request gets the 401), or the
\* subject has expired meanwhile, although it passes for valid within the leeway
\* (jwt.ts:85), or its refusal was pushed out.
DeadSessionGets401 ==
  [][\A r \in Request :
       pc[r] = "answer" /\ pc'[r] = "idle" /\ out'[r] = "dead"
         => now >= ExpiresAt[of[r]] \/ of[r] \notin told]_vars

\* Every request ends.
RequestsEnd == \A r \in Request : pc[r] # "idle" ~> pc[r] = "idle"
=============================================================================
