---------------------------- MODULE ApiFailures ----------------------------
(***************************************************************************)
(* What becomes of a failed request, and where its answer leads: the round *)
(* trips of the GraphQL client (src/src/graphql/client.ts, http.ts), what  *)
(* an error of the API means (graphql/errors.ts), what resendingLostWrites *)
(* makes of it (tools/shared/write-retry.ts), and the advice the answer    *)
(* carries (errors.ts).                                                    *)
(*                                                                         *)
(* One user wants one change, and does what each answer says: signs in,    *)
(* waits, approves again, checks first, or makes it on the website.  A     *)
(* call reads, finds or registers the approval, and writes under its key.  *)
(* A key that is used up is never found again (AgentWrites): the next call *)
(* registers another, under which the API would make the change again.     *)
(***************************************************************************)
EXTENDS Naturals, SequencesExt

CONSTANTS
  MaxApprovals, \* approvals the user is asked for
  MaxAgain      \* IN_PROGRESS_DELAYS_MS: times the resend asks again

ASSUME FailuresAssumption == MaxApprovals \in Nat /\ MaxAgain \in Nat

VARIABLES
  made,      \* how many times the change has been made
  key,       \* the key of the newest approval, at the API
  registered,\* approvals registered
  step,      \* what the user, or the call, is at
  doing,     \* the request of the call: its reads, the registration, the write
  trial,     \* attempt of GraphQLClient.request
  resends,   \* 0, or 1 + how often the resend has asked again
  told       \* the answer of the last call

failureVars == <<made, key, registered, step, doing, trial, resends, told>>

-----------------------------------------------------------------------------
(* Errors of the API *)

\* A GraphQL error: its code, the scopes it requires, whether the terms are the
\* organisation's, and what the message of a validation error is about.
Coded(code) == [code |-> code, scopes |-> {}, organization |-> FALSE, about |-> "nothing"]

PRIORITY ==
  <<"REQUEST_BLOCKED", "UNAUTHENTICATED", "INSUFFICIENT_SCOPE", "ORG_AI_ACCESS_DISABLED",
    "ORG_AI_GRADING_DISABLED", "OAUTH_FIELD_DENIED", "PLATFORM_STAFF_SCOPE_REFUSED",
    "PLATFORM_TERMS_NOT_ACCEPTED", "PROGRAMME_TERMS_NOT_ACCEPTED", "ORGANIZATION_TERMS_NOT_ACCEPTED">>

With(errors, code) == {i \in DOMAIN errors : errors[i].code = code}

pick(errors) ==
  LET ranked == {rank \in DOMAIN PRIORITY : With(errors, PRIORITY[rank]) # {}}
  IN  errors[IF ranked = {} THEN 1 ELSE Min(With(errors, PRIORITY[Min(ranked)]))]

\* A code of the API: the code of the BugSecureError and its hint, if it has one
\* of its own.
AccessErrors ==
  [UNAUTHENTICATED |-> <<"SESSION_EXPIRED", "none">>,
   REQUEST_BLOCKED |-> <<"REQUEST_BLOCKED", "none">>,
   INSUFFICIENT_SCOPE |-> <<"INSUFFICIENT_SCOPE", "none">>,
   ORG_AI_ACCESS_DISABLED |-> <<"ORG_AI_ACCESS_DISABLED", "none">>,
   ORG_AI_GRADING_DISABLED |-> <<"ORG_AI_GRADING_DISABLED", "none">>,
   OAUTH_FIELD_DENIED |-> <<"OAUTH_FIELD_DENIED", "none">>,
   PLATFORM_STAFF_SCOPE_REFUSED |-> <<"PLATFORM_STAFF", "none">>]

TermsErrors ==
  [PLATFORM_TERMS_NOT_ACCEPTED |-> <<"FORBIDDEN", "terms">>,
   PROGRAMME_TERMS_NOT_ACCEPTED |-> <<"FORBIDDEN", "terms">>,
   ORGANIZATION_TERMS_NOT_ACCEPTED |-> <<"FORBIDDEN", "administrator">>]

Refusals ==
  [FORBIDDEN |-> <<"FORBIDDEN", "none">>, NOT_FOUND |-> <<"NOT_FOUND", "none">>,
   BAD_REQUEST |-> <<"INVALID_INPUT", "none">>, BAD_USER_INPUT |-> <<"INVALID_INPUT", "none">>,
   UNPROCESSABLE_ENTITY |-> <<"INVALID_INPUT", "none">>, FILE_REFUSED |-> <<"INVALID_INPUT", "none">>,
   CONFLICT |-> <<"CONFLICT", "none">>, FILE_PENDING |-> <<"CONFLICT", "none">>]

ApprovalErrors ==
  [AGENT_APPROVAL_REQUIRED |-> <<"APPROVAL_REQUIRED", "check">>,
   AGENT_APPROVAL_MISMATCH |-> <<"APPROVAL_REQUIRED", "check">>,
   AGENT_APPROVAL_NOT_FOUND |-> <<"NOT_FOUND", "again">>,
   AGENT_APPROVAL_EXPIRED |-> <<"CONFLICT", "again">>,
   AGENT_APPROVAL_ALREADY_DECIDED |-> <<"CONFLICT", "again">>,
   AGENT_APPROVAL_GRANT_REVOKED |-> <<"CONFLICT", "again">>,
   AGENT_APPROVAL_LIMIT_REACHED |-> <<"RATE_LIMITED", "decide">>,
   AGENT_APPROVAL_INVALID_PART |-> <<"INVALID_INPUT", "none">>]

KeyErrors ==
  [IDEMPOTENCY_KEY_IN_PROGRESS |-> <<"REQUEST_IN_PROGRESS", "none">>,
   IDEMPOTENCY_KEY_REUSED |-> <<"REQUEST_KEY_REUSED", "none">>]

LimitErrors ==
  [REPORT_DAILY_CAP_REACHED |-> <<"RATE_LIMITED", "stop">>, TOO_MANY_REQUESTS |-> <<"RATE_LIMITED", "none">>]

FaultErrors ==
  [GRAPHQL_VALIDATION_FAILED |-> <<"UPSTREAM_ERROR", "none">>, GRAPHQL_PARSE_FAILED |-> <<"UPSTREAM_ERROR", "none">>,
   INTERNAL_SERVER_ERROR |-> <<"UPSTREAM_UNAVAILABLE", "wait">>]

Tables == {AccessErrors, TermsErrors, Refusals, ApprovalErrors, KeyErrors, LimitErrors, FaultErrors}
ApiErrors ==
  [code \in UNION {DOMAIN table : table \in Tables} |-> (CHOOSE table \in Tables : code \in DOMAIN table)[code]]

Failure(code) == [code |-> code, hint |-> "none", scopes |-> {}]

mapGraphQLErrors(errors) ==
  LET e == pick(errors)
      named == e.code \in DOMAIN ApiErrors
      outdated == e.code = "GRAPHQL_VALIDATION_FAILED" /\ e.about \in {"approvals", "clientRequestId"}
      code == IF outdated THEN "UPSTREAM_OUTDATED" ELSE IF named THEN ApiErrors[e.code][1] ELSE "UPSTREAM_REFUSED"
      hint == IF e.organization THEN "administrator" ELSE IF named THEN ApiErrors[e.code][2] ELSE "none"
  IN  [code |-> code, hint |-> hint, scopes |-> e.scopes]

-----------------------------------------------------------------------------
(* GraphQLClient.attempt *)

\* A round trip: whether the request was answered, the status, whether the body
\* fits, was read to its end and is what it should be, and what it says.
Fine ==
  [fetch |-> "answered", status |-> 200, declared |-> "fits", read |-> "whole", body |-> "response",
   errors |-> <<>>, data |-> TRUE]

\* mapNetworkError, of a caller that has not given up.
NetworkError(why) == Failure(IF why = "too large" THEN "UPSTREAM_ERROR" ELSE "UPSTREAM_UNAVAILABLE")

\* readTextCapped
Unread(r) ==
  IF r.declared = "exceeds" \/ r.read = "exceeds" THEN "too large"
  ELSE IF r.read # "whole" THEN r.read ELSE "no"

ByStatus(r) == Failure(IF r.status >= 500 THEN "UPSTREAM_UNAVAILABLE" ELSE "UPSTREAM_ERROR")

Data == Failure("data")
REJECTED == Failure("rejected")

attempt(r) ==
  IF r.fetch # "answered" THEN NetworkError(r.fetch)
  ELSE IF r.status = 401 THEN REJECTED
  ELSE IF Unread(r) # "no" THEN NetworkError(Unread(r))
  ELSE IF r.status = 429 THEN Failure("RATE_LIMITED")
  ELSE IF r.body = "no json" THEN ByStatus(r)
  ELSE IF r.body = "not a response" THEN Failure("UPSTREAM_ERROR")
  ELSE IF r.errors # <<>>
       THEN IF With(r.errors, "UNAUTHENTICATED") # {} THEN REJECTED ELSE mapGraphQLErrors(r.errors)
  ELSE IF r.status # 200 \/ ~r.data THEN ByStatus(r) ELSE Data

-----------------------------------------------------------------------------
(* What the API, and what stands before it, answers *)

Lost ==
  {[Fine EXCEPT !.fetch = why] : why \in {"timeout", "unreachable"}}
  \cup {[Fine EXCEPT !.read = why] : why \in {"timeout", "unreachable"}}
  \cup {[Fine EXCEPT !.status = 503, !.body = "no json"], [Fine EXCEPT !.status = 502, !.data = FALSE]}
Garbled ==
  {[Fine EXCEPT !.declared = "exceeds"], [Fine EXCEPT !.read = "exceeds"], [Fine EXCEPT !.data = FALSE]}
  \cup {[Fine EXCEPT !.body = b] : b \in {"no json", "not a response"}}

Errors(list) == [Fine EXCEPT !.errors = list, !.data = FALSE]
Internal == Coded("INTERNAL_SERVER_ERROR")

\* A key has one payload, so it is never reused for a different change.
Refusing ==
  {Coded(code) : code \in DOMAIN ApiErrors \ {"IDEMPOTENCY_KEY_IN_PROGRESS", "IDEMPOTENCY_KEY_REUSED"}}
  \cup {Coded("NEW_CODE"), [Coded("INSUFFICIENT_SCOPE") EXCEPT !.scopes = {"reports:write"}],
        [Coded("PLATFORM_TERMS_NOT_ACCEPTED") EXCEPT !.organization = TRUE]}
  \cup {[Coded("GRAPHQL_VALIDATION_FAILED") EXCEPT !.about = a] : a \in {"approvals", "clientRequestId"}}

\* Nothing is done for it, or what was done is rolled back.
Refused ==
  {attempt(r) : r \in Lost \cup Garbled \cup {[Fine EXCEPT !.status = s] : s \in {401, 403, 429}}
                      \cup {Errors(<<e>>) : e \in Refusing}
                      \cup {Errors(<<Internal, e>>) : e \in Refusing}}
\* Done, and answered, or the answer is lost or spoilt, or could not be made.
Done == {attempt(r) : r \in {Fine, Errors(<<Internal>>)} \cup Lost \cup Garbled}
Unheard == {attempt(r) : r \in Lost}
Busy == {attempt(Errors(<<Coded("IDEMPOTENCY_KEY_IN_PROGRESS")>>))}
\* getAccessToken
NoToken == {Failure(code) : code \in {"NOT_LOGGED_IN", "SESSION_EXPIRED", "CREDENTIALS_BUSY", "UPSTREAM_UNAVAILABLE"}}

-----------------------------------------------------------------------------
(* What the answer says to do: hint, describeError *)

AdviceByCode ==
  [NOT_LOGGED_IN |-> "sign in", SESSION_EXPIRED |-> "sign in",
   ORG_AI_ACCESS_DISABLED |-> "administrator", ORG_AI_GRADING_DISABLED |-> "website",
   PLATFORM_STAFF |-> "stop", RATE_LIMITED |-> "wait", REQUEST_BLOCKED |-> "rephrase",
   CREDENTIALS_BUSY |-> "wait", REQUEST_IN_PROGRESS |-> "check", REQUEST_KEY_REUSED |-> "again",
   APPROVAL_REQUIRED |-> "again", UPSTREAM_OUTDATED |-> "website", UPSTREAM_UNAVAILABLE |-> "wait",
   CALL_DEADLINE |-> "again"]

\* A scope BugSecure has withheld is not asked for again.
ScopeAdvice(scopes) == IF scopes = {} THEN {"website"} ELSE {"reauthorize", "website"}

AdviceOf(f) ==
  IF f.hint # "none" THEN {f.hint}
  ELSE IF f.code = "INSUFFICIENT_SCOPE" THEN ScopeAdvice(f.scopes)
  ELSE IF f.code \in DOMAIN AdviceByCode THEN {AdviceByCode[f.code]} ELSE {"nothing"}

-----------------------------------------------------------------------------
(* The call *)

FailuresInit ==
  /\ made = 0 /\ key = "none" /\ registered = 0
  /\ step = "ask" /\ doing = "reads" /\ trial = 1 /\ resends = 0
  /\ told = [code |-> "nothing", advice |-> "again"]

Request(what) ==
  /\ step' = "wire" /\ doing' = what /\ trial' = 1 /\ resends' = 0
  /\ UNCHANGED told

AnswerWith(f) ==
  /\ \E advice \in AdviceOf(f) : told' = [code |-> f.code, advice |-> advice]
  /\ step' = "told" /\ doing' = "reads" /\ trial' = 1 /\ resends' = 0

\* outcomeUnknown: the hint of what failed is not passed on.
outcomeUnknown_PassesOn(f) == f
outcomeUnknown(f) == [Failure("UPSTREAM_UNAVAILABLE") EXCEPT !.hint = "check"]

Resend ==
  /\ resends' = resends + 1 /\ trial' = 1
  /\ UNCHANGED <<step, doing, told>>

\* resendingLostWrites, of a registration or a write.  Whether time is left for
\* another request is a choice.
Fails(f) ==
  IF doing = "reads" THEN AnswerWith(f)
  ELSE IF resends = 0
       THEN IF f.code = "UPSTREAM_UNAVAILABLE" THEN Resend \/ AnswerWith(outcomeUnknown(f)) ELSE AnswerWith(f)
       ELSE \/ f.code = "REQUEST_IN_PROGRESS" /\ resends <= MaxAgain /\ Resend
            \/ AnswerWith(outcomeUnknown(f))

\* The approval that is found, or else registered, decides what comes next.
Succeeds ==
  \/ doing = "write" /\ (AnswerWith(Failure("ok")) \/ AnswerWith(Failure("not understood")))
  \/ /\ doing = "register" \/ (doing = "reads" /\ key = "pending")
     /\ step' = "asked" /\ UNCHANGED <<doing, trial, resends, told>>
  \/ doing = "reads" /\ key \in {"approved", "running"} /\ Request("write")
  \/ doing = "reads" /\ key \in {"none", "used"} /\ registered < MaxApprovals /\ Request("register")

\* GraphQLClient.request: a rejected token is replaced once.
Handle(f) ==
  IF f = Data THEN Succeeds
  ELSE IF f # REJECTED THEN Fails(f)
  ELSE IF trial = 2 THEN Fails(Failure("SESSION_EXPIRED"))
  ELSE \/ trial' = 2 /\ UNCHANGED <<step, doing, resends, told>>
       \/ \E g \in NoToken : Fails(g)

OnWire(what) == step = "wire" /\ doing \in what

\* Before the first attempt, or the first write, goes out.
NotSent ==
  /\ OnWire({"reads", "register", "write"}) /\ trial = 1
  /\ \/ \E f \in NoToken : Fails(f)
     \/ doing = "write" /\ resends = 0 /\ AnswerWith(Failure("CALL_DEADLINE"))
  /\ UNCHANGED <<made, key, registered>>

ReadsAnswered ==
  /\ OnWire({"reads"}) /\ Handle(Data)
  /\ UNCHANGED <<made, key, registered>>

RequestRefused ==
  /\ OnWire({"reads", "register", "write"}) /\ \E f \in Refused : Handle(f)
  /\ UNCHANGED <<made, key, registered>>

Registered ==
  /\ OnWire({"register"}) /\ key \in {"none", "used"} /\ registered < MaxApprovals
  /\ key' = "pending" /\ registered' = registered + 1 /\ UNCHANGED made
  /\ \E f \in Done : Handle(f)

RegisteredBefore ==
  /\ OnWire({"register"}) /\ key = "pending" /\ \E f \in Done : Handle(f)
  /\ UNCHANGED <<made, key, registered>>

Written ==
  /\ OnWire({"write"}) /\ key = "approved"
  /\ key' = "used" /\ made' = made + 1 /\ UNCHANGED registered
  /\ \E f \in Done : Handle(f)

WrittenBefore ==
  /\ OnWire({"write"}) /\ key = "used" /\ \E f \in Done : Handle(f)
  /\ UNCHANGED <<made, key, registered>>

\* The call has stopped waiting: the request is at the API, or on its way.
WriteRunsOn ==
  /\ OnWire({"write"}) /\ key = "approved" /\ key' = "running"
  /\ \E f \in Unheard : Handle(f)
  /\ UNCHANGED <<made, registered>>

WriteRunning ==
  /\ OnWire({"write"}) /\ key = "running" /\ \E f \in Busy \cup Unheard : Handle(f)
  /\ UNCHANGED <<made, key, registered>>

-----------------------------------------------------------------------------
(* The API and the user *)

Ends ==
  /\ key = "running"
  /\ \/ key' = "used" /\ made' = made + 1
     \/ key' = "approved" /\ UNCHANGED made
  /\ UNCHANGED <<registered, step, doing, trial, resends, told>>

ApprovalExpires ==
  /\ key \in {"pending", "approved"} /\ key' = "none"
  /\ UNCHANGED <<made, registered, step, doing, trial, resends, told>>

\* The user has decided, and the client sends the call again.
Approves ==
  /\ step = "asked" /\ key = "pending" /\ key' = "approved"
  /\ Request("reads") /\ UNCHANGED <<made, registered>>

FoundExpired ==
  /\ step = "asked" /\ key = "none"
  /\ AnswerWith([Failure("CONFLICT") EXCEPT !.hint = "again"])
  /\ UNCHANGED <<made, key, registered>>

\* Advice that leads to the same call, once what it asks for is done.
CallsAgain == {"sign in", "reauthorize", "terms", "administrator", "wait", "again", "decide"}
\* Refusals that say what to correct; the corrected change is another payload.
Corrected == {"FORBIDDEN", "NOT_FOUND", "INVALID_INPUT", "CONFLICT", "UPSTREAM_REFUSED"}

CallAgain ==
  /\ step = "ask" \/ (step = "told" /\ told.advice \in CallsAgain)
  /\ Request("reads") /\ UNCHANGED <<made, key, registered>>

CorrectAndCall ==
  /\ step = "told"
  /\ told.advice = "rephrase" \/ (told.advice = "nothing" /\ told.code \in Corrected)
  /\ key' = "none" /\ Request("reads") /\ UNCHANGED <<made, registered>>

\* Checked with a read tool, when what was sent has ended; wanted still.
CheckFirst ==
  /\ step = "told" /\ told.advice = "check" /\ key # "running" /\ made = 0
  /\ Request("reads") /\ UNCHANGED <<made, key, registered>>

DoneOnTheWebsite ==
  /\ step = "told" /\ told.advice = "website"
  /\ step' = "over" /\ made' = made + 1
  /\ UNCHANGED <<key, registered, doing, trial, resends, told>>

FailuresNext ==
  \/ NotSent \/ ReadsAnswered \/ RequestRefused \/ Registered \/ RegisteredBefore
  \/ Written \/ WrittenBefore \/ WriteRunsOn \/ WriteRunning
  \/ Ends \/ ApprovalExpires \/ Approves \/ FoundExpired
  \/ CallAgain \/ CorrectAndCall \/ CheckFirst \/ DoneOnTheWebsite

FailuresSpec == FailuresInit /\ [][FailuresNext]_failureVars

-----------------------------------------------------------------------------
(* Properties *)

\* Doing what the answers say never makes the change twice, though each new
\* approval has a key of its own: no answer to a write that may have been made
\* says to wait, sign in, approve again or use the website without checking
\* (write-retry.ts:32, errors.ts:188).
MadeOnce == made <= 1
=============================================================================
