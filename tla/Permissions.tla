----------------------------- MODULE Permissions -----------------------------
(***************************************************************************)
(* How a connection comes by the scopes its tools need: the first consent, *)
(* the hosted server's step-up, the narrowing of the token exchange, the   *)
(* check before a tool runs, and what a refusal tells the user to do       *)
(* (src/src/scopes.ts, errors.ts, tools/define-tool.ts, transports/        *)
(* http-app.ts, cli).  The consent screen grants what the account is       *)
(* eligible for and the user leaves ticked.                                *)
(*                                                                         *)
(* One client wants one request at a time, on a hosted server perhaps a    *)
(* batch, and its user does what the answers say.                          *)
(***************************************************************************)
EXTENDS FiniteSets

CONSTANTS
  Eligibility,  \* the sets of scopes accounts may be able to hold
  Limits,       \* what the hosted server's own registration may be allowed
  Requests,     \* the sets of tools a request may call
  Revocable     \* scopes the API may stop honouring

-----------------------------------------------------------------------------
(* scopes.ts, and the requiredScopes of the tools: one tool stands for those *)
(* that need the same *)

SCOPES == {"programs:read", "profile:read", "reports:read", "reports:write", "triage:read", "triage:write",
           "grade:write", "notifications:write", "profile:write", "disclosures:write"}
WRITE_SCOPES == {"reports:write", "triage:write", "grade:write", "notifications:write", "profile:write",
                 "disclosures:write"}
RESEARCHER_ONLY_SCOPES == {"profile:write", "disclosures:write"}
ORG_GATED_SCOPES == {"triage:read", "triage:write", "grade:write"}
READ_SCOPES == SCOPES \ WRITE_SCOPES
DEFAULT_LOGIN_SCOPES == READ_SCOPES \cup {"reports:write"}
HOSTED_INITIAL_SCOPES == DEFAULT_LOGIN_SCOPES \cup RESEARCHER_ONLY_SCOPES \cup {"triage:write", "grade:write"}
NO_STEP_UP_SCOPES_OrgOnly == ORG_GATED_SCOPES
NO_STEP_UP_SCOPES == ORG_GATED_SCOPES \cup RESEARCHER_ONLY_SCOPES

ScopesOf ==
  [search |-> {"programs:read"},
   get_my_profile |-> {"profile:read"},
   get_report |-> {"reports:read"},
   get_org_report |-> {"triage:read"},
   list_org_certificates |-> {"triage:read", "profile:read"},
   submit_report |-> {"reports:write"},
   add_report_comment |-> {"reports:write"},
   add_triage_comment |-> {"triage:write", "profile:read"},
   update_report_status |-> {"triage:write", "profile:read", "triage:read"},
   grade_report |-> {"grade:write", "profile:read", "triage:read"},
   save_disclosure_draft |-> {"disclosures:write"},
   update_my_profile |-> {"profile:write"},
   mark_notifications_read |-> {"notifications:write"}]

Tool == DOMAIN ScopesOf

\* Consent grants everything else to any account that is asked for it.
ASSUME EligibilityAssumption ==
  \A e \in Eligibility : SCOPES \ (ORG_GATED_SCOPES \cup RESEARCHER_ONLY_SCOPES) \subseteq e
ASSUME RequestsAssumption == \A tools \in Requests : tools \subseteq Tool

isWriteTool(t) == ScopesOf[t] \cap WRITE_SCOPES # {}

-----------------------------------------------------------------------------

VARIABLES
  setting,   \* hosted or local, read-only or not, and what the registration allows
  eligible,  \* scopes the account can hold now
  phase,
  asked,     \* what the consent screen shows
  stepped,   \* it does for a step-up
  approved,  \* scopes of the connection's token
  offered,   \* scopes a consent screen of this connection has offered in vain or not
  unticked,  \* the user has left one out
  void,      \* scopes of the token that the API no longer honours
  wanted,    \* tools of the request that have not answered
  todo,      \* tools that are still to run
  told       \* scopes the answers say are missing

account == <<eligible, void>>
connection == <<asked, stepped, approved, offered, unticked>>
permVars == <<setting, account, phase, connection, wanted, todo, told>>

PermInit ==
  /\ setting \in [hosted : BOOLEAN, readOnly : BOOLEAN, allowed : Limits]
  /\ ~setting.hosted => setting.allowed = SCOPES
  /\ eligible \in Eligibility /\ void = {}
  /\ phase = "out" /\ asked = {} /\ stepped = FALSE /\ approved = {} /\ offered = {} /\ unticked = FALSE
  /\ wanted = {} /\ todo = {} /\ told = {}

\* What the API token carries, and what the exchange left out of it.
granted == approved \cap setting.allowed
withheld == approved \ granted

hidden(t) == setting.readOnly /\ isWriteTool(t)

-----------------------------------------------------------------------------
(* Consent *)

\* The 401 challenge of a hosted server; `login` without --scopes.
Connect ==
  /\ phase = "out" /\ phase' = "consent" /\ stepped' = FALSE
  /\ asked' = IF setting.hosted THEN HOSTED_INITIAL_SCOPES ELSE DEFAULT_LOGIN_SCOPES
  /\ UNCHANGED <<setting, account, approved, offered, unticked, wanted, todo, told>>

\* A new token replaces the old one: the API honours all of it.
Consent(out) ==
  /\ phase = "consent" /\ phase' = IF wanted = {} THEN "ready" ELSE "sent"
  /\ approved' = (asked \cap eligible) \ out
  /\ offered' = (offered \cup asked) \ out
  /\ asked' = {} /\ stepped' = FALSE /\ void' = {}
  /\ UNCHANGED <<setting, eligible, wanted, todo, told>>
ConsentToAll == Consent({}) /\ UNCHANGED unticked
ConsentInPart ==
  /\ ~unticked /\ unticked' = TRUE
  /\ \E s \in asked \cap eligible : asked \cap eligible # {s} /\ Consent({s})

-----------------------------------------------------------------------------
(* A request *)

\* A local client calls one tool at a time.
SendRequest(tools) ==
  /\ phase = "ready" /\ phase' = "sent" /\ wanted' = tools
  /\ setting.hosted \/ Cardinality(tools) = 1
  /\ UNCHANGED <<setting, account, connection, todo, told>>

\* stepUp: the first tool of the batch that lacks a scope it may ask for.
MissingFor(t) == IF hidden(t) THEN {} ELSE ScopesOf[t] \ (approved \cup NO_STEP_UP_SCOPES)

Challenged_MissingOnly(missing) == missing
Challenged(missing) == approved \cup missing

StepUp(t) ==
  /\ phase = "sent" /\ setting.hosted /\ t \in wanted /\ MissingFor(t) # {}
  /\ asked' = Challenged(MissingFor(t)) /\ stepped' = TRUE /\ phase' = "consent"
  /\ UNCHANGED <<setting, account, approved, offered, unticked, wanted, todo, told>>

RunTools ==
  /\ phase = "sent" /\ (setting.hosted => \A t \in wanted : MissingFor(t) = {})
  /\ phase' = "run" /\ todo' = wanted /\ told' = {}
  /\ UNCHANGED <<setting, account, connection, wanted>>

\* The INSUFFICIENT_SCOPE case of `hint`: what to approve on top of what is
\* granted.  Of several scopes of which any is enough, it names one.
ToAsk(required, any) ==
  LET absent == required \ granted
      needed == IF absent = {} THEN required ELSE absent
      askable == needed \ withheld
  IN  IF any /\ askable # {} THEN {CHOOSE s \in askable : TRUE} ELSE askable

\* A comment may be made under either side's write scope, as far as the API goes.
ApiWants(t) == IF t = "add_report_comment" THEN {"reports:write", "triage:write"} ELSE ScopesOf[t]
ApiAccepts(t) ==
  LET honoured == granted \ void
  IN  IF t = "add_report_comment" THEN ApiWants(t) \cap honoured # {} ELSE ApiWants(t) \subseteq honoured

\* selectTools leaves a hidden tool out; executeTool checks the scopes; the API does.
Run(t) ==
  LET served == hidden(t) \/ (ScopesOf[t] \subseteq granted /\ ApiAccepts(t))
  IN  /\ phase = "run" /\ t \in todo /\ todo' = todo \ {t}
      /\ wanted' = IF served THEN wanted \ {t} ELSE wanted
      /\ told' = CASE served -> told
                   [] ~served /\ ScopesOf[t] \subseteq granted ->
                        told \cup ToAsk(ApiWants(t), t = "add_report_comment")
                   [] OTHER -> told \cup ToAsk(ScopesOf[t], FALSE)
      /\ UNCHANGED <<setting, account, phase, connection>>

\* When only withheld scopes are missing, the answers say that nothing helps.
Answers ==
  /\ phase = "run" /\ todo = {}
  /\ IF told = {} THEN phase' = "ready" /\ wanted' = {} ELSE phase' = "told" /\ UNCHANGED wanted
  /\ UNCHANGED <<setting, account, connection, todo, told>>

\* reauthorize: locally a login with the list; at a hosted server the saved
\* sign-in is dropped and the connection begins afresh.
Reauthorize ==
  /\ phase = "told" /\ stepped' = FALSE /\ told' = {}
  /\ IF setting.hosted
     THEN phase' = "out" /\ approved' = {} /\ offered' = {} /\ UNCHANGED asked
     ELSE phase' = "consent" /\ asked' = granted \cup told /\ UNCHANGED <<approved, offered>>
  /\ UNCHANGED <<setting, account, unticked, wanted, todo>>

Possible(t) == ~hidden(t) /\ ScopesOf[t] \subseteq eligible \cap setting.allowed

GiveUp ==
  /\ phase = "told" /\ phase' = "ready" /\ wanted' = {} /\ told' = {}
  /\ \A t \in wanted : ~Possible(t)
  /\ UNCHANGED <<setting, account, connection, todo>>

-----------------------------------------------------------------------------
(* The account: a role is gained or an organisation opts in; a grant is revoked *)

Gains(more) ==
  /\ eligible \subseteq more /\ eligible # more
  /\ eligible' = more /\ offered' = offered \ (more \ eligible)
  /\ UNCHANGED <<setting, void, phase, asked, stepped, approved, unticked, wanted, todo, told>>

\* Bounded by the request: only while none is served.
Revoked(s) ==
  /\ phase = "ready" /\ s \in approved \ void /\ void' = void \cup {s}
  /\ UNCHANGED <<setting, eligible, phase, connection, wanted, todo, told>>

Progress ==
  \/ Connect \/ ConsentToAll \/ \E t \in wanted : StepUp(t)
  \/ RunTools \/ \E t \in todo : Run(t)
  \/ Answers \/ Reauthorize \/ GiveUp

PermNext ==
  \/ Progress \/ ConsentInPart
  \/ \E tools \in Requests : SendRequest(tools)
  \/ \E more \in Eligibility : Gains(more)
  \/ \E s \in Revocable : Revoked(s)

PermFairness == WF_permVars(Progress)
PermSpec == PermInit /\ [][PermNext]_permVars /\ PermFairness

-----------------------------------------------------------------------------
(* Properties *)

\* NO_STEP_UP_SCOPES, scopes.ts:95, and withheldHint: a step-up never shows a
\* scope the consent screen has offered on this connection without granting it,
\* and no answer asks for a scope that has been approved, unless the API has
\* ceased to honour one.
NothingAskedTwice ==
  /\ phase = "consent" /\ stepped => (asked \ approved) \cap offered = {}
  /\ void = {} => told \cap approved = {}

\* Whatever the account can hold, and the server's registration allows, is
\* obtained by doing what the challenges and the answers say: a tool that needs
\* no more is served, alone or in a batch, and no scope is lost on the way to
\* the next one for good.
Unserved == {t \in wanted : Possible(t)}
EligibleServed == (Unserved # {}) ~> (Unserved = {})
=============================================================================
