------------------------------ MODULE MCServer ------------------------------
(***************************************************************************)
(* What must come to an end at a hosted server, in one run: obtaining the  *)
(* scopes a tool needs, a shutdown, requests that share exchanges, and     *)
(* writes that need an approval.  They do not touch each other's state:    *)
(* only the part chosen at the start moves.                                *)
(***************************************************************************)
EXTENDS Permissions, Connections, Functions, TLC

\* Accounts of a user, of a researcher, of a member of an organisation.
Open == {"programs:read", "profile:read", "reports:read", "reports:write", "notifications:write"}
SomeAccounts == {Open, Open \cup {"profile:write", "disclosures:write"},
                 Open \cup {"triage:read", "triage:write", "grade:write"}}
SomeLimits == {SCOPES, SCOPES \ {"triage:write"}}
\* One tool of each way a scope is come by.
SomeRequests ==
  {{t} : t \in {"search", "get_org_report", "add_report_comment", "add_triage_comment", "grade_report",
                "save_disclosure_draft", "mark_notifications_read"}}
  \cup {{"mark_notifications_read", t} : t \in {"submit_report", "grade_report", "save_disclosure_draft"}}

\* A sound configuration, and those that differ from it in one setting.
PublicUrl(host) == [shape |-> "path", local |-> FALSE, host |-> host]
Sound ==
  [env |-> "valid", api |-> PublicUrl("api"), web |-> [PublicUrl("web") EXCEPT !.shape = "origin"],
   issuer |-> PublicUrl("api"), resource |-> PublicUrl("mcp"), jwks |-> PublicUrl("api"), timeout |-> 20000,
   secret |-> [variable |-> "none", file |-> "long"], key |-> [variable |-> "long", file |-> "none"],
   origins |-> "fit"]
SomeSecrets == [variable : GivenInVariable, file : GivenInFile]
SomeSettings ==
  {Sound, [Sound EXCEPT !.env = "invalid"], [Sound EXCEPT !.origins = "unfit"], [Sound EXCEPT !.timeout = 4999]}
  \cup {[Sound EXCEPT !.resource = [shape |-> "path", local |-> TRUE, host |-> h], !.key.variable = v] :
          h \in {"mcp", "api"}, v \in {"none", "long"}}
  \cup {[Sound EXCEPT !.web.shape = s] : s \in UrlShape} \cup {[Sound EXCEPT !.jwks.shape = s] : s \in UrlShape}
  \cup {[Sound EXCEPT !.secret = s] : s \in SomeSecrets} \cup {[Sound EXCEPT !.key = s] : s \in SomeSecrets}

CONSTANTS s1, r1, r2, c1, None, Late

VARIABLES part

VARIABLES now, revoked, count, cache, refused, running, remembered, pc, of, tok, out, gone, known

hostedVars == <<now, revoked, count, cache, refused, running, remembered, pc, of, tok, out, gone, known>>

\* Two requests of one user, while no token expires.
Hosted ==
  INSTANCE HttpApp WITH
    Subject <- {s1}, Brings <- (r1 :> {s1} @@ r2 :> {s1}), ExpiresAt <- (s1 :> 3), Request <- {r1, r2},
    CacheSize <- 1, EvictionScan <- 32, Lifetime <- 2, Margin <- 1, Leeway <- 1, MaxTokens <- 2, MaxTime <- 0,
    Patient <- FALSE, None <- "none", told <- remembered

VARIABLES appr, used, executing, late, posted, version, states, at, args, st, seen, polls, pay, key,
          sending, api, asks, answer, agreed, exposed, strayed, crossed

writesVars == <<appr, used, executing, late, posted, version, states, at, args, st, seen, polls, pay, key,
                sending, api, asks, answer, agreed, exposed, strayed, crossed>>

\* Calls that come one after the other, with one approval to register.
Writes ==
  INSTANCE AgentWrites WITH
    Call <- {c1}, Key <- {1}, Args <- {"a1"}, Version <- {1}, Parts <- 1, MaxPolls <- 1, MaxAsks <- 1,
    Garbling <- TRUE, running <- executing, pc <- at, part <- sending, out <- answer

-----------------------------------------------------------------------------

allVars == <<part, permVars, connVars, hostedVars, writesVars>>

ScopesFixed ==
  eligible = Open /\ setting = [hosted |-> TRUE, readOnly |-> FALSE, allowed |-> SCOPES]

ServerInit ==
  /\ part \in {"scopes", "lifecycle", "requests", "writes"}
  /\ PermInit /\ ConnInit /\ Hosted!Init /\ Writes!Init
  /\ part = "scopes" \/ ScopesFixed
  /\ part = "lifecycle" \/ mode = "http"

ServerNext ==
  /\ UNCHANGED part
  /\ \/ part = "scopes" /\ PermNext /\ UNCHANGED <<connVars, hostedVars, writesVars>>
     \/ part = "lifecycle" /\ ConnNext /\ UNCHANGED <<permVars, hostedVars, writesVars>>
     \/ part = "requests" /\ Hosted!Next /\ UNCHANGED <<permVars, connVars, writesVars>>
     \/ part = "writes" /\ Writes!Next /\ UNCHANGED <<permVars, connVars, hostedVars>>

\* PermFairness of the part that moves: the other parts begin where nothing is
\* to be done.
Fairness ==
  /\ WF_permVars(part = "scopes" /\ Progress)
  /\ ConnFairness
  /\ Hosted!Fairness
  /\ Writes!Fairness

ServerSpec == ServerInit /\ [][ServerNext]_allVars /\ Fairness

\* Every request ends.
RequestsEnd == Hosted!RequestsEnd

\* Every call of a write tool is answered.
CallsAnswered == Writes!CallsAnswered
=============================================================================
