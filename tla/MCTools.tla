------------------------------- MODULE MCTools -------------------------------
(***************************************************************************)
(* What a tool call goes through, in one run: its times, the checks of a   *)
(* write tool, the pages of a read tool, its failures, the schema its      *)
(* documents are generated against, and the rate limits.  They do not      *)
(* touch each other's state: only the part chosen at the start moves.      *)
(***************************************************************************)
EXTENDS ToolCall, WriteRules, ReadTools, ApiFailures, SchemaPruning, RateLimits, TLC

OneDelay == <<1>>
\* Two requests meet in the memory of deadlines only, which the handler looks at
\* when it is entered: at most one is in the server when anything happens.
OneBusy == Cardinality({r \in Id : call[r].pc \in InServer}) <= 1

-----------------------------------------------------------------------------

AllScopes == {"reports:read", "reports:write", "triage:read", "triage:write", "profile:read", "grade:write",
              "disclosures:write", "notifications:write"}
\* Everything; own reports cannot be read; the organisation's cannot, and comments
\* on own ones are not granted either.
SomeGrants == {AllScopes, AllScopes \ {"reports:read"}, AllScopes \ {"triage:read", "reports:write"}}
TwoNotices == <<"n1", "n2">>

Running(tools) == \E c \in Job : job[c].tool \in tools

\* Two calls meet in the memory of the roles and nowhere else; what no check of
\* the calls there are reads does not change.
MeetInRoles ==
  /\ Running(WriteTool \ RefusesStaff) => \E d \in Job : job[d].pc = "idle"
  /\ \A c, d \in Job : job[c].tool # "none" /\ job[d].tool # "none" => job[c].report = job[d].report
  /\ draft.revision > 0 \/ draft.published => Running({"save_disclosure_draft"})
  /\ (\E r \in Report : grade[r] > 0) => Running({"raise_appeal"})
  /\ (\A c \in Job : job[c].tool # "none") =>
       ~Running({"assign_report", "update_report_status"}) /\ \A c \in Job : job[c].viewer
  /\ clock > 0 => ~Running(WriteTool \ RefusesStaff)

-----------------------------------------------------------------------------

\* A query root, an interface and another that implements it, with two
\* implementations and a union of them, inputs that refer to each other, and an
\* enum that is published in part.
Kinds ==
  [Q |-> "object", I |-> "interface", J |-> "interface", A |-> "object", B |-> "object", U |-> "union",
   N |-> "input", M |-> "input", K |-> "input", E |-> "enum", R |-> "enum"]
Fields ==
  (<<"Q", "node">> :> "I") @@ (<<"Q", "a">> :> "A") @@ (<<"Q", "u">> :> "U")
  @@ (<<"I", "n">> :> "E") @@ (<<"J", "n">> :> "E") @@ (<<"A", "n">> :> "E") @@ (<<"B", "n">> :> "E")
  @@ (<<"J", "x">> :> "R") @@ (<<"A", "x">> :> "R") @@ (<<"B", "y">> :> "E")
  @@ (<<"N", "m">> :> "M") @@ (<<"M", "e">> :> "R") @@ (<<"K", "e">> :> "E")
\* An implementation may take one argument more than its interface.
Arguments(f, more) == IF f[2] = "n" THEN {"N"} \cup (IF f[1] = "A" THEN more ELSE {}) ELSE {}
SomeSchemas ==
  {[kind |-> Kinds, field |-> Fields, args |-> [f \in DOMAIN Fields |-> Arguments(f, more)],
    implements |-> {<<"A", "I">>, <<"B", "I">>, <<"J", "I">>, <<"A", "J">>},
    members |-> {<<"U", "A">>, <<"U", "B">>},
    values |-> [E |-> {"e"}, R |-> r]] : more \in SUBSET {"K"}, r \in {{"r", "secret"}, {"secret"}}}
SomeDocuments ==
  [selects : SUBSET {f \in DOMAIN Fields : Kinds[f[1]] # "input"}, conditions : SUBSET {"A", "B", "J"},
   variables : SUBSET {"N"}]
Published == [R |-> {"r"}]

-----------------------------------------------------------------------------

\* u1 has two clients: three buckets for two places, and two users.
Principals == {<<"u1", "c1">>, <<"u1", "c2">>, <<"u2", "c1">>}
Prices == [perClient |-> 2, perUser |-> 1, writes |-> 2]
Fulls == [perClient |-> 2, perUser |-> 2, writes |-> 2]

\* One user's budgets are watched, from a tick on that has others before and after.
Watch == watched.key \in {<<"u1", "c1">>, <<"u1">>} /\ watched.since = 1

-----------------------------------------------------------------------------

VARIABLE part

otherVars == <<pruneVars, rateVars, failureVars>>
toolsVars == <<part, vars, rulesVars, readVars, otherVars>>

RulesFixed == granted = AllScopes /\ staffSince = Never /\ \A r \in Report : side[r] = "researcher"
RatesFixed == watched.limit = "perUser"
ReadFixed == asked = [tool |-> "search", limit |-> 1, viewer |-> TRUE, bothSides |-> TRUE, rightSide |-> TRUE,
                       staff |-> FALSE]
             /\ lists[1] = <<>>

ToolsInit ==
  /\ part \in {"call", "rules", "reads", "failures", "schema", "rates"}
  /\ ReadInit /\ (part = "reads" \/ ReadFixed)
  /\ RulesInit /\ (part = "rules" \/ RulesFixed)
  /\ RateInit /\ Watch /\ (part = "rates" \/ RatesFixed)
  /\ Init /\ PruneInit /\ FailuresInit

ToolsNext ==
  /\ UNCHANGED part
  /\ \/ part = "call" /\ Next /\ UNCHANGED <<rulesVars, readVars, otherVars>>
     \/ part = "rules" /\ RulesNext /\ UNCHANGED <<vars, readVars, otherVars>>
     \/ part = "reads" /\ ReadNext /\ UNCHANGED <<vars, rulesVars, otherVars>>
     \/ part = "failures" /\ FailuresNext
        /\ UNCHANGED <<vars, rulesVars, readVars, pruneVars, rateVars>>
     \/ part = "schema" /\ PruneNext
        /\ UNCHANGED <<vars, rulesVars, readVars, failureVars, rateVars>>
     \/ part = "rates" /\ RateNext
        /\ UNCHANGED <<vars, rulesVars, readVars, failureVars, pruneVars>>

ToolsSpec == ToolsInit /\ [][ToolsNext]_toolsVars

Bounds == OneBusy /\ MeetInRoles
Symmetry == Permutations(Id) \cup Permutations(Job)
=============================================================================
