----------------------------- MODULE WriteRules -----------------------------
(***************************************************************************)
(* What a write tool checks before its payload may be approved and sent:   *)
(* the account's roles, whose report it is, the grade in force, the        *)
(* revision of a draft (the write tools of src/src/tools, with             *)
(* shared/viewer.ts, shared/report-ref.ts and shared/report.ts), and what  *)
(* becomes of it at the API.                                               *)
(*                                                                         *)
(* Job is a set of calls of one session, which share its memory of the     *)
(* roles (SessionMemo).  A call checks once, waits for the decision and    *)
(* sends what was approved: AgentWrites and ToolCall say which approval,   *)
(* and when.  The API shows a report to its reporter under reports:read    *)
(* and to a member of its organisation under triage:read, and files a      *)
(* comment on the side the account is on.                                  *)
(***************************************************************************)
EXTENDS Integers, Sequences

CONSTANTS
  Job,        \* calls of the session
  Report, NoReport,
  Grants,     \* the sets of scopes a session may have been granted
  RolesTtl,   \* how long roles are remembered
  Notices,    \* the notifications a call marks, in order
  ClockEnd    \* bound on time

ASSUME RulesAssumption == RolesTtl \in Nat \ {0} /\ ClockEnd \in Nat

VARIABLES
  clock,
  granted,    \* scopes of the session
  side,       \* the side of each report the account is on
  staffSince, \* when the account became staff, or Never
  grade,      \* the grade in force on each report: how many came before it
  draft,      \* the disclosure draft of the report a call names
  roles,      \* SessionMemo: the entry viewer:roles
  job,
  marked      \* notifications that are read

world == <<granted, side, staffSince, grade, draft>>
rulesVars == <<clock, world, roles, job, marked>>

Never == ClockEnd + 1
IsStaff == staffSince <= clock

-----------------------------------------------------------------------------
(* The write tools *)

RequiredScopes ==
  [add_report_comment |-> {"reports:write"},
   add_triage_comment |-> {"triage:write", "profile:read"},
   raise_appeal |-> {"reports:write"},
   assign_report |-> {"triage:write", "profile:read", "triage:read"},
   update_report_status |-> {"triage:write", "profile:read", "triage:read"},
   grade_report |-> {"grade:write", "profile:read", "triage:read"},
   save_disclosure_draft |-> {"disclosures:write"},
   mark_notifications_read |-> {"notifications:write"}]

WriteTool == DOMAIN RequiredScopes

\* These begin with notStaff ...
RefusesStaff == {"add_triage_comment", "assign_report", "update_report_status", "grade_report"}
\* ... and these go on with orgSideReport.
ActsForOrg == RefusesStaff \ {"add_triage_comment"}
Comments == {"add_report_comment", "add_triage_comment"}

\* SIDES
SideOf(t) == IF t \in RefusesStaff THEN "organization" ELSE "researcher"
ReadScope(s) == IF s = "researcher" THEN "reports:read" ELSE "triage:read"
WriteScope(s) == IF s = "researcher" THEN "reports:write" ELSE "triage:write"
OtherSide(s) == IF s = "researcher" THEN "organization" ELSE "researcher"

\* A call: the report it names, the report the grade it contests is of, the
\* number of that grade or the revision of that draft, and whether the token
\* names its user.  `done` notifications are marked, as far as it knows.
NoJob ==
  [pc |-> "idle", tool |-> "none", report |-> NoReport, target |-> NoReport, number |-> 0, viewer |-> FALSE,
   began |-> 0, done |-> 0, result |-> "none"]

RulesInit ==
  /\ clock = 0 /\ granted \in Grants
  /\ side \in [Report -> {"researcher", "organization", "none"}]
  /\ staffSince \in {0 - RolesTtl, Never}
  /\ grade = [r \in Report |-> 0]
  /\ draft = [revision |-> 0, published |-> FALSE]
  /\ roles = [state |-> "empty", clean |-> FALSE, expires |-> 0]
  /\ job = [c \in Job |-> NoJob]
  /\ marked = {}

InJob(c, pc) == job[c].pc = pc
JobTo(c, pc) == job' = [job EXCEPT ![c].pc = pc]
JobOver(c, result) == job' = [job EXCEPT ![c].pc = "over", ![c].result = result]

-----------------------------------------------------------------------------
(* assertNotPlatformStaff and SessionMemo *)

RolesHit_ForEver == roles.state # "empty"
RolesHit == roles.state # "empty" /\ roles.expires > clock

\* requireViewerWhenAmbiguous comes between the two checks of orgSideReport.
RolesJudged(j, clean) ==
  IF clean /\ (j.tool \in ActsForOrg => j.viewer \/ "reports:read" \notin granted)
  THEN [j EXCEPT !.pc = "look"]
  ELSE [j EXCEPT !.pc = "over", !.result = "refused"]

AskRoles(c) ==
  /\ InJob(c, "roles?")
  /\ IF RolesHit /\ roles.state = "known"
     THEN job' = [job EXCEPT ![c] = RolesJudged(job[c], roles.clean)] /\ UNCHANGED roles
     ELSE /\ JobTo(c, "roles")
          /\ roles' = IF RolesHit THEN roles
                      ELSE [state |-> "loading", clean |-> FALSE, expires |-> clock + RolesTtl]
  /\ UNCHANGED <<clock, world, marked>>

\* The API read the roles at some time since the load began.
RolesLoaded ==
  /\ roles.state = "loading"
  /\ \E clean \in {~IsStaff, staffSince > roles.expires - RolesTtl} :
       /\ roles' = [roles EXCEPT !.state = "known", !.clean = clean]
       /\ job' = [c \in Job |-> IF InJob(c, "roles") THEN RolesJudged(job[c], clean) ELSE job[c]]
  /\ UNCHANGED <<clock, world, marked>>

\* A failed lookup is forgotten at once.
RolesFailed ==
  /\ roles.state = "loading"
  /\ roles' = [roles EXCEPT !.state = "empty"]
  /\ job' = [c \in Job |-> IF InJob(c, "roles")
                           THEN [job[c] EXCEPT !.pc = "over", !.result = "refused"] ELSE job[c]]
  /\ UNCHANGED <<clock, world, marked>>

-----------------------------------------------------------------------------
(* The checks on the report, the grade and the draft *)

Readable(r) == side[r] # "none" /\ ReadScope(side[r]) \in granted

\* assertOwnReport and assertNotOwnReport: a report read is the account's on
\* one side or the other.
OnSide(c, s) == job[c].viewer => side[job[c].report] = s

\* lookupReport, requireSideKnown and the assertion of the comment tools
CommentAllowed_IfUnreadable(c) ==
  LET s == SideOf(job[c].tool)
  IN  ReadScope(s) \in granted => Readable(job[c].report) /\ OnSide(c, s)
CommentAllowed(c) ==
  LET s == SideOf(job[c].tool)
  IN  IF ReadScope(s) \in granted THEN Readable(job[c].report) /\ OnSide(c, s)
      ELSE WriteScope(OtherSide(s)) \notin granted

\* orgSideReport
OrgWriteAllowed(c) == Readable(job[c].report) /\ OnSide(c, "organization")

AppealAllowed(c) ==
  "reports:read" \in granted =>
    /\ Readable(job[c].report) /\ OnSide(c, "researcher")
    /\ job[c].target = job[c].report /\ grade[job[c].report] = job[c].number

\* checkDraft
DraftAllowed(c) ==
  side[job[c].report] = "researcher" /\ ~draft.published /\ draft.revision = job[c].number

ReportAllowed(c) ==
  /\ job[c].tool \in Comments => CommentAllowed(c)
  /\ job[c].tool \in ActsForOrg => OrgWriteAllowed(c)
  /\ job[c].tool = "raise_appeal" => AppealAllowed(c)
  /\ job[c].tool = "save_disclosure_draft" => DraftAllowed(c)

Look(c) ==
  /\ InJob(c, "look")
  /\ IF ReportAllowed(c) THEN JobTo(c, "decide") ELSE JobOver(c, "refused")
  /\ UNCHANGED <<clock, world, roles, marked>>

\* readReportRef passes a refusal on; any other failure refuses the write too.
LookFails(c) ==
  /\ InJob(c, "look") /\ JobOver(c, "refused")
  /\ UNCHANGED <<clock, world, roles, marked>>

-----------------------------------------------------------------------------
(* A call *)

FirstCheck(t) ==
  IF t \in RefusesStaff THEN "roles?" ELSE IF t = "mark_notifications_read" THEN "decide" ELSE "look"

\* What the model read of the grade or the draft is what the call names.
Begin(c, t, r, target, viewer) ==
  /\ InJob(c, "idle") /\ RequiredScopes[t] \subseteq granted
  /\ t # "raise_appeal" => target = r
  /\ job' = [job EXCEPT ![c] =
       [NoJob EXCEPT !.tool = t, !.report = r, !.target = target, !.viewer = viewer, !.began = clock,
          !.number = IF t = "raise_appeal" THEN grade[target] ELSE draft.revision,
          !.pc = IF t = "assign_report" /\ ~viewer THEN "over" ELSE FirstCheck(t)]]
  /\ UNCHANGED <<clock, world, roles, marked>>

\* The user declines, does not decide in time, or the approval lapses ...
Declined(c) ==
  /\ InJob(c, "decide") /\ JobOver(c, "refused")
  /\ UNCHANGED <<clock, world, roles, marked>>
\* ... or approves, and what was checked is sent without another look.
Approved(c) ==
  /\ InJob(c, "decide")
  /\ JobTo(c, IF job[c].tool = "mark_notifications_read" THEN "mark" ELSE "send")
  /\ UNCHANGED <<clock, world, roles, marked>>

\* The API's own rules, as far as the checks above rely on them.
Accepts(j) ==
  CASE j.tool \in Comments ->
         side[j.report] # "none" /\ WriteScope(side[j.report]) \in granted
    [] j.tool \in ActsForOrg -> side[j.report] = "organization"
    [] j.tool = "raise_appeal" -> side[j.target] = "researcher" /\ grade[j.target] = j.number
    [] j.tool = "save_disclosure_draft" ->
         side[j.report] = "researcher" /\ draft.revision = j.number

Send(c) ==
  /\ InJob(c, "send")
  /\ JobOver(c, IF Accepts(job[c]) THEN "landed" ELSE "rejected")
  /\ UNCHANGED <<clock, world, roles, marked>>

\* One part of mark_notifications_read, performed or not.  The call goes on after
\* one it knows is made, and the first failure ends it: one of the server's own
\* errors ("partly") is answered with the parts done before it and the part that
\* failed, any other (a store that cannot be read or written, the call given up)
\* is passed on as it is ("broken"), and speaks of no part.
MarkNext_GoesOn(c, performed, how) ==
  LET notice == Notices[job[c].done + 1]
  IN  /\ InJob(c, "mark") /\ job[c].done < Len(Notices)
      /\ how = "made" => performed
      /\ marked' = IF performed THEN marked \cup {notice} ELSE marked
      /\ job' = [job EXCEPT ![c].done = @ + 1]
      /\ UNCHANGED <<clock, world, roles>>
MarkNext(c, performed, how) ==
  LET notice == Notices[job[c].done + 1]
  IN  /\ InJob(c, "mark") /\ job[c].done < Len(Notices)
      /\ how = "made" => performed
      /\ marked' = IF performed THEN marked \cup {notice} ELSE marked
      /\ IF how = "made" THEN job' = [job EXCEPT ![c].done = @ + 1] ELSE JobOver(c, how)
      /\ UNCHANGED <<clock, world, roles>>
MarkedAll(c) ==
  /\ InJob(c, "mark") /\ job[c].done = Len(Notices) /\ JobOver(c, "landed")
  /\ UNCHANGED <<clock, world, roles, marked>>

-----------------------------------------------------------------------------
(* Elsewhere: time, the account, BugSecure's website *)

\* A load ends long before it would expire.
ClockTick ==
  /\ clock < ClockEnd /\ clock' = clock + 1
  /\ roles.state = "loading" => clock' < roles.expires
  /\ UNCHANGED <<world, roles, job, marked>>

BecomesStaff ==
  /\ ~IsStaff /\ staffSince' = clock
  /\ UNCHANGED <<clock, granted, side, grade, draft, roles, job, marked>>

GradeReplaced(r) ==
  /\ grade[r] = 0 /\ grade' = [grade EXCEPT ![r] = 1]
  /\ UNCHANGED <<clock, granted, side, staffSince, draft, roles, job, marked>>

DraftChanges ==
  /\ draft' \in {[draft EXCEPT !.revision = 1], [draft EXCEPT !.published = TRUE]} \ {draft}
  /\ UNCHANGED <<clock, granted, side, staffSince, grade, roles, job, marked>>

JobStep(c) ==
  \/ \E t \in WriteTool, r, target \in Report, viewer \in BOOLEAN : Begin(c, t, r, target, viewer)
  \/ AskRoles(c) \/ Look(c) \/ LookFails(c) \/ Declined(c) \/ Approved(c) \/ Send(c)
  \/ \E performed \in BOOLEAN, how \in {"made", "partly", "broken"} : MarkNext(c, performed, how)
  \/ MarkedAll(c)

RulesNext ==
  \/ \E c \in Job : JobStep(c)
  \/ RolesLoaded \/ RolesFailed
  \/ ClockTick \/ BecomesStaff \/ DraftChanges \/ \E r \in Report : GradeReplaced(r)

RulesSpec == RulesInit /\ [][RulesNext]_rulesVars

-----------------------------------------------------------------------------
(* Properties *)

\* The token cannot tell the account's own reports from its organisations'.
Indistinct(j) == ~j.viewer /\ {"reports:read", "triage:read"} \subseteq granted

\* report-ref.ts:105: a comment lands on the side it was meant for, whatever the
\* scopes granted, and (raise-appeal.ts) an appeal contests the grade of the
\* report it names when that can be read; unless the token does not name its
\* user and reads the reports of both sides, which only organisation-side tools
\* other than comments refuse.
RightSide ==
  \A c \in Job : LET j == job[c] IN
    j.result = "landed" /\ ~Indistinct(j) =>
      /\ j.tool \in Comments => side[j.report] = SideOf(j.tool)
      /\ j.tool = "raise_appeal" /\ "reports:read" \in granted => j.target = j.report

\* viewer.ts: organisation-side writes of a staff account are not sent, unless
\* it became one while its roles were remembered or the call was running.
StaffRefused ==
  \A c \in Job : LET j == job[c] IN
    j.tool \in RefusesStaff /\ j.result \in {"landed", "rejected"} => staffSince > j.began - RolesTtl

\* mark-notifications-read.ts:58-70: what the answer of a call says is marked is
\* marked, and a notification is marked without an answer that says so only if it
\* is the part that failed, which may have been performed all the same, or if the
\* call ended with an error that is not the server's own, which is passed on
\* without a word of the parts done before it.
NoticesDone(j) == {Notices[i] : i \in 1..j.done}
Told(j) == IF j.result = "broken" THEN {} ELSE NoticesDone(j)
Unsaid(j) ==
  CASE j.result = "partly" -> {Notices[j.done + 1]}
    [] j.result = "broken" -> NoticesDone(j) \cup {Notices[j.done + 1]}
    [] OTHER -> {}
MarkedAreTold ==
  LET jobs == {job[c] : c \in {d \in Job : job[d].tool = "mark_notifications_read"}}
  IN  /\ \A j \in jobs : Told(j) \subseteq marked
      /\ marked \subseteq UNION {Told(j) \cup Unsaid(j) : j \in jobs}
=============================================================================
