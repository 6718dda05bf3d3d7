---------------------------- MODULE AgentWrites ----------------------------
(***************************************************************************)
(* How a write tool changes anything: ApprovalGate.check asks the user on  *)
(* BugSecure (src/src/tools/approval.ts), approvedWrite sends each part of *)
(* the payload under the approval's key (tools/define-tool.ts), and        *)
(* resendingLostWrites resends once what was lost (tools/shared/           *)
(* write-retry.ts).  The API keeps the approvals, runs a part only against *)
(* an approved one with exactly that payload, and performs a key once.     *)
(*                                                                         *)
(* A member of Call is a slot in which tools/call requests run one after   *)
(* the other; several slots are concurrent requests, of one server or of   *)
(* several.  A payload <<a, w>> is what the tool with arguments a builds   *)
(* while the data its checks read is at version w.  A key stands for the   *)
(* approval's id and its clientRequestId.  A server that dies is every     *)
(* call in it being cancelled.                                             *)
(*                                                                         *)
(* Left out: clocks (a budget is MaxPolls polls, and whether time is left  *)
(* for an attempt is a choice), principals, and the text of answers.       *)
(***************************************************************************)
EXTENDS Naturals, FiniteSets

CONSTANTS
  Call,      \* slots for concurrent tools/call requests
  Key,       \* approvals the API may register; bounds their number
  Args,      \* tool names with their validated arguments
  Version,   \* versions of what payloads depend on
  Parts,     \* number of parts of a payload
  MaxPolls,  \* polls that fit in one call's budget
  MaxAsks,   \* times the resend asks again (IN_PROGRESS_DELAYS_MS)
  Garbling,  \* whether the answer to a committed write may be unreadable
  None, Late

ASSUME WritesAssumption ==
  /\ Garbling \in BOOLEAN
  /\ Parts \in Nat \ {0} /\ MaxPolls \in Nat /\ MaxAsks \in Nat
  /\ None \notin Call \cup Key \cup Args /\ Late \notin Call \cup {None}

Payload == Args \X Version
State == [a : Args, d : Payload, k : Key]     \* what the sealed requestState says
Part == 1..Parts
Request == [k : Key, i : Part, pay : Payload]

ASSUME NoneIsNoPayload == None \notin Payload \cup State

VARIABLES
  appr,      \* appr[k]: the approval's payload and status at the API
  used,      \* used[k]: its parts that have been performed
  running,   \* running[k][i]: the request that executes part i, Late, or None
  late,      \* requests whose sender gave up, and that may still arrive
  posted,    \* payloads whose registration was given up, and may still arrive
  version,   \* the current version of the data
  states,    \* request states handed to MCP clients
  pc,        \* where each call is
  args,      \* args[c]: its arguments
  st,        \* st[c]: the verified state it carries, if it names this call
  seen,      \* seen[c]: the status it read last
  polls,     \* polls[c]: polls made
  pay,       \* pay[c]: the payload it built
  key,       \* key[c]: the approval it asks for or writes under
  part,      \* part[c]: the part it is sending
  api,       \* api[c]: what became of its request at the API
  asks,      \* asks[c]: 0 for the first attempt, then 1 + the times it asked again
  out,       \* out[c]: how the last call in the slot was answered
  agreed,    \* history: approvals the user has approved
  exposed,   \* history: calls whose current part may have been performed
  strayed,   \* history: calls that carried a state that was not accepted
  crossed    \* history: payloads of which two registrations were under way at once

apiVars  == <<appr, used, running, late, posted>>
gateVars == <<args, st, seen, polls, pay, key>>
sendVars == <<part, api, asks>>
histVars == <<agreed, exposed, strayed, crossed>>
vars == <<apiVars, version, states, pc, gateVars, sendVars, out, histVars>>

Final == {"CONSUMED", "DECLINED", "EXPIRED"}

\* What GetAgentApproval answers; an approval is used up by its last part.
Status(k) == IF appr[k].status = "APPROVED" /\ used[k] = Part THEN "CONSUMED" ELSE appr[k].status

Answers == {"none", "input_required", "fallback", "not_opened", "awaiting", "settled",
            "failed", "not_sent", "unknown", "ok", "dropped"}

ApiTypeOK ==
  /\ appr \in [Key -> [pay : Payload \cup {None},
                       status : {"none", "PENDING", "APPROVED", "DECLINED", "EXPIRED"}]]
  /\ used \in [Key -> SUBSET Part]
  /\ running \in [Key -> [Part -> Call \cup {Late, None}]]
  /\ late \subseteq Request
  /\ posted \subseteq Payload
  /\ version \in Version
  /\ states \subseteq State
  /\ agreed \subseteq Key

CallTypeOK ==
  /\ pc \in [Call -> {"idle", "read", "build", "await", "find", "create", "ask", "send", "wire"}]
  /\ args \in [Call -> Args \cup {None}]
  /\ st \in [Call -> State \cup {None}]
  /\ seen \in [Call -> Final \cup {"none", "PENDING", "APPROVED"}]
  /\ polls \in [Call -> 0..MaxPolls]
  /\ pay \in [Call -> Payload \cup {None}]
  /\ key \in [Call -> Key \cup {None}]
  /\ part \in [Call -> Part]
  /\ api \in [Call -> {"none", "sent", "running", "done", "refused", "busy", "failed"}]
  /\ asks \in [Call -> 0..(MaxAsks + 1)]
  /\ out \in [Call -> Answers]
  /\ exposed \subseteq Call /\ strayed \subseteq Call /\ crossed \subseteq Payload

TypeOK == ApiTypeOK /\ CallTypeOK

Init ==
  /\ appr = [k \in Key |-> [pay |-> None, status |-> "none"]]
  /\ used = [k \in Key |-> {}]
  /\ running = [k \in Key |-> [i \in Part |-> None]]
  /\ late = {} /\ posted = {}
  /\ version \in Version
  /\ states = {}
  /\ pc = [c \in Call |-> "idle"]
  /\ args = [c \in Call |-> None] /\ st = [c \in Call |-> None]
  /\ seen = [c \in Call |-> "none"] /\ polls = [c \in Call |-> 0]
  /\ pay = [c \in Call |-> None] /\ key = [c \in Call |-> None]
  /\ part = [c \in Call |-> 1] /\ api = [c \in Call |-> "none"] /\ asks = [c \in Call |-> 0]
  /\ out = [c \in Call |-> "none"]
  /\ agreed = {} /\ exposed = {} /\ strayed = {} /\ crossed = {}

-----------------------------------------------------------------------------
(* ApprovalGate.check *)

Goto(c, l) == pc' = [pc EXCEPT ![c] = l]

\* The call is answered: its slot is free for the next one.
Answer(c, how) ==
  /\ Goto(c, "idle")
  /\ out' = [out EXCEPT ![c] = how]
  /\ args' = [args EXCEPT ![c] = None]
  /\ st' = [st EXCEPT ![c] = None]
  /\ seen' = [seen EXCEPT ![c] = "none"]
  /\ polls' = [polls EXCEPT ![c] = 0]
  /\ pay' = [pay EXCEPT ![c] = None]
  /\ key' = [key EXCEPT ![c] = None]
  /\ part' = [part EXCEPT ![c] = 1]
  /\ api' = [api EXCEPT ![c] = "none"]
  /\ asks' = [asks EXCEPT ![c] = 0]
  /\ exposed' = exposed \ {c}
  /\ strayed' = strayed \ {c}
  /\ UNCHANGED <<agreed, crossed>>

\* A call arrives, with or without a state.  It is told apart whether the state
\* verifies and names this call (`named`), or the call has to start over.
Start(c) ==
  /\ pc[c] = "idle"
  /\ \E a \in Args :
       /\ args' = [args EXCEPT ![c] = a]
       /\ \/ Goto(c, "build") /\ UNCHANGED <<st, strayed>>
          \/ /\ states # {}                              \* forged, expired, of another call
             /\ Goto(c, "build")
             /\ strayed' = strayed \cup {c}
             /\ UNCHANGED st
          \/ \E s \in states :
               /\ s.a = a
               /\ st' = [st EXCEPT ![c] = s]
               /\ Goto(c, "read")
               /\ UNCHANGED strayed
  /\ out' = [out EXCEPT ![c] = "none"]
  /\ UNCHANGED <<apiVars, version, states, seen, polls, pay, key, sendVars, agreed, exposed, crossed>>

\* The user closed the review page without opening it.
NotOpened(c) ==
  /\ pc[c] = "read"
  /\ Answer(c, "not_opened")
  /\ UNCHANGED <<apiVars, version, states>>

\* A read of the approval, or any other request before the write, fails.
LookupFails(c) ==
  /\ pc[c] \in {"read", "build", "await", "find", "create"}
  /\ Answer(c, "failed")
  /\ UNCHANGED <<apiVars, version, states>>

Read(c) ==
  /\ pc[c] = "read"
  /\ LET s == Status(st[c].k) IN
     IF s \in Final
     THEN Answer(c, "settled")
     ELSE /\ seen' = [seen EXCEPT ![c] = s]
          /\ Goto(c, "build")
          /\ UNCHANGED <<args, st, polls, pay, key, sendVars, out, histVars>>
  /\ UNCHANGED <<apiVars, version, states>>

\* buildPayload: the tool's own checks, on the data as it is now.  A state
\* whose digest differs from the new payload's is not used.
Build_KeepsState(c) ==
  /\ pc[c] = "build"
  /\ pay' = [pay EXCEPT ![c] = <<args[c], version>>]
  /\ Goto(c, IF st[c] # None THEN "await" ELSE "find")
  /\ UNCHANGED <<apiVars, version, states, args, st, seen, polls, key, sendVars, out, histVars>>

Build(c) ==
  /\ pc[c] = "build"
  /\ LET p == <<args[c], version>> IN
     /\ pay' = [pay EXCEPT ![c] = p]
     /\ IF st[c] # None /\ st[c].d = p
        THEN Goto(c, "await") /\ UNCHANGED <<st, strayed>>
        ELSE /\ Goto(c, "find")
             /\ st' = [st EXCEPT ![c] = None]
             /\ strayed' = IF st[c] = None THEN strayed ELSE strayed \cup {c}
  /\ UNCHANGED <<apiVars, version, states, args, seen, polls, key, sendVars, out, agreed, exposed, crossed>>

\* #awaitDecision, on the status read last.
Poll(c) ==
  /\ pc[c] = "await" /\ seen[c] = "PENDING" /\ polls[c] < MaxPolls
  /\ seen' = [seen EXCEPT ![c] = Status(st[c].k)]
  /\ polls' = [polls EXCEPT ![c] = @ + 1]
  /\ UNCHANGED <<apiVars, version, states, pc, args, st, pay, key, sendVars, out, histVars>>

\* The budget is spent; an approval read after it is not acted on either.
BudgetSpent(c) ==
  /\ pc[c] \in {"read", "await"}
  /\ pc[c] = "await" => seen[c] \in {"PENDING", "APPROVED"}
  /\ Answer(c, "awaiting")
  /\ UNCHANGED <<apiVars, version, states>>

Decided(c) ==
  /\ pc[c] = "await" /\ seen[c] # "PENDING"
  /\ IF seen[c] = "APPROVED"
     THEN /\ key' = [key EXCEPT ![c] = st[c].k]
          /\ Goto(c, "send")
          /\ UNCHANGED <<args, st, seen, polls, pay, sendVars, out, histVars>>
     ELSE Answer(c, "settled")
  /\ UNCHANGED <<apiVars, version, states>>

Live(p, status) == {k \in Key : appr[k].pay = p /\ Status(k) = status}

\* Payloads whose registration has begun and is neither made nor refused.
BeingRegistered == posted \cup {pay[d] : d \in {e \in Call : pc[e] = "create"}}

\* #find: an approved one is used, a pending one is shown again.
Find_IgnoresPending(c) ==
  /\ pc[c] = "find"
  /\ \/ /\ \E k \in Live(pay[c], "APPROVED") :
             key' = [key EXCEPT ![c] = k] /\ Goto(c, "send")
        /\ UNCHANGED crossed
     \/ /\ Live(pay[c], "APPROVED") = {}
        /\ Goto(c, "create") /\ UNCHANGED key
        /\ crossed' = crossed \cup ({pay[c]} \cap BeingRegistered)
  /\ UNCHANGED <<apiVars, version, states, args, st, seen, polls, pay, sendVars, out,
                 agreed, exposed, strayed>>

Find(c) ==
  /\ pc[c] = "find"
  /\ \/ /\ \E k \in Live(pay[c], "APPROVED") :
             key' = [key EXCEPT ![c] = k] /\ Goto(c, "send")
        /\ UNCHANGED crossed
     \/ /\ Live(pay[c], "APPROVED") = {}
        /\ \E k \in Live(pay[c], "PENDING") :
             key' = [key EXCEPT ![c] = k] /\ Goto(c, "ask")
        /\ UNCHANGED crossed
     \/ /\ Live(pay[c], "APPROVED") \cup Live(pay[c], "PENDING") = {}
        /\ Goto(c, "create") /\ UNCHANGED key
        /\ crossed' = crossed \cup ({pay[c]} \cap BeingRegistered)
  /\ UNCHANGED <<apiVars, version, states, args, st, seen, polls, pay, sendVars, out,
                 agreed, exposed, strayed>>

\* The API registers the payload p as the approval k.
Registers(k, p) ==
  /\ appr[k].status = "none"
  /\ appr' = [appr EXCEPT ![k] = [pay |-> p, status |-> "PENDING"]]

\* #create registers the payload under a fresh key, resending it harmlessly.
Create(c) ==
  /\ pc[c] = "create"
  /\ \E k \in Key : Registers(k, pay[c]) /\ key' = [key EXCEPT ![c] = k]
  /\ Goto(c, "ask")
  /\ UNCHANGED <<used, running, late, posted, version, states,
                 args, st, seen, polls, pay, sendVars, out, histVars>>

\* #ask seals the state and sends the client to the review page ...
Ask(c) ==
  /\ pc[c] = "ask"
  /\ states' = states \cup {[a |-> args[c], d |-> pay[c], k |-> key[c]]}
  /\ Answer(c, "input_required")
  /\ UNCHANGED <<apiVars, version>>

\* ... unless the client cannot open it, or its address is not the expected one.
Fallback(c) ==
  /\ pc[c] = "ask"
  /\ Answer(c, "fallback")
  /\ UNCHANGED <<apiVars, version, states>>

-----------------------------------------------------------------------------
(* approvedWrite and resendingLostWrites *)

\* The next part is sent, if enough of the call's time is left.
Send(c) ==
  /\ pc[c] = "send"
  /\ Goto(c, "wire")
  /\ api' = [api EXCEPT ![c] = "sent"]
  /\ UNCHANGED <<apiVars, version, states, gateVars, part, asks, out, histVars>>

CallDeadline(c) ==
  /\ pc[c] = "send"
  /\ Answer(c, "not_sent")
  /\ UNCHANGED <<apiVars, version, states>>

MyRequest(c) == [k |-> key[c], i |-> part[c], pay |-> pay[c]]

\* The request c has at the API, a write or a registration, is left to itself.
Abandon(c) ==
  /\ posted' = IF pc[c] = "create" THEN posted \cup {pay[c]} ELSE posted
  /\ late' = IF api[c] \in {"sent", "running"} THEN late \cup {MyRequest(c)} ELSE late
  /\ running' = IF api[c] = "running"
                THEN [running EXCEPT ![key[c]][part[c]] = Late] ELSE running

Confirmed_StopsEarly(c) ==
  /\ pc[c] = "wire" /\ api[c] = "done"
  /\ Answer(c, "ok")
  /\ UNCHANGED <<apiVars, version, states>>

Confirmed(c) ==
  /\ pc[c] = "wire" /\ api[c] = "done"
  /\ IF part[c] = Parts
     THEN Answer(c, "ok")
     ELSE /\ Goto(c, "send")
          /\ part' = [part EXCEPT ![c] = @ + 1]
          /\ api' = [api EXCEPT ![c] = "none"]
          /\ asks' = [asks EXCEPT ![c] = 0]
          /\ exposed' = exposed \ {c}
          /\ UNCHANGED <<gateVars, out, agreed, strayed, crossed>>
  /\ UNCHANGED <<apiVars, version, states>>

\* An answer that is too large, or no JSON under a status below 500, or not
\* what the tool's schema says, is an error of its own and not a lost one.
Unreadable(c) ==
  /\ Garbling
  /\ pc[c] = "wire" /\ api[c] = "done" /\ asks[c] = 0
  /\ Answer(c, "failed")
  /\ UNCHANGED <<apiVars, version, states>>

\* A refusal of the first attempt is the call's error.
Refused_AfterResendToo(c) ==
  /\ pc[c] = "wire" /\ api[c] \in {"refused", "busy"}
  /\ Answer(c, "failed")
  /\ UNCHANGED <<apiVars, version, states>>

Refused(c) ==
  /\ pc[c] = "wire" /\ api[c] \in {"refused", "busy"} /\ asks[c] = 0
  /\ Answer(c, "failed")
  /\ UNCHANGED <<apiVars, version, states>>

\* A timeout, a broken connection, a 5xx or an internal error: resent once.
Resend(c) ==
  /\ pc[c] = "wire" /\ api[c] \in {"sent", "running", "done", "failed"} /\ asks[c] = 0
  /\ Abandon(c)
  /\ api' = [api EXCEPT ![c] = "sent"]
  /\ asks' = [asks EXCEPT ![c] = 1]
  /\ exposed' = IF api[c] = "failed" THEN exposed ELSE exposed \cup {c}
  /\ UNCHANGED <<appr, used, version, states, pc, gateVars, part, out, agreed, strayed, crossed>>

\* The API still runs the first request: wait and ask again.
AskAgain_ForEver(c) ==
  /\ pc[c] = "wire" /\ api[c] = "busy" /\ asks[c] > 0
  /\ api' = [api EXCEPT ![c] = "sent"]
  /\ UNCHANGED <<apiVars, version, states, pc, gateVars, part, asks, out, histVars>>

AskAgain(c) ==
  /\ pc[c] = "wire" /\ api[c] = "busy" /\ asks[c] \in 1..MaxAsks
  /\ api' = [api EXCEPT ![c] = "sent"]
  /\ asks' = [asks EXCEPT ![c] = @ + 1]
  /\ UNCHANGED <<apiVars, version, states, pc, gateVars, part, out, histVars>>

\* The resend was not confirmed, or there was no time for it.
OutcomeUnknown(c) ==
  /\ pc[c] \in {"create", "wire"}
  /\ asks[c] = 0 => api[c] \notin {"refused", "busy"}
  /\ Abandon(c)
  /\ Answer(c, "unknown")
  /\ UNCHANGED <<appr, used, version, states>>

\* The client cancels, or the server dies.
Cancel(c) ==
  /\ pc[c] # "idle"
  /\ Abandon(c)
  /\ Answer(c, "dropped")
  /\ UNCHANGED <<appr, used, version, states>>

-----------------------------------------------------------------------------
(* The API, the user, and everybody else *)

Runnable(r) ==
  /\ appr[r.k].status = "APPROVED" /\ appr[r.k].pay = r.pay
  /\ r.i \notin used[r.k] /\ running[r.k][r.i] = None

ApiRuns(c) ==
  /\ api[c] = "sent" /\ Runnable(MyRequest(c))
  /\ api' = [api EXCEPT ![c] = "running"]
  /\ running' = [running EXCEPT ![key[c]][part[c]] = c]
  /\ UNCHANGED <<appr, used, late, posted, version, states, pc, gateVars, part, asks, out, histVars>>

\* The part, its key and its approval are committed in one transaction.
ApiCommits(c) ==
  /\ api[c] = "running"
  /\ api' = [api EXCEPT ![c] = "done"]
  /\ used' = [used EXCEPT ![key[c]] = @ \cup {part[c]}]
  /\ running' = [running EXCEPT ![key[c]][part[c]] = None]
  /\ exposed' = exposed \cup {c}
  /\ UNCHANGED <<appr, late, posted, version, states, pc, gateVars, part, asks, out,
                 agreed, strayed, crossed>>

ApiRollsBack(c) ==
  /\ api[c] = "running"
  /\ \E answer \in {"failed", "refused"} : api' = [api EXCEPT ![c] = answer]
  /\ running' = [running EXCEPT ![key[c]][part[c]] = None]
  /\ UNCHANGED <<appr, used, late, posted, version, states, pc, gateVars, part, asks, out, histVars>>

\* The key was performed: what it wrote is read back, which may fail; the key
\* is being performed; or the request is refused, for any reason.
ApiAnswers(c) ==
  /\ api[c] = "sent"
  /\ \E answer \in {"done", "failed", "busy", "refused"} :
       /\ answer = "done" => part[c] \in used[key[c]] /\ appr[key[c]].pay = pay[c]
       /\ answer = "busy" => running[key[c]][part[c]] # None
       /\ api' = [api EXCEPT ![c] = answer]
  /\ UNCHANGED <<apiVars, version, states, pc, gateVars, part, asks, out, histVars>>

LateRuns(r) ==
  /\ Runnable(r)
  /\ late' = late \ {r}
  /\ running' = [running EXCEPT ![r.k][r.i] = Late]
  /\ UNCHANGED <<appr, used, posted, version, states, pc, gateVars, sendVars, out, histVars>>

LateEnds(k, i) ==
  /\ running[k][i] = Late
  /\ running' = [running EXCEPT ![k][i] = None]
  /\ used' \in {used, [used EXCEPT ![k] = @ \cup {i}]}
  /\ UNCHANGED <<appr, late, posted, version, states, pc, gateVars, sendVars, out, histVars>>

\* A registration arrives after its sender gave up.
LateRegisters(p) ==
  /\ \E k \in Key : Registers(k, p)
  /\ posted' = posted \ {p}
  /\ UNCHANGED <<used, running, late, version, states, pc, gateVars, sendVars, out, histVars>>

\* On BugSecure, the user approves or declines, or time runs out.
Decide(k) ==
  /\ appr[k].status = "PENDING"
  /\ \E s \in {"APPROVED", "DECLINED"} :
       /\ appr' = [appr EXCEPT ![k].status = s]
       /\ agreed' = IF s = "APPROVED" THEN agreed \cup {k} ELSE agreed
  /\ UNCHANGED <<used, running, late, posted, version, states, pc, gateVars, sendVars, out,
                 exposed, strayed, crossed>>

Lapse(k) ==
  /\ Status(k) \in {"PENDING", "APPROVED"}
  /\ appr' = [appr EXCEPT ![k].status = "EXPIRED"]
  /\ UNCHANGED <<used, running, late, posted, version, states, pc, gateVars, sendVars, out, histVars>>

ChangeVersion ==
  /\ version' \in Version \ {version}
  /\ UNCHANGED <<apiVars, states, pc, gateVars, sendVars, out, histVars>>

-----------------------------------------------------------------------------
CodeStep(c) ==
  \/ LookupFails(c) \/ Read(c) \/ Build(c) \/ Poll(c) \/ BudgetSpent(c) \/ Decided(c)
  \/ Find(c) \/ Create(c) \/ Ask(c) \/ Fallback(c)
  \/ Send(c) \/ CallDeadline(c) \/ Confirmed(c) \/ Unreadable(c) \/ Refused(c)
  \/ Resend(c) \/ AskAgain(c) \/ OutcomeUnknown(c)

ApiStep(c) == ApiRuns(c) \/ ApiCommits(c) \/ ApiRollsBack(c) \/ ApiAnswers(c)

Next ==
  \/ \E c \in Call : Start(c) \/ NotOpened(c) \/ CodeStep(c) \/ Cancel(c) \/ ApiStep(c)
  \/ \E r \in late : LateRuns(r)
  \/ \E p \in posted : LateRegisters(p)
  \/ \E k \in Key, i \in Part : LateEnds(k, i)
  \/ \E k \in Key : Decide(k) \/ Lapse(k)
  \/ ChangeVersion

Spec == Init /\ [][Next]_vars

\* A server keeps working on its calls, and every wait in it is timed.
Fairness == \A c \in Call : WF_vars(CodeStep(c))

FairSpec == Spec /\ Fairness

-----------------------------------------------------------------------------
(* Why only what was approved is sent: the inductive invariant *)

Registered(k) == appr[k].status # "none"

Agreement == \A k \in Key :
  /\ appr[k].status = "APPROVED" => k \in agreed
  /\ k \in agreed => Registered(k)

\* A sealed state names an approval of the payload whose digest it carries.
SealedStates == \A s \in states : Registered(s.k) /\ appr[s.k].pay = s.d

\* The state a call carries is one that was sealed, and what it read is true of it.
CarriesSealed(c) ==
  /\ st[c] # None => st[c] \in states /\ (seen[c] = "APPROVED" => st[c].k \in agreed)
  /\ pc[c] \in {"idle", "read"} => seen[c] = "none"
  /\ pc[c] = "read" => st[c] # None
  /\ pc[c] = "await" => st[c] # None /\ pay[c] = st[c].d

\* A call that has chosen an approval writes what is registered under it.
ChoseRightly(c) ==
  /\ pc[c] \in {"await", "find", "create", "ask", "send", "wire"} => pay[c] # None
  /\ pc[c] # "idle" => args[c] # None
  /\ pc[c] \in {"ask", "send", "wire"} =>
       key[c] # None /\ Registered(key[c]) /\ appr[key[c]].pay = pay[c]
  /\ pc[c] \in {"send", "wire"} => key[c] \in agreed
  /\ api[c] # "none" => pc[c] = "wire"

CallsInHand == \A c \in Call : CarriesSealed(c) /\ ChoseRightly(c)

LateWrites == \A r \in late : r.k \in agreed /\ appr[r.k].pay = r.pay

IInv == TypeOK /\ Agreement /\ SealedStates /\ CallsInHand /\ LateWrites

\* A call that may have changed something holds its answer, or has resent.
ExposedOnTheWire(c) == c \in exposed => pc[c] = "wire" /\ (api[c] = "done" \/ asks[c] > 0)

\* The parts before the one a call sends have been performed under its key.
PartsInOrder(c) ==
  /\ pc[c] \notin {"send", "wire"} => part[c] = 1
  /\ pc[c] \in {"send", "wire"} => \A i \in Part : i < part[c] => i \in used[key[c]]
  /\ api[c] = "done" => part[c] \in used[key[c]]

SendingInv == \A c \in Call : ExposedOnTheWire(c) /\ PartsInOrder(c)

-----------------------------------------------------------------------------
(* Properties *)

OnTheWire == late \cup {MyRequest(c) : c \in {d \in Call : pc[d] = "wire"}}

\* approval.ts: only what the user approved is ever sent, exactly as it was
\* approved and under the key it was approved with, whatever changed since.
OnlyApprovedIsSent == \A r \in OnTheWire : r.k \in agreed /\ appr[r.k].pay = r.pay

\* write-retry.ts: a write that may have been made is never reported as a plain
\* failure, after which the user would be asked for it again.
NoWriteDenied ==
  [][\A c \in Call : pc[c] = "wire" /\ out[c] # out'[c] /\ out'[c] = "failed" => c \notin exposed]_vars

\* A call that says the change was made tells the truth: every part is.
OkMeansAllMade ==
  [][\A c \in Call : out[c] # out'[c] /\ out'[c] = "ok" => used[key[c]] = Part]_vars

\* One undecided or unused approval for a payload.  SECURITY.md:93: "the server's
\* checks keep a user from being sent somewhere wrong or asked twice".
InForceOnce(p) == Cardinality(Live(p, "PENDING") \cup Live(p, "APPROVED")) <= 1
AskedOnce == \A p \in Payload : InForceOnce(p)

\* approval.ts, #find before #create: the user is asked twice for one change only
\* if it was being registered, by another call or by one that was given up, when a
\* call looked for its approval and found none.
AskedTwiceOnlyTogether == \A p \in Payload \ crossed : InForceOnce(p)

\* SECURITY.md:85 "a retry with other arguments, a payload that changed between
\* the two rounds, or a state tampered with [...] never writes".
StrayedNeverWrites == \A c \in strayed : pc[c] # "wire"

\* Every call is answered.
CallsAnswered == \A c \in Call : pc[c] # "idle" ~> pc[c] = "idle"
=============================================================================
