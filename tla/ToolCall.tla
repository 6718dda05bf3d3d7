------------------------------ MODULE ToolCall ------------------------------
(***************************************************************************)
(* One call of a write tool against the clock: runTool and requestDeadline *)
(* (src/src/tools/define-tool.ts), the waiting of ApprovalGate.check       *)
(* (tools/approval.ts), approvedWrite and resendingLostWrites, and the     *)
(* timeouts of the GraphQL client.  What an approval allows is the subject *)
(* of AgentWrites; here its status is a choice and the time is counted.    *)
(*                                                                         *)
(* A member of Id is the id of an SDK request of one session, used again   *)
(* when its request is over.  A 2025-era client is asked to elicit within  *)
(* its request: the SDK's shim enters the handler again with the same id   *)
(* when the user has answered, however long that takes.  A newer client    *)
(* retries under a new id.  The server's own computing takes no time.      *)
(***************************************************************************)
EXTENDS Timing, ExpiringLru

CONSTANTS
  Id,            \* ids of SDK requests
  Timeout,       \* of one request to the API
  PollBudget, PollInterval,
  Delays,        \* pauses after REQUEST_IN_PROGRESS
  Parts,         \* parts of a payload
  MaxTokenWait,  \* the longest an access token is waited for
  Grace,         \* how long a deadline is remembered after it has passed
  MemorySize,    \* how many deadlines are
  MaxTime

ASSUME CallAssumption ==
  /\ {Timeout, PollBudget, PollInterval, Parts, Grace, MemorySize} \subseteq Nat \ {0}
  /\ Timeout >= MinWriteAttempt
  /\ Delays \in Seq(Nat \ {0}) /\ MaxTokenWait \in Nat /\ MaxTime \in Nat

VARIABLES
  now,
  memory,   \* callDeadlines: the deadlines of the requests that are not over
  call      \* what is known of each request

vars == <<now, memory, call>>

Asking == {"checks", "fresh"}   \* reads, as many as the checks take
Polling == {"status", "payload", "pause", "read"}
Writing == {"token", "wire", "delay"}
Timed == Writing \cup {"status", "pause", "read"}
InServer == Asking \cup Polling \cup Writing

Idle ==
  [pc |-> "idle",
   arrived |-> 0, deadline |-> 0, pollBy |-> 0,
   till |-> 0,           \* when what it awaits comes to an end
   approved |-> FALSE,   \* the status read last
   left |-> Parts,       \* parts not sent yet
   resent |-> FALSE, asks |-> 0,
   refused |-> FALSE,    \* the API refused the token of this attempt
   waited |-> FALSE,     \* a token had to be waited for
   kept |-> TRUE,        \* its deadline has not been forgotten
   orphan |-> FALSE]     \* the last request of this id was given up while eliciting

Init == now = 0 /\ memory = <<>> /\ call = [r \in Id |-> Idle]

-----------------------------------------------------------------------------
(* requestDeadline and releaseRequestDeadline *)

Remembered(r) == HasLive(memory, r, now)
DeadlineOf(r) == IF Remembered(r) THEN ValueOf(memory, r) ELSE now + ClientDeadline

MemoryAfter(r) ==
  LET looked == AfterGet(memory, r, now)
      d == DeadlineOf(r)
  IN  IF Remembered(r) THEN looked ELSE AfterSet(looked, r, d, d + Grace, now, MemorySize)

PushedOut(r) ==
  IF Remembered(r) THEN {}
  ELSE LET d == DeadlineOf(r)
       IN  Displaced(AfterGet(memory, r, now), r, d, d + Grace, now, MemorySize)

Released_Kept(r) == memory
Released(r) == Without(memory, r)

\* The handler is entered with what the request is at then.
EnterHandler(r, c) ==
  /\ memory' = MemoryAfter(r)
  /\ call' = [q \in Id |->
       IF q = r THEN [c EXCEPT !.deadline = DeadlineOf(r)]
       ELSE [call[q] EXCEPT !.kept = @ /\ q \notin PushedOut(r)]]
  /\ UNCHANGED now

-----------------------------------------------------------------------------
(* Rounds of a request *)

At(r, pc) == call[r].pc = pc
Becomes(r, c) == call' = [call EXCEPT ![r] = c] /\ UNCHANGED <<now, memory>>

\* The request is answered: its deadline is forgotten.
Answered(r) ==
  /\ call' = [call EXCEPT ![r] = Idle]
  /\ memory' = Released(r)
  /\ UNCHANGED now

\* A call, or the retry of a newer client, which carries its state.
Arrive(r) ==
  /\ At(r, "idle")
  /\ EnterHandler(r, [Idle EXCEPT !.pc = "checks", !.arrived = now,
                                  !.orphan = call[r].orphan])

\* The user has answered the elicitation of the shim.
Reenter(r) ==
  /\ At(r, "elicit")
  /\ EnterHandler(r, [call[r] EXCEPT !.pc = "checks", !.kept = @ /\ Remembered(r)])

\* A refusal or an error, or the client cannot open the page ...
ChecksEnd(r) == call[r].pc \in Asking /\ Answered(r)
\* ... or the user is asked, which ends the request of a newer client ...
AskUser(r) ==
  /\ call[r].pc \in Asking
  /\ Becomes(r, [call[r] EXCEPT !.pc = "elicit"])

\* The client gives up: what the server does for it is cancelled.
GiveUp(r) == call[r].pc \in InServer /\ Answered(r)
GiveUpEliciting(r) ==
  At(r, "elicit") /\ Becomes(r, [Idle EXCEPT !.orphan = TRUE])

-----------------------------------------------------------------------------
(* The parts: approvedWrite, resendingLostWrites and the GraphQL client *)

Due(r) == AnswerBy(call[r].deadline)
TimeLeft(r) == Due(r) - now

\* The token is at hand, or waited for first.
Fetch(r, c) ==
  Becomes(r, [c EXCEPT !.pc = "wire", !.till = now + TimeoutFor(now, Timeout, Due(r))])
WaitForToken(r, c) ==
  MaxTokenWait > 0 /\ Becomes(r, [c EXCEPT !.pc = "token", !.till = now + MaxTokenWait, !.waited = TRUE])
SendPart(r) ==
  LET c == [call[r] EXCEPT !.left = @ - 1, !.resent = FALSE, !.asks = 0, !.refused = FALSE,
                           !.pollBy = 0, !.approved = FALSE]
  IN  IF WriteFits(now, call[r].deadline, Timeout)
      THEN Fetch(r, c) \/ WaitForToken(r, c)
      ELSE Answered(r)

\* ... or it is approved already, and sent at once.
FoundApproved(r) == call[r].pc \in Asking /\ SendPart(r)

TokenComes(r) == At(r, "token") /\ Fetch(r, call[r])

\* The API refuses the token: once more, with a fresh one.
TokenRefused(r) ==
  /\ At(r, "wire")
  /\ IF call[r].refused THEN Answered(r) ELSE WaitForToken(r, [call[r] EXCEPT !.refused = TRUE])

PartMade(r) ==
  /\ At(r, "wire")
  /\ IF call[r].left > 0 THEN SendPart(r) ELSE Answered(r)

\* No token, a refusal by the API, or an answer that makes no sense.
PartFails(r) == call[r].pc \in {"token", "wire"} /\ Answered(r)

\* The answer is lost, late, or an error of a server's: the one resend.
AnswerLost(r) ==
  /\ call[r].pc \in {"token", "wire"}
  /\ LET c == [call[r] EXCEPT !.resent = TRUE, !.refused = FALSE]
     IN  IF call[r].resent \/ TimeLeft(r) < MinResend THEN Answered(r)
         ELSE Fetch(r, c) \/ WaitForToken(r, c)

\* The resend meets the first request still running.
InProgress(r) ==
  /\ At(r, "wire") /\ call[r].resent
  /\ IF call[r].asks < Len(Delays) /\ TimeLeft(r) - Delays[call[r].asks + 1] >= MinResend
     THEN Becomes(r, [call[r] EXCEPT !.pc = "delay", !.till = now + Delays[call[r].asks + 1],
                                     !.asks = @ + 1, !.refused = FALSE])
     ELSE Answered(r)
AskAgain(r) ==
  /\ At(r, "delay") /\ now = call[r].till
  /\ (Fetch(r, call[r]) \/ WaitForToken(r, call[r]))

-----------------------------------------------------------------------------
(* Waiting for the decision: check, #read and #awaitDecision *)

\* A read lasts as long as the budget and the client's timeout allow.
Read(r, c, pc) ==
  IF c.pollBy <= now THEN Answered(r)
  ELSE Becomes(r, [c EXCEPT !.pc = pc, !.till = Lesser(now + Timeout, c.pollBy)])

StatusRead(r) ==
  /\ At(r, "checks")
  /\ Read(r, [call[r] EXCEPT !.pollBy = PollDeadline(now, PollBudget, call[r].deadline, Timeout)], "status")

\* The status is final, the read fails, or its time is up.
ReadEnds(r) == call[r].pc \in {"status", "read"} /\ Answered(r)

StatusKnown(r) ==
  /\ At(r, "status")
  /\ \E approved \in BOOLEAN :
       Becomes(r, [call[r] EXCEPT !.pc = "payload", !.till = 0, !.approved = approved])

Decide(r, approved) ==
  IF approved
  THEN IF now > call[r].pollBy THEN Answered(r) ELSE SendPart(r)
  ELSE IF now + PollInterval > call[r].pollBy THEN Answered(r)
       ELSE Becomes(r, [call[r] EXCEPT !.pc = "pause", !.till = now + PollInterval, !.approved = FALSE])

\* The payload is built; it is refused, has changed, or is the one approved.
PayloadRefused(r) == At(r, "payload") /\ Answered(r)
PayloadChanged(r) ==
  At(r, "payload") /\ Becomes(r, [call[r] EXCEPT !.pc = "fresh", !.pollBy = 0, !.approved = FALSE])
PayloadBuilt(r) == At(r, "payload") /\ Decide(r, call[r].approved)

ReadAgain(r) == At(r, "pause") /\ now = call[r].till /\ Read(r, call[r], "read")
DecisionRead(r) == At(r, "read") /\ \E approved \in BOOLEAN : Decide(r, approved)

-----------------------------------------------------------------------------
\* Nothing outlasts its timeout.
Tick ==
  /\ now < MaxTime
  /\ \A r \in Id : call[r].pc \in Timed => now < call[r].till
  /\ now' = now + 1
  /\ UNCHANGED <<memory, call>>

Step(r) ==
  \/ Arrive(r) \/ Reenter(r) \/ ChecksEnd(r) \/ AskUser(r) \/ GiveUp(r) \/ GiveUpEliciting(r)
  \/ FoundApproved(r) \/ TokenComes(r) \/ TokenRefused(r)
  \/ PartMade(r) \/ PartFails(r) \/ AnswerLost(r) \/ InProgress(r) \/ AskAgain(r)
  \/ StatusRead(r) \/ ReadEnds(r) \/ StatusKnown(r)
  \/ PayloadRefused(r) \/ PayloadChanged(r) \/ PayloadBuilt(r) \/ ReadAgain(r) \/ DecisionRead(r)

Next == Tick \/ \E r \in Id : Step(r)

Spec == Init /\ [][Next]_vars

-----------------------------------------------------------------------------
(* Properties *)

\* When the MCP client stops waiting for the request.
ClientGivesUp(r) == call[r].arrived + ClientDeadline

\* While a call waits for the decision a write that is approved still fits, and
\* what is on its way for a write ends while the client will hear of it: unless
\* its deadline was forgotten, or a token had to be waited for after the check
\* (approval.ts:208, define-tool.ts:490).
HeardInTime ==
  \A r \in Id :
    LET c == call[r] IN c.kept =>
      /\ c.pc \in Polling /\ now <= c.pollBy => WriteFits(now, ClientGivesUp(r), Timeout)
      /\ c.pc \in Writing /\ ~c.waited => c.till <= AnswerBy(ClientGivesUp(r))

\* A request has its own deadline, however often the handler is entered for it
\* and whatever its id was used for before, unless its memory was displaced or
\* lapsed (a later deadline), or the request before it was given up while
\* eliciting (an earlier one).
OwnDeadline ==
  \A r \in Id :
    LET c == call[r] IN
    c.pc # "idle" =>
      \/ c.deadline = ClientGivesUp(r)
      \/ c.deadline > ClientGivesUp(r) /\ ~c.kept
      \/ c.deadline < ClientGivesUp(r) /\ c.orphan
=============================================================================
