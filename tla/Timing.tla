------------------------------- MODULE Timing -------------------------------
(***************************************************************************)
(* The times of one tools/call: what the MCP client allows it, what is     *)
(* kept for a write and its answer, and what is left for waiting           *)
(* (src/src/tools/approval.ts, graphql/client.ts, tools/shared/            *)
(* write-retry.ts), and the configurations the program accepts             *)
(* (src/src/config.ts).  All of them are in milliseconds in the code.      *)
(***************************************************************************)
EXTENDS Integers

CONSTANTS
  ClientDeadline,    \* how long the MCP client waits for an answer
  AnswerMargin,      \* kept for building and sending the answer
  MaxWriteReserve,   \* the most that is kept for a write attempt
  MinWriteAttempt,   \* a write attempt is not started with less
  MinResend,         \* nor the resend of one
  MinPollBudget      \* the least time a call waits for a decision

ASSUME TimingAssumption ==
  /\ {ClientDeadline, AnswerMargin, MaxWriteReserve, MinWriteAttempt, MinResend, MinPollBudget}
       \subseteq Nat \ {0}
  /\ MinWriteAttempt <= MaxWriteReserve

Lesser(a, b) == IF a <= b THEN a ELSE b
Greater(a, b) == IF a >= b THEN a ELSE b

WriteReserve(timeout) == Lesser(timeout, MaxWriteReserve)

\* pollBudgetWithin, and its use by pollBudgetFor and createHttpApp: a hosted
\* server's own deadline is three times its timeout.
PollBudgetWithin(limit, budget, timeout) ==
  Greater(MinPollBudget, Lesser(budget, limit - WriteReserve(timeout) - AnswerMargin))

RequestDeadline(hosted, timeout) ==
  IF hosted THEN Lesser(ClientDeadline, 3 * timeout) ELSE ClientDeadline

PollBudgetFor(hosted, budget, timeout) ==
  PollBudgetWithin(RequestDeadline(hosted, timeout), budget, timeout)

\* When the answer to a call is due.
AnswerBy(deadline) == deadline - AnswerMargin

PollDeadline(now, budget, deadline, timeout) ==
  Lesser(now + budget, AnswerBy(deadline) - WriteReserve(timeout))

\* writeAttempt returns a time, and not null
WriteFits(now, deadline, timeout) ==
  Lesser(timeout, AnswerBy(deadline) - now) >= MinWriteAttempt

\* timeoutFor, with answerBy given
TimeoutFor_Whole(now, timeout, answerBy) == timeout
TimeoutFor(now, timeout, answerBy) == Greater(1, Lesser(timeout, answerBy - now))

-----------------------------------------------------------------------------
(* What config.ts lets through, in milliseconds. *)

LeastTimeout(hosted) == IF hosted THEN 5000 ELSE 1000
AcceptedTimeout(hosted) == LeastTimeout(hosted)..120000
AcceptedInterval == 100..10000
AcceptedBudget == 1000..55000
=============================================================================
