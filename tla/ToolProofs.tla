------------------------------ MODULE ToolProofs ------------------------------
(***************************************************************************)
(* Proofs about a tool call and what it is made of, in five parts.         *)
(*                                                                         *)
(* ToolCall: a call keeps the deadline its client has set, and what it     *)
(* starts ends while the client will hear of it, for any ids, timeouts,    *)
(* budgets, delays and margins and a memory of any size.  What is          *)
(* remembered of a request is its deadline while it runs, and nothing when *)
(* it is over, but for one that was given up while eliciting               *)
(* (RememberedRight).                                                      *)
(*                                                                         *)
(* WriteRules: what a write tool checked still holds when it is sent, for  *)
(* any calls, reports, scopes, notifications and lifetime of roles.        *)
(*                                                                         *)
(* ApiFailures: the advice given with a failed write never makes it twice, *)
(* however often the user calls again and whatever is lost.                *)
(*                                                                         *)
(* ReadTools: the pages of a list show it in whole, whatever is added and  *)
(* left out meanwhile.                                                     *)
(*                                                                         *)
(* SchemaPruning: the schema the tools' documents are generated against    *)
(* serves them all and holds nothing more, for any schemas and documents.  *)
(***************************************************************************)
EXTENDS ToolCall, WriteRules, ApiFailures, ReadTools, SchemaPruning, ExpiringLruProofs,
        FiniteSetTheorems

Places == {"idle", "elicit"} \cup InServer

CallRecord ==
  [pc : Places, arrived : Nat, deadline : Int, pollBy : Int, till : Int, approved : BOOLEAN,
   left : Int, resent : BOOLEAN, asks : Nat, refused : BOOLEAN, waited : BOOLEAN,
   kept : BOOLEAN, orphan : BOOLEAN]

CallTypeOK ==
  /\ now \in Nat
  /\ memory \in Seq(LruEntry(Id, Int)) /\ WithinSize(memory, MemorySize)
  /\ call \in [Id -> CallRecord]

\* What is on its way for a call ends in time for its deadline.
Timely(c) ==
  /\ c.pc \in Polling => c.pollBy <= AnswerBy(c.deadline) - WriteReserve(Timeout)
  /\ c.pc \in Writing /\ ~c.waited => c.till <= AnswerBy(c.deadline)
  /\ c.pc = "delay" => c.till + MinResend <= AnswerBy(c.deadline)
  /\ c.pc = "token" => c.waited

\* The deadline of a call, of which OwnDeadline speaks.
Owned(c) ==
  LET client == c.arrived + ClientDeadline IN
  c.pc # "idle" =>
    /\ c.arrived <= now /\ c.deadline <= now + ClientDeadline
    /\ \/ c.deadline = client
       \/ c.deadline > client /\ ~c.kept
       \/ c.deadline < client /\ c.orphan

RememberedRight(r) ==
  \A e \in ToSet(memory) : e.key = r =>
    IF call[r].pc = "idle" THEN call[r].orphan /\ e.val <= now + ClientDeadline
    ELSE e.val = call[r].deadline

CallInv == CallTypeOK /\ \A r \in Id : Timely(call[r]) /\ Owned(call[r]) /\ RememberedRight(r)

-----------------------------------------------------------------------------
(* Times *)

LEMMA TimesAreNumbers ==
  /\ ClientDeadline \in Nat \ {0} /\ AnswerMargin \in Nat /\ MaxWriteReserve \in Nat
  /\ MinWriteAttempt \in Nat \ {0} /\ MinResend \in Nat \ {0} /\ MinWriteAttempt <= MaxWriteReserve
  /\ Timeout \in Nat /\ Timeout >= MinWriteAttempt /\ PollBudget \in Nat /\ PollInterval \in Nat
  /\ Parts \in Nat /\ Grace \in Nat \ {0} /\ MemorySize \in Nat \ {0} /\ MaxTokenWait \in Nat
BY TimingAssumption, CallAssumption

LEMMA DelaysAreNumbers == ASSUME NEW i \in 1..Len(Delays) PROVE Delays[i] \in Nat
BY CallAssumption

\* As long as the budget of polls lasts, a write attempt fits before the answer.
LEMMA ReserveFits ==
  ASSUME NEW t \in Int, NEW pollBy \in Int, NEW d \in Int, NEW later \in Int,
         t <= pollBy, pollBy <= AnswerBy(d) - WriteReserve(Timeout), d <= later
  PROVE  WriteFits(t, later, Timeout)
BY TimesAreNumbers DEF AnswerBy, WriteReserve, WriteFits, Lesser

\* A request that has any time ends when the answer is due at the latest.
LEMMA RequestEndsInTime ==
  ASSUME NEW t \in Int, NEW due \in Int, due - t >= 1
  PROVE  t + TimeoutFor(t, Timeout, due) <= due
BY TimesAreNumbers DEF TimeoutFor, Lesser, Greater

LEMMA TimeoutIsNumber ==
  ASSUME NEW t \in Int, NEW due \in Int
  PROVE  TimeoutFor(t, Timeout, due) \in Int
BY TimesAreNumbers DEF TimeoutFor, Lesser, Greater

-----------------------------------------------------------------------------
(* The memory of deadlines *)

LEMMA MemoryHas ==
  ASSUME CallTypeOK, NEW r \in Id
  PROVE  /\ Remembered(r) => \E e \in ToSet(memory) : e.key = r /\ e.exp > now /\ e.val = DeadlineOf(r)
         /\ ~Remembered(r) => DeadlineOf(r) = now + ClientDeadline
         /\ DeadlineOf(r) \in Int
<1>1. memory \in Seq(LruEntry(Id, Int)) /\ OneEntryEach(memory) /\ now \in Nat
  BY DEF CallTypeOK, WithinSize
<1>2. CASE Remembered(r)
  <2>1. PICK e \in ToSet(memory) : e.key = r /\ e.exp > now /\ ValueOf(memory, r) = e.val
    BY <1>1, <1>2, GetReturns DEF Remembered
  <2>2. e \in LruEntry(Id, Int)
    BY <1>1 DEF ToSet
  <2>3. e.val \in Int
    BY <2>2 DEF LruEntry
  <2> QED BY <1>2, <2>1, <2>3 DEF DeadlineOf
<1>3. CASE ~Remembered(r)
  BY <1>1, <1>3, TimesAreNumbers DEF DeadlineOf
<1> QED BY <1>2, <1>3

\* Entering the handler leaves the deadline of this request and, of the others,
\* nothing but what was remembered.
LEMMA MemoryKeeps ==
  ASSUME CallTypeOK, NEW r \in Id, NEW after, after = MemoryAfter(r)
  PROVE  /\ after \in Seq(LruEntry(Id, Int)) /\ WithinSize(after, MemorySize)
         /\ \A e \in ToSet(after) :
              /\ e.key = r => e.val = DeadlineOf(r)
              /\ e.key # r => e \in ToSet(memory)
<1> DEFINE looked == AfterGet(memory, r, now)
           d == DeadlineOf(r)
           new == [key |-> r, val |-> d, exp |-> d + Grace]
<1>1. /\ memory \in Seq(LruEntry(Id, Int)) /\ OneEntryEach(memory) /\ now \in Nat /\ now \in Int
      /\ Len(memory) \in Nat /\ Len(memory) <= MemorySize /\ MemorySize \in Nat \ {0}
  BY TimesAreNumbers DEF CallTypeOK, WithinSize
<1>2. /\ looked \in Seq(LruEntry(Id, Int)) /\ Len(looked) <= Len(memory) /\ OneEntryEach(looked)
      /\ ToSet(looked) = {e \in ToSet(memory) : e.key # r \/ e.exp > now}
  BY <1>1, GetKeeps
<1>3. WithinSize(looked, MemorySize)
  <2>1. Len(looked) \in Nat
    BY <1>2
  <2> QED BY <1>1, <1>2, <2>1 DEF WithinSize
<1> HIDE DEF looked
<1>4. CASE Remembered(r)
  <2>1. after = looked /\ d = ValueOf(memory, r)
    BY <1>4 DEF MemoryAfter, DeadlineOf, looked
  <2>2. r \in LruKeys(memory)
    BY <1>4 DEF Remembered, HasLive, LruKeys
  <2>3. \A e \in ToSet(memory) : e.key = r => e = memory[Position(memory, r)]
    BY <1>1, <2>2, PositionFinds
  <2>4. \A e \in ToSet(memory) : e.key = r => e.val = d
    BY <2>1, <2>3 DEF ValueOf
  <2> QED BY <1>2, <1>3, <2>1, <2>4
<1>5. CASE ~Remembered(r)
  <2>1. d \in Int /\ d + Grace \in Int
    BY MemoryHas, TimesAreNumbers
  <2> HIDE DEF d
  <2>2. after = AfterSet(looked, r, d, d + Grace, now, MemorySize)
    BY <1>5 DEF MemoryAfter, looked, d
  <2>3. new \in LruEntry(Id, Int)
    BY <2>1 DEF LruEntry
  <2>4. /\ after \in Seq(LruEntry(Id, Int)) /\ WithinSize(after, MemorySize)
        /\ ToSet(after) \subseteq {e \in ToSet(looked) : e.key # r} \cup {new}
    BY <1>1, <1>2, <1>3, <2>1, <2>2, <2>3, SetStores
  <2> QED BY <1>2, <2>4 DEF d
<1> QED BY <1>4, <1>5

LEMMA ReleasedKeeps ==
  ASSUME CallTypeOK, NEW r \in Id
  PROVE  /\ Released(r) \in Seq(LruEntry(Id, Int)) /\ WithinSize(Released(r), MemorySize)
         /\ \A e \in ToSet(Released(r)) : e.key # r /\ e \in ToSet(memory)
<1>1. /\ memory \in Seq(LruEntry(Id, Int)) /\ OneEntryEach(memory)
      /\ Len(memory) \in Nat /\ Len(memory) <= MemorySize /\ MemorySize \in Nat \ {0}
  BY TimesAreNumbers DEF CallTypeOK, WithinSize
<1>2. /\ Released(r) \in Seq(LruEntry(Id, Int)) /\ Len(Released(r)) <= Len(memory)
      /\ OneEntryEach(Released(r)) /\ ToSet(Released(r)) = {e \in ToSet(memory) : e.key # r}
  BY <1>1, WithoutDeletes DEF Released
<1>3. Len(Released(r)) \in Nat
  BY <1>2
<1> QED BY <1>1, <1>2, <1>3 DEF WithinSize

-----------------------------------------------------------------------------
(* The steps of a call *)

LEMMA PlacesApart ==
  /\ Asking \subseteq Places /\ Polling \subseteq Places /\ Writing \subseteq Places
  /\ InServer = Asking \cup Polling \cup Writing
  /\ "idle" \notin InServer /\ "elicit" \notin InServer
BY DEF Places, Asking, Polling, Writing, InServer

LEMMA IdleIsOne == Idle \in CallRecord /\ Timely(Idle) /\ Idle.pc = "idle"
BY TimesAreNumbers DEF Idle, CallRecord, Places, Timely, Polling, Writing

\* A step of a call that leaves its deadline alone.
LEMMA BecomesKeeps ==
  ASSUME CallInv, NEW r \in Id, NEW c \in CallRecord, Becomes(r, c), Timely(c),
         call[r].pc # "idle", c.pc # "idle", c.arrived = call[r].arrived,
         c.deadline = call[r].deadline, c.kept = call[r].kept, c.orphan = call[r].orphan
  PROVE  CallInv'
<1>1. call' = [call EXCEPT ![r] = c] /\ now' = now /\ memory' = memory
  BY DEF Becomes
<1>2. call \in [Id -> CallRecord]
  BY DEF CallInv, CallTypeOK
<1>3. CallTypeOK'
  BY <1>1, <1>2 DEF CallInv, CallTypeOK, WithinSize, OneEntryEach
<1>4. call'[r] = c /\ \A q \in Id \ {r} : call'[q] = call[q]
  BY <1>1, <1>2
<1>5. \A q \in Id : Timely(call[q])'
  BY <1>4 DEF CallInv, Timely
<1>6. \A q \in Id : Owned(call[q])'
  BY <1>1, <1>4 DEF CallInv, Owned
<1>7. \A q \in Id : RememberedRight(q)'
  BY <1>1, <1>4 DEF CallInv, RememberedRight
<1> QED BY <1>3, <1>5, <1>6, <1>7 DEF CallInv

\* The end of a request.
LEMMA AnsweredKeeps ==
  ASSUME CallInv, NEW r \in Id, Answered(r)
  PROVE  CallInv'
<1>1. call' = [call EXCEPT ![r] = Idle] /\ now' = now /\ memory' = Released(r)
  BY DEF Answered
<1>2. call \in [Id -> CallRecord]
  BY DEF CallInv, CallTypeOK
<1>3. /\ memory' \in Seq(LruEntry(Id, Int)) /\ WithinSize(memory', MemorySize)
      /\ \A e \in ToSet(memory') : e.key # r /\ e \in ToSet(memory)
  BY <1>1, ReleasedKeeps DEF CallInv
<1>4. CallTypeOK'
  BY <1>1, <1>2, <1>3, IdleIsOne DEF CallInv, CallTypeOK
<1>5. call'[r] = Idle /\ \A q \in Id \ {r} : call'[q] = call[q]
  BY <1>1, <1>2
<1>6. \A q \in Id : Timely(call[q])'
  BY <1>5, IdleIsOne DEF CallInv, Timely
<1>7. \A q \in Id : Owned(call[q])'
  BY <1>1, <1>5, IdleIsOne DEF CallInv, Owned
<1>8. ASSUME NEW q \in Id PROVE RememberedRight(q)'
  <2>1. CASE q = r
    BY <1>3, <2>1 DEF RememberedRight
  <2>2. CASE q # r
    BY <1>1, <1>3, <1>5, <2>2 DEF CallInv, RememberedRight
  <2> QED BY <2>1, <2>2
<1> QED BY <1>4, <1>6, <1>7, <1>8 DEF CallInv

\* The handler is entered: what counts is whether the deadline is the call's own.
LEMMA EntryKeeps ==
  ASSUME CallInv, NEW r \in Id, NEW c \in CallRecord, EnterHandler(r, c),
         c.pc = "checks", c.arrived <= now,
         LET client == c.arrived + ClientDeadline
             d == DeadlineOf(r)
         IN  /\ d <= now + ClientDeadline
             /\ d = client \/ (d > client /\ ~c.kept) \/ (d < client /\ c.orphan)
  PROVE  CallInv'
<1> DEFINE d == DeadlineOf(r)
           entered == [c EXCEPT !.deadline = d]
<1>1. /\ memory' = MemoryAfter(r) /\ now' = now
      /\ call' = [q \in Id |-> IF q = r THEN entered
                               ELSE [call[q] EXCEPT !.kept = @ /\ q \notin PushedOut(r)]]
  BY DEF EnterHandler
<1>2. CallTypeOK /\ call \in [Id -> CallRecord] /\ now \in Nat
  BY DEF CallInv, CallTypeOK
<1>3. d \in Int
  BY <1>2, MemoryHas
<1> HIDE DEF d
<1>4. /\ memory' \in Seq(LruEntry(Id, Int)) /\ WithinSize(memory', MemorySize)
      /\ \A e \in ToSet(memory') :
           /\ e.key = r => e.val = d
           /\ e.key # r => e \in ToSet(memory)
  BY <1>1, <1>2, MemoryKeeps DEF d
<1>5. /\ entered \in CallRecord /\ entered.pc = "checks" /\ entered.deadline = d
      /\ entered.arrived = c.arrived /\ entered.kept = c.kept /\ entered.orphan = c.orphan
  BY <1>3 DEF CallRecord
<1> HIDE DEF entered
<1>6. ASSUME NEW q \in Id \ {r}
      PROVE  /\ call'[q] \in CallRecord
             /\ call'[q].pc = call[q].pc /\ call'[q].deadline = call[q].deadline
             /\ call'[q].pollBy = call[q].pollBy /\ call'[q].till = call[q].till
             /\ call'[q].waited = call[q].waited /\ call'[q].arrived = call[q].arrived
             /\ call'[q].orphan = call[q].orphan /\ (call'[q].kept => call[q].kept)
  <2> DEFINE kept == call[q].kept /\ q \notin PushedOut(r)
  <2>1. call'[q] = [call[q] EXCEPT !.kept = kept]
    BY <1>1
  <2>2. call[q] \in CallRecord /\ kept \in BOOLEAN /\ (kept => call[q].kept)
    BY <1>2
  <2> HIDE DEF kept
  <2> QED BY <2>1, <2>2 DEF CallRecord
<1>7. call'[r] = entered
  BY <1>1
<1>8. CallTypeOK'
  <2>1. call' \in [Id -> CallRecord]
    BY <1>1, <1>5, <1>6, <1>7
  <2> QED BY <1>1, <1>2, <1>4, <2>1 DEF CallTypeOK
<1>9. Timely(call[r])' /\ Owned(call[r])' /\ RememberedRight(r)'
  BY <1>1, <1>4, <1>5, <1>7 DEF Timely, Owned, RememberedRight, Polling, Writing, d
<1>10. ASSUME NEW q \in Id \ {r} PROVE Timely(call[q])' /\ Owned(call[q])' /\ RememberedRight(q)'
  <2>1. Timely(call[q]) /\ Owned(call[q]) /\ RememberedRight(q)
    BY DEF CallInv
  <2>2. Timely(call[q])'
    BY <1>6, <2>1 DEF Timely
  <2>3. Owned(call[q])'
    BY <1>1, <1>6, <2>1 DEF Owned
  <2>4. SUFFICES ASSUME NEW e \in ToSet(memory'), e.key = q
                 PROVE  IF call'[q].pc = "idle" THEN call'[q].orphan /\ e.val <= now + ClientDeadline
                        ELSE e.val = call'[q].deadline
    BY <1>1, <2>2, <2>3 DEF RememberedRight
  <2>5. e \in ToSet(memory)
    BY <1>4, <2>4
  <2> QED BY <1>6, <2>1, <2>4, <2>5 DEF RememberedRight
<1> QED BY <1>8, <1>9, <1>10 DEF CallInv

-----------------------------------------------------------------------------
(* Entering and leaving *)

LEMMA ArriveKeeps == ASSUME CallInv, NEW r \in Id, Arrive(r) PROVE CallInv'
<1> DEFINE c == [Idle EXCEPT !.pc = "checks", !.arrived = now, !.orphan = call[r].orphan]
<1>1. CallTypeOK /\ call[r] \in CallRecord /\ now \in Nat
  BY DEF CallInv, CallTypeOK
<1>2. c \in CallRecord /\ c.pc = "checks" /\ c.arrived = now /\ c.orphan = call[r].orphan
  <2>1. Idle \in CallRecord /\ call[r].orphan \in BOOLEAN /\ "checks" \in Places
    BY <1>1, IdleIsOne DEF CallRecord, Places, InServer, Asking
  <2> QED BY <1>1, <2>1 DEF CallRecord
<1>3. EnterHandler(r, c) /\ call[r].pc = "idle"
  BY DEF Arrive, At
<1> HIDE DEF c
<1>4. CASE Remembered(r)
  <2>1. PICK e \in ToSet(memory) : e.key = r /\ e.val = DeadlineOf(r)
    BY <1>1, <1>4, MemoryHas
  <2>2. call[r].orphan /\ DeadlineOf(r) <= now + ClientDeadline
    BY <1>3, <2>1 DEF CallInv, RememberedRight
  <2>3. DeadlineOf(r) \in Int
    BY <1>1, MemoryHas
  <2>4. \/ DeadlineOf(r) = now + ClientDeadline
        \/ DeadlineOf(r) < now + ClientDeadline
    BY <1>1, <2>2, <2>3, TimesAreNumbers
  <2>5. c.arrived + ClientDeadline = now + ClientDeadline /\ c.arrived <= now /\ c.orphan
    BY <1>1, <1>2, <2>2
  <2> QED BY <1>2, <1>3, <2>2, <2>4, <2>5, EntryKeeps
<1>5. CASE ~Remembered(r)
  BY <1>1, <1>2, <1>3, <1>5, MemoryHas, TimesAreNumbers, EntryKeeps
<1> QED BY <1>4, <1>5

LEMMA ReenterKeeps == ASSUME CallInv, NEW r \in Id, Reenter(r) PROVE CallInv'
<1> DEFINE kept == call[r].kept /\ Remembered(r)
           c == [call[r] EXCEPT !.pc = "checks", !.kept = kept]
<1>1. CallTypeOK /\ call[r] \in CallRecord /\ now \in Nat /\ call[r].pc = "elicit"
  BY DEF CallInv, CallTypeOK, Reenter, At
<1>2. kept \in BOOLEAN /\ EnterHandler(r, c)
  BY <1>1 DEF Reenter, CallRecord
<1>3. kept => Remembered(r)
  OBVIOUS
<1> HIDE DEF kept
<1>4. /\ c \in CallRecord /\ c.pc = "checks" /\ c.arrived = call[r].arrived
      /\ c.orphan = call[r].orphan /\ c.kept = kept
  BY <1>1, <1>2 DEF CallRecord, Places, InServer, Asking
<1> HIDE DEF c
<1>5. Owned(call[r]) /\ call[r].arrived \in Nat /\ call[r].deadline \in Int
  BY <1>1 DEF CallInv, CallRecord
<1>6. DeadlineOf(r) \in Int
  BY <1>1, MemoryHas
<1>7. CASE Remembered(r)
  <2>1. PICK e \in ToSet(memory) : e.key = r /\ e.val = DeadlineOf(r)
    BY <1>1, <1>7, MemoryHas
  <2>2. DeadlineOf(r) = call[r].deadline
    BY <1>1, <2>1 DEF CallInv, RememberedRight
  <2>3. kept => call[r].kept
    BY DEF kept
  <2> QED BY <1>1, <1>2, <1>4, <1>5, <1>6, <2>2, <2>3, TimesAreNumbers, EntryKeeps DEF Owned
<1>8. CASE ~Remembered(r)
  <2>1. DeadlineOf(r) = now + ClientDeadline /\ ~kept /\ call[r].arrived <= now
    BY <1>1, <1>3, <1>5, <1>8, MemoryHas DEF Owned
  <2> QED BY <1>1, <1>2, <1>4, <1>5, <1>6, <2>1, TimesAreNumbers, EntryKeeps
<1> QED BY <1>7, <1>8

LEMMA GiveUpElicitingKeeps == ASSUME CallInv, NEW r \in Id, GiveUpEliciting(r) PROVE CallInv'
<1> DEFINE c == [Idle EXCEPT !.orphan = TRUE]
<1>1. call \in [Id -> CallRecord] /\ call[r].pc = "elicit"
  BY DEF CallInv, CallTypeOK, GiveUpEliciting, At
<1>2. call' = [call EXCEPT ![r] = c] /\ now' = now /\ memory' = memory
  BY DEF GiveUpEliciting, Becomes
<1>3. c \in CallRecord /\ c.pc = "idle" /\ c.orphan
  BY IdleIsOne DEF CallRecord
<1> HIDE DEF c
<1>4. call'[r] = c /\ \A q \in Id \ {r} : call'[q] = call[q]
  BY <1>1, <1>2
<1>5. CallTypeOK'
  BY <1>1, <1>2, <1>3 DEF CallInv, CallTypeOK, WithinSize, OneEntryEach
<1>6. Timely(call[r])' /\ Owned(call[r])'
  BY <1>3, <1>4 DEF Timely, Owned, Polling, Writing
<1>7. RememberedRight(r)'
  BY <1>1, <1>2, <1>3, <1>4 DEF CallInv, RememberedRight, Owned
<1>8. \A q \in Id \ {r} : Timely(call[q])' /\ Owned(call[q])' /\ RememberedRight(q)'
  BY <1>2, <1>4 DEF CallInv, Timely, Owned, RememberedRight
<1> QED BY <1>5, <1>6, <1>7, <1>8 DEF CallInv

LEMMA TickKeeps == ASSUME CallInv, Tick PROVE CallInv'
<1>1. now \in Nat /\ now' = now + 1 /\ memory' = memory /\ call' = call /\ call \in [Id -> CallRecord]
  BY DEF CallInv, CallTypeOK, Tick
<1>2. CallTypeOK'
  BY <1>1 DEF CallInv, CallTypeOK, WithinSize, OneEntryEach
<1>3. ASSUME NEW q \in Id PROVE Timely(call[q])' /\ Owned(call[q])' /\ RememberedRight(q)'
  <2>1. Timely(call[q]) /\ Owned(call[q]) /\ RememberedRight(q)
    BY DEF CallInv
  <2>2. call[q].arrived \in Nat /\ call[q].deadline \in Int
    BY <1>1 DEF CallRecord
  <2>3. Timely(call[q])' /\ Owned(call[q])'
    BY <1>1, <2>1, <2>2, TimesAreNumbers DEF Timely, Owned
  <2>4. ASSUME NEW e \in ToSet(memory) PROVE e.val \in Int
    <3>1. e \in LruEntry(Id, Int)
      BY DEF CallInv, CallTypeOK, ToSet
    <3> QED BY <3>1 DEF LruEntry
  <2>5. RememberedRight(q)'
    BY <1>1, <2>1, <2>4, TimesAreNumbers DEF RememberedRight
  <2> QED BY <2>3, <2>5
<1> QED BY <1>2, <1>3 DEF CallInv

-----------------------------------------------------------------------------
(* The parts and the decision *)

\* A request is sent at once, in time if there is any, or after waiting for a token.
LEMMA SentKeeps ==
  ASSUME CallInv, NEW r \in Id, NEW c \in CallRecord, Fetch(r, c) \/ WaitForToken(r, c),
         call[r].pc # "idle", c.arrived = call[r].arrived, c.waited = call[r].waited,
         c.deadline = call[r].deadline, c.kept = call[r].kept, c.orphan = call[r].orphan,
         call[r].waited \/ Due(r) - now >= 1
  PROVE  CallInv'
<1>1. now \in Nat /\ call[r] \in CallRecord /\ c.deadline \in Int /\ c.waited \in BOOLEAN
  BY DEF CallInv, CallTypeOK, CallRecord
<1>2. Due(r) = AnswerBy(c.deadline) /\ Due(r) \in Int
  BY <1>1, TimesAreNumbers DEF Due, AnswerBy
<1>3. CASE Fetch(r, c)
  <2> DEFINE till == now + TimeoutFor(now, Timeout, Due(r))
             sent == [c EXCEPT !.pc = "wire", !.till = till]
  <2>1. till \in Int /\ (c.waited \/ till <= Due(r))
    <3>1. now \in Int /\ TimeoutFor(now, Timeout, Due(r)) \in Int
      BY <1>1, <1>2, TimeoutIsNumber
    <3>2. Due(r) - now >= 1 => till <= Due(r)
      BY <1>2, <3>1, RequestEndsInTime
    <3> QED BY <3>1, <3>2
  <2>2. Becomes(r, sent)
    BY <1>3 DEF Fetch
  <2> HIDE DEF till
  <2>3. /\ sent \in CallRecord /\ sent.pc = "wire" /\ sent.till = till
        /\ sent.deadline = c.deadline /\ sent.waited = c.waited /\ sent.arrived = c.arrived
        /\ sent.kept = c.kept /\ sent.orphan = c.orphan
    BY <2>1 DEF CallRecord, Places, InServer, Writing
  <2> HIDE DEF sent
  <2>4. Timely(sent)
    BY <1>2, <2>1, <2>3 DEF Timely, Polling
  <2> QED BY <2>2, <2>3, <2>4, BecomesKeeps
<1>4. CASE WaitForToken(r, c)
  <2> DEFINE till == now + MaxTokenWait
             sent == [c EXCEPT !.pc = "token", !.till = till, !.waited = TRUE]
  <2>1. till \in Int /\ Becomes(r, sent)
    BY <1>1, <1>4, TimesAreNumbers DEF WaitForToken
  <2> HIDE DEF till
  <2>2. /\ sent \in CallRecord /\ sent.pc = "token" /\ sent.waited
        /\ sent.deadline = c.deadline /\ sent.arrived = c.arrived
        /\ sent.kept = c.kept /\ sent.orphan = c.orphan
    BY <2>1 DEF CallRecord, Places, InServer, Writing
  <2> HIDE DEF sent
  <2>3. Timely(sent)
    BY <2>2 DEF Timely, Polling
  <2> QED BY <2>1, <2>2, <2>3, BecomesKeeps
<1> QED BY <1>3, <1>4

LEMMA PartBegins ==
  ASSUME NEW x \in CallRecord,
         NEW c, c = [x EXCEPT !.left = @ - 1, !.resent = FALSE, !.asks = 0, !.refused = FALSE,
                              !.pollBy = 0, !.approved = FALSE]
  PROVE  /\ c \in CallRecord /\ c.arrived = x.arrived /\ c.waited = x.waited
         /\ c.deadline = x.deadline /\ c.kept = x.kept /\ c.orphan = x.orphan
<1> DEFINE left == x.left - 1
           zero == 0
           no == FALSE
<1>1. left \in Int /\ zero \in Int /\ zero \in Nat /\ no \in BOOLEAN
  BY DEF CallRecord
<1> DEFINE half == [x EXCEPT !.left = left, !.asks = zero, !.pollBy = zero]
<1>2. c = [half EXCEPT !.resent = no, !.refused = no, !.approved = no]
  BY DEF CallRecord
<1> HIDE DEF left, zero, no
<1>3. /\ half \in CallRecord /\ half.arrived = x.arrived /\ half.waited = x.waited
      /\ half.deadline = x.deadline /\ half.kept = x.kept /\ half.orphan = x.orphan
  BY <1>1 DEF CallRecord
<1> HIDE DEF half
<1> QED BY <1>1, <1>2, <1>3 DEF CallRecord

\* A part is only sent with time for a write attempt.
LEMMA SendPartKeeps ==
  ASSUME CallInv, NEW r \in Id, SendPart(r), call[r].pc # "idle"
  PROVE  CallInv'
<1> DEFINE c == [call[r] EXCEPT !.left = @ - 1, !.resent = FALSE, !.asks = 0, !.refused = FALSE,
                                !.pollBy = 0, !.approved = FALSE]
<1>1. now \in Nat /\ call[r] \in CallRecord /\ call[r].deadline \in Int
  BY DEF CallInv, CallTypeOK, CallRecord
<1>2. /\ c \in CallRecord /\ c.arrived = call[r].arrived /\ c.waited = call[r].waited
      /\ c.deadline = call[r].deadline /\ c.kept = call[r].kept /\ c.orphan = call[r].orphan
  BY <1>1, PartBegins
<1>3. IF WriteFits(now, call[r].deadline, Timeout)
      THEN Fetch(r, c) \/ WaitForToken(r, c) ELSE Answered(r)
  BY DEF SendPart
<1> HIDE DEF c
<1>4. WriteFits(now, call[r].deadline, Timeout) => Due(r) - now >= 1
  BY <1>1, TimesAreNumbers DEF WriteFits, Due, AnswerBy, Lesser
<1> QED BY <1>2, <1>3, <1>4, SentKeeps, AnsweredKeeps

LEMMA TokenComesKeeps == ASSUME CallInv, NEW r \in Id, TokenComes(r) PROVE CallInv'
<1>1. call[r] \in CallRecord /\ call[r].pc = "token" /\ Timely(call[r]) /\ Fetch(r, call[r])
  BY DEF CallInv, CallTypeOK, TokenComes, At
<1>2. call[r].waited
  BY <1>1 DEF Timely
<1> QED BY <1>1, <1>2, SentKeeps

LEMMA TokenRefusedKeeps == ASSUME CallInv, NEW r \in Id, TokenRefused(r) PROVE CallInv'
<1> DEFINE till == now + MaxTokenWait
           c == [call[r] EXCEPT !.refused = TRUE]
           sent == [c EXCEPT !.pc = "token", !.till = till, !.waited = TRUE]
<1>1. now \in Nat /\ call[r] \in CallRecord /\ call[r].pc = "wire"
  BY DEF CallInv, CallTypeOK, TokenRefused, At
<1>2. Answered(r) \/ Becomes(r, sent)
  BY DEF TokenRefused, WaitForToken
<1>3. till \in Int
  BY <1>1, TimesAreNumbers
<1> HIDE DEF till
<1>4. /\ sent \in CallRecord /\ sent.pc = "token" /\ sent.waited
      /\ sent.deadline = call[r].deadline /\ sent.arrived = call[r].arrived
      /\ sent.kept = call[r].kept /\ sent.orphan = call[r].orphan
  BY <1>1, <1>3 DEF CallRecord, Places, InServer, Writing
<1> HIDE DEF sent
<1>5. Timely(sent)
  BY <1>4 DEF Timely, Polling
<1> QED BY <1>1, <1>2, <1>4, <1>5, BecomesKeeps, AnsweredKeeps

LEMMA AnswerLostKeeps == ASSUME CallInv, NEW r \in Id, AnswerLost(r) PROVE CallInv'
<1> DEFINE c == [call[r] EXCEPT !.resent = TRUE, !.refused = FALSE]
<1>1. /\ now \in Nat /\ call[r] \in CallRecord /\ call[r].deadline \in Int
      /\ call[r].pc \in {"token", "wire"}
  BY DEF CallInv, CallTypeOK, CallRecord, AnswerLost
<1>2. /\ c \in CallRecord /\ c.arrived = call[r].arrived /\ c.waited = call[r].waited
      /\ c.deadline = call[r].deadline /\ c.kept = call[r].kept /\ c.orphan = call[r].orphan
  BY <1>1 DEF CallRecord
<1>3. IF call[r].resent \/ TimeLeft(r) < MinResend THEN Answered(r)
      ELSE Fetch(r, c) \/ WaitForToken(r, c)
  BY DEF AnswerLost
<1> HIDE DEF c
<1>4. ~(TimeLeft(r) < MinResend) => Due(r) - now >= 1
  BY <1>1, TimesAreNumbers DEF TimeLeft, Due, AnswerBy
<1> QED BY <1>1, <1>2, <1>3, <1>4, SentKeeps, AnsweredKeeps

LEMMA InProgressKeeps == ASSUME CallInv, NEW r \in Id, InProgress(r) PROVE CallInv'
<1> DEFINE pause == Delays[call[r].asks + 1]
           till == now + pause
           c == [call[r] EXCEPT !.pc = "delay", !.till = till, !.asks = @ + 1, !.refused = FALSE]
<1>1. /\ now \in Nat /\ call[r] \in CallRecord /\ call[r].deadline \in Int /\ call[r].asks \in Nat
      /\ call[r].pc = "wire"
  BY DEF CallInv, CallTypeOK, CallRecord, InProgress, At
<1>2. CASE Answered(r)
  BY <1>2, AnsweredKeeps
<1>3. CASE call[r].asks < Len(Delays) /\ TimeLeft(r) - pause >= MinResend /\ Becomes(r, c)
  <2>1. Len(Delays) \in Nat
    BY CallAssumption
  <2>2. pause \in Nat
    BY <1>1, <1>3, <2>1, DelaysAreNumbers
  <2> HIDE DEF pause
  <2>3. till \in Int /\ till + MinResend <= AnswerBy(call[r].deadline) /\ till <= AnswerBy(call[r].deadline)
    <3> DEFINE by == AnswerBy(call[r].deadline)
    <3>1. by \in Int /\ by - now - pause >= MinResend
      BY <1>1, <1>3, TimesAreNumbers DEF TimeLeft, Due, AnswerBy
    <3> HIDE DEF by
    <3>2. till \in Int /\ till + MinResend <= by /\ till <= by
      BY <1>1, <2>2, <3>1, TimesAreNumbers
    <3> QED BY <3>2 DEF by
  <2> HIDE DEF till
  <2>4. /\ c \in CallRecord /\ c.pc = "delay" /\ c.till = till
        /\ c.deadline = call[r].deadline /\ c.arrived = call[r].arrived
        /\ c.kept = call[r].kept /\ c.orphan = call[r].orphan
    <3> DEFINE asks == call[r].asks + 1
               pc == "delay"
               no == FALSE
    <3>1. asks \in Nat /\ pc \in Places /\ no \in BOOLEAN
      BY <1>1 DEF Places, InServer, Writing
    <3>2. c = [call[r] EXCEPT !.pc = pc, !.till = till, !.asks = asks, !.refused = no]
      OBVIOUS
    <3>3. pc = "delay"
      OBVIOUS
    <3> HIDE DEF asks, pc, no, c
    <3> QED BY <1>1, <2>3, <3>1, <3>2, <3>3 DEF CallRecord
  <2> HIDE DEF c
  <2>5. Timely(c)
    BY <2>3, <2>4 DEF Timely, Polling
  <2> QED BY <1>1, <1>3, <2>4, <2>5, BecomesKeeps
<1> QED BY <1>2, <1>3 DEF InProgress

LEMMA AskAgainKeeps == ASSUME CallInv, NEW r \in Id, AskAgain(r) PROVE CallInv'
<1>1. /\ now \in Nat /\ call[r] \in CallRecord /\ call[r].deadline \in Int /\ call[r].pc = "delay"
      /\ now = call[r].till /\ Timely(call[r])
  BY DEF CallInv, CallTypeOK, CallRecord, AskAgain, At
<1>2. Due(r) - now >= 1
  BY <1>1, TimesAreNumbers DEF Timely, Due, AnswerBy
<1> QED BY <1>1, <1>2, SentKeeps DEF AskAgain

\* A read for the decision, of a call whose budget is what Timely says.
LEMMA ReadKeeps ==
  ASSUME CallInv, NEW r \in Id, NEW c \in CallRecord, NEW pc \in Polling, Read(r, c, pc),
         call[r].pc # "idle", c.arrived = call[r].arrived,
         c.deadline = call[r].deadline, c.kept = call[r].kept, c.orphan = call[r].orphan,
         c.pollBy <= AnswerBy(c.deadline) - WriteReserve(Timeout)
  PROVE  CallInv'
<1> DEFINE till == Lesser(now + Timeout, c.pollBy)
           read == [c EXCEPT !.pc = pc, !.till = till]
<1>1. now \in Nat /\ c.pollBy \in Int
  BY DEF CallInv, CallTypeOK, CallRecord
<1>2. till \in Int /\ (Answered(r) \/ Becomes(r, read))
  BY <1>1, TimesAreNumbers DEF Read, Lesser
<1> HIDE DEF till
<1>3. /\ read \in CallRecord /\ read.pc = pc /\ read.pollBy = c.pollBy
      /\ read.deadline = c.deadline /\ read.arrived = c.arrived
      /\ read.kept = c.kept /\ read.orphan = c.orphan
  BY <1>2 DEF CallRecord, Places, InServer, Polling
<1> HIDE DEF read
<1>4. Timely(read) /\ read.pc # "idle"
  BY <1>3 DEF Timely, Polling, Writing
<1> QED BY <1>2, <1>3, <1>4, BecomesKeeps, AnsweredKeeps

LEMMA StatusReadKeeps == ASSUME CallInv, NEW r \in Id, StatusRead(r) PROVE CallInv'
<1> DEFINE pollBy == PollDeadline(now, PollBudget, call[r].deadline, Timeout)
           c == [call[r] EXCEPT !.pollBy = pollBy]
<1>1. now \in Nat /\ call[r] \in CallRecord /\ call[r].deadline \in Int /\ call[r].pc = "checks"
  BY DEF CallInv, CallTypeOK, CallRecord, StatusRead, At
<1>2. pollBy \in Int /\ pollBy <= AnswerBy(call[r].deadline) - WriteReserve(Timeout)
  BY <1>1, TimesAreNumbers DEF PollDeadline, AnswerBy, WriteReserve, Lesser
<1>3. Read(r, c, "status")
  BY DEF StatusRead
<1> HIDE DEF pollBy
<1>4. /\ c \in CallRecord /\ c.pollBy = pollBy /\ c.deadline = call[r].deadline
      /\ c.arrived = call[r].arrived /\ c.kept = call[r].kept /\ c.orphan = call[r].orphan
  BY <1>1, <1>2 DEF CallRecord
<1> HIDE DEF c
<1>5. "status" \in Polling
  BY DEF Polling
<1> QED BY <1>1, <1>2, <1>3, <1>4, <1>5, ReadKeeps

LEMMA ReadAgainKeeps == ASSUME CallInv, NEW r \in Id, ReadAgain(r) PROVE CallInv'
<1>1. call[r] \in CallRecord /\ call[r].pc = "pause" /\ Timely(call[r]) /\ Read(r, call[r], "read")
  BY DEF CallInv, CallTypeOK, ReadAgain, At
<1>2. "read" \in Polling /\ "pause" \in Polling
  BY DEF Polling
<1> QED BY <1>1, <1>2, ReadKeeps DEF Timely

\* The decision is known, or waited for once more.
LEMMA DecideKeeps ==
  ASSUME CallInv, NEW r \in Id, NEW approved \in BOOLEAN, Decide(r, approved), call[r].pc \in Polling
  PROVE  CallInv'
<1> DEFINE till == now + PollInterval
           c == [call[r] EXCEPT !.pc = "pause", !.till = till, !.approved = FALSE]
<1>1. now \in Nat /\ call[r] \in CallRecord /\ call[r].pc # "idle" /\ Timely(call[r])
  BY DEF CallInv, CallTypeOK, Polling
<1>2. Answered(r) \/ SendPart(r) \/ Becomes(r, c)
  BY DEF Decide
<1>3. till \in Int
  BY <1>1, TimesAreNumbers
<1> HIDE DEF till
<1>4. /\ c \in CallRecord /\ c.pc = "pause" /\ c.pollBy = call[r].pollBy
      /\ c.deadline = call[r].deadline /\ c.arrived = call[r].arrived
      /\ c.kept = call[r].kept /\ c.orphan = call[r].orphan
  BY <1>1, <1>3 DEF CallRecord, Places, InServer, Polling
<1> HIDE DEF c
<1>5. Timely(c)
  BY <1>1, <1>4 DEF Timely, Writing
<1> QED BY <1>1, <1>2, <1>4, <1>5, BecomesKeeps, SendPartKeeps, AnsweredKeeps

\* A step to another place of the same call, with nothing on its way.
LEMMA PlainStepsKeep ==
  ASSUME CallInv, NEW r \in Id, AskUser(r) \/ StatusKnown(r) \/ PayloadChanged(r)
  PROVE  CallInv'
<1>1. call[r] \in CallRecord /\ Timely(call[r])
  BY DEF CallInv, CallTypeOK
<1>2. CASE AskUser(r)
  <2> DEFINE c == [call[r] EXCEPT !.pc = "elicit"]
  <2>1. Becomes(r, c) /\ call[r].pc # "idle"
    BY <1>2 DEF AskUser, Asking
  <2>2. /\ c \in CallRecord /\ c.pc = "elicit" /\ c.deadline = call[r].deadline
        /\ c.arrived = call[r].arrived /\ c.kept = call[r].kept /\ c.orphan = call[r].orphan
    BY <1>1 DEF CallRecord, Places
  <2> HIDE DEF c
  <2>3. Timely(c)
    BY <2>2 DEF Timely, Polling, Writing
  <2> QED BY <2>1, <2>2, <2>3, BecomesKeeps
<1>3. CASE StatusKnown(r)
  <2>1. PICK approved \in BOOLEAN :
          Becomes(r, [call[r] EXCEPT !.pc = "payload", !.till = 0, !.approved = approved])
    BY <1>3 DEF StatusKnown
  <2> DEFINE c == [call[r] EXCEPT !.pc = "payload", !.till = 0, !.approved = approved]
  <2>2. /\ c \in CallRecord /\ c.pc = "payload" /\ c.deadline = call[r].deadline
        /\ c.pollBy = call[r].pollBy
        /\ c.arrived = call[r].arrived /\ c.kept = call[r].kept /\ c.orphan = call[r].orphan
    <3> DEFINE pc == "payload"
               zero == 0
    <3>1. pc \in Places /\ zero \in Int /\ approved \in BOOLEAN
      BY DEF Places, InServer, Polling
    <3>2. c = [call[r] EXCEPT !.pc = pc, !.till = zero, !.approved = approved] /\ pc = "payload"
      OBVIOUS
    <3> HIDE DEF pc, zero, c
    <3> QED BY <1>1, <3>1, <3>2 DEF CallRecord
  <2>3. Becomes(r, c) /\ call[r].pc = "status"
    BY <1>3, <2>1 DEF StatusKnown, At
  <2> HIDE DEF c
  <2>4. Timely(c)
    BY <1>1, <2>2, <2>3 DEF Timely, Polling, Writing
  <2> QED BY <2>2, <2>3, <2>4, BecomesKeeps
<1>4. CASE PayloadChanged(r)
  <2> DEFINE c == [call[r] EXCEPT !.pc = "fresh", !.pollBy = 0, !.approved = FALSE]
  <2>1. Becomes(r, c) /\ call[r].pc = "payload"
    BY <1>4 DEF PayloadChanged, At
  <2>2. /\ c \in CallRecord /\ c.pc = "fresh" /\ c.deadline = call[r].deadline
        /\ c.arrived = call[r].arrived /\ c.kept = call[r].kept /\ c.orphan = call[r].orphan
    <3> DEFINE pc == "fresh"
               zero == 0
               no == FALSE
    <3>1. pc \in Places /\ zero \in Int /\ no \in BOOLEAN
      BY DEF Places, InServer, Asking
    <3>2. c = [call[r] EXCEPT !.pc = pc, !.pollBy = zero, !.approved = no] /\ pc = "fresh"
      OBVIOUS
    <3> HIDE DEF pc, zero, no, c
    <3> QED BY <1>1, <3>1, <3>2 DEF CallRecord
  <2> HIDE DEF c
  <2>3. Timely(c)
    BY <2>2 DEF Timely, Polling, Writing
  <2> QED BY <2>1, <2>2, <2>3, BecomesKeeps
<1> QED BY <1>2, <1>3, <1>4

-----------------------------------------------------------------------------
(* The invariant and the two properties *)

LEMMA CallStepKeeps == ASSUME CallInv, NEW r \in Id, Step(r) PROVE CallInv'
<1>1. CASE Arrive(r) \/ Reenter(r) \/ GiveUpEliciting(r)
  BY <1>1, ArriveKeeps, ReenterKeeps, GiveUpElicitingKeeps
<1>2. CASE ChecksEnd(r) \/ GiveUp(r) \/ PartFails(r) \/ ReadEnds(r) \/ PayloadRefused(r)
  BY <1>2, AnsweredKeeps DEF ChecksEnd, GiveUp, PartFails, ReadEnds, PayloadRefused
<1>3. CASE AskUser(r) \/ StatusKnown(r) \/ PayloadChanged(r)
  BY <1>3, PlainStepsKeep
<1>4. CASE FoundApproved(r)
  BY <1>4, SendPartKeeps DEF FoundApproved, Asking
<1>5. CASE PartMade(r)
  BY <1>5, SendPartKeeps, AnsweredKeeps DEF PartMade, At
<1>6. CASE TokenComes(r) \/ TokenRefused(r) \/ AnswerLost(r) \/ InProgress(r) \/ AskAgain(r)
  BY <1>6, TokenComesKeeps, TokenRefusedKeeps, AnswerLostKeeps, InProgressKeeps, AskAgainKeeps
<1>7. CASE StatusRead(r) \/ ReadAgain(r)
  BY <1>7, StatusReadKeeps, ReadAgainKeeps
<1>8. CASE PayloadBuilt(r)
  <2>1. call[r].pc \in Polling /\ call[r].approved \in BOOLEAN /\ Decide(r, call[r].approved)
    BY <1>8 DEF PayloadBuilt, At, Polling, CallInv, CallTypeOK, CallRecord
  <2> QED BY <2>1, DecideKeeps
<1>9. CASE DecisionRead(r)
  BY <1>9, DecideKeeps DEF DecisionRead, At, Polling
<1> QED BY <1>1, <1>2, <1>3, <1>4, <1>5, <1>6, <1>7, <1>8, <1>9 DEF Step

\* What Timely, Owned and RememberedRight say of the calls holds all the time.
LEMMA CallInvHolds == Spec => []CallInv
<1>1. ASSUME Init PROVE CallInv
  <2>1. call = [r \in Id |-> Idle] /\ now = 0 /\ memory = <<>>
    BY <1>1 DEF Init
  <2>2. CallTypeOK
    BY <2>1, IdleIsOne, TimesAreNumbers DEF CallTypeOK, WithinSize, OneEntryEach
  <2> QED BY <2>1, <2>2, IdleIsOne DEF CallInv, Owned, RememberedRight, ToSet
<1>2. ASSUME CallInv, [Next]_vars PROVE CallInv'
  <2>1. CASE UNCHANGED vars
    BY <1>2, <2>1 DEF vars, CallInv, CallTypeOK, Timely, Owned, RememberedRight, WithinSize, OneEntryEach
  <2> QED BY <1>2, <2>1, CallStepKeeps, TickKeeps DEF Next
<1> QED BY <1>1, <1>2, PTL DEF Spec

\* A request keeps the deadline its client has set for it, however often its
\* handler is entered: requestDeadline and releaseRequestDeadline.
THEOREM OwnDeadlineHolds == Spec => []OwnDeadline
<1>1. CallInv => OwnDeadline
  BY DEF CallInv, Owned, OwnDeadline, ClientGivesUp
<1> QED BY <1>1, CallInvHolds, PTL

\* An approval found while a call waits for it leaves time for the write, and
\* what is sent for a write ends before the client gives up.
THEOREM HeardInTimeHolds == Spec => []HeardInTime
<1>1. CallInv => HeardInTime
  <2> SUFFICES ASSUME CallInv, NEW r \in Id, call[r].kept
               PROVE  /\ call[r].pc \in Polling /\ now <= call[r].pollBy
                           => WriteFits(now, ClientGivesUp(r), Timeout)
                      /\ call[r].pc \in Writing /\ ~call[r].waited
                           => call[r].till <= AnswerBy(ClientGivesUp(r))
    BY DEF HeardInTime
  <2>1. /\ now \in Nat /\ call[r] \in CallRecord /\ call[r].deadline \in Int /\ call[r].pollBy \in Int
        /\ call[r].till \in Int /\ call[r].arrived \in Nat /\ ClientGivesUp(r) \in Int
    BY TimesAreNumbers DEF CallInv, CallTypeOK, CallRecord, ClientGivesUp
  <2>2. Timely(call[r]) /\ Owned(call[r])
    BY DEF CallInv
  <2>3. call[r].pc # "idle" => call[r].deadline <= ClientGivesUp(r)
    BY <2>1, <2>2 DEF Owned, ClientGivesUp
  <2>4. call[r].pc \in Polling \cup Writing => call[r].pc # "idle"
    BY DEF Polling, Writing
  <2>5. ASSUME call[r].pc \in Polling, now <= call[r].pollBy
        PROVE  WriteFits(now, ClientGivesUp(r), Timeout)
    BY <2>1, <2>2, <2>3, <2>4, <2>5, ReserveFits DEF Timely
  <2>6. ASSUME call[r].pc \in Writing, ~call[r].waited
        PROVE  call[r].till <= AnswerBy(ClientGivesUp(r))
    BY <2>1, <2>2, <2>3, <2>4, <2>6, TimesAreNumbers DEF Timely, AnswerBy
  <2> QED BY <2>5, <2>6
<1> QED BY <1>1, CallInvHolds, PTL

-----------------------------------------------------------------------------
(* WriteRules.  A call that has passed a check carries what the check      *)
(* found; the reports and the scopes do not change under it, and the roles *)
(* are no older than they are remembered.                                  *)
\* The fields of a call.
JobRecord ==
  [pc : {"idle", "roles?", "roles", "look", "decide", "send", "mark", "over"}, tool : WriteTool \cup {"none"},
   report : Report \cup {NoReport}, target : Report \cup {NoReport}, number : Nat, viewer : BOOLEAN,
   began : Int, done : Nat, result : {"none", "refused", "landed", "rejected", "partly", "broken"}]

\* A job that has passed its checks on the report, or on the roles.
PastLook(j) == j.pc \in {"decide", "send"} \/ j.result \in {"landed", "rejected"}
PastRoles(j) == j.pc = "look" \/ PastLook(j)

\* What the checks have found of a comment's side, and of the report itself.
CommentCleared(j) ==
  LET s == SideOf(j.tool)
  IN  IF ReadScope(s) \in granted THEN Readable(j.report) /\ (j.viewer => side[j.report] = s)
      ELSE WriteScope(OtherSide(s)) \notin granted

ReportCleared(j) ==
  /\ j.tool \in Comments => CommentCleared(j)
  /\ j.tool = "raise_appeal" /\ "reports:read" \in granted => j.target = j.report

\* A call past a check has passed it, and what the check found of the roles is
\* no older than they are remembered.
JobOk(j) ==
  /\ j \in JobRecord
  /\ j.began <= clock
  /\ j.pc = "idle" => j.tool = "none" /\ j.result = "none"
  /\ j.pc # "idle" => j.tool # "none" /\ j.report \in Report /\ j.target \in Report
  /\ j.pc = "mark" => j.tool = "mark_notifications_read"
  /\ j.pc \in {"roles?", "roles"} => j.tool \in RefusesStaff
  /\ j.result # "none" => j.pc = "over"
  /\ PastLook(j) => ReportCleared(j)
  /\ j.result = "landed" /\ j.tool \in Comments => side[j.report] # "none" /\ WriteScope(side[j.report]) \in granted
  /\ j.tool \in RefusesStaff /\ PastRoles(j) => staffSince > j.began - RolesTtl

\* Roles remembered without staff in them were read while they are remembered.
RolesOk ==
  /\ roles \in [state : {"empty", "loading", "known"}, clean : BOOLEAN, expires : Int]
  /\ roles.state # "empty" => roles.expires - RolesTtl <= clock
  /\ roles.state = "loading" => clock < roles.expires
  /\ roles.state = "known" /\ roles.clean => staffSince >= roles.expires - RolesTtl

\* Time, the account and its reports stay in their sets; a past is past.
WorldOk ==
  /\ clock \in 0..ClockEnd
  /\ side \in [Report -> {"researcher", "organization", "none"}]
  /\ staffSince \in Int /\ (staffSince <= clock \/ staffSince = Never)
  /\ grade \in [Report -> Nat]
  /\ draft \in [revision : Nat, published : BOOLEAN]

\* Every call is as its own state says.
JobsOk == DOMAIN job = Job /\ \A c \in Job : JobOk(job[c])

\* The inductive invariant.
RulesInv == WorldOk /\ RolesOk /\ JobsOk /\ MarkedAreTold

-----------------------------------------------------------------------------

\* The assumption on the constants, as the steps use it.
LEMMA RulesNumbers == RolesTtl \in Nat /\ RolesTtl > 0 /\ ClockEnd \in Nat
BY RulesAssumption

\* The kinds of write tools, as sets of names.
LEMMA ToolsApart ==
  /\ RefusesStaff \subseteq WriteTool /\ Comments \subseteq WriteTool
  /\ "mark_notifications_read" \notin RefusesStaff \cup Comments /\ "none" \notin RefusesStaff \cup Comments
  /\ "raise_appeal" \notin RefusesStaff \cup Comments
BY DEF WriteTool, RequiredScopes, RefusesStaff, Comments

\* What a step may do to a job without disturbing what is said of notifications.
SaysSame(j, k) ==
  IF j.tool = "mark_notifications_read"
  THEN k.tool = j.tool /\ k.done = j.done /\ {j.result, k.result} \cap {"partly", "broken"} = {}
  ELSE k.tool = "mark_notifications_read" => k.done = 0 /\ k.result \notin {"partly", "broken"}

\* A call that has marked nothing tells of nothing.
LEMMA NothingToldAtFirst == ASSUME NEW j, j.done = 0 PROVE Told(j) = {}
<1>1. 1..0 = {}
  OBVIOUS
<1>. QED  BY <1>1 DEF Told, NoticesDone

\* Calls that say the same of what is marked keep MarkedAreTold.
LEMMA SaysKept ==
  ASSUME JobsOk, MarkedAreTold, marked' = marked, DOMAIN job' = Job,
         \A c \in Job : job'[c] = job[c] \/ SaysSame(job[c], job'[c])
  PROVE  MarkedAreTold'
<1> DEFINE Saying == {d \in Job : job[d].tool = "mark_notifications_read"}
<1>1. ASSUME NEW c \in Job, job'[c].tool = "mark_notifications_read" PROVE Told(job'[c]) \subseteq marked
  <2>1. CASE job'[c] = job[c]
    BY <1>1, <2>1 DEF MarkedAreTold
  <2>2. CASE /\ job[c].tool = "mark_notifications_read" /\ job'[c].done = job[c].done
             /\ job[c].result # "broken" /\ job'[c].result # "broken"
    <3>1. Told(job'[c]) = Told(job[c])
      BY <2>2 DEF Told, NoticesDone
    <3>. QED  BY <2>2, <3>1 DEF MarkedAreTold
  <2>3. CASE job'[c].done = 0
    BY <2>3, NothingToldAtFirst
  <2>. QED  BY <1>1, <2>1, <2>2, <2>3 DEF SaysSame
<1>2. ASSUME NEW c \in Job, job[c].tool = "mark_notifications_read"
      PROVE  /\ job'[c].tool = "mark_notifications_read"
             /\ Told(job[c]) \cup Unsaid(job[c]) \subseteq Told(job'[c]) \cup Unsaid(job'[c])
  <2>1. CASE job'[c] = job[c]
    BY <1>2, <2>1
  <2>2. CASE SaysSame(job[c], job'[c])
    <3>1. Unsaid(job[c]) = {} /\ Told(job'[c]) = Told(job[c]) /\ job'[c].tool = job[c].tool
      BY <1>2, <2>2 DEF SaysSame, Told, NoticesDone, Unsaid
    <3>. QED  BY <1>2, <3>1
  <2>. QED  BY <2>1, <2>2
<1>3. ASSUME NEW n \in marked
      PROVE  \E c \in Job : job'[c].tool = "mark_notifications_read" /\ n \in Told(job'[c]) \cup Unsaid(job'[c])
  <2>1. PICK c \in Saying : n \in Told(job[c]) \cup Unsaid(job[c])
    BY <1>3 DEF MarkedAreTold
  <2>. QED  BY <1>2, <2>1
<1>. QED  BY <1>1, <1>3 DEF MarkedAreTold

\* A step of the calls alone keeps the invariant if every call stays right.
LEMMA JobsKept ==
  ASSUME RulesInv, UNCHANGED <<clock, world, marked>>, RolesOk', DOMAIN job' = Job,
         \A c \in Job : JobOk(job'[c]) /\ (job'[c] = job[c] \/ SaysSame(job[c], job'[c]))
  PROVE  RulesInv'
<1>1. WorldOk'
  BY DEF RulesInv, WorldOk, world, Never
<1>2. JobsOk'
  <2>1. ASSUME NEW c \in Job PROVE JobOk(job[c])'
    <3>1. JobOk(job'[c])
      OBVIOUS
    <3>. QED  BY <3>1 DEF JobOk, world, PastLook, PastRoles, ReportCleared, CommentCleared, Readable
  <2>. QED  BY <2>1 DEF JobsOk
<1>3. MarkedAreTold'
  BY SaysKept DEF RulesInv
<1>. QED  BY <1>1, <1>2, <1>3 DEF RulesInv

\* So does a step of one call.
LEMMA JobBecomes ==
  ASSUME RulesInv, UNCHANGED <<clock, world, marked>>, RolesOk', NEW c \in Job, NEW j,
         job' = [job EXCEPT ![c] = j], JobOk(j), SaysSame(job[c], j)
  PROVE  RulesInv'
<1>1. DOMAIN job' = Job /\ job'[c] = j /\ \A d \in Job : d # c => job'[d] = job[d]
  BY DEF RulesInv, JobsOk
<1>2. \A d \in Job : JobOk(job[d])
  BY DEF RulesInv, JobsOk
<1>. QED  BY <1>1, <1>2, JobsKept

\* The memory of the roles stays right while nothing it speaks of changes.
LEMMA RolesStay == RolesOk /\ UNCHANGED <<clock, world, roles>> => RolesOk'
BY DEF RolesOk, world

-----------------------------------------------------------------------------

\* Where a call can be, and how it can end.
Steps == {"idle", "roles?", "roles", "look", "decide", "send", "mark", "over"}
Results == {"none", "refused", "landed", "rejected", "partly", "broken"}

\* A call that only goes to another step keeps its other fields.
LEMMA StepTaken ==
  ASSUME NEW j \in JobRecord, NEW pc \in Steps
  PROVE  LET k == [j EXCEPT !.pc = pc]
         IN  /\ k \in JobRecord /\ k.pc = pc /\ k.tool = j.tool /\ k.report = j.report /\ k.target = j.target
             /\ k.viewer = j.viewer /\ k.began = j.began /\ k.done = j.done /\ k.result = j.result
BY DEF JobRecord, Steps

\* So does one that ends.
LEMMA JobEnds ==
  ASSUME NEW j \in JobRecord, NEW result \in Results
  PROVE  LET k == [j EXCEPT !.pc = "over", !.result = result]
         IN  /\ k \in JobRecord /\ k.pc = "over" /\ k.tool = j.tool /\ k.report = j.report /\ k.target = j.target
             /\ k.viewer = j.viewer /\ k.began = j.began /\ k.done = j.done /\ k.result = result
<1> DEFINE pc == "over"
<1>1. pc \in Steps
  BY DEF Steps
<1> HIDE DEF pc
<1> DEFINE i == [j EXCEPT !.pc = pc]
           k == [i EXCEPT !.result = result]
<1>2. /\ i \in JobRecord /\ i.pc = pc /\ i.tool = j.tool /\ i.report = j.report /\ i.target = j.target
      /\ i.viewer = j.viewer /\ i.began = j.began /\ i.done = j.done
  BY <1>1, StepTaken
<1>3. k = [j EXCEPT !.pc = pc, !.result = result]
  BY DEF JobRecord
<1> HIDE DEF i
<1>4. /\ k \in JobRecord /\ k.pc = i.pc /\ k.tool = i.tool /\ k.report = i.report /\ k.target = i.target
      /\ k.viewer = i.viewer /\ k.began = i.began /\ k.done = i.done /\ k.result = result
  BY <1>2 DEF JobRecord, Results
<1> HIDE DEF k
<1>. QED  BY <1>2, <1>3, <1>4 DEF pc

\* A job that has its checks behind it, and what is known of it, goes on.
LEMMA StepOk ==
  ASSUME WorldOk, NEW j, JobOk(j), NEW pc \in Steps, j.pc # "idle", pc # "idle", j.pc # "over",
         pc = "mark" => j.tool = "mark_notifications_read",
         pc \in {"roles?", "roles"} => j.tool \in RefusesStaff,
         pc \in {"decide", "send"} => PastLook(j) \/ ReportCleared(j),
         j.tool \in RefusesStaff /\ pc \in {"look", "decide", "send"} => staffSince > j.began - RolesTtl
  PROVE  JobOk([j EXCEPT !.pc = pc]) /\ SaysSame(j, [j EXCEPT !.pc = pc])
<1> DEFINE k == [j EXCEPT !.pc = pc]
<1>1. j \in JobRecord /\ j.result = "none"
  BY DEF JobOk, JobRecord
<1>2. /\ k \in JobRecord /\ k.pc = pc /\ k.tool = j.tool /\ k.report = j.report /\ k.target = j.target
      /\ k.viewer = j.viewer /\ k.began = j.began /\ k.done = j.done /\ k.result = "none"
  BY <1>1, StepTaken
<1> HIDE DEF k
<1>3. JobOk(k)
  <2>1. /\ k \in JobRecord /\ k.began <= clock
        /\ k.tool # "none" /\ k.report \in Report /\ k.target \in Report
        /\ k.pc = "mark" => k.tool = "mark_notifications_read"
        /\ k.pc \in {"roles?", "roles"} => k.tool \in RefusesStaff
        /\ k.pc # "idle"
    BY <1>1, <1>2 DEF JobOk
  <2>2. /\ PastLook(j) => j.pc \in {"decide", "send"}
        /\ PastLook(k) => k.pc \in {"decide", "send"}
        /\ PastRoles(k) => k.pc \in {"look", "decide", "send"}
    BY <1>1, <1>2 DEF PastLook, PastRoles
  <2>3. ReportCleared(j) => ReportCleared(k)
    BY <1>2 DEF ReportCleared, CommentCleared
  <2>4. PastLook(j) => ReportCleared(j)
    BY DEF JobOk
  <2>5. PastLook(k) => ReportCleared(k)
    BY <1>2, <2>2, <2>3, <2>4
  <2>6. k.tool \in RefusesStaff /\ PastRoles(k) => staffSince > k.began - RolesTtl
    BY <1>2, <2>2
  <2>. QED  BY <1>2, <2>1, <2>5, <2>6 DEF JobOk
<1>4. SaysSame(j, k)
  BY <1>1, <1>2 DEF SaysSame
<1>. QED  BY <1>3, <1>4 DEF k

\* Ending keeps it right if nothing is sent without the checks.
LEMMA EndOk ==
  ASSUME WorldOk, NEW j, JobOk(j), j.pc \notin {"idle", "over"}, NEW result \in {"refused", "landed", "rejected"},
         result \in {"landed", "rejected"} => j.pc = "send" \/ j.pc = "mark",
         result = "landed" /\ j.tool \in Comments =>
           side[j.report] # "none" /\ WriteScope(side[j.report]) \in granted
  PROVE  LET k == [j EXCEPT !.pc = "over", !.result = result] IN JobOk(k) /\ SaysSame(j, k)
<1> DEFINE k == [j EXCEPT !.pc = "over", !.result = result]
<1>1. j \in JobRecord /\ j.result = "none" /\ result \in Results
  BY DEF JobOk, JobRecord, Results
<1>2. /\ k \in JobRecord /\ k.pc = "over" /\ k.tool = j.tool /\ k.report = j.report /\ k.target = j.target
      /\ k.viewer = j.viewer /\ k.began = j.began /\ k.done = j.done /\ k.result = result
  BY <1>1, JobEnds
<1> HIDE DEF k
<1>3. j.pc = "mark" => j.tool \notin Comments /\ j.tool \notin RefusesStaff /\ j.tool # "raise_appeal"
  BY ToolsApart DEF JobOk
<1>4. JobOk(k)
  BY <1>1, <1>2, <1>3 DEF JobOk, PastLook, PastRoles, ReportCleared, CommentCleared
<1>5. SaysSame(j, k)
  BY <1>1, <1>2 DEF SaysSame
<1>. QED  BY <1>4, <1>5 DEF k

-----------------------------------------------------------------------------

\* Judging the roles keeps it right if they are young enough.
LEMMA JudgedOk ==
  ASSUME WorldOk, NEW j, JobOk(j), j.pc \in {"roles?", "roles"}, NEW clean \in BOOLEAN,
         clean => staffSince > j.began - RolesTtl
  PROVE  JobOk(RolesJudged(j, clean)) /\ SaysSame(j, RolesJudged(j, clean))
<1>1. CASE RolesJudged(j, clean) = [j EXCEPT !.pc = "look"] /\ clean
  <2> DEFINE pc == "look"
  <2>1. pc \in Steps /\ pc # "idle" /\ pc # "mark" /\ pc \notin {"roles?", "roles", "decide", "send"}
    BY DEF Steps
  <2> HIDE DEF pc
  <2>2. j.pc # "idle" /\ j.pc # "over"
    OBVIOUS
  <2>3. JobOk([j EXCEPT !.pc = pc]) /\ SaysSame(j, [j EXCEPT !.pc = pc])
    BY <1>1, <2>1, <2>2, StepOk
  <2>. QED  BY <1>1, <2>3 DEF pc
<1>2. CASE RolesJudged(j, clean) = [j EXCEPT !.pc = "over", !.result = "refused"]
  <2>1. j.pc \notin {"idle", "over"}
    OBVIOUS
  <2>. QED  BY <1>2, <2>1, EndOk
<1>. QED  BY <1>1, <1>2 DEF RolesJudged

\* assertNotPlatformStaff: roles remembered are judged at once.
LEMMA AskRolesKeeps == ASSUME RulesInv, NEW c \in Job, AskRoles(c) PROVE RulesInv'
<1> DEFINE j == job[c]
<1>1. JobOk(j) /\ WorldOk /\ RolesOk /\ j.pc = "roles?" /\ UNCHANGED <<clock, world, marked>>
  BY DEF RulesInv, JobsOk, AskRoles, InJob
<1>2. CASE RolesHit /\ roles.state = "known"
  <2>1. roles.clean \in BOOLEAN /\ (roles.clean => staffSince > j.began - RolesTtl)
    <3>1. roles.clean => staffSince >= roles.expires - RolesTtl /\ roles.expires > clock /\ j.began <= clock
      BY <1>1, <1>2 DEF RolesOk, RolesHit, JobOk
    <3>2. roles.expires \in Int /\ j.began \in Int /\ clock \in Int /\ staffSince \in Int /\ RolesTtl \in Int
      BY <1>1, RulesNumbers DEF RolesOk, JobOk, JobRecord, WorldOk
    <3>3. roles.clean \in BOOLEAN
      BY <1>1 DEF RolesOk
    <3>. QED  BY <3>1, <3>2, <3>3
  <2>2. JobOk(RolesJudged(j, roles.clean)) /\ SaysSame(j, RolesJudged(j, roles.clean))
    BY <1>1, <2>1, JudgedOk
  <2>3. job' = [job EXCEPT ![c] = RolesJudged(j, roles.clean)] /\ UNCHANGED roles
    BY <1>2 DEF AskRoles
  <2>4. RolesOk'
    BY <1>1, <2>3, RolesStay
  <2>. QED  BY <1>1, <2>2, <2>3, <2>4, JobBecomes
<1>3. CASE ~(RolesHit /\ roles.state = "known")
  <2> DEFINE pc == "roles"
             next == [j EXCEPT !.pc = pc]
  <2>1. pc \in Steps /\ pc \notin {"idle", "mark", "look", "decide", "send"} /\ j.pc # "idle" /\ j.pc # "over"
        /\ j.tool \in RefusesStaff
    BY <1>1 DEF Steps, JobOk
  <2>2. job' = [job EXCEPT ![c] = next]
    BY <1>3 DEF AskRoles, JobTo
  <2> HIDE DEF pc
  <2>3. JobOk(next) /\ SaysSame(j, next)
    BY <1>1, <2>1, StepOk
  <2>4. RolesOk'
    <3>1. CASE RolesHit
      BY <1>1, <1>3, <3>1, RolesStay DEF AskRoles
    <3>2. CASE ~RolesHit
      <4> DEFINE no == FALSE
                 until == clock + RolesTtl
      <4>1. no \in BOOLEAN /\ until \in Int /\ until - RolesTtl <= clock /\ clock < until
        BY <1>1, RulesNumbers DEF WorldOk
      <4>2. roles' = [state |-> "loading", clean |-> no, expires |-> until] /\ clock' = clock
        BY <1>3, <3>2 DEF AskRoles
      <4> HIDE DEF no, until
      <4>. QED  BY <4>1, <4>2 DEF RolesOk
    <3>. QED  BY <3>1, <3>2
  <2> HIDE DEF next
  <2>. QED  BY <1>1, <2>2, <2>3, <2>4, JobBecomes
<1>. QED  BY <1>2, <1>3

\* The load's outcome judges every call waiting for it.
LEMMA RolesLoadedKeeps == ASSUME RulesInv, RolesLoaded PROVE RulesInv'
<1>1. /\ WorldOk /\ RolesOk /\ roles.state = "loading" /\ UNCHANGED <<clock, world, marked>>
      /\ \A c \in Job : JobOk(job[c])
  BY DEF RulesInv, JobsOk, RolesLoaded
<1>2. PICK clean \in {~IsStaff, staffSince > roles.expires - RolesTtl} :
        /\ roles' = [roles EXCEPT !.state = "known", !.clean = clean]
        /\ job' = [c \in Job |-> IF InJob(c, "roles") THEN RolesJudged(job[c], clean) ELSE job[c]]
  BY DEF RolesLoaded
<1>3. roles.expires \in Int /\ clock \in Int /\ staffSince \in Int /\ RolesTtl \in Int /\ ClockEnd \in Int
  BY <1>1, RulesNumbers DEF RolesOk, WorldOk
<1>4. clock < roles.expires /\ roles.expires - RolesTtl <= clock /\ clock <= ClockEnd
  BY <1>1 DEF RolesOk, WorldOk
<1>5. clean \in BOOLEAN /\ (clean => staffSince >= roles.expires - RolesTtl)
  <2>1. CASE clean = (~IsStaff)
    <3>1. ~IsStaff => staffSince = ClockEnd + 1
      BY <1>1 DEF IsStaff, WorldOk, Never
    <3>2. ~IsStaff => staffSince >= roles.expires - RolesTtl
      BY <1>3, <1>4, <3>1
    <3>. QED  BY <2>1, <3>2
  <2>2. CASE clean = (staffSince > roles.expires - RolesTtl)
    <3>1. staffSince > roles.expires - RolesTtl => staffSince >= roles.expires - RolesTtl
      BY <1>3
    <3>2. clean => staffSince > roles.expires - RolesTtl
      BY <2>2, Zenon
    <3>3. clean \in BOOLEAN
      BY <2>2, SMT
    <3>. QED  BY <3>1, <3>2, <3>3
  <2>. QED  BY <1>2, <2>1, <2>2
<1>6. RolesOk'
  <2> DEFINE st == "known"
  <2>1. roles' \in [state : {"empty", "loading", "known"}, clean : BOOLEAN, expires : Int]
        /\ roles'.state = st /\ roles'.clean = clean /\ roles'.expires = roles.expires
    <3>1. st \in {"empty", "loading", "known"}
      OBVIOUS
    <3>2. roles' = [roles EXCEPT !.state = st, !.clean = clean]
      BY <1>2
    <3> HIDE DEF st
    <3>. QED  BY <1>1, <1>5, <3>1, <3>2 DEF RolesOk
  <2>2. clock' = clock /\ staffSince' = staffSince
    BY <1>1 DEF world
  <2>. QED  BY <1>4, <1>5, <2>1, <2>2 DEF RolesOk
<1>7. ASSUME NEW c \in Job PROVE JobOk(job'[c]) /\ (job'[c] = job[c] \/ SaysSame(job[c], job'[c]))
  <2>1. CASE InJob(c, "roles")
    <3>1. job[c].pc = "roles" /\ JobOk(job[c]) /\ job'[c] = RolesJudged(job[c], clean)
      BY <1>1, <1>2, <2>1 DEF InJob
    <3>2. clean => staffSince > job[c].began - RolesTtl
      <4>1. job[c].began \in Int /\ job[c].began <= clock
        BY <3>1 DEF JobOk, JobRecord
      <4>. QED  BY <1>3, <1>4, <1>5, <4>1
    <3>3. job[c].pc \in {"roles?", "roles"}
      BY <3>1
    <3>. QED  BY <1>1, <1>5, <3>1, <3>2, <3>3, JudgedOk
  <2>2. CASE ~InJob(c, "roles")
    BY <1>1, <1>2, <2>2
  <2>. QED  BY <2>1, <2>2
<1>8. DOMAIN job' = Job
  BY <1>2
<1>. QED  BY <1>1, <1>6, <1>7, <1>8, JobsKept

\* A failed load refuses every call waiting for it.
LEMMA RolesFailedKeeps == ASSUME RulesInv, RolesFailed PROVE RulesInv'
<1>1. /\ WorldOk /\ RolesOk /\ UNCHANGED <<clock, world, marked>> /\ roles' = [roles EXCEPT !.state = "empty"]
      /\ job' = [c \in Job |-> IF InJob(c, "roles") THEN [job[c] EXCEPT !.pc = "over", !.result = "refused"] ELSE job[c]]
      /\ \A c \in Job : JobOk(job[c])
  BY DEF RulesInv, JobsOk, RolesFailed
<1>2. RolesOk'
  <2>1. roles' \in [state : {"empty", "loading", "known"}, clean : BOOLEAN, expires : Int] /\ roles'.state = "empty"
    BY <1>1 DEF RolesOk
  <2>. QED  BY <2>1 DEF RolesOk
<1>3. ASSUME NEW c \in Job PROVE JobOk(job'[c]) /\ (job'[c] = job[c] \/ SaysSame(job[c], job'[c]))
  <2>1. CASE InJob(c, "roles")
    <3>1. job[c].pc \notin {"idle", "over"} /\ JobOk(job[c])
          /\ job'[c] = [job[c] EXCEPT !.pc = "over", !.result = "refused"]
      BY <1>1, <2>1 DEF InJob
    <3>. QED  BY <1>1, <3>1, EndOk
  <2>2. CASE ~InJob(c, "roles")
    BY <1>1, <2>2
  <2>. QED  BY <2>1, <2>2
<1>. QED  BY <1>1, <1>2, <1>3, JobsKept

-----------------------------------------------------------------------------

\* The checks on the report find what ReportCleared says.
LEMMA AllowedIsCleared == ASSUME NEW c \in Job, ReportAllowed(c) PROVE ReportCleared(job[c])
BY DEF ReportAllowed, ReportCleared, CommentAllowed, CommentCleared, AppealAllowed, OnSide

\* A call that ends keeps the invariant.
LEMMA EndKeeps ==
  ASSUME RulesInv, NEW c \in Job, UNCHANGED <<clock, world, roles, marked>>,
         NEW result \in {"refused", "landed", "rejected"}, JobOver(c, result), job[c].pc \notin {"idle", "over"},
         result \in {"landed", "rejected"} => job[c].pc = "send" \/ job[c].pc = "mark",
         result = "landed" /\ job[c].tool \in Comments =>
           side[job[c].report] # "none" /\ WriteScope(side[job[c].report]) \in granted
  PROVE  RulesInv'
<1> DEFINE k == [job[c] EXCEPT !.pc = "over", !.result = result]
<1>1. WorldOk /\ JobOk(job[c]) /\ RolesOk'
  BY RolesStay DEF RulesInv, JobsOk
<1>2. job' = [job EXCEPT ![c] = k]
  BY DEF JobOver, RulesInv, JobsOk
<1>3. JobOk(k) /\ SaysSame(job[c], k)
  BY <1>1, EndOk
<1> HIDE DEF k
<1>. QED  BY <1>1, <1>2, <1>3, JobBecomes

\* A call that goes on after its checks keeps the invariant.
LEMMA GoOnKeeps ==
  ASSUME RulesInv, NEW c \in Job, UNCHANGED <<clock, world, roles, marked>>,
         NEW pc \in {"decide", "send", "mark"}, JobTo(c, pc), job[c].pc \in {"look", "decide"},
         pc = "mark" => job[c].tool = "mark_notifications_read",
         pc # "mark" => ReportCleared(job[c]),
         pc = "mark" => job[c].pc = "decide"
  PROVE  RulesInv'
<1> DEFINE k == [job[c] EXCEPT !.pc = pc]
<1>1. WorldOk /\ JobOk(job[c]) /\ RolesOk'
  BY RolesStay DEF RulesInv, JobsOk
<1>2. job' = [job EXCEPT ![c] = k]
  BY DEF JobTo, RulesInv, JobsOk
<1>3. pc \in Steps /\ pc # "idle" /\ pc \notin {"roles?", "roles"}
  BY DEF Steps
<1>4. job[c].tool \in RefusesStaff => staffSince > job[c].began - RolesTtl
  BY <1>1 DEF JobOk, PastRoles, PastLook
<1>5. JobOk(k) /\ SaysSame(job[c], k)
  <2>1. job[c].pc # "idle" /\ job[c].pc # "over"
    OBVIOUS
  <2>2. pc \in {"decide", "send"} => ReportCleared(job[c])
    OBVIOUS
  <2>. QED  BY <1>1, <1>3, <1>4, <2>1, <2>2, StepOk
<1> HIDE DEF k
<1>. QED  BY <1>1, <1>2, <1>5, JobBecomes

\* So do the checks on the report, and a refusal.
LEMMA LookKeeps == ASSUME RulesInv, NEW c \in Job, Look(c) \/ LookFails(c) \/ Declined(c) PROVE RulesInv'
<1>1. CASE Look(c) /\ ReportAllowed(c)
  <2> DEFINE pc == "decide"
  <2>1. JobTo(c, pc) /\ job[c].pc \in {"look", "decide"} /\ UNCHANGED <<clock, world, roles, marked>>
    BY <1>1 DEF Look, InJob
  <2>2. ReportCleared(job[c])
    BY <1>1, AllowedIsCleared
  <2>3. pc \in {"decide", "send", "mark"} /\ pc # "mark"
    OBVIOUS
  <2> HIDE DEF pc
  <2>. QED  BY <2>1, <2>2, <2>3, GoOnKeeps
<1>2. CASE JobOver(c, "refused")
  <2>1. job[c].pc \notin {"idle", "over"} /\ UNCHANGED <<clock, world, roles, marked>>
    BY DEF Look, LookFails, Declined, InJob
  <2>. QED  BY <1>2, <2>1, EndKeeps
<1>. QED  BY <1>1, <1>2 DEF Look, LookFails, Declined

\* So does an approval: nothing it relies on is looked at again.
LEMMA ApprovedKeeps == ASSUME RulesInv, NEW c \in Job, Approved(c) PROVE RulesInv'
<1>1. job[c].pc = "decide" /\ UNCHANGED <<clock, world, roles, marked>> /\ JobOk(job[c])
  BY DEF Approved, InJob, RulesInv, JobsOk
<1>2. ReportCleared(job[c])
  BY <1>1 DEF JobOk, PastLook
<1> DEFINE pc == IF job[c].tool = "mark_notifications_read" THEN "mark" ELSE "send"
<1>3. JobTo(c, pc)
  BY DEF Approved
<1>4. pc \in {"decide", "send", "mark"} /\ (pc = "mark" => job[c].tool = "mark_notifications_read")
      /\ job[c].pc \in {"look", "decide"}
  BY <1>1
<1> HIDE DEF pc
<1>. QED  BY <1>1, <1>2, <1>3, <1>4, GoOnKeeps

\* So does sending, whatever the API says.
LEMMA SendKeeps == ASSUME RulesInv, NEW c \in Job, Send(c) \/ MarkedAll(c) PROVE RulesInv'
<1>1. CASE Send(c)
  <2> DEFINE result == IF Accepts(job[c]) THEN "landed" ELSE "rejected"
  <2>1. job[c].pc = "send" /\ UNCHANGED <<clock, world, roles, marked>> /\ JobOver(c, result)
    BY <1>1 DEF Send, InJob
  <2>2. result \in {"refused", "landed", "rejected"} /\ (result = "landed" => Accepts(job[c]))
    OBVIOUS
  <2>3. job[c].tool \in Comments /\ Accepts(job[c]) =>
          side[job[c].report] # "none" /\ WriteScope(side[job[c].report]) \in granted
    <3>1. job[c].tool \in Comments =>
            job[c].tool \notin ActsForOrg /\ job[c].tool # "raise_appeal" /\ job[c].tool # "save_disclosure_draft"
      BY DEF Comments, ActsForOrg, RefusesStaff
    <3>. QED  BY <3>1 DEF Accepts
  <2>4. job[c].pc \notin {"idle", "over"}
    BY <2>1
  <2> HIDE DEF result
  <2>. QED  BY <2>1, <2>2, <2>3, <2>4, EndKeeps
<1>2. CASE MarkedAll(c)
  <2>1. job[c].pc = "mark" /\ UNCHANGED <<clock, world, roles, marked>> /\ JobOver(c, "landed")
    BY <1>2 DEF MarkedAll, InJob
  <2>2. job[c].tool \notin Comments
    BY <2>1, ToolsApart DEF RulesInv, JobsOk, JobOk
  <2>3. job[c].pc \notin {"idle", "over"}
    BY <2>1
  <2>. QED  BY <2>1, <2>2, <2>3, EndKeeps
<1>. QED  BY <1>1, <1>2

\* A new call has everything before it.
LEMMA BeginKeeps ==
  ASSUME RulesInv, NEW c \in Job, NEW t \in WriteTool, NEW r \in Report, NEW target \in Report, NEW viewer \in BOOLEAN,
         Begin(c, t, r, target, viewer)
  PROVE  RulesInv'
<1> DEFINE pc == IF t = "assign_report" /\ ~viewer THEN "over" ELSE FirstCheck(t)
           number == IF t = "raise_appeal" THEN grade[target] ELSE draft.revision
           k == [NoJob EXCEPT !.tool = t, !.report = r, !.target = target, !.viewer = viewer, !.began = clock,
                   !.number = number, !.pc = pc]
<1>1. WorldOk /\ JobOk(job[c]) /\ RolesOk' /\ UNCHANGED <<clock, world, roles, marked>> /\ job[c].pc = "idle"
  BY RolesStay DEF RulesInv, JobsOk, Begin, InJob
<1>2. job' = [job EXCEPT ![c] = k]
  BY DEF Begin
<1>3. /\ pc \in {"over", "roles?", "look", "decide"}
      /\ pc = "roles?" => t \in RefusesStaff
      /\ pc = "look" => t \notin RefusesStaff
      /\ pc = "decide" => t = "mark_notifications_read"
  BY DEF FirstCheck
<1>4. number \in Nat /\ clock \in Int
  BY <1>1 DEF WorldOk
<1> HIDE DEF pc, number
<1>5. k \in JobRecord
  <2> DEFINE idle == "idle"
             none == "none"
             no == FALSE
             zero == 0
  <2>1. idle \in Steps /\ none \in Results /\ none \in WriteTool \cup {"none"} /\ no \in BOOLEAN /\ zero \in Nat /\ zero \in Int
        /\ pc \in Steps
    BY <1>3 DEF Steps, Results
  <2>2. NoJob = [pc |-> idle, tool |-> none, report |-> NoReport, target |-> NoReport, number |-> zero, viewer |-> no,
                 began |-> zero, done |-> zero, result |-> none]
    BY DEF NoJob
  <2>3. JobRecord = [pc : Steps, tool : WriteTool \cup {"none"}, report : Report \cup {NoReport},
                     target : Report \cup {NoReport}, number : Nat, viewer : BOOLEAN, began : Int, done : Nat,
                     result : Results]
    BY DEF JobRecord, Steps, Results
  <2> HIDE DEF idle, none, no, zero
  <2>. QED  BY <1>4, <2>1, <2>2, <2>3
<1>6. k.pc = pc /\ k.tool = t /\ k.report = r /\ k.target = target /\ k.began = clock /\ k.done = 0 /\ k.result = "none"
  BY DEF NoJob
<1> HIDE DEF k
<1>7. t # "none"
  BY DEF WriteTool, RequiredScopes
<1>8. JobOk(k)
  <2>1. PastLook(k) => ReportCleared(k)
    BY <1>3, <1>6, ToolsApart DEF PastLook, ReportCleared
  <2>2. ~(k.tool \in RefusesStaff /\ PastRoles(k))
    BY <1>3, <1>6, ToolsApart DEF PastLook, PastRoles
  <2>3. clock <= clock
    BY <1>4
  <2>. QED  BY <1>3, <1>5, <1>6, <1>7, <2>1, <2>2, <2>3 DEF JobOk
<1>9. SaysSame(job[c], k)
  <2>1. job[c].tool # "mark_notifications_read"
    BY <1>1 DEF JobOk
  <2>. QED  BY <1>6, <2>1 DEF SaysSame
<1>. QED  BY <1>1, <1>2, <1>8, <1>9, JobBecomes

-----------------------------------------------------------------------------

\* What is said after a job has gone on to k, having marked what it then tells of.
LEMMA TellsMore ==
  ASSUME JobsOk, MarkedAreTold, NEW c \in Job, NEW k, job' = [job EXCEPT ![c] = k],
         job[c].tool = "mark_notifications_read", k.tool = "mark_notifications_read",
         marked \subseteq marked', Told(k) \subseteq marked',
         Told(job[c]) \cup Unsaid(job[c]) \subseteq Told(k) \cup Unsaid(k),
         marked' \subseteq marked \cup Told(k) \cup Unsaid(k)
  PROVE  MarkedAreTold'
<1>1. job'[c] = k /\ \A d \in Job : d # c => job'[d] = job[d]
  BY DEF JobsOk
<1>2. ASSUME NEW d \in Job, job'[d].tool = "mark_notifications_read" PROVE Told(job'[d]) \subseteq marked'
  <2>1. CASE d = c
    BY <1>1, <2>1
  <2>2. CASE d # c
    BY <1>1, <1>2, <2>2 DEF MarkedAreTold
  <2>. QED  BY <2>1, <2>2
<1>3. ASSUME NEW n \in marked'
      PROVE  \E d \in Job : job'[d].tool = "mark_notifications_read" /\ n \in Told(job'[d]) \cup Unsaid(job'[d])
  <2>1. CASE n \in Told(k) \cup Unsaid(k)
    BY <1>1, <2>1
  <2>2. CASE n \in marked
    <3>1. PICK d \in {e \in Job : job[e].tool = "mark_notifications_read"} : n \in Told(job[d]) \cup Unsaid(job[d])
      BY <2>2 DEF MarkedAreTold
    <3>2. CASE d = c
      BY <1>1, <3>1, <3>2
    <3>3. CASE d # c
      BY <1>1, <3>1, <3>3
    <3>. QED  BY <3>2, <3>3
  <2>. QED  BY <1>3, <2>1, <2>2
<1>. QED  BY <1>2, <1>3 DEF MarkedAreTold

\* Telling of one part more adds one notification.
LEMMA OnePartMore ==
  ASSUME NEW n \in Nat PROVE {Notices[i] : i \in 1..(n + 1)} = {Notices[i] : i \in 1..n} \cup {Notices[n + 1]}
<1>1. 1..(n + 1) = (1..n) \cup {n + 1}
  OBVIOUS
<1>. QED  BY <1>1

\* A part of mark_notifications_read, performed or not, known or not.
LEMMA MarkNextKeeps ==
  ASSUME RulesInv, NEW c \in Job, NEW performed \in BOOLEAN, NEW how \in {"made", "partly", "broken"},
         MarkNext(c, performed, how)
  PROVE  RulesInv'
<1> DEFINE j == job[c]
           notice == Notices[j.done + 1]
<1>1. /\ WorldOk /\ RolesOk /\ JobsOk /\ MarkedAreTold /\ JobOk(j) /\ UNCHANGED <<clock, world, roles>>
      /\ j.pc = "mark" /\ (how = "made" => performed)
      /\ marked' = IF performed THEN marked \cup {notice} ELSE marked
  BY DEF RulesInv, JobsOk, MarkNext, InJob
<1>2. j \in JobRecord /\ j.tool = "mark_notifications_read" /\ j.result = "none" /\ j.done \in Nat
  BY <1>1 DEF JobOk, JobRecord
<1>3. Unsaid(j) = {}
  BY <1>2 DEF Unsaid
<1>4. ASSUME NEW k, job' = [job EXCEPT ![c] = k], JobOk(k) PROVE WorldOk' /\ RolesOk' /\ JobsOk'
  <2>1. \A d \in Job : JobOk(job'[d])
    BY <1>1, <1>4 DEF JobsOk
  <2>2. \A d \in Job : JobOk(job[d])'
    BY <1>1, <2>1 DEF JobOk, world, PastLook, PastRoles, ReportCleared, CommentCleared, Readable
  <2>3. DOMAIN job' = Job
    BY <1>1, <1>4 DEF JobsOk
  <2>4. WorldOk'
    BY <1>1 DEF WorldOk, world, Never
  <2>. QED  BY <1>1, <2>2, <2>3, <2>4, RolesStay DEF JobsOk
<1>5. CASE how = "made"
  <2> DEFINE k == [j EXCEPT !.done = j.done + 1]
  <2>1. job' = [job EXCEPT ![c] = k] /\ marked' = marked \cup {notice}
    BY <1>1, <1>5 DEF MarkNext, JobsOk
  <2>2. /\ k \in JobRecord /\ k.pc = j.pc /\ k.tool = j.tool /\ k.report = j.report /\ k.target = j.target
        /\ k.began = j.began /\ k.done = j.done + 1 /\ k.result = j.result
    BY <1>2 DEF JobRecord
  <2> HIDE DEF k
  <2>3. JobOk(k)
    BY <1>1, <1>2, <2>2 DEF JobOk, PastLook, PastRoles
  <2>4. Told(k) = Told(j) \cup {notice}
    BY <1>2, <2>2, OnePartMore DEF Told, NoticesDone
  <2>5. Told(j) \subseteq marked
    BY <1>1, <1>2 DEF MarkedAreTold
  <2> HIDE DEF j, notice
  <2>6. MarkedAreTold'
    BY <1>1, <1>2, <1>3, <2>1, <2>2, <2>4, <2>5, TellsMore DEF j
  <2>. QED  BY <1>4, <2>1, <2>3, <2>6 DEF RulesInv
<1>6. CASE how # "made"
  <2> DEFINE k == [j EXCEPT !.pc = "over", !.result = how]
  <2>1. job' = [job EXCEPT ![c] = k] /\ how \in Results /\ how \in {"partly", "broken"}
    BY <1>1, <1>6 DEF MarkNext, JobsOk, JobOver, Results
  <2>2. /\ k \in JobRecord /\ k.pc = "over" /\ k.tool = j.tool /\ k.report = j.report /\ k.target = j.target
        /\ k.began = j.began /\ k.done = j.done /\ k.result = how
    <3>0. how \in Results /\ j \in JobRecord
      BY <1>2, <2>1
    <3> HIDE DEF j
    <3>. QED  BY <3>0, JobEnds
  <2> HIDE DEF k
  <2>3. JobOk(k)
    <3>1. ~PastLook(k) /\ ~PastRoles(k)
      BY <2>1, <2>2 DEF PastLook, PastRoles
    <3>. QED  BY <1>1, <1>2, <2>1, <2>2, <3>1 DEF JobOk
  <2>4. Told(j) = NoticesDone(j) /\ Told(k) \subseteq NoticesDone(j) /\ Told(k) \cup Unsaid(k) = NoticesDone(j) \cup {notice}
    BY <1>2, <2>1, <2>2 DEF Told, NoticesDone, Unsaid
  <2>5. Told(j) \subseteq marked
    BY <1>1, <1>2 DEF MarkedAreTold
  <2>6. marked \subseteq marked' /\ marked' \subseteq marked \cup {notice}
    BY <1>1
  <2>7. /\ Told(k) \subseteq marked' /\ Told(j) \cup Unsaid(j) \subseteq Told(k) \cup Unsaid(k)
        /\ marked' \subseteq marked \cup Told(k) \cup Unsaid(k)
    <3> HIDE DEF j, notice
    <3>. QED  BY <1>3, <2>4, <2>5, <2>6
  <2>8. k.tool = "mark_notifications_read"
    BY <1>2, <2>2
  <2>9. MarkedAreTold'
    BY <1>1, <1>2, <2>1, <2>6, <2>7, <2>8, TellsMore
  <2>. QED  BY <1>4, <2>1, <2>3, <2>9 DEF RulesInv
<1>. QED  BY <1>5, <1>6

-----------------------------------------------------------------------------

\* Time keeps the invariant: remembered roles age, and their calls with them.
LEMMA TimePasses == ASSUME RulesInv, ClockTick PROVE RulesInv'
<1>1. /\ WorldOk /\ RolesOk /\ JobsOk /\ UNCHANGED <<world, roles, job, marked>> /\ clock' = clock + 1
      /\ clock < ClockEnd /\ (roles.state = "loading" => clock' < roles.expires)
  BY DEF RulesInv, ClockTick
<1>2. clock \in Int /\ roles.expires \in Int /\ RolesTtl \in Int /\ ClockEnd \in Int /\ staffSince \in Int
  BY <1>1, RulesNumbers DEF WorldOk, RolesOk
<1>3. WorldOk'
  BY <1>1, RulesNumbers DEF WorldOk, world, Never
<1>4. RolesOk'
  BY <1>1, <1>2 DEF RolesOk, world
<1>5. ASSUME NEW c \in Job PROVE JobOk(job[c])'
  <2>1. JobOk(job[c])
    BY <1>1 DEF JobsOk
  <2>2. job[c].began <= clock'
    BY <1>1, <1>2, <2>1 DEF JobOk, JobRecord
  <2>. QED  BY <1>1, <2>1, <2>2 DEF JobOk, world, PastLook, PastRoles, ReportCleared, CommentCleared, Readable
<1>6. JobsOk' /\ MarkedAreTold'
  BY <1>1, <1>5 DEF JobsOk, RulesInv, MarkedAreTold
<1>. QED  BY <1>3, <1>4, <1>6 DEF RulesInv

\* Becoming staff makes no remembered role older than it was.
LEMMA StaffKeeps == ASSUME RulesInv, BecomesStaff PROVE RulesInv'
<1>1. /\ WorldOk /\ RolesOk /\ JobsOk /\ UNCHANGED <<clock, granted, side, grade, draft, roles, job, marked>>
      /\ staffSince' = clock
  BY DEF RulesInv, BecomesStaff
<1>2. clock \in Int /\ roles.expires \in Int /\ RolesTtl \in Int /\ RolesTtl > 0
  BY <1>1, RulesNumbers DEF WorldOk, RolesOk
<1>3. WorldOk'
  BY <1>1, <1>2 DEF WorldOk, Never
<1>4. RolesOk'
  BY <1>1, <1>2 DEF RolesOk
<1>5. ASSUME NEW c \in Job PROVE JobOk(job[c])'
  <2>1. JobOk(job[c])
    BY <1>1 DEF JobsOk
  <2>2. staffSince' > job[c].began - RolesTtl
    BY <1>1, <1>2, <2>1 DEF JobOk, JobRecord
  <2>. QED  BY <1>1, <2>1, <2>2 DEF JobOk, PastLook, PastRoles, ReportCleared, CommentCleared, Readable
<1>6. JobsOk' /\ MarkedAreTold'
  BY <1>1, <1>5 DEF JobsOk, RulesInv, MarkedAreTold
<1>. QED  BY <1>3, <1>4, <1>6 DEF RulesInv

\* Nor does anything else that happens on the website.
LEMMA WebsiteKeeps ==
  ASSUME RulesInv, UNCHANGED <<clock, granted, side, staffSince, roles, job, marked>>,
         grade' \in [Report -> Nat], draft' \in [revision : Nat, published : BOOLEAN]
  PROVE  RulesInv'
<1>1. WorldOk' /\ RolesOk'
  BY DEF RulesInv, WorldOk, RolesOk, Never
<1>2. JobsOk'
  BY DEF RulesInv, JobsOk, JobOk, PastLook, PastRoles, ReportCleared, CommentCleared, Readable
<1>3. MarkedAreTold'
  BY DEF RulesInv, MarkedAreTold
<1>. QED  BY <1>1, <1>2, <1>3 DEF RulesInv

\* A draft edited or published elsewhere.
LEMMA DraftKeeps == ASSUME RulesInv, DraftChanges PROVE RulesInv'
<1> DEFINE one == 1
           yes == TRUE
<1>1. draft' = [draft EXCEPT !.revision = one] \/ draft' = [draft EXCEPT !.published = yes]
  BY DEF DraftChanges
<1>2. one \in Nat /\ yes \in BOOLEAN /\ draft \in [revision : Nat, published : BOOLEAN]
  BY DEF RulesInv, WorldOk
<1> HIDE DEF one, yes
<1>3. draft' \in [revision : Nat, published : BOOLEAN]
  BY <1>1, <1>2
<1>. QED  BY <1>3, WebsiteKeeps DEF DraftChanges, RulesInv, WorldOk

\* A grade replaced elsewhere.
LEMMA GradeKeeps == ASSUME RulesInv, NEW r \in Report, GradeReplaced(r) PROVE RulesInv'
BY WebsiteKeeps DEF GradeReplaced, RulesInv, WorldOk

-----------------------------------------------------------------------------

\* The invariant holds at first ...
LEMMA RulesStart == RulesInit => RulesInv
<1> SUFFICES ASSUME RulesInit PROVE RulesInv
  OBVIOUS
<1> DEFINE zero == 0
           no == FALSE
           none == "none"
           idle == "idle"
           empty == "empty"
<1>1. zero \in Nat /\ zero \in Int /\ no \in BOOLEAN /\ none \in Results /\ idle \in Steps
      /\ empty \in {"empty", "loading", "known"}
  BY DEF Results, Steps
<1>2. WorldOk
  <2>1. draft = [revision |-> zero, published |-> no]
    BY DEF RulesInit
  <2>2. draft \in [revision : Nat, published : BOOLEAN]
    <3> HIDE DEF zero, no
    <3>. QED  BY <1>1, <2>1
  <2>3. staffSince \in Int /\ (staffSince <= clock \/ staffSince = Never)
    BY RulesNumbers DEF RulesInit, Never
  <2>4. clock \in 0..ClockEnd /\ side \in [Report -> {"researcher", "organization", "none"}] /\ grade \in [Report -> Nat]
    BY RulesNumbers DEF RulesInit
  <2>. QED  BY <2>2, <2>3, <2>4 DEF WorldOk
<1>3. RolesOk
  <2>1. roles = [state |-> empty, clean |-> no, expires |-> zero]
    BY DEF RulesInit
  <2>2. roles \in [state : {"empty", "loading", "known"}, clean : BOOLEAN, expires : Int] /\ roles.state = empty
    <3> HIDE DEF empty, no, zero
    <3>. QED  BY <1>1, <2>1
  <2>. QED  BY <2>2 DEF RolesOk
<1>4. NoJob \in JobRecord
  <2>1. NoJob = [pc |-> idle, tool |-> none, report |-> NoReport, target |-> NoReport, number |-> zero, viewer |-> no,
                 began |-> zero, done |-> zero, result |-> none]
    BY DEF NoJob
  <2>2. JobRecord = [pc : Steps, tool : WriteTool \cup {"none"}, report : Report \cup {NoReport},
                     target : Report \cup {NoReport}, number : Nat, viewer : BOOLEAN, began : Int, done : Nat,
                     result : Results]
    BY DEF JobRecord, Steps, Results
  <2>3. none \in WriteTool \cup {"none"}
    OBVIOUS
  <2> HIDE DEF idle, none, no, zero
  <2>. QED  BY <1>1, <2>1, <2>2, <2>3
<1>5. NoJob.pc = "idle" /\ NoJob.tool = "none" /\ NoJob.result = "none" /\ NoJob.began = 0
  BY DEF NoJob
<1>6. JobOk(NoJob)
  <2>1. ~PastLook(NoJob) /\ NoJob.tool \notin RefusesStaff
    BY <1>5, ToolsApart DEF PastLook
  <2>2. NoJob.began <= clock
    BY <1>5, RulesNumbers DEF RulesInit
  <2>. QED  BY <1>4, <1>5, <2>1, <2>2 DEF JobOk
<1>7. JobsOk
  BY <1>6 DEF JobsOk, RulesInit
<1>8. MarkedAreTold
  <2>1. \A c \in Job : job[c].tool # "mark_notifications_read"
    BY <1>5 DEF RulesInit
  <2>2. marked = {}
    BY DEF RulesInit
  <2>. QED  BY <2>1, <2>2 DEF MarkedAreTold
<1>. QED  BY <1>2, <1>3, <1>7, <1>8 DEF RulesInv

\* ... and every step keeps it.
LEMMA RulesKeep == RulesInv /\ [RulesNext]_rulesVars => RulesInv'
<1> SUFFICES ASSUME RulesInv, [RulesNext]_rulesVars PROVE RulesInv'
  OBVIOUS
<1>1. CASE UNCHANGED rulesVars
  BY <1>1, WebsiteKeeps DEF rulesVars, world, RulesInv, WorldOk
<1>2. ASSUME NEW c \in Job, JobStep(c) PROVE RulesInv'
  BY <1>2, BeginKeeps, AskRolesKeeps, LookKeeps, ApprovedKeeps, SendKeeps, MarkNextKeeps DEF JobStep
<1>3. CASE \/ RolesLoaded \/ RolesFailed \/ ClockTick \/ BecomesStaff \/ DraftChanges
           \/ \E r \in Report : GradeReplaced(r)
  BY <1>3, RolesLoadedKeeps, RolesFailedKeeps, TimePasses, StaffKeeps, DraftKeeps, GradeKeeps
<1>. QED  BY <1>1, <1>2, <1>3 DEF RulesNext

\* So it holds throughout.
LEMMA RulesInvHolds == RulesSpec => []RulesInv
BY RulesStart, RulesKeep, PTL DEF RulesSpec

\* An organisation-side write of a staff account is not sent, unless the account
\* became staff while its roles were remembered or the call was running.
THEOREM StaffRefusedHolds == RulesSpec => []StaffRefused
<1>1. RulesInv => StaffRefused
  BY DEF RulesInv, JobsOk, JobOk, PastRoles, PastLook, StaffRefused
<1>. QED  BY <1>1, RulesInvHolds, PTL

\* A comment that lands is on the side it was meant for, and an appeal that lands
\* is about the report it names, but for a token that cannot tell the sides apart.
THEOREM RightSideHolds == RulesSpec => []RightSide
<1>1. ASSUME RulesInv, NEW c \in Job, job[c].result = "landed", ~Indistinct(job[c])
      PROVE  /\ job[c].tool \in Comments => side[job[c].report] = SideOf(job[c].tool)
             /\ job[c].tool = "raise_appeal" /\ "reports:read" \in granted => job[c].target = job[c].report
  <2> DEFINE j == job[c]
             s == SideOf(j.tool)
  <2>1. JobOk(j) /\ WorldOk /\ ReportCleared(j) /\ j.report \in Report
    BY <1>1 DEF RulesInv, JobsOk, JobOk, PastLook
  <2>2. ASSUME j.tool \in Comments PROVE side[j.report] = s
    <3>1. CommentCleared(j) /\ side[j.report] \in {"researcher", "organization"} /\ WriteScope(side[j.report]) \in granted
      BY <1>1, <2>1, <2>2 DEF JobOk, ReportCleared, WorldOk
    <3>2. s \in {"researcher", "organization"}
      BY DEF SideOf
    <3>3. CASE ReadScope(s) \in granted
      BY <1>1, <3>1, <3>2, <3>3 DEF CommentCleared, Readable, ReadScope, Indistinct
    <3>4. CASE ReadScope(s) \notin granted
      BY <3>1, <3>2, <3>4 DEF CommentCleared, WriteScope, OtherSide
    <3>. QED  BY <3>3, <3>4
  <2>. QED  BY <2>1, <2>2 DEF ReportCleared
<1>2. RulesInv => RightSide
  BY <1>1 DEF RightSide
<1>. QED  BY <1>2, RulesInvHolds, PTL

\* What mark_notifications_read says is marked is marked, and nothing it does not
\* speak of has been marked by it.
THEOREM MarkedAreToldHolds == RulesSpec => []MarkedAreTold
<1>1. RulesInv => MarkedAreTold
  BY DEF RulesInv
<1>. QED  BY <1>1, RulesInvHolds, PTL

-----------------------------------------------------------------------------
(* ApiFailures.  The key of a write is settled, or the call that used it   *)
(* is in doubt: it will be sent again, or has been told to check first.    *)
\* The user has been told to look before asking again, or the call will say so.
InDoubt ==
  \/ step = "wire" /\ doing = "write" /\ resends > 0
  \/ step = "told" /\ (told.advice = "check" \/ (told.advice = "nothing" /\ told.code \notin Corrected))

\* The inductive invariant: a key that is not settled belongs to a call in doubt.
FailuresInv ==
  /\ resends \in Nat
  /\ made = IF key = "used" \/ step = "over" THEN 1 ELSE 0
  /\ key \in {"running", "used"} => InDoubt

-----------------------------------------------------------------------------

\* The code of every answer that leaves a write in doubt but UPSTREAM_ERROR.
Unavailable == "UPSTREAM_UNAVAILABLE"

\* Two facts about the numbers of HTTP statuses.
LEMMA FineStatus ==
  ASSUME NEW r, r.status = 200
  PROVE  r.status # 401 /\ r.status # 429 /\ ~(r.status >= 500)
OBVIOUS

LEMMA FaultStatus ==
  ASSUME NEW r, r.status = 502 \/ r.status = 503
  PROVE  r.status # 200 /\ r.status # 401 /\ r.status # 429 /\ r.status >= 500
OBVIOUS

\* attempt: whatever is lost on the way is UPSTREAM_UNAVAILABLE ...
LEMMA LostIsUnavailable == ASSUME NEW r \in Lost PROVE attempt(r) = Failure(Unavailable)
<1>1. PICK why \in {"timeout", "unreachable"} :
        \/ r = [Fine EXCEPT !.fetch = why] \/ r = [Fine EXCEPT !.read = why]
        \/ r = [Fine EXCEPT !.status = 503, !.body = "no json"] \/ r = [Fine EXCEPT !.status = 502, !.data = FALSE]
  BY DEF Lost
<1>2. CASE r = [Fine EXCEPT !.fetch = why]
  <2>1. r.fetch = why
    BY <1>2 DEF Fine
  <2>. QED  BY <2>1 DEF attempt, NetworkError, Unavailable
<1>3. CASE r = [Fine EXCEPT !.read = why]
  <2>1. r.fetch = "answered" /\ r.status # 401 /\ r.declared = "fits" /\ r.read = why
    BY <1>3 DEF Fine
  <2>2. Unread(r) = why
    BY <2>1 DEF Unread
  <2>3. attempt(r) = NetworkError(why)
    BY <2>1, <2>2 DEF attempt
  <2>. QED  BY <2>3 DEF NetworkError, Unavailable
<1>4. CASE r = [Fine EXCEPT !.status = 503, !.body = "no json"]
  <2>1. r.fetch = "answered" /\ r.status = 503 /\ r.declared = "fits" /\ r.read = "whole" /\ r.body = "no json"
    BY <1>4 DEF Fine
  <2>0. Unread(r) = "no"
    BY <2>1 DEF Unread
  <2>a. r.status = 503
    BY <2>1
  <2>2. r.status # 401 /\ r.status # 429 /\ r.status >= 500
    BY <2>a, FaultStatus
  <2>3. attempt(r) = ByStatus(r)
    <3>1. r.fetch = "answered" /\ r.body = "no json" /\ Unread(r) = "no" /\ r.status # 401 /\ r.status # 429
      BY <2>0, <2>1, <2>2
    <3>. QED  BY ONLY <3>1 DEF attempt
  <2>. QED  BY <2>2, <2>3 DEF ByStatus, Unavailable
<1>5. CASE r = [Fine EXCEPT !.status = 502, !.data = FALSE]
  <2>1. r.fetch = "answered" /\ r.status = 502 /\ r.declared = "fits" /\ r.read = "whole" /\ r.body = "response"
        /\ r.errors = <<>>
    BY <1>5 DEF Fine
  <2>2. Unread(r) = "no" /\ r.status # 401 /\ r.status # 429 /\ r.status # 200 /\ r.status >= 500
    BY <2>1 DEF Unread
  <2>3. attempt(r) = ByStatus(r)
    <3>1. /\ r.fetch = "answered" /\ r.body # "no json" /\ r.body # "not a response" /\ Unread(r) = "no"
          /\ r.status # 401 /\ r.status # 429 /\ r.status # 200 /\ r.errors = <<>>
      BY <2>1, <2>2
    <3>. QED  BY ONLY <3>1 DEF attempt
  <2>. QED  BY <2>2, <2>3 DEF ByStatus, Unavailable
<1>. QED  BY <1>1, <1>2, <1>3, <1>4, <1>5

\* ... what came back and cannot be read is UPSTREAM_ERROR ...
LEMMA GarbledIsError == ASSUME NEW r \in Garbled PROVE attempt(r) = Failure("UPSTREAM_ERROR")
<1>1. PICK b \in {"no json", "not a response"} :
        \/ r = [Fine EXCEPT !.declared = "exceeds"] \/ r = [Fine EXCEPT !.read = "exceeds"]
        \/ r = [Fine EXCEPT !.data = FALSE] \/ r = [Fine EXCEPT !.body = b]
  BY DEF Garbled
<1>2. r.fetch = "answered" /\ r.status = 200
  <2>1. CASE r = [Fine EXCEPT !.declared = "exceeds"]
    BY <2>1 DEF Fine
  <2>2. CASE r = [Fine EXCEPT !.read = "exceeds"]
    BY <2>2 DEF Fine
  <2>3. CASE r = [Fine EXCEPT !.data = FALSE]
    BY <2>3 DEF Fine
  <2>4. CASE r = [Fine EXCEPT !.body = b]
    BY <2>4 DEF Fine
  <2>. QED  BY <1>1, <2>1, <2>2, <2>3, <2>4
<1>3. r.status # 401 /\ r.status # 429 /\ ~(r.status >= 500)
  BY <1>2, FineStatus
<1>4. CASE r = [Fine EXCEPT !.declared = "exceeds"] \/ r = [Fine EXCEPT !.read = "exceeds"]
  <2>1. r.declared = "exceeds" \/ r.read = "exceeds"
    BY <1>4 DEF Fine
  <2>2. Unread(r) = "too large"
    BY <2>1 DEF Unread
  <2>3. attempt(r) = NetworkError("too large")
    BY ONLY <1>2, <1>3, <2>2 DEF attempt
  <2>. QED  BY <2>3 DEF NetworkError
<1>5. CASE r = [Fine EXCEPT !.data = FALSE]
  <2>1. r.declared = "fits" /\ r.read = "whole" /\ r.body = "response" /\ r.errors = <<>> /\ r.data = FALSE
    BY <1>5 DEF Fine
  <2>2. Unread(r) = "no"
    BY <2>1 DEF Unread
  <2>3. attempt(r) = ByStatus(r)
    <3>1. /\ r.fetch = "answered" /\ r.body # "no json" /\ r.body # "not a response" /\ Unread(r) = "no"
          /\ r.status # 401 /\ r.status # 429 /\ r.errors = <<>> /\ ~r.data
      BY <1>2, <1>3, <2>1, <2>2
    <3>. QED  BY ONLY <3>1 DEF attempt
  <2>. QED  BY <1>3, <2>3 DEF ByStatus
<1>6. CASE r = [Fine EXCEPT !.body = b]
  <2>1. r.declared = "fits" /\ r.read = "whole" /\ r.body = b
    BY <1>6 DEF Fine
  <2>2. Unread(r) = "no"
    BY <2>1 DEF Unread
  <2>3. attempt(r) = Failure("UPSTREAM_ERROR") \/ attempt(r) = ByStatus(r)
    <3>1. /\ r.fetch = "answered" /\ r.body \in {"no json", "not a response"} /\ Unread(r) = "no"
          /\ r.status # 401 /\ r.status # 429
      BY <1>2, <1>3, <2>1, <2>2
    <3>. QED  BY ONLY <3>1 DEF attempt
  <2>. QED  BY <1>3, <2>3 DEF ByStatus
<1>. QED  BY <1>1, <1>4, <1>5, <1>6

\* ... and so is the API's own failure, which says so in a response.
LEMMA InternalIsUnavailable == attempt(Errors(<<Internal>>)).code = Unavailable
<1> DEFINE r == Errors(<<Internal>>)
<1>1. r.fetch = "answered" /\ r.status = 200 /\ Unread(r) = "no" /\ r.body = "response" /\ r.errors = <<Internal>>
  BY DEF Errors, Fine, Unread
<1>2. Internal.code = "INTERNAL_SERVER_ERROR" /\ Internal.about = "nothing"
  BY DEF Internal, Coded
<1>3. With(<<Internal>>, "UNAUTHENTICATED") = {}
  BY <1>2 DEF With
<1>4. \A rank \in DOMAIN PRIORITY : PRIORITY[rank] # "INTERNAL_SERVER_ERROR"
  BY DEF PRIORITY
<1>5. pick(<<Internal>>) = Internal
  <2>1. \A rank \in DOMAIN PRIORITY : With(<<Internal>>, PRIORITY[rank]) = {}
    BY <1>2, <1>4 DEF With
  <2>. QED  BY <2>1 DEF pick
<1>6. /\ "INTERNAL_SERVER_ERROR" \in DOMAIN ApiErrors
      /\ ApiErrors["INTERNAL_SERVER_ERROR"] = <<"UPSTREAM_UNAVAILABLE", "wait">>
  <2> DEFINE e == "INTERNAL_SERVER_ERROR"
  <2>1. e \notin DOMAIN AccessErrors /\ e \notin DOMAIN TermsErrors /\ e \notin DOMAIN Refusals
    BY DEF AccessErrors, TermsErrors, Refusals
  <2>2. e \notin DOMAIN ApprovalErrors /\ e \notin DOMAIN KeyErrors /\ e \notin DOMAIN LimitErrors
    BY DEF ApprovalErrors, KeyErrors, LimitErrors
  <2>3. e \in DOMAIN FaultErrors /\ FaultErrors[e] = <<"UPSTREAM_UNAVAILABLE", "wait">>
    BY DEF FaultErrors
  <2> HIDE DEF e
  <2>4. \A table \in Tables : e \in DOMAIN table <=> table = FaultErrors
    BY <2>1, <2>2, <2>3 DEF Tables
  <2>5. FaultErrors \in Tables
    BY DEF Tables
  <2>6. e \in UNION {DOMAIN table : table \in Tables} /\ (CHOOSE table \in Tables : e \in DOMAIN table) = FaultErrors
    BY <2>3, <2>4, <2>5
  <2>7. e \in DOMAIN ApiErrors /\ ApiErrors[e] = FaultErrors[e]
    BY <2>6 DEF ApiErrors
  <2>. QED  BY <2>3, <2>7 DEF e
<1>7. mapGraphQLErrors(<<Internal>>).code = "UPSTREAM_UNAVAILABLE"
  BY <1>2, <1>5, <1>6 DEF mapGraphQLErrors
<1>8. attempt(r) = mapGraphQLErrors(<<Internal>>)
  <2>1. r.status # 401 /\ r.status # 429
    BY <1>1, FineStatus
  <2>2. <<Internal>> # <<>>
    OBVIOUS
  <2>3. r.body # "no json" /\ r.body # "not a response"
    BY <1>1
  <2> HIDE DEF r
  <2>4. attempt(r) = IF With(r.errors, "UNAUTHENTICATED") # {} THEN REJECTED ELSE mapGraphQLErrors(r.errors)
    BY <1>1, <2>1, <2>2, <2>3 DEF attempt
  <2>. QED  BY <1>1, <1>3, <2>4
<1>. QED  BY <1>7, <1>8 DEF Unavailable

\* So these are all the answers to a write that was made.
LEMMA DoneAnswers ==
  ASSUME NEW f \in Done
  PROVE  f = Data \/ f.code = Unavailable \/ f = Failure("UPSTREAM_ERROR")
<1>1. PICK r \in {Fine, Errors(<<Internal>>)} \cup Lost \cup Garbled : f = attempt(r)
  BY DEF Done
<1>2. CASE r = Fine
  <2>1. r.fetch = "answered" /\ r.status = 200 /\ r.errors = <<>> /\ r.data /\ r.body = "response" /\ Unread(r) = "no"
    BY <1>2 DEF Fine, Unread
  <2>2. r.status # 401 /\ r.status # 429
    BY <2>1, FineStatus
  <2>3. attempt(r) = Data
    BY <2>1, <2>2 DEF attempt
  <2>. QED  BY <1>1, <2>3
<1>. QED  BY <1>1, <1>2, LostIsUnavailable, GarbledIsError, InternalIsUnavailable DEF Failure

\* And this the one to a write nobody has heard of.
LEMMA UnheardAnswers == ASSUME NEW f \in Unheard PROVE f.code = Unavailable
BY LostIsUnavailable DEF Unheard, Failure

-----------------------------------------------------------------------------

\* What advice the answers without a code of their own carry.
LEMMA NothingToDo ==
  \A code \in {"ok", "not understood", "UPSTREAM_ERROR"} : AdviceOf(Failure(code)) = {"nothing"} /\ code \notin Corrected
BY DEF AdviceOf, Failure, AdviceByCode, Corrected

\* outcomeUnknown says to check first.
LEMMA UnknownSaysCheck == ASSUME NEW f PROVE AdviceOf(outcomeUnknown(f)) = {"check"}
BY DEF AdviceOf, outcomeUnknown, Failure

\* The answers told apart here differ.
LEMMA KindsApart == Data # REJECTED /\ Data.code # Unavailable /\ REJECTED.code # Unavailable
BY DEF Data, REJECTED, Failure, Unavailable

\* A failed write that may have been made is sent again or said to be in doubt.
LEMMA Cautious ==
  ASSUME doing = "write", resends \in Nat, NEW f, Fails(f),
         resends > 0 \/ f.code = Unavailable \/ f = Failure("UPSTREAM_ERROR"), step = "wire"
  PROVE  InDoubt' /\ resends' \in Nat /\ step' # "over"
<1>1. CASE Resend
  BY <1>1 DEF Resend, InDoubt
<1>2. CASE AnswerWith(outcomeUnknown(f))
  BY <1>2, UnknownSaysCheck DEF AnswerWith, InDoubt
<1>3. CASE f = Failure("UPSTREAM_ERROR") /\ AnswerWith(f)
  <2>1. f.code = "UPSTREAM_ERROR" /\ f.code \notin Corrected /\ AdviceOf(f) = {"nothing"}
    BY <1>3, NothingToDo DEF Failure
  <2>2. told' = [code |-> f.code, advice |-> "nothing"] /\ step' = "told" /\ resends' = 0
    BY <1>3, <2>1 DEF AnswerWith
  <2>3. told'.code \notin Corrected /\ told'.advice = "nothing"
    BY <2>1, <2>2
  <2>. QED  BY <2>2, <2>3 DEF InDoubt, Corrected
<1>4. f = Failure("UPSTREAM_ERROR") => f.code # Unavailable
  BY DEF Failure, Unavailable
<1>. QED  BY <1>1, <1>2, <1>3, <1>4 DEF Fails, Unavailable

\* A write answered with data ends its call.
LEMMA SuccessTold ==
  ASSUME doing = "write", Succeeds
  PROVE  InDoubt' /\ resends' \in Nat /\ step' = "told"
<1>1. PICK code \in {"ok", "not understood"} : AnswerWith(Failure(code))
  BY DEF Succeeds
<1>2. code \notin Corrected /\ AdviceOf(Failure(code)) = {"nothing"} /\ Failure(code).code = code
  BY NothingToDo DEF Failure
<1>3. told' = [code |-> code, advice |-> "nothing"] /\ step' = "told" /\ resends' = 0
  BY <1>1, <1>2 DEF AnswerWith
<1>4. told'.code \notin Corrected /\ told'.advice = "nothing"
  BY <1>2, <1>3
<1>. QED  BY <1>3, <1>4 DEF InDoubt, Corrected

\* So an answer to a write that may have been made leaves it made or in doubt.
LEMMA HandledCautiously ==
  ASSUME step = "wire", doing = "write", resends \in Nat, NEW f, Handle(f),
         resends > 0 \/ f = Data \/ f.code = Unavailable \/ f = Failure("UPSTREAM_ERROR")
  PROVE  InDoubt' /\ resends' \in Nat /\ step' # "over"
<1>1. CASE f = Data
  BY <1>1, SuccessTold DEF Handle
<1>2. CASE f = REJECTED
  <2>1. resends > 0
    BY <1>2, KindsApart DEF REJECTED, Failure
  <2>2. CASE \E g : Fails(g)
    BY <2>1, <2>2, Cautious
  <2>3. CASE UNCHANGED <<step, doing, resends, told>>
    BY <2>1, <2>3 DEF InDoubt
  <2>. QED  BY <1>2, <2>2, <2>3, KindsApart DEF Handle
<1>3. CASE f # Data /\ f # REJECTED
  BY <1>3, Cautious DEF Handle
<1>. QED  BY <1>1, <1>2, <1>3

\* A failure never ends the user's part ...
LEMMA FailsGoesOn ==
  ASSUME resends \in Nat, step = "wire", NEW f, Fails(f) PROVE resends' \in Nat /\ step' # "over"
BY DEF Fails, AnswerWith, Resend

\* ... nor does any other answer.
LEMMA HandleGoesOn ==
  ASSUME resends \in Nat, step = "wire", NEW f, Handle(f) PROVE resends' \in Nat /\ step' # "over"
<1>1. ASSUME Succeeds PROVE resends' \in Nat /\ step' # "over"
  <2>1. \/ \E g : AnswerWith(g)
        \/ step' = "asked" /\ UNCHANGED <<doing, trial, resends, told>>
        \/ \E what : Request(what)
    BY <1>1 DEF Succeeds
  <2>. QED  BY <2>1 DEF AnswerWith, Request
<1>. QED  BY <1>1, FailsGoesOn DEF Handle

-----------------------------------------------------------------------------

\* A request that does not reach the API.
LEMMA NotSentKeeps == FailuresInv /\ NotSent => FailuresInv'
<1> SUFFICES ASSUME FailuresInv, NotSent PROVE FailuresInv'
  OBVIOUS
<1>1. step = "wire" /\ resends \in Nat /\ key' = key /\ made' = made
  BY DEF NotSent, OnWire, FailuresInv
<1>2. resends' \in Nat /\ step' # "over"
  BY <1>1, FailsGoesOn DEF NotSent, AnswerWith
<1>3. ASSUME key \in {"running", "used"} PROVE InDoubt'
  <2>1. doing = "write" /\ resends > 0
    BY <1>1, <1>3 DEF FailuresInv, InDoubt
  <2>2. PICK f \in NoToken : Fails(f)
    BY <1>1, <2>1 DEF NotSent
  <2>. QED  BY <1>1, <2>1, <2>2, Cautious
<1>. QED  BY <1>1, <1>2, <1>3 DEF FailuresInv

\* A read answered, or a request refused before anything is made.
LEMMA AnswerKeepsFailures == FailuresInv /\ (ReadsAnswered \/ RequestRefused) => FailuresInv'
<1> SUFFICES ASSUME FailuresInv, ReadsAnswered \/ RequestRefused PROVE FailuresInv'
  OBVIOUS
<1>1. step = "wire" /\ resends \in Nat /\ key' = key /\ made' = made /\ \E f : Handle(f)
  BY DEF ReadsAnswered, RequestRefused, OnWire, FailuresInv
<1>2. resends' \in Nat /\ step' # "over"
  BY <1>1, HandleGoesOn
<1>3. ASSUME key \in {"running", "used"} PROVE InDoubt'
  BY <1>1, <1>3, HandledCautiously DEF FailuresInv, InDoubt
<1>. QED  BY <1>1, <1>2, <1>3 DEF FailuresInv

\* A key registered, now or before.
LEMMA RegisteredKeeps == FailuresInv /\ (Registered \/ RegisteredBefore) => FailuresInv'
<1> SUFFICES ASSUME FailuresInv, Registered \/ RegisteredBefore PROVE FailuresInv'
  OBVIOUS
<1>1. step = "wire" /\ doing = "register" /\ resends \in Nat /\ key' = "pending" /\ made' = made /\ \E f : Handle(f)
  BY DEF Registered, RegisteredBefore, OnWire, FailuresInv
<1>2. resends' \in Nat /\ step' # "over"
  BY <1>1, HandleGoesOn
<1>3. key # "used"
  BY <1>1 DEF FailuresInv, InDoubt
<1>. QED  BY <1>1, <1>2, <1>3 DEF FailuresInv

\* A write made, now or before.
LEMMA WrittenKeeps == FailuresInv /\ (Written \/ WrittenBefore) => FailuresInv'
<1> SUFFICES ASSUME FailuresInv, Written \/ WrittenBefore PROVE FailuresInv'
  OBVIOUS
<1>1. step = "wire" /\ doing = "write" /\ resends \in Nat /\ key' = "used" /\ made' = 1
  BY DEF Written, WrittenBefore, OnWire, FailuresInv
<1>2. PICK f \in Done : Handle(f)
  BY DEF Written, WrittenBefore
<1>. QED  BY <1>1, <1>2, DoneAnswers, HandledCautiously DEF FailuresInv

\* A write that goes on after its client has given up.
LEMMA RunsOnKeeps == FailuresInv /\ WriteRunsOn => FailuresInv'
<1> SUFFICES ASSUME FailuresInv, WriteRunsOn PROVE FailuresInv'
  OBVIOUS
<1>1. step = "wire" /\ doing = "write" /\ resends \in Nat /\ key' = "running" /\ made' = 0
  BY DEF WriteRunsOn, OnWire, FailuresInv
<1>2. PICK f \in Unheard : Handle(f)
  BY DEF WriteRunsOn
<1>. QED  BY <1>1, <1>2, UnheardAnswers, HandledCautiously DEF FailuresInv

\* A second attempt while the first is being made.
LEMMA RunningKeeps == FailuresInv /\ WriteRunning => FailuresInv'
<1> SUFFICES ASSUME FailuresInv, WriteRunning PROVE FailuresInv'
  OBVIOUS
<1>1. step = "wire" /\ doing = "write" /\ resends \in Nat /\ resends > 0 /\ key' = "running" /\ made' = 0
  BY DEF WriteRunning, OnWire, FailuresInv, InDoubt
<1>2. PICK f : Handle(f)
  BY DEF WriteRunning
<1>. QED  BY <1>1, <1>2, HandledCautiously DEF FailuresInv

\* What the API does by itself.
LEMMA ApiStepsKeep == FailuresInv /\ (Ends \/ ApprovalExpires) => FailuresInv'
BY DEF FailuresInv, InDoubt, Corrected, Ends, ApprovalExpires

\* What the user does: a call made again comes after advice that allows it.
LEMMA UserStepsKeep ==
  FailuresInv /\ (Approves \/ FoundExpired \/ CallAgain \/ CorrectAndCall \/ CheckFirst \/ DoneOnTheWebsite)
    => FailuresInv'
<1> SUFFICES ASSUME FailuresInv PROVE
      /\ Approves \/ FoundExpired => FailuresInv'
      /\ CallAgain \/ CorrectAndCall \/ CheckFirst \/ DoneOnTheWebsite => FailuresInv'
  OBVIOUS
<1>1. Approves \/ FoundExpired => FailuresInv'
  BY DEF FailuresInv, InDoubt, Approves, FoundExpired, Request, AnswerWith
<1>2. ASSUME CallAgain PROVE FailuresInv'
  <2>1. "check" \notin CallsAgain /\ "nothing" \notin CallsAgain
    BY DEF CallsAgain
  <2>2. ~InDoubt /\ step # "over"
    BY <1>2, <2>1 DEF InDoubt, CallAgain
  <2>. QED  BY <1>2, <2>2 DEF FailuresInv, CallAgain, Request
<1>3. CorrectAndCall => FailuresInv'
  BY DEF FailuresInv, InDoubt, CorrectAndCall, Request
<1>4. CheckFirst => FailuresInv'
  BY DEF FailuresInv, InDoubt, CheckFirst, Request
<1>5. DoneOnTheWebsite => FailuresInv'
  BY DEF FailuresInv, InDoubt, DoneOnTheWebsite
<1>. QED  BY <1>1, <1>2, <1>3, <1>4, <1>5

\* However often the user calls again on the advice given, a write is made at
\* most once: every answer to a write that may have been made says to check.
THEOREM MadeOnceHolds == FailuresSpec => []MadeOnce
<1>1. FailuresInit => FailuresInv
  BY DEF FailuresInit, FailuresInv
<1>2. FailuresInv /\ [FailuresNext]_failureVars => FailuresInv'
  <2>1. FailuresInv /\ UNCHANGED failureVars => FailuresInv'
    BY DEF FailuresInv, InDoubt, failureVars
  <2>. QED  BY <2>1, NotSentKeeps, AnswerKeepsFailures, RegisteredKeeps, WrittenKeeps, RunsOnKeeps, RunningKeeps, ApiStepsKeep,
              UserStepsKeep DEF FailuresNext
<1>3. FailuresInv => MadeOnce
  BY DEF FailuresInv, MadeOnce
<1>. QED  BY <1>1, <1>2, <1>3, PTL DEF FailuresSpec

-----------------------------------------------------------------------------
(* ReadTools *)

LEMMA PlaceBasics ==
  ASSUME NEW n \in Nat, NEW kept \in SUBSET (1..n)
  PROVE  /\ IsFiniteSet(kept) /\ Cardinality(kept) \in Nat
         /\ \A i \in kept : Place(kept, i) \in 1..i /\ Place(kept, i) <= Cardinality(kept)
<1>1. /\ IsFiniteSet(1..n)
      /\ IsFiniteSet(kept) /\ Cardinality(kept) \in Nat
  <2>1. 1 \in Int /\ n \in Int
    OBVIOUS
  <2>2. IsFiniteSet(1..n)
    BY <2>1, FS_Interval
  <2>3. IsFiniteSet(kept)
    BY <2>2, FS_Subset
  <2> QED BY <2>2, <2>3, FS_CardinalityType
<1>2. ASSUME NEW i \in kept
      PROVE  Place(kept, i) \in 1..i /\ Place(kept, i) <= Cardinality(kept)
  <2> DEFINE S == {j \in kept : j <= i}
  <2>1. S \in SUBSET kept /\ i \in Nat
    OBVIOUS
  <2>2. IsFiniteSet(S) /\ Cardinality(S) <= Cardinality(kept) /\ Cardinality(S) \in Nat
    BY <1>1, <2>1, FS_Subset, FS_CardinalityType
  <2>3. S # {}
    BY <2>1
  <2>4. Cardinality(S) # 0
    BY <2>2, <2>3, FS_EmptySet
  <2>5. S \in SUBSET (1..i)
    <3>1. \A j \in kept : j \in Nat /\ 1 <= j
      OBVIOUS
    <3>2. \A x \in S : x \in 1..i
      BY <2>1, <3>1
    <3> HIDE DEF S
    <3> QED BY <3>2
  <2>6. IsFiniteSet(1..i) /\ Cardinality(1..i) = i
    BY <2>1, FS_Interval
  <2>7. Cardinality(S) <= i
    BY <2>5, <2>6, FS_Subset
  <2>8. Place(kept, i) = Cardinality(S)
    BY DEF Place
  <2> HIDE DEF S
  <2> QED BY <2>1, <2>2, <2>4, <2>7, <2>8
<1> QED BY <1>1, <1>2

LEMMA PlaceOfAll ==
  ASSUME NEW n \in Nat, NEW i \in 1..n
  PROVE  Place(1..n, i) = i
<1>1. {j \in 1..n : j <= i} = 1..i
  OBVIOUS
<1>2. Cardinality(1..i) = i
  BY FS_Interval
<1> QED BY <1>1, <1>2 DEF Place

LEMMA PlaceOrder ==
  ASSUME NEW n \in Nat, NEW kept \in SUBSET (1..n), NEW i \in kept, NEW j \in kept, i < j
  PROVE  Place(kept, i) < Place(kept, j)
<1> DEFINE S == {k \in kept : k <= i}  T == {k \in kept : k <= j}
<1>1. IsFiniteSet(kept)
  BY PlaceBasics
<1>2. S \in SUBSET kept /\ T \in SUBSET kept /\ i \in Nat /\ j \in Nat
  OBVIOUS
<1>3. IsFiniteSet(S) /\ IsFiniteSet(T)
  BY <1>1, <1>2, FS_Subset
<1>4. j \notin S /\ S \cup {j} \in SUBSET T
  <2>1. \A k \in kept : k \in Nat
    OBVIOUS
  <2>2. j \notin S
    BY <1>2
  <2>3. \A k \in S : k \in T
    BY <1>2, <2>1
  <2>4. j \in T
    BY <1>2
  <2> HIDE DEF S, T
  <2> QED BY <2>2, <2>3, <2>4
<1>5. Place(kept, i) = Cardinality(S) /\ Place(kept, j) = Cardinality(T)
  BY DEF Place
<1> HIDE DEF S, T
<1>6. Cardinality(S \cup {j}) = Cardinality(S) + 1
  BY <1>3, <1>4, FS_AddElement
<1>7. Cardinality(S \cup {j}) <= Cardinality(T)
  BY <1>3, <1>4, FS_Subset
<1>8. Cardinality(S) \in Nat /\ Cardinality(T) \in Nat
  BY <1>3, FS_CardinalityType
<1> QED BY <1>5, <1>6, <1>7, <1>8

\* Where place j of a list is when a row comes in at i.
Up(i, j) == IF j < i THEN j ELSE j + 1

LEMMA UpOrder ==
  ASSUME NEW i \in Nat, NEW j \in Nat, NEW k \in Nat
  PROVE  /\ Up(i, j) \in Nat /\ Up(i, j) # i
         /\ (Up(i, j) = Up(i, k) => j = k) /\ (Up(i, j) <= Up(i, k) <=> j <= k)
BY DEF Up

LEMMA PlaceWhenAdded ==
  ASSUME NEW n \in Nat, NEW kept \in SUBSET (1..n), NEW i \in 1..(n + 1),
         NEW more \in SUBSET (1..(n + 1)), \A j \in kept : Up(i, j) \in more,
         NEW j \in kept
  PROVE  Place(kept, j) <= Place(more, Up(i, j))
<1> DEFINE S == {k \in kept : k <= j}
           T == {k \in more : k <= Up(i, j)}
           f == [k \in S |-> Up(i, k)]
<1>1. IsFiniteSet(more)
  <2>1. n + 1 \in Nat
    OBVIOUS
  <2> QED BY <2>1, PlaceBasics
<1>2. T \in SUBSET more
  OBVIOUS
<1>3. IsFiniteSet(T)
  BY <1>1, <1>2, FS_Subset
<1>4. i \in Nat /\ j \in Nat /\ \A k \in S : k \in Nat
  OBVIOUS
<1>5. ASSUME NEW k \in S PROVE Up(i, k) \in T
  BY <1>4, UpOrder
<1>6. f \in [S -> T] /\ \A k, m \in S : f[k] = f[m] => k = m
  <2> HIDE DEF S, T
  <2> QED BY <1>4, <1>5, UpOrder
<1>7. f \in Injection(S, T)
  BY <1>6 DEF Injection, IsInjective
<1>8. Place(kept, j) = Cardinality(S) /\ Place(more, Up(i, j)) = Cardinality(T)
  BY DEF Place
<1> HIDE DEF S, T, f
<1> QED BY <1>3, <1>7, <1>8, FS_Injection

LEMMA PlaceWhenGone ==
  ASSUME NEW n \in Nat, NEW kept \in SUBSET (1..(n + 1)), NEW i \in 1..(n + 1),
         NEW less \in SUBSET (1..n), \A k \in 1..n : Up(i, k) \in kept => k \in less,
         NEW j \in less, Up(i, j) \in kept
  PROVE  Place(kept, Up(i, j)) <= Place(less, j) + 1
<1> DEFINE S == {k \in kept : k <= Up(i, j)} \ {i}
           T == {k \in less : k <= j}
           Down(k) == IF k < i THEN k ELSE k - 1
           f == [k \in S |-> Down(k)]
<1>1. IsFiniteSet(less) /\ IsFiniteSet(kept)
  <2>1. n + 1 \in Nat
    OBVIOUS
  <2> QED BY <2>1, PlaceBasics
<1>2. T \in SUBSET less /\ S \in SUBSET kept /\ {k \in kept : k <= Up(i, j)} \in SUBSET (S \cup {i})
  OBVIOUS
<1>3. IsFiniteSet(T) /\ IsFiniteSet(S)
  BY <1>1, <1>2, FS_Subset
<1>4. ASSUME NEW k \in S
      PROVE  Down(k) \in 1..n /\ Up(i, Down(k)) = k /\ Down(k) \in T
  <2>1. Down(k) \in 1..n /\ Up(i, Down(k)) = k
    BY DEF Up
  <2>2. k \in kept /\ k <= Up(i, j) /\ i \in Nat /\ j \in Nat
    OBVIOUS
  <2> DEFINE d == Down(k)
  <2>3. d \in 1..n /\ Up(i, d) = k
    BY <2>1
  <2> HIDE DEF d
  <2>4. d <= j /\ d \in less
    BY <2>2, <2>3, UpOrder
  <2>5. d \in T
    BY <2>4
  <2> QED BY <2>1, <2>5 DEF d
<1>5. f \in [S -> T] /\ \A k, m \in S : f[k] = f[m] => k = m
  <2> HIDE DEF S, T, Down
  <2> QED BY <1>4
<1>6. f \in Injection(S, T)
  BY <1>5 DEF Injection, IsInjective
<1>7. Place(kept, Up(i, j)) = Cardinality({k \in kept : k <= Up(i, j)}) /\ Place(less, j) = Cardinality(T)
  BY DEF Place
<1> HIDE DEF S, T, f, Down
<1>8. Cardinality(S) <= Cardinality(T)
  BY <1>3, <1>6, FS_Injection
<1>9. IsFiniteSet(S \cup {i}) /\ Cardinality(S \cup {i}) <= Cardinality(S) + 1
  <2>1. Cardinality(S) \in Nat
    BY <1>3, FS_CardinalityType
  <2>2. IsFiniteSet(S \cup {i}) /\ Cardinality(S \cup {i}) = IF i \in S THEN Cardinality(S) ELSE Cardinality(S) + 1
    BY <1>3, FS_AddElement
  <2> QED BY <2>1, <2>2
<1>10. Cardinality({k \in kept : k <= Up(i, j)}) <= Cardinality(S \cup {i})
  BY <1>2, <1>9, FS_Subset
<1>11. /\ Cardinality(S) \in Nat /\ Cardinality(T) \in Nat /\ Cardinality(S \cup {i}) \in Nat
       /\ Cardinality({k \in kept : k <= Up(i, j)}) \in Nat
  BY <1>2, <1>3, <1>9, FS_CardinalityType, FS_Subset
<1> QED BY <1>7, <1>8, <1>9, <1>10, <1>11

\* A sequence with a row more or less, place by place.
LEMMA InsertedAt ==
  ASSUME NEW s \in Seq(Row), NEW i \in 1..(Len(s) + 1), NEW r \in Row
  PROVE  /\ InsertAt(s, i, r) \in Seq(Row) /\ Len(InsertAt(s, i, r)) = Len(s) + 1
         /\ \A j \in 1..Len(s) : InsertAt(s, i, r)[Up(i, j)] = s[j]
         /\ InsertAt(s, i, r)[i] = r
<1> DEFINE a == SubSeq(s, 1, i - 1)  b == SubSeq(s, i, Len(s))
<1>1. a \in Seq(Row) /\ Len(a) = i - 1 /\ \A k \in 1..(i - 1) : a[k] = s[k]
  OBVIOUS
<1>2. b \in Seq(Row) /\ Len(b) = Len(s) - i + 1 /\ \A k \in 1..(Len(s) - i + 1) : b[k] = s[i + k - 1]
  OBVIOUS
<1>3. InsertAt(s, i, r) = a \o <<r>> \o b
  BY DEF InsertAt
<1> HIDE DEF a, b
<1>4. a \o <<r>> \o b \in Seq(Row) /\ Len(a \o <<r>> \o b) = Len(s) + 1
  <2>1. <<r>> \in Seq(Row) /\ Len(<<r>>) = 1 /\ Len(s) \in Nat /\ i \in Int
    OBVIOUS
  <2>2. a \o <<r>> \in Seq(Row) /\ Len(a \o <<r>>) = Len(a) + 1
    BY <1>1, <2>1
  <2> DEFINE c == a \o <<r>>
  <2>3. c \in Seq(Row) /\ Len(c) = i
    BY <1>1, <2>1, <2>2
  <2> HIDE DEF c
  <2>4. c \o b \in Seq(Row) /\ Len(c \o b) = Len(c) + Len(b)
    <3>1. c \in Seq(Row) /\ b \in Seq(Row)
      BY <1>2, <2>3
    <3> QED BY <3>1
  <2>5. Len(c \o b) = Len(s) + 1
    BY <1>2, <2>1, <2>3, <2>4
  <2> QED BY <2>4, <2>5 DEF c
<1>5. (a \o <<r>> \o b)[i] = r
  BY <1>1, <1>2
<1>6. ASSUME NEW j \in 1..Len(s)
      PROVE  (a \o <<r>> \o b)[Up(i, j)] = s[j]
  <2>1. CASE j < i
    BY <2>1, <1>1, <1>2 DEF Up
  <2>2. CASE j >= i
    BY <2>2, <1>1, <1>2 DEF Up
  <2>3. i \in Int /\ j \in Int
    OBVIOUS
  <2>4. j < i \/ j >= i
    BY ONLY <2>3
  <2> QED BY <2>1, <2>2, <2>4, Zenon
<1> QED BY <1>3, <1>4, <1>5, <1>6

LEMMA RemovedAt ==
  ASSUME NEW s \in Seq(Row), NEW i \in 1..Len(s)
  PROVE  /\ RemoveAt(s, i) \in Seq(Row) /\ Len(RemoveAt(s, i)) = Len(s) - 1
         /\ \A j \in 1..(Len(s) - 1) : RemoveAt(s, i)[j] = s[Up(i, j)]
<1> DEFINE a == SubSeq(s, 1, i - 1)  b == SubSeq(s, i + 1, Len(s))
<1>1. a \in Seq(Row) /\ Len(a) = i - 1 /\ \A k \in 1..(i - 1) : a[k] = s[k]
  OBVIOUS
<1>2. b \in Seq(Row) /\ Len(b) = Len(s) - i /\ \A k \in 1..(Len(s) - i) : b[k] = s[i + k]
  OBVIOUS
<1>3. RemoveAt(s, i) = a \o b
  BY DEF RemoveAt
<1> HIDE DEF a, b
<1>4. a \o b \in Seq(Row) /\ Len(a \o b) = Len(s) - 1
  <2>1. a \o b \in Seq(Row) /\ Len(a \o b) = Len(a) + Len(b)
    <3>1. a \in Seq(Row) /\ b \in Seq(Row)
      BY <1>1, <1>2
    <3> QED BY <3>1
  <2>2. Len(s) \in Nat /\ i \in Int
    OBVIOUS
  <2> QED BY <1>1, <1>2, <2>1, <2>2
<1>5. ASSUME NEW j \in 1..(Len(s) - 1)
      PROVE  (a \o b)[j] = s[Up(i, j)]
  <2>1. CASE j < i
    BY <2>1, <1>1, <1>2 DEF Up
  <2>2. CASE j >= i
    BY <2>2, <1>1, <1>2 DEF Up
  <2>3. i \in Int /\ j \in Int
    OBVIOUS
  <2>4. j < i \/ j >= i
    BY ONLY <2>3
  <2> QED BY <2>1, <2>2, <2>4, Zenon
<1> QED BY <1>3, <1>4, <1>5

\* The rows of a slice.
LEMMA SliceRows ==
  ASSUME NEW s \in Seq(Row), NEW from \in Nat, NEW to \in Nat
  PROVE  /\ \A r : r \in Rows(Slice(s, from, to)) <=> \E i \in 1..Len(s) : from < i /\ i <= to /\ r = s[i]
         /\ Len(Slice(s, from, to)) < to - from => Len(s) <= to
         /\ Len(Slice(s, from, to)) \in Nat
<1> DEFINE m == Least(to, Len(s))
<1>1. m \in Nat /\ m <= to /\ m <= Len(s) /\ (m = to \/ m = Len(s))
  BY DEF Least
<1>2. Slice(s, from, to) = SubSeq(s, from + 1, m)
  BY DEF Slice
<1> HIDE DEF m
<1>3. CASE from < m
  <2>1. Len(SubSeq(s, from + 1, m)) = m - from
    BY <1>1, <1>3
  <2>2. \A k \in 1..(m - from) : SubSeq(s, from + 1, m)[k] = s[from + k]
    BY <1>1, <1>3
  <2>3. DOMAIN SubSeq(s, from + 1, m) = 1..(m - from)
    BY <1>1, <1>3
  <2>4. ASSUME NEW i \in 1..Len(s), from < i, i <= to
        PROVE  s[i] \in Rows(Slice(s, from, to))
    <3>1. i - from \in 1..(m - from) /\ s[i] = SubSeq(s, from + 1, m)[i - from]
      BY <1>1, <1>3, <2>2, <2>4
    <3> QED BY <1>2, <2>3, <3>1 DEF Rows, ToSet
  <2>5. ASSUME NEW r \in Rows(Slice(s, from, to))
        PROVE  \E i \in 1..Len(s) : from < i /\ i <= to /\ r = s[i]
    <3>1. PICK k \in 1..(m - from) : r = SubSeq(s, from + 1, m)[k]
      BY <1>2, <2>3 DEF Rows, ToSet
    <3>2. from + k \in 1..Len(s) /\ from < from + k /\ from + k <= to /\ r = s[from + k]
      BY <1>1, <1>3, <2>2, <3>1
    <3> QED BY <3>2
  <2> QED BY <1>1, <1>2, <1>3, <2>1, <2>4, <2>5
<1>4. CASE ~(from < m)
  <2>1. SubSeq(s, from + 1, m) = << >>
    BY <1>1, <1>4
  <2>2. Rows(Slice(s, from, to)) = {}
    <3>1. \A i : i \notin DOMAIN << >>
      OBVIOUS
    <3> QED BY <1>2, <2>1, <3>1 DEF Rows, ToSet
  <2> QED BY <1>1, <1>2, <1>4, <2>1, <2>2
<1> QED BY <1>3, <1>4

-----------------------------------------------------------------------------

\* Rows before the next page that should have been shown.
Missing(l) == RowsAt(l, Passed(l)) \cap Owed(l)
FiniteMissing == \A l \in List : IsFiniteSet(Missing(l))

LEMMA CountedPlaces ==
  ASSUME ReadTypeOK, NEW l \in List
  PROVE  /\ Len(lists[l]) \in Nat /\ DOMAIN lists[l] = 1..Len(lists[l]) /\ lists[l] \in Seq(Row)
         /\ Counted(l) \in SUBSET (1..Len(lists[l])) /\ Cardinality(Counted(l)) \in Nat
         /\ \A i \in Counted(l) : Place(Counted(l), i) \in 1..i /\ Place(Counted(l), i) <= Cardinality(Counted(l))
<1>1. Len(lists[l]) \in Nat /\ DOMAIN lists[l] = 1..Len(lists[l]) /\ lists[l] \in Seq(Row)
  BY DEF ReadTypeOK
<1>2. Counted(l) \in SUBSET (1..Len(lists[l]))
  BY <1>1 DEF Counted
<1> QED BY <1>1, <1>2, PlaceBasics

\* A page that shows the counted rows up to upto, or all there are.
LEMMA PageKeepsInv ==
  ASSUME ReadInv, FiniteMissing, Reading, UNCHANGED <<asked, lists, atFirst, gone, changes>>,
         NEW upto \in Nat, NEW next, Go(next),
         next # NoMore => next = upto,
         next = NoMore => \A l \in List : Cardinality(Counted(l)) <= upto,
         shown' \in [List -> SUBSET Row],
         \A l \in List : shown[l] \subseteq shown'[l],
         \A l \in List : \A i \in Counted(l) :
           at < Place(Counted(l), i) /\ Place(Counted(l), i) <= upto /\ lists[l][i].wanted
             => lists[l][i] \in shown'[l],
         \A l \in List : \A r \in shown'[l] : r.wanted /\ asked.rightSide
  PROVE  ReadInv' /\ FiniteMissing'
<1> DEFINE UpTo(l) == {r \in Owed(l)' : \E i \in Counted(l) : Place(Counted(l), i) <= upto /\ r = lists[l][i]}
<1>1. ReadTypeOK /\ RowsRight /\ ended = "no" /\ at \in Nat
  BY DEF ReadInv, ReadTypeOK, Reading
<1>2. /\ asked' = asked /\ lists' = lists /\ atFirst' = atFirst /\ gone' = gone /\ changes' = changes
      /\ \A l : Counted(l)' = Counted(l)
  BY DEF Counted
<1>3. ASSUME NEW l \in List
      PROVE  UpTo(l) \in SUBSET Missing(l)
  <2> SUFFICES ASSUME NEW r \in UpTo(l) PROVE r \in Missing(l)
    OBVIOUS
  <2>1. PICK i \in Counted(l) : Place(Counted(l), i) <= upto /\ r = lists[l][i]
    OBVIOUS
  <2>2. r \in Owed(l) /\ r \notin shown'[l] /\ r.wanted
    BY <1>2 DEF Owed
  <2>3. ~(at < Place(Counted(l), i))
    BY <2>1, <2>2
  <2>4. Place(Counted(l), i) \in Nat
    BY <1>1, CountedPlaces
  <2>5. i \in Passed(l)
    BY <1>1, <2>3, <2>4 DEF Passed
  <2> QED BY <2>1, <2>2, <2>5 DEF Missing, RowsAt
<1>4. ASSUME NEW l \in List
      PROVE  /\ IsFiniteSet(Missing(l)) /\ Cardinality(Missing(l)) <= gone[l]
             /\ Cardinality(Missing(l)) \in Nat /\ gone[l] \in Nat
  BY FS_CardinalityType, <1>1 DEF ReadInv, FiniteMissing, Missing, ReadTypeOK
<1>5. ASSUME NEW l \in List, NEW S \in SUBSET UpTo(l)
      PROVE  IsFiniteSet(S) /\ Cardinality(S) <= gone[l]
  <2>1. S \in SUBSET Missing(l)
    BY <1>3
  <2>2. IsFiniteSet(S) /\ Cardinality(S) <= Cardinality(Missing(l)) /\ Cardinality(S) \in Nat
    BY <1>4, <2>1, FS_Subset, FS_CardinalityType
  <2> QED BY <1>4, <2>2
<1>6. ASSUME NEW l \in List, at' = upto \/ at' = at
      PROVE  IsFiniteSet(Missing(l)') /\ (at' = upto => Cardinality(Missing(l)') <= gone[l])
  <2>1. CASE at' = upto
    <3>1. Missing(l)' \in SUBSET UpTo(l)
      <4> SUFFICES ASSUME NEW r \in Missing(l)' PROVE r \in UpTo(l)
        OBVIOUS
      <4>1. r \in Owed(l)' /\ \E i \in Counted(l) : Place(Counted(l), i) <= upto /\ r = lists[l][i]
        BY <1>2, <2>1 DEF Missing, RowsAt, Passed
      <4> QED BY <4>1
    <3> QED BY <1>5, <3>1
  <2>2. CASE at' = at
    <3>1. Missing(l)' \in SUBSET Missing(l)
      BY <1>2, <2>2 DEF Missing, RowsAt, Passed, Owed
    <3>2. /\ IsFiniteSet(Missing(l)') /\ Cardinality(Missing(l)') <= Cardinality(Missing(l))
          /\ Cardinality(Missing(l)') \in Nat
      BY <1>4, <3>1, FS_Subset, FS_CardinalityType
    <3> QED BY <1>4, <3>2
  <2> QED BY <1>6, <2>1, <2>2
<1>7. ASSUME NEW l \in List, NEW r, r \in Missed(l, Len(lists[l]))', next = NoMore
      PROVE  r \in UpTo(l)
  <2>1. r \in Owed(l)' /\ r.wanted /\ \E i \in 1..Len(lists[l]) : r = lists[l][i]
    BY <1>1, <1>2, <1>7, CountedPlaces, SliceRows DEF Missed, Owed
  <2>2. PICK i \in 1..Len(lists[l]) : r = lists[l][i]
    BY <2>1
  <2>3. i \in Counted(l)
    BY <1>1, <2>1, <2>2, CountedPlaces DEF Counted
  <2>4. Place(Counted(l), i) <= upto
    <3>1. /\ Place(Counted(l), i) \in 1..i /\ Place(Counted(l), i) <= Cardinality(Counted(l))
          /\ Cardinality(Counted(l)) \in Nat /\ Cardinality(Counted(l)) <= upto
      BY <1>1, <1>7, <2>3, CountedPlaces
    <3> QED BY <3>1
  <2> QED BY <2>1, <2>2, <2>3, <2>4
<1>8. ASSUME NEW l \in List, NEW r, r \in Missed(l, MaxOffset)', MaxOffset < upto
      PROVE  r \in UpTo(l)
  <2>0. MaxOffset \in Nat
    BY ReadAssumption
  <2>1. r \in Owed(l)' /\ r.wanted /\ \E i \in 1..Len(lists[l]) : i <= MaxOffset /\ r = lists[l][i]
    BY <1>1, <1>2, <1>8, <2>0, CountedPlaces, SliceRows DEF Missed, Owed
  <2>2. PICK i \in 1..Len(lists[l]) : i <= MaxOffset /\ r = lists[l][i]
    BY <2>1
  <2>3. i \in Counted(l)
    BY <1>1, <2>1, <2>2, CountedPlaces DEF Counted
  <2>4. Place(Counted(l), i) <= upto
    <3>1. Place(Counted(l), i) \in 1..i /\ i \in Nat
      BY <1>1, <2>3, CountedPlaces
    <3> QED BY <3>1, <1>8, <2>0, <2>2
  <2> QED BY <2>1, <2>2, <2>3, <2>4
<1>9. MaxOffset \in Nat /\ NoMore \notin Nat
  BY ReadAssumption DEF NoMore
<1>10. /\ at' \in {at, upto} /\ ended' \in {"no", "end", "capped"}
       /\ ended' = "end" => next = NoMore
       /\ ended' = "capped" => MaxOffset < upto
       /\ ended' = "no" => at' = upto
  BY <1>9 DEF Go, NoMore
<1>11. ReadTypeOK'
  BY <1>1, <1>2, <1>10 DEF ReadTypeOK
<1>12. RowsRight'
  BY <1>1, <1>2 DEF RowsRight
<1> HIDE DEF UpTo
<1>13. ListShown'
  <2>1. ASSUME NEW l \in List, ended' = "end"
        PROVE  Cardinality(Missed(l, Len(lists[l]))') <= gone[l]
    <3>1. Missed(l, Len(lists[l]))' \in SUBSET UpTo(l)
      BY <1>7, <1>10, <2>1
    <3> QED BY <3>1, <1>5
  <2>2. ASSUME NEW l \in List, ended' = "capped"
        PROVE  Cardinality(Missed(l, MaxOffset)') <= gone[l]
    <3>1. Missed(l, MaxOffset)' \in SUBSET UpTo(l)
      BY <1>8, <1>10, <2>2
    <3> QED BY <3>1, <1>5
  <2> QED BY <1>2, <2>1, <2>2 DEF ListShown
<1>14. FiniteMissing' /\ (Reading => \A l \in List : Cardinality(Missing(l)) <= gone[l])'
  BY <1>2, <1>6, <1>10 DEF FiniteMissing, Reading
<1> QED BY <1>11, <1>12, <1>13, <1>14 DEF ReadInv, Missing

\* What is left out of a page is neither wanted nor of the caller's side.
LEMMA KeptIsWanted ==
  ASSUME RowsRight, asked.tool \in ReadTool, ~RefusedRead(asked), NEW i \in DOMAIN lists[1], KeptRow(asked, lists[1][i])
  PROVE  lists[1][i].wanted /\ asked.rightSide
<1>1. asked.rightSide
  BY DEF RowsRight, RefusedRead, WrongSide, Ambiguous
<1>2. lists[1][i].wanted
  BY DEF RowsRight, RefusedRead, Ambiguous, KeptRow, Mixed
<1> QED BY <1>1, <1>2

LEMMA ReadToolsApart ==
  PagedByApi \cap (PagedHere \cup History) = {} /\ PagedHere \cap (ReportLists \cup History) = {}
BY DEF PagedByApi, PagedHere, History, ReportLists, Catalogues, AccountLists

\* Lists other than the history of a report have no second part.
LEMMA NoSecond ==
  ASSUME ReadTypeOK, RowsRight, asked.tool \notin History
  PROVE  Counted(2) = {} /\ Cardinality(Counted(2)) = 0
<1>1. Counted(2) = {}
  BY DEF RowsRight, Counted
<1> QED BY <1>1, FS_EmptySet

LEMMA ReadPageKeepsInv ==
  ASSUME ReadInv, FiniteMissing, ReadPage
  PROVE  ReadInv' /\ FiniteMissing'
<1> DEFINE rows == Slice(lists[1], at, at + asked.limit)
           upto == at + asked.limit
           next == NextOffset(asked, rows, at)
<1>1. /\ ReadTypeOK /\ RowsRight /\ Reading /\ ~RefusedRead(asked) /\ asked.tool \in PagedByApi
      /\ asked.tool \in ReadTool /\ at \in Nat /\ asked.limit \in Nat
      /\ UNCHANGED <<asked, lists, atFirst, gone, changes>>
      /\ shown' = [shown EXCEPT ![1] = @ \cup {r \in Rows(rows) : KeptRow(asked, r)}]
      /\ Go(next)
  BY ReadAssumption DEF ReadPage, ReadInv, ReadTypeOK
<1>2. upto \in Nat
  BY <1>1
<1>3. /\ Len(lists[1]) \in Nat /\ lists[1] \in Seq(Row) /\ Counted(1) = 1..Len(lists[1])
      /\ \A r : r \in Rows(rows) <=> \E i \in 1..Len(lists[1]) : at < i /\ i <= upto /\ r = lists[1][i]
      /\ (Len(rows) < upto - at => Len(lists[1]) <= upto) /\ Len(rows) \in Nat
  <2>1. 1 \in List
    BY DEF List
  <2>2. lists[1] \in Seq(Row) /\ Len(lists[1]) \in Nat /\ DOMAIN lists[1] = 1..Len(lists[1])
    BY <1>1, <2>1, CountedPlaces
  <2> QED BY <1>1, <1>2, <2>2, SliceRows DEF Counted
<1>4. upto - at = asked.limit
  BY <1>1
<1>5. (next # NoMore => next = upto) /\ (next = NoMore => Len(lists[1]) <= upto)
  BY <1>1, <1>2, <1>3, <1>4 DEF NextOffset, NoMore
<1> HIDE DEF rows, upto, next
<1>6. asked.tool \notin History
  BY <1>1, ReadToolsApart
<1>7. shown' \in [List -> SUBSET Row] /\ shown'[2] = shown[2] /\ shown'[1] = shown[1] \cup {r \in Rows(rows) : KeptRow(asked, r)}
  <2>1. Rows(rows) \subseteq Row
    BY <1>3
  <2> QED BY <1>1, <2>1 DEF ReadTypeOK, List
<1>8. ASSUME NEW l \in List, next = NoMore
      PROVE  Cardinality(Counted(l)) <= upto
  <2>1. Cardinality(1..Len(lists[1])) = Len(lists[1])
    <3>1. 1 \in Int /\ Len(lists[1]) \in Int
      BY <1>3
    <3>2. Cardinality(1..Len(lists[1])) = IF 1 > Len(lists[1]) THEN 0 ELSE Len(lists[1]) - 1 + 1
      BY <3>1, FS_Interval, Zenon
    <3> QED BY <1>3, <3>2
  <2> QED BY <1>1, <1>2, <1>3, <1>5, <1>6, <1>8, <2>1, NoSecond DEF List
<1>9. ASSUME NEW l \in List, NEW i \in Counted(l), at < Place(Counted(l), i), Place(Counted(l), i) <= upto,
             lists[l][i].wanted
      PROVE  lists[l][i] \in shown'[l]
  <2>1. l = 1
    BY <1>1, <1>6, NoSecond DEF List
  <2>2. i \in 1..Len(lists[1]) /\ Place(Counted(1), i) = i
    BY <1>3, <2>1, PlaceOfAll
  <2>3. lists[1][i] \in Rows(rows)
    BY <1>3, <1>9, <2>1, <2>2
  <2> QED BY <1>7, <1>9, <2>1, <2>3 DEF KeptRow
<1>10. ASSUME NEW l \in List, NEW r \in shown'[l]
       PROVE  r.wanted /\ asked.rightSide
  <2>1. CASE r \in shown[l]
    BY <2>1 DEF ReadInv, ListShown
  <2>2. CASE l = 1 /\ r \in Rows(rows) /\ KeptRow(asked, r)
    <3>1. PICK i \in 1..Len(lists[1]) : r = lists[1][i]
      BY <1>3, <2>2
    <3> QED BY <1>1, <1>3, <2>2, <3>1, KeptIsWanted
  <2> QED BY <1>7, <2>1, <2>2 DEF List
<1>11. \A l \in List : shown[l] \subseteq shown'[l]
  BY <1>7 DEF List
<1>12. /\ UNCHANGED <<asked, lists, atFirst, gone, changes>> /\ Go(next)
       /\ shown' \in [List -> SUBSET Row]
  BY <1>1, <1>7
<1> QED BY <1>1, <1>2, <1>5, <1>8, <1>9, <1>10, <1>11, <1>12, PageKeepsInv

\* A list that comes whole is counted in the rows that are kept.
LEMMA ReadPartKeepsInv ==
  ASSUME ReadInv, FiniteMissing, ReadPart
  PROVE  ReadInv' /\ FiniteMissing'
<1> DEFINE kept == {i \in DOMAIN lists[1] : KeptRow(asked, lists[1][i])}
           upto == at + asked.limit
           items == {i \in kept : Place(kept, i) \in (at + 1)..upto}
           next == IF upto < Cardinality(kept) THEN upto ELSE NoMore
<1>1. /\ ReadTypeOK /\ RowsRight /\ Reading /\ asked.tool \in PagedHere
      /\ at \in Nat /\ asked.limit \in Nat
      /\ UNCHANGED <<asked, lists, atFirst, gone, changes>>
      /\ shown' = [shown EXCEPT ![1] = @ \cup RowsAt(1, items)]
      /\ Go(next)
  <2>1. /\ UNCHANGED <<asked, lists, atFirst, gone, changes>>
        /\ shown' = [shown EXCEPT ![1] = @ \cup RowsAt(1, items)] /\ Go(next)
    BY DEF ReadPart, pageOf
  <2> QED BY <2>1, ReadAssumption DEF ReadPart, ReadInv, ReadTypeOK
<1>2. asked.tool \notin History /\ asked.tool \notin ReportLists /\ asked.tool \notin PagedByApi
  BY <1>1, ReadToolsApart
<1>3. kept = Counted(1)
  BY <1>2 DEF Counted, KeptRow
<1> HIDE DEF kept
<1>4. /\ Len(lists[1]) \in Nat /\ DOMAIN lists[1] = 1..Len(lists[1]) /\ lists[1] \in Seq(Row)
      /\ Cardinality(Counted(1)) \in Nat /\ \A i \in Counted(1) : Place(Counted(1), i) \in Nat
  BY <1>1, CountedPlaces DEF List
<1>5. upto \in Nat
  BY <1>1
<1>6. /\ next # NoMore => next = upto
      /\ next = NoMore => Cardinality(Counted(1)) <= upto
  BY <1>3, <1>4, <1>5 DEF NoMore
<1>7. RowsAt(1, items) \subseteq Row /\ \A r \in RowsAt(1, items) : r.wanted
  <2>1. items \subseteq Counted(1)
    BY <1>3
  <2>2. \A i \in Counted(1) : lists[1][i] \in Row /\ lists[1][i].wanted
    BY <1>2, <1>4 DEF Counted
  <2> QED BY <2>1, <2>2 DEF RowsAt
<1>8. \A i \in Counted(1) : at < Place(Counted(1), i) /\ Place(Counted(1), i) <= upto => i \in items
  BY <1>1, <1>3, <1>4, <1>5
<1> HIDE DEF items, upto, next
<1>9. shown' \in [List -> SUBSET Row] /\ shown'[2] = shown[2] /\ shown'[1] = shown[1] \cup RowsAt(1, items)
  BY <1>1, <1>7 DEF ReadTypeOK, List
<1>10. next = NoMore => \A l \in List : Cardinality(Counted(l)) <= upto
  BY <1>1, <1>2, <1>5, <1>6, NoSecond DEF List
<1>11. ASSUME NEW l \in List, NEW i \in Counted(l), at < Place(Counted(l), i), Place(Counted(l), i) <= upto,
              lists[l][i].wanted
       PROVE  lists[l][i] \in shown'[l]
  <2>1. l = 1
    BY <1>1, <1>2, NoSecond DEF List
  <2> QED BY <1>8, <1>9, <1>11, <2>1 DEF RowsAt
<1>12. asked.rightSide
  BY <1>1, <1>2 DEF RowsRight
<1>13. \A l \in List : shown[l] \subseteq shown'[l]
  BY <1>9 DEF List
<1>14. \A l \in List : \A r \in shown'[l] : r.wanted /\ asked.rightSide
  BY <1>7, <1>9, <1>12 DEF ReadInv, ListShown, List
<1>15. UNCHANGED <<asked, lists, atFirst, gone, changes>> /\ Go(next) /\ shown' \in [List -> SUBSET Row]
  BY <1>1, <1>9
<1> QED BY <1>1, <1>5, <1>6, <1>10, <1>11, <1>13, <1>14, <1>15, PageKeepsInv

\* A page of history is HISTORY_LIMIT places from the newest back.
LEMMA HistoryPlaces ==
  ASSUME NEW n \in Nat, NEW kept \in SUBSET (1..n), NEW offset \in Nat, NEW i \in kept,
         offset < Place(kept, i), Place(kept, i) <= offset + HISTORY_LIMIT
  PROVE  i \in historyPage(kept, offset)
<1> DEFINE size == Cardinality(kept)  p == Place(kept, i)  end == Greatest(0, size - offset)
           start == Greatest(0, end - HISTORY_LIMIT)
<1>1. size \in Nat /\ p \in Nat /\ 1 <= p /\ p <= size /\ HISTORY_LIMIT \in Nat
  <2>1. Place(kept, i) \in 1..i /\ Place(kept, i) <= Cardinality(kept) /\ Cardinality(kept) \in Nat
    BY PlaceBasics
  <2>2. i \in Nat /\ HISTORY_LIMIT \in Nat
    BY ReadAssumption
  <2> QED BY <2>1, <2>2
<1>2. offset < p /\ p <= offset + HISTORY_LIMIT
  OBVIOUS
<1> HIDE DEF size, p
<1>3. size - p + 1 \in (start + 1)..end
  BY <1>1, <1>2 DEF Greatest
<1> QED BY <1>3 DEF historyPage, Chronological, size, p

LEMMA ReadHistoryKeepsInv ==
  ASSUME ReadInv, FiniteMissing, ReadHistory
  PROVE  ReadInv' /\ FiniteMissing'
<1> DEFINE upto == at + HISTORY_LIMIT
           page(l) == RowsAt(l, historyPage(Counted(l), at))
           next == historyMeta(Cardinality(Counted(1)), Cardinality(Counted(2)), at)
<1>1. /\ ReadTypeOK /\ RowsRight /\ Reading /\ asked.tool \in History /\ ~RefusedRead(asked)
      /\ at \in Nat /\ HISTORY_LIMIT \in Nat /\ upto \in Nat
      /\ UNCHANGED <<asked, lists, atFirst, gone, changes>>
  BY ReadAssumption DEF ReadHistory, ReadInv, ReadTypeOK
<1>2. asked.tool \notin PagedByApi
  BY <1>1, ReadToolsApart
<1>3. toComments(lists[1]) = Counted(1) /\ DOMAIN lists[2] = Counted(2)
  BY <1>1, <1>2 DEF toComments, Counted, RowsRight
<1>4. shown' = <<shown[1] \cup page(1), shown[2] \cup page(2)>> /\ Go(next)
  BY <1>3 DEF ReadHistory
<1>5. ASSUME NEW l \in List
      PROVE  /\ Len(lists[l]) \in Nat /\ DOMAIN lists[l] = 1..Len(lists[l]) /\ lists[l] \in Seq(Row)
             /\ Counted(l) \in SUBSET (1..Len(lists[l])) /\ Cardinality(Counted(l)) \in Nat
  BY <1>1, CountedPlaces
<1>6. /\ next # NoMore => next = upto
      /\ next = NoMore => \A l \in List : Cardinality(Counted(l)) <= upto
  BY <1>1, <1>5 DEF historyMeta, Greatest, NoMore, List
<1>7. ASSUME NEW l \in List
      PROVE  page(l) \subseteq Row /\ \A r \in page(l) : r.wanted
  <2>1. historyPage(Counted(l), at) \subseteq Counted(l)
    BY DEF historyPage
  <2>2. \A i \in Counted(l) : lists[l][i] \in Row
    BY <1>5
  <2>3. \A i \in Counted(l) : lists[l][i].wanted
    BY <1>2 DEF Counted
  <2> QED BY <2>1, <2>2, <2>3 DEF RowsAt
<1>8. ASSUME NEW l \in List, NEW i \in Counted(l), at < Place(Counted(l), i), Place(Counted(l), i) <= upto
      PROVE  lists[l][i] \in page(l)
  <2>1. i \in historyPage(Counted(l), at)
    BY <1>1, <1>5, <1>8, HistoryPlaces
  <2> QED BY <2>1 DEF RowsAt
<1>9. asked.rightSide
  BY <1>1 DEF RefusedRead, WrongSide, Ambiguous, RowsRight
<1> HIDE DEF page, next, upto
<1>10. shown' \in [List -> SUBSET Row] /\ \A l \in List : shown'[l] = shown[l] \cup page(l)
  <2>1. shown[1] \subseteq Row /\ shown[2] \subseteq Row /\ page(1) \subseteq Row /\ page(2) \subseteq Row
    BY <1>1, <1>7 DEF ReadTypeOK, List
  <2> QED BY <1>4, <2>1 DEF List
<1>11. \A l \in List : \A r \in shown'[l] : r.wanted /\ asked.rightSide
  BY <1>7, <1>9, <1>10 DEF ReadInv, ListShown
<1>12. \A l \in List : shown[l] \subseteq shown'[l]
  BY <1>10
<1>13. \A l \in List : \A i \in Counted(l) :
         at < Place(Counted(l), i) /\ Place(Counted(l), i) <= upto /\ lists[l][i].wanted
           => lists[l][i] \in shown'[l]
  BY <1>8, <1>10
<1> QED BY <1>1, <1>4, <1>6, <1>10, <1>11, <1>12, <1>13, PageKeepsInv

LEMMA ReadRefusedKeepsInv ==
  ASSUME ReadInv, FiniteMissing, ReadRefused
  PROVE  ReadInv' /\ FiniteMissing'
<1>1. /\ UNCHANGED <<asked, lists, atFirst, gone, changes, at, shown>> /\ ended' = "refused"
      /\ \A l : Counted(l)' = Counted(l)
  BY DEF ReadRefused, Counted
<1>2. ReadTypeOK' /\ RowsRight'
  BY <1>1 DEF ReadInv, ReadTypeOK, RowsRight
<1>3. ListShown'
  BY <1>1 DEF ReadInv, ListShown
<1>4. FiniteMissing' /\ ~Reading'
  BY <1>1 DEF FiniteMissing, Missing, RowsAt, Passed, Owed, Reading
<1> QED BY <1>2, <1>3, <1>4 DEF ReadInv

\* What changes when the rows of one list do, and nothing else.
LEMMA ListChanges ==
  ASSUME ReadInv, FiniteMissing, Reading, UNCHANGED <<asked, atFirst, at, ended, shown>>,
         changes' \in Nat, NEW l \in List, NEW rows \in Seq(Row), lists' = [lists EXCEPT ![l] = rows],
         gone' = gone \/ gone' = [gone EXCEPT ![l] = @ + 1],
         \A k \in DOMAIN rows : IF l = 1 THEN rows[k].wanted \/ Mixed(asked) ELSE rows[k].wanted /\ asked.tool \in History,
         IsFiniteSet(Missing(l)') /\ Cardinality(Missing(l)') <= gone'[l]
  PROVE  ReadInv' /\ FiniteMissing'
<1>1. /\ ReadTypeOK /\ RowsRight /\ ListShown /\ ended = "no"
      /\ lists'[l] = rows /\ \A m \in List : m # l => lists'[m] = lists[m] /\ gone'[m] = gone[m]
  BY DEF ReadInv, ReadTypeOK, Reading
<1>2. ReadTypeOK'
  <2>1. lists' \in [List -> Seq(Row)]
    BY <1>1 DEF ReadTypeOK
  <2>2. gone' \in [List -> Nat]
    <3>1. gone \in [List -> Nat] /\ gone[l] + 1 \in Nat
      BY <1>1 DEF ReadTypeOK
    <3>2. CASE gone' = gone
      BY <3>1, <3>2
    <3>3. CASE gone' = [gone EXCEPT ![l] = @ + 1]
      BY <3>1, <3>3
    <3> QED BY <3>2, <3>3
  <2> QED BY <1>1, <2>1, <2>2 DEF ReadTypeOK
<1>3. RowsRight'
  <2>1. \A k \in DOMAIN lists'[1] : lists'[1][k].wanted \/ Mixed(asked)
    <3>1. CASE l = 1
      BY <1>1, <3>1
    <3>2. CASE l # 1
      BY <1>1, <3>2 DEF RowsRight, List
    <3> QED BY <3>1, <3>2
  <2>2. \A k \in DOMAIN lists'[2] : lists'[2][k].wanted /\ asked.tool \in History
    <3>1. CASE l = 2
      BY <1>1, <3>1
    <3>2. CASE l # 2
      BY <1>1, <3>2 DEF RowsRight, List
    <3> QED BY <3>1, <3>2
  <2> QED BY <1>1, <2>1, <2>2 DEF RowsRight
<1>4. ListShown'
  BY <1>1 DEF ListShown
<1>5. ASSUME NEW m \in List
      PROVE  IsFiniteSet(Missing(m)') /\ Cardinality(Missing(m)') <= gone'[m]
  <2>1. CASE m = l
    BY <2>1
  <2>2. CASE m # l
    <3>1. Missing(m)' = Missing(m)
      BY <1>1, <2>2 DEF Missing, RowsAt, Passed, Owed, Counted
    <3> QED BY <1>1, <2>2, <3>1 DEF ReadInv, FiniteMissing, Missing
  <2> QED BY <2>1, <2>2
<1> QED BY <1>2, <1>3, <1>4, <1>5 DEF ReadInv, FiniteMissing, Missing

\* A row that comes in puts what was passed further on.
LEMMA RowAddedKeepsInv ==
  ASSUME ReadInv, FiniteMissing, RowAdded
  PROVE  ReadInv' /\ FiniteMissing'
<1>1. PICK l \in List, wanted \in BOOLEAN :
        /\ l = 1 \/ (asked.tool \in History /\ wanted)
        /\ wanted \/ Mixed(asked)
        /\ \E i \in 1..(IF asked.tool \in History THEN 1 ELSE Len(lists[l]) + 1) :
             lists' = [lists EXCEPT ![l] =
               InsertAt(@, i, [id |-> 2 * MaxLength + changes + 1, wanted |-> wanted])]
  BY DEF RowAdded
<1> PICK i \in 1..(IF asked.tool \in History THEN 1 ELSE Len(lists[l]) + 1) :
          lists' = [lists EXCEPT ![l] =
            InsertAt(@, i, [id |-> 2 * MaxLength + changes + 1, wanted |-> wanted])]
  BY <1>1
<1> DEFINE row == [id |-> 2 * MaxLength + changes + 1, wanted |-> wanted]
           rows == InsertAt(lists[l], i, row)
           n == Len(lists[l])
<1>2. /\ ReadTypeOK /\ RowsRight /\ Reading /\ MaxLength \in Nat /\ changes \in Nat /\ at \in Nat
      /\ UNCHANGED <<asked, atFirst, gone, at, ended, shown>> /\ changes' \in Nat
  BY ReadAssumption DEF RowAdded, ReadInv, ReadTypeOK
<1>3. /\ row \in Row /\ row.wanted = wanted /\ row.id = 2 * MaxLength + changes + 1
  BY <1>2 DEF Row
<1>4. row \notin atFirst[l]
  BY <1>2, <1>3 DEF RowsRight
<1>5. /\ n \in Nat /\ lists[l] \in Seq(Row) /\ DOMAIN lists[l] = 1..n
      /\ Counted(l) \in SUBSET (1..n)
      /\ \A j \in Counted(l) : Place(Counted(l), j) \in 1..j
  BY <1>2, CountedPlaces
<1> HIDE DEF row
<1>15. i \in 1..(n + 1)
  BY <1>5
<1>6. /\ rows \in Seq(Row) /\ Len(rows) = n + 1 /\ DOMAIN rows = 1..(n + 1)
      /\ \A j \in 1..n : rows[Up(i, j)] = lists[l][j]
      /\ rows[i] = row
  <2>1. /\ rows \in Seq(Row) /\ Len(rows) = n + 1 /\ \A j \in 1..n : rows[Up(i, j)] = lists[l][j]
        /\ rows[i] = row
    BY <1>3, <1>5, <1>15, InsertedAt
  <2> QED BY <2>1
<1>7. lists' = [lists EXCEPT ![l] = rows]
  BY DEF row
<1> HIDE DEF rows
<1>8. ASSUME NEW k \in 1..(n + 1), k # i
      PROVE  \E j \in 1..n : k = Up(i, j)
  <2>1. CASE k < i
    BY <1>5, <1>15, <2>1 DEF Up
  <2>2. CASE k > i
    <3>1. k - 1 \in 1..n /\ Up(i, k - 1) = k
      BY <1>5, <1>15, <2>2 DEF Up
    <3> QED BY <3>1
  <2>3. k \in Int /\ i \in Int
    BY <1>5, <1>15
  <2>4. k < i \/ k > i
    BY ONLY <2>3, <1>8
  <2> QED BY <2>1, <2>2, <2>4, Zenon
<1>9. lists'[l] = rows
  BY <1>2, <1>7 DEF ReadTypeOK
<1>10. /\ Counted(l)' = {k \in 1..(n + 1) : asked.tool \in PagedByApi \/ rows[k].wanted}
       /\ Counted(l)' \in SUBSET (1..(n + 1))
  BY <1>2, <1>6, <1>9 DEF Counted
<1>11. \A j \in Counted(l) : Up(i, j) \in Counted(l)'
  <2> SUFFICES ASSUME NEW j \in Counted(l) PROVE Up(i, j) \in Counted(l)'
    OBVIOUS
  <2>1. j \in 1..n /\ (asked.tool \in PagedByApi \/ lists[l][j].wanted)
    BY <1>5 DEF Counted
  <2>2. Up(i, j) \in 1..(n + 1)
    BY <1>5, <1>15, <2>1 DEF Up
  <2> QED BY <1>6, <1>10, <2>1, <2>2
<1>12. Missing(l)' \in SUBSET Missing(l)
  <2> SUFFICES ASSUME NEW r \in Missing(l)' PROVE r \in Missing(l)
    OBVIOUS
  <2>1. r \in Owed(l) /\ \E k \in Counted(l)' : Place(Counted(l)', k) <= at /\ r = rows[k]
    BY <1>2, <1>9 DEF Missing, RowsAt, Passed, Owed, Place
  <2>2. PICK k \in Counted(l)' : Place(Counted(l)', k) <= at /\ r = rows[k]
    BY <2>1
  <2>3. k # i
    BY <1>4, <1>6, <2>1, <2>2 DEF Owed
  <2>4. PICK j \in 1..n : k = Up(i, j)
    BY <1>8, <1>10, <2>2, <2>3
  <2>5. r = lists[l][j] /\ j \in Counted(l)
    BY <1>5, <1>6, <1>10, <2>2, <2>4 DEF Counted
  <2>6. Place(Counted(l), j) <= Place(Counted(l)', k)
    BY <1>5, <1>15, <1>10, <1>11, <2>4, <2>5, PlaceWhenAdded
  <2>7. Place(Counted(l), j) \in Nat /\ Place(Counted(l)', k) \in Nat
    <3>1. n + 1 \in Nat
      BY <1>5
    <3>2. Place(Counted(l), j) \in 1..j /\ Place(Counted(l)', k) \in 1..k
      BY <1>5, <1>10, <2>2, <2>5, <3>1, PlaceBasics
    <3> QED BY <3>2, <1>10, <2>2
  <2>8. Place(Counted(l), j) <= at
    BY <1>2, <2>2, <2>6, <2>7
  <2> QED BY <2>1, <2>5, <2>8 DEF Missing, RowsAt, Passed
<1>13. IsFiniteSet(Missing(l)') /\ Cardinality(Missing(l)') <= gone'[l]
  <2>1. /\ IsFiniteSet(Missing(l)) /\ Cardinality(Missing(l)) <= gone[l]
        /\ Cardinality(Missing(l)) \in Nat /\ gone[l] \in Nat /\ gone' = gone
    BY FS_CardinalityType, <1>2 DEF ReadInv, FiniteMissing, Missing, ReadTypeOK
  <2>2. /\ IsFiniteSet(Missing(l)') /\ Cardinality(Missing(l)') <= Cardinality(Missing(l))
        /\ Cardinality(Missing(l)') \in Nat
    BY <1>12, <2>1, FS_Subset, FS_CardinalityType
  <2> QED BY <2>1, <2>2
<1>14. \A k \in DOMAIN rows : IF l = 1 THEN rows[k].wanted \/ Mixed(asked) ELSE rows[k].wanted /\ asked.tool \in History
  <2> SUFFICES ASSUME NEW k \in 1..(n + 1)
               PROVE  IF l = 1 THEN rows[k].wanted \/ Mixed(asked) ELSE rows[k].wanted /\ asked.tool \in History
    BY <1>6
  <2>1. CASE k = i
    BY <1>1, <1>15, <1>3, <1>6, <2>1
  <2>2. CASE k # i
    <3>1. PICK j \in 1..n : k = Up(i, j)
      BY <1>8, <2>2
    <3>2. rows[k] = lists[l][j] /\ j \in DOMAIN lists[l]
      BY <1>5, <1>6, <3>1
    <3>3. CASE l = 1
      BY <1>2, <3>2, <3>3 DEF RowsRight
    <3>4. CASE l = 2
      BY <1>2, <3>2, <3>4 DEF RowsRight
    <3> QED BY <3>3, <3>4 DEF List
  <2> QED BY <2>1, <2>2
<1> QED BY <1>2, <1>6, <1>7, <1>13, <1>14, ListChanges

\* A row that goes brings one row of the next page among those passed.
LEMMA RowGoneKeepsInv ==
  ASSUME ReadInv, FiniteMissing, RowGone
  PROVE  ReadInv' /\ FiniteMissing'
<1>1. PICK l \in List : \E i \in 1..Len(lists[l]) :
        lists' = [lists EXCEPT ![l] = RemoveAt(@, i)] /\ gone' = [gone EXCEPT ![l] = @ + 1]
  BY DEF RowGone
<1> PICK i \in 1..Len(lists[l]) :
        lists' = [lists EXCEPT ![l] = RemoveAt(lists[l], i)] /\ gone' = [gone EXCEPT ![l] = @ + 1]
  BY <1>1
<1> DEFINE rows == RemoveAt(lists[l], i)
           n == Len(lists[l]) - 1
           next == CHOOSE q \in Counted(l) : Place(Counted(l), q) = at + 1
<1>2. /\ ReadTypeOK /\ RowsRight /\ Reading /\ at \in Nat
      /\ UNCHANGED <<asked, atFirst, at, ended, shown>> /\ changes' \in Nat
  BY DEF RowGone, ReadInv, ReadTypeOK
<1>3. /\ lists[l] \in Seq(Row) /\ DOMAIN lists[l] = 1..Len(lists[l]) /\ Len(lists[l]) \in Nat
      /\ Counted(l) \in SUBSET (1..Len(lists[l]))
  BY <1>2, CountedPlaces
<1>4. n \in Nat /\ Len(lists[l]) = n + 1
  BY <1>3
<1>5. rows \in Seq(Row) /\ Len(rows) = n /\ DOMAIN rows = 1..n /\ \A j \in 1..n : rows[j] = lists[l][Up(i, j)]
  <2>1. rows \in Seq(Row) /\ Len(rows) = n /\ \A j \in 1..n : rows[j] = lists[l][Up(i, j)]
    BY <1>3, RemovedAt
  <2> QED BY <2>1
<1>6. lists' = [lists EXCEPT ![l] = rows]
  OBVIOUS
<1> HIDE DEF rows, n
<1>7. lists'[l] = rows
  BY <1>2, <1>6 DEF ReadTypeOK
<1>8. Counted(l)' = {k \in 1..n : asked.tool \in PagedByApi \/ rows[k].wanted} /\ Counted(l)' \in SUBSET (1..n)
  BY <1>2, <1>5, <1>7 DEF Counted
<1>9. \A k \in 1..n : Up(i, k) \in 1..(n + 1)
  BY <1>4 DEF Up
<1>10. \A k \in 1..n : Up(i, k) \in Counted(l) <=> k \in Counted(l)'
  BY <1>3, <1>4, <1>5, <1>8, <1>9 DEF Counted
<1>11. ASSUME NEW q \in Counted(l), Place(Counted(l), q) = at + 1
       PROVE  q = next
  <2>1. next \in Counted(l) /\ Place(Counted(l), next) = at + 1
    BY <1>11
  <2>2. q \in Nat /\ next \in Nat
    BY <1>3, <2>1
  <2> HIDE DEF next
  <2>3. ASSUME q < next PROVE FALSE
    <3>1. Place(Counted(l), q) < Place(Counted(l), next)
      BY <1>3, <1>11, <2>1, <2>3, PlaceOrder
    <3> QED BY <1>2, <1>11, <2>1, <3>1
  <2>4. ASSUME next < q PROVE FALSE
    <3>1. Place(Counted(l), next) < Place(Counted(l), q)
      BY <1>3, <1>11, <2>1, <2>4, PlaceOrder
    <3> QED BY <1>2, <1>11, <2>1, <3>1
  <2> QED BY <2>2, <2>3, <2>4
<1> HIDE DEF next
<1>12. Missing(l)' \in SUBSET (Missing(l) \cup {lists[l][next]})
  <2> SUFFICES ASSUME NEW r \in Missing(l)' PROVE r \in Missing(l) \/ r = lists[l][next]
    OBVIOUS
  <2>1. r \in Owed(l) /\ \E k \in Counted(l)' : Place(Counted(l)', k) <= at /\ r = rows[k]
    BY <1>2, <1>7 DEF Missing, RowsAt, Passed, Owed, Place
  <2>2. PICK k \in Counted(l)' : Place(Counted(l)', k) <= at /\ r = rows[k]
    BY <2>1
  <2> DEFINE q == Up(i, k)
  <2>3. k \in 1..n /\ q \in Counted(l) /\ r = lists[l][q]
    BY <1>5, <1>8, <1>10, <2>2
  <2>4. Place(Counted(l), q) <= Place(Counted(l)', k) + 1
    BY <1>3, <1>4, <1>8, <1>10, <2>2, <2>3, PlaceWhenGone
  <2>5. Place(Counted(l), q) \in Nat /\ Place(Counted(l)', k) \in Nat
    <3>1. Place(Counted(l), q) \in 1..q /\ Place(Counted(l)', k) \in 1..k
      BY <1>3, <1>4, <1>8, <2>2, <2>3, PlaceBasics
    <3>2. \A m \in 1..(n + 1) : m \in Nat
      BY <1>4
    <3> HIDE DEF q
    <3> QED BY <3>1
  <2> HIDE DEF q
  <2>6. Place(Counted(l), q) <= at \/ Place(Counted(l), q) = at + 1
    BY <1>2, <2>2, <2>4, <2>5
  <2> QED BY <1>11, <2>1, <2>3, <2>6 DEF Missing, RowsAt, Passed
<1>13. IsFiniteSet(Missing(l)') /\ Cardinality(Missing(l)') <= gone'[l]
  <2>1. /\ IsFiniteSet(Missing(l)) /\ Cardinality(Missing(l)) <= gone[l]
        /\ Cardinality(Missing(l)) \in Nat /\ gone[l] \in Nat
    BY FS_CardinalityType, <1>2 DEF ReadInv, FiniteMissing, Missing, ReadTypeOK
  <2>2. gone'[l] = gone[l] + 1
    BY <1>1, <1>2 DEF ReadTypeOK
  <2> DEFINE S == Missing(l) \cup {lists[l][next]}
  <2>3. IsFiniteSet(S) /\ Cardinality(S) = IF lists[l][next] \in Missing(l) THEN Cardinality(Missing(l)) ELSE Cardinality(Missing(l)) + 1
    BY <2>1, FS_AddElement
  <2>4. Missing(l)' \in SUBSET S
    BY <1>12
  <2> HIDE DEF S
  <2>5. IsFiniteSet(Missing(l)') /\ Cardinality(Missing(l)') <= Cardinality(S) /\ Cardinality(Missing(l)') \in Nat
    BY <2>3, <2>4, FS_Subset, FS_CardinalityType
  <2>6. Cardinality(S) <= Cardinality(Missing(l)) + 1 /\ Cardinality(S) \in Nat
    BY <2>1, <2>3
  <2> QED BY <2>1, <2>2, <2>5, <2>6
<1>14. \A k \in DOMAIN rows : IF l = 1 THEN rows[k].wanted \/ Mixed(asked) ELSE rows[k].wanted /\ asked.tool \in History
  BY <1>2, <1>3, <1>4, <1>5, <1>9 DEF RowsRight, List
<1> QED BY <1>1, <1>2, <1>5, <1>6, <1>13, <1>14, ListChanges

\* Rows of the lists that are read, and nothing that was passed.
LEMMA ReadInitHolds ==
  ASSUME ReadInit
  PROVE  ReadInv /\ FiniteMissing
<1>1. /\ asked \in [tool : ReadTool, limit : PageSizes, viewer : BOOLEAN, bothSides : BOOLEAN,
                    rightSide : BOOLEAN, staff : BOOLEAN]
      /\ asked.rightSide \/ (asked.tool \in History /\ asked.bothSides)
      /\ gone = <<0, 0>> /\ changes = 0 /\ at = 0 /\ ended = "no" /\ shown = <<{}, {}>>
      /\ atFirst = <<Rows(lists[1]), Rows(lists[2])>> /\ MaxLength \in Nat
  BY ReadAssumption DEF ReadInit
<1>2. PICK w \in Wants(IF Mixed(asked) THEN BOOLEAN ELSE {TRUE}),
           v \in IF asked.tool \in History THEN Wants({TRUE}) ELSE {<< >>} :
        lists = <<Numbered(w, 0), Numbered(v, MaxLength)>>
  BY DEF ReadInit, ListsOf
<1>3. ASSUME NEW S \in SUBSET BOOLEAN, NEW x \in Wants(S), NEW m \in {0, MaxLength}
      PROVE  /\ Numbered(x, m) \in Seq(Row)
             /\ \A k \in DOMAIN Numbered(x, m) : Numbered(x, m)[k].wanted \in S /\ Numbered(x, m)[k].id <= 2 * MaxLength
  <2>1. PICK n \in 0..MaxLength : x \in [1..n -> S]
    BY DEF Wants
  <2>2. n \in Nat /\ x \in Seq(S) /\ Len(x) = n
    BY <2>1
  <2>3. Numbered(x, m) = [k \in 1..n |-> [id |-> m + k, wanted |-> x[k]]]
    BY <2>2 DEF Numbered
  <2>4. ASSUME NEW k \in 1..n
        PROVE  /\ [id |-> m + k, wanted |-> x[k]] \in Row /\ x[k] \in S /\ m + k <= 2 * MaxLength
    BY <1>1, <2>1, <2>2 DEF Row
  <2>5. Numbered(x, m) \in [1..n -> Row]
    BY <2>3, <2>4
  <2>6. Numbered(x, m) \in Seq(Row) /\ DOMAIN Numbered(x, m) = 1..n
    BY <2>2, <2>5
  <2>7. \A k \in 1..n : Numbered(x, m)[k].wanted = x[k] /\ Numbered(x, m)[k].id = m + k
    BY <2>3
  <2> QED BY <2>4, <2>6, <2>7
<1>14. lists[1] = Numbered(w, 0) /\ lists[2] = Numbered(v, MaxLength)
  BY <1>2
<1>4. /\ lists[1] \in Seq(Row)
      /\ \A k \in DOMAIN lists[1] : (lists[1][k].wanted \/ Mixed(asked)) /\ lists[1][k].id <= 2 * MaxLength
  <2>1. CASE Mixed(asked)
    <3>1. w \in Wants(BOOLEAN)
      BY <1>2, <2>1
    <3> QED BY <1>3, <1>14, <2>1, <3>1
  <2>2. CASE ~Mixed(asked)
    <3>1. w \in Wants({TRUE})
      BY <1>2, <2>2
    <3>2. /\ Numbered(w, 0) \in Seq(Row)
          /\ \A k \in DOMAIN Numbered(w, 0) :
               Numbered(w, 0)[k].wanted \in {TRUE} /\ Numbered(w, 0)[k].id <= 2 * MaxLength
      BY <1>3, <3>1
    <3>3. \A k \in DOMAIN Numbered(w, 0) : Numbered(w, 0)[k].wanted
      BY <3>2, Zenon
    <3> QED BY <1>14, <3>2, <3>3
  <2> QED BY <2>1, <2>2
<1>5. /\ lists[2] \in Seq(Row)
      /\ \A k \in DOMAIN lists[2] : (lists[2][k].wanted /\ asked.tool \in History) /\ lists[2][k].id <= 2 * MaxLength
  <2>1. CASE asked.tool \in History
    <3>1. v \in Wants({TRUE})
      BY <1>2, <2>1
    <3>2. /\ Numbered(v, MaxLength) \in Seq(Row)
          /\ \A k \in DOMAIN Numbered(v, MaxLength) :
               /\ Numbered(v, MaxLength)[k].wanted \in {TRUE} /\ Numbered(v, MaxLength)[k].id <= 2 * MaxLength
      BY <1>3, <3>1
    <3>3. \A k \in DOMAIN Numbered(v, MaxLength) : Numbered(v, MaxLength)[k].wanted
      BY <3>2, Zenon
    <3> QED BY <1>14, <2>1, <3>2, <3>3
  <2>2. CASE asked.tool \notin History
    <3>1. v = << >> /\ lists[2] = Numbered(v, MaxLength)
      BY <1>2, <2>2
    <3>2. lists[2] = << >>
      BY <3>1 DEF Numbered
    <3> QED BY <3>2
  <2> QED BY <2>1, <2>2
<1>6. lists \in [List -> Seq(Row)]
  BY <1>2, <1>4, <1>5 DEF List
<1>7. \A l \in List : atFirst[l] = Rows(lists[l])
  BY <1>1 DEF List
<1>8. \A l \in List : \A r \in Rows(lists[l]) : r \in Row /\ r.id <= 2 * MaxLength
  BY <1>4, <1>5 DEF Rows, ToSet, List
<1>9. ReadTypeOK
  <2>1. atFirst \in [List -> SUBSET Row]
    BY <1>1, <1>7, <1>8 DEF List
  <2>2. gone \in [List -> Nat] /\ shown \in [List -> SUBSET Row]
    BY <1>1 DEF List
  <2> QED BY <1>1, <1>6, <2>1, <2>2 DEF ReadTypeOK
<1>10. RowsRight
  BY <1>1, <1>4, <1>5, <1>7, <1>8 DEF RowsRight
<1>11. \A l \in List : shown[l] = {} /\ gone[l] = 0
  BY <1>1 DEF List
<1>12. ListShown
  BY <1>1, <1>11 DEF ListShown
<1>13. ASSUME NEW l \in List
       PROVE  Missing(l) = {}
  <2>1. ASSUME NEW i \in Counted(l) PROVE ~(Place(Counted(l), i) <= at)
    <3>1. Place(Counted(l), i) \in 1..i /\ i \in Nat
      BY <1>9, CountedPlaces
    <3> QED BY <1>1, <3>1
  <2> QED BY <2>1 DEF Missing, RowsAt, Passed
<1>15. IsFiniteSet({}) /\ Cardinality({}) = 0
  BY FS_EmptySet
<1>16. \A l \in List : Cardinality(RowsAt(l, Passed(l)) \cap Owed(l)) <= gone[l]
  <2> SUFFICES ASSUME NEW l \in List PROVE Cardinality(RowsAt(l, Passed(l)) \cap Owed(l)) <= gone[l]
    OBVIOUS
  <2>1. RowsAt(l, Passed(l)) \cap Owed(l) = {}
    BY <1>13 DEF Missing
  <2>2. Cardinality(RowsAt(l, Passed(l)) \cap Owed(l)) = 0
    BY <1>15, <2>1
  <2> QED BY <1>11, <2>2
<1>17. FiniteMissing
  BY <1>13, <1>15 DEF FiniteMissing
<1> QED BY <1>9, <1>10, <1>12, <1>16, <1>17 DEF ReadInv

LEMMA ReadStutters ==
  ASSUME ReadInv, FiniteMissing, UNCHANGED readVars
  PROVE  ReadInv' /\ FiniteMissing'
<1>1. UNCHANGED <<asked, lists, atFirst, gone, changes, at, ended, shown>>
  BY DEF readVars
<1>2. \A l : Missing(l)' = Missing(l)
  BY <1>1 DEF Missing, RowsAt, Passed, Owed, Counted
<1>3. ReadTypeOK' /\ RowsRight'
  BY <1>1 DEF ReadInv, ReadTypeOK, RowsRight
<1>4. ListShown'
  BY <1>1 DEF ReadInv, ListShown, Missed
<1> QED BY <1>1, <1>2, <1>3, <1>4 DEF ReadInv, FiniteMissing, Missing, Reading

\* For any lists, page sizes, limits and changes: the pages of a list show it in
\* whole, but one row for each that has gone, and nothing that is not the
\* caller's to see (shared/common.ts:187-211, shared/report.ts:296-310).
THEOREM ListShownHolds == ReadSpec => []ListShown
<1>1. ReadInit => ReadInv /\ FiniteMissing
  BY ReadInitHolds
<1>2. ReadInv /\ FiniteMissing /\ [ReadNext]_readVars => (ReadInv /\ FiniteMissing)'
  BY ReadPageKeepsInv, ReadPartKeepsInv, ReadHistoryKeepsInv, ReadRefusedKeepsInv, RowAddedKeepsInv,
     RowGoneKeepsInv, ReadStutters DEF ReadNext
<1>3. ReadInv => ListShown
  BY DEF ReadInv
<1> QED BY <1>1, <1>2, <1>3, PTL DEF ReadSpec

-----------------------------------------------------------------------------
(* SchemaPruning *)

\* Both are checked before anything is collected.
Fits == ValidSchema(full) /\ OperationsValidate(full, operations)

\* A type that is used whole, or of which a field is used, is kept.
LEMMA UsedIsKept ==
  ASSUME NEW t, t \in Types(full), t \in usage.types \/ \E f \in FieldsOf(full, t) : f \in usage.fields
  PROVE  t \in Kept
BY DEF Kept

\* The types that are collected.
LEMMA CollectedTypes ==
  /\ Collected.fields = operations.selects
  /\ \A t : t \in Collected.types <=>
       \/ t \in {Root} \cup operations.conditions \cup operations.variables
       \/ \E f \in operations.selects : t \in TypesOf(f)
<1> DEFINE U == UNION {TypesOf(f) : f \in operations.selects}
<1>1. \A t : t \in U <=> \E f \in operations.selects : t \in TypesOf(f)
  OBVIOUS
<1> HIDE DEF U
<1>2. Collected.fields = operations.selects
  BY DEF Collected
<1>3. Collected.types = {Root} \cup U \cup operations.conditions \cup operations.variables
  <2>1. Collected = [fields |-> operations.selects,
                     types |-> {Root} \cup U \cup operations.conditions \cup operations.variables]
    BY DEF Collected, U
  <2> QED BY <2>1
<1> QED BY <1>1, <1>2, <1>3

\* A selected field is kept, with its type and those of its arguments.
LEMMA SelectedIsKept ==
  ASSUME Fits, UsageInv, FieldsInv, NEW f \in operations.selects
  PROVE  /\ f \in KeptFields /\ f[1] \in Kept /\ full.kind[f[1]] # "input"
         /\ TypesOf(f) \subseteq Kept
<1>1. f \in DOMAIN full.field /\ f \in usage.fields /\ f[1] \in Types(full) /\ full.kind[f[1]] # "input"
  BY DEF Fits, ValidSchema, OperationsValidate, FieldsInv
<1>2. f[1] \in Kept
  BY <1>1, UsedIsKept DEF FieldsOf
<1>3. TypesOf(f) \subseteq Types(full)
  BY <1>1 DEF Fits, ValidSchema, TypesOf
<1>4. TypesOf(f) \subseteq usage.types
  BY DEF UsageInv, Collected, TypesOf
<1> QED BY <1>1, <1>2, <1>3, <1>4, UsedIsKept DEF KeptFields

\* A forced field is one that the object type has, and is kept.
LEMMA ForcedIsKept ==
  ASSUME Fits, UsageInv, FieldsInv, ~Departs, NEW f \in usage.fields, f \notin operations.selects
  PROVE  /\ f \in KeptFields /\ full.kind[f[1]] = "object"
         /\ TypesOf(f) \subseteq Kept
<1>1. PICK p \in full.implements : \E g \in SelectedThrough(p) : full.kind[p[1]] = "object" /\ f = <<p[1], g[2]>>
  BY DEF FieldsInv
<1> PICK g \in SelectedThrough(p) : full.kind[p[1]] = "object" /\ f = <<p[1], g[2]>>
  BY <1>1
<1>2. g \in operations.selects /\ p[1] \in Kept /\ g[1] = p[2] /\ g \in DOMAIN full.field
  BY <1>1 DEF SelectedThrough, Fits, OperationsValidate
<1>3. f \in DOMAIN full.field /\ f[1] = p[1]
  BY <1>1, <1>2 DEF Fits, ValidSchema, FieldsOf
<1>4. TypesOf(f) = TypesOf(g)
  BY <1>1 DEF Departs, TypesOf
<1> QED BY <1>1, <1>2, <1>3, <1>4, SelectedIsKept DEF KeptFields

\* An input is kept only as a whole, and with it what its fields refer to.
LEMMA InputIsClosed ==
  ASSUME Fits, UsageInv, FieldsInv, queue = {}, ~Departs,
         NEW f \in DOMAIN full.field, f[1] \in Kept, full.kind[f[1]] = "input"
  PROVE  f \in KeptFields /\ TypesOf(f) \subseteq Kept
<1>1. \A g \in usage.fields : full.kind[g[1]] # "input"
  BY SelectedIsKept, ForcedIsKept
<1>2. f[1] \in usage.types
  BY <1>1 DEF Kept, FieldsOf
<1>3. full.field[f] \in usage.types
  BY <1>2 DEF UsageInv, Inputs, OfKind, Kept
<1>4. full.args[f] = {} /\ full.field[f] \in Types(full)
  BY DEF Fits, ValidSchema
<1> QED BY <1>3, <1>4, UsedIsKept DEF KeptFields, TypesOf

\* What is left of each part.
LEMMA LeftOver ==
  /\ Types(Filtered) = Kept /\ DOMAIN Filtered.field = KeptFields
  /\ \A t \in Kept : Filtered.kind[t] = full.kind[t]
  /\ \A f \in KeptFields : Filtered.field[f] = full.field[f] /\ Filtered.args[f] = full.args[f]
  /\ Filtered.implements = {p \in full.implements : p[1] \in Kept /\ p[2] \in Kept}
  /\ Filtered.members = KeptMembers
  /\ Kept \subseteq Types(full)
  /\ \A S : OfKind(Filtered, S) = Kept \cap OfKind(full, S)
<1>1. /\ Types(Filtered) = Kept /\ DOMAIN Filtered.field = KeptFields
      /\ \A t \in Kept : Filtered.kind[t] = full.kind[t]
      /\ \A f \in KeptFields : Filtered.field[f] = full.field[f] /\ Filtered.args[f] = full.args[f]
      /\ Filtered.implements = {p \in full.implements : p[1] \in Kept /\ p[2] \in Kept}
      /\ Filtered.members = KeptMembers
  BY DEF Filtered, Only, Types
<1>2. Kept \subseteq Types(full)
  BY DEF Kept
<1> QED BY <1>1, <1>2 DEF OfKind

\* The schema that is left is valid when each composite type and union keeps
\* something and no implementation is in the way.
LEMMA LeftIsValid ==
  ASSUME Fits, UsageInv, FieldsInv, stage # "close",
         ~NoSelection, ~NoMember, ~Departs, ~InterfaceShort
  PROVE  ValidSchema(Filtered)
<1> DEFINE F == Filtered
<1>1. /\ queue = {}
      /\ \A p \in full.implements : \A g \in SelectedThrough(p) :
           full.kind[p[1]] = "object" => <<p[1], g[2]>> \in usage.fields
  BY DEF FieldsInv
<1>2. ASSUME NEW f \in KeptFields
      PROVE  f[1] \in Kept /\ TypesOf(f) \subseteq Kept /\ (full.kind[f[1]] = "input" => full.args[f] = {})
  <2>1. f \in DOMAIN full.field /\ f[1] \in Kept /\ (f \in usage.fields \/ full.kind[f[1]] = "input")
    BY DEF KeptFields
  <2>2. full.kind[f[1]] = "input" => full.args[f] = {}
    BY <2>1 DEF Fits, ValidSchema
  <2> QED BY <1>1, <2>1, <2>2, SelectedIsKept, ForcedIsKept, InputIsClosed
<1>3. ASSUME NEW f \in DOMAIN F.field
      PROVE  /\ f[1] \in Types(F) /\ F.field[f] \in Types(F) /\ F.args[f] \subseteq Types(F)
             /\ F.kind[f[1]] = "input" => F.args[f] = {}
  BY <1>2, LeftOver DEF TypesOf
<1>4. ASSUME NEW p \in F.implements
      PROVE  /\ p[1] \in OfKind(F, {"object", "interface"}) /\ p[2] \in OfKind(F, {"interface"})
             /\ \A f \in FieldsOf(F, p[2]) : <<p[1], f[2]>> \in DOMAIN F.field
  <2>1. p \in full.implements /\ p[1] \in Kept /\ p[2] \in Kept
    BY LeftOver
  <2>2. p[1] \in OfKind(full, {"object", "interface"}) /\ p[2] \in OfKind(full, {"interface"})
    BY <2>1 DEF Fits, ValidSchema
  <2>3. ASSUME NEW f \in FieldsOf(F, p[2])
        PROVE  <<p[1], f[2]>> \in KeptFields
    <3>1. f \in KeptFields /\ f[1] = p[2] /\ f \in DOMAIN full.field
      BY LeftOver DEF FieldsOf, KeptFields
    <3>2. full.kind[f[1]] = "interface"
      BY <2>2, <3>1 DEF OfKind
    <3>3. f \in operations.selects
      BY <3>1, <3>2, ForcedIsKept DEF KeptFields
    <3>4. f \in SelectedThrough(p)
      BY <2>1, <3>1, <3>3 DEF SelectedThrough
    <3>5. <<p[1], f[2]>> \in usage.fields
      <4>1. CASE full.kind[p[1]] = "object"
        BY <1>1, <2>1, <3>4, <4>1
      <4>2. CASE full.kind[p[1]] = "interface"
        BY <2>1, <3>4, <4>2 DEF InterfaceShort, FieldsInv
      <4> QED BY <2>2, <4>1, <4>2 DEF OfKind
    <3>6. <<p[1], f[2]>> \in DOMAIN full.field
      BY <2>1, <3>1 DEF Fits, ValidSchema, FieldsOf
    <3> QED BY <2>1, <3>5, <3>6 DEF KeptFields
  <2> QED BY <2>1, <2>2, <2>3, LeftOver
<1>5. ASSUME NEW p \in F.members
      PROVE  p[1] \in OfKind(F, {"union"}) /\ p[2] \in OfKind(F, {"object"})
  <2>1. p \in full.members /\ p[1] \in Kept /\ FieldsOf(full, p[2]) \cap usage.fields # {}
    BY LeftOver DEF KeptMembers
  <2>2. p[1] \in OfKind(full, {"union"}) /\ p[2] \in OfKind(full, {"object"})
    BY <2>1 DEF Fits, ValidSchema
  <2> QED BY <2>1, <2>2, UsedIsKept, LeftOver DEF OfKind
<1>6. ASSUME NEW t \in OfKind(F, {"object", "interface", "input"})
      PROVE  FieldsOf(F, t) # {}
  <2>1. t \in Kept /\ t \in OfKind(full, {"object", "interface", "input"})
    BY LeftOver
  <2>2. CASE t \in OfKind(full, {"object", "interface"})
    BY <2>1, <2>2, LeftOver DEF NoSelection, FieldsOf, KeptFields
  <2>3. CASE full.kind[t] = "input"
    <3>1. FieldsOf(full, t) # {}
      BY <2>1 DEF Fits, ValidSchema
    <3> QED BY <2>1, <2>3, <3>1, LeftOver DEF FieldsOf, KeptFields
  <2> QED BY <2>1, <2>2, <2>3 DEF OfKind
<1>7. \A t \in OfKind(F, {"union"}) : \E p \in F.members : p[1] = t
  BY LeftOver DEF NoMember
<1> HIDE DEF F
<1>8. ValidSchema(F)
  BY <1>3, <1>4, <1>5, <1>6, <1>7 DEF ValidSchema
<1> QED BY <1>8 DEF F

\* Every operation validates against it.
LEMMA LeftServes ==
  ASSUME Fits, UsageInv, FieldsInv, ~NoSelection
  PROVE  OperationsValidate(Filtered, operations)
<1> DEFINE F == Filtered
<1>1. operations.selects \subseteq KeptFields /\ \A f \in operations.selects : f[1] \in Kept /\ full.kind[f[1]] # "input"
  BY SelectedIsKept
<1>2. operations.selects \subseteq DOMAIN F.field /\ \A f \in operations.selects : F.kind[f[1]] # "input"
  BY <1>1, LeftOver
<1>3. operations.conditions \cup operations.variables \subseteq Kept
  <2>1. operations.conditions \cup operations.variables \subseteq Types(full)
    BY DEF Fits, OperationsValidate
  <2>2. operations.conditions \cup operations.variables \subseteq Collected.types
    BY CollectedTypes
  <2>3. Collected.types \subseteq usage.types
    BY DEF UsageInv
  <2> QED BY <2>1, <2>2, <2>3, UsedIsKept
<1>4. \A g \in operations.selects : F.field[g] = full.field[g] /\ full.field[g] \in Kept
  BY <1>1, SelectedIsKept, LeftOver DEF TypesOf
<1>5. \A f \in operations.selects :
        \/ f[1] = Root
        \/ \E g \in operations.selects : F.field[g] = f[1]
        \/ f[1] \in operations.conditions
  BY <1>4 DEF Fits, OperationsValidate
<1>6. ASSUME NEW t \in operations.conditions
      PROVE  \E g \in operations.selects : <<t, F.field[g]>> \in F.implements \/ <<F.field[g], t>> \in F.members
  <2>1. PICK g \in operations.selects :
          <<t, full.field[g]>> \in full.implements \/ <<full.field[g], t>> \in full.members
    BY DEF Fits, OperationsValidate
  <2>2. t \in Kept /\ full.field[g] \in Kept
    BY <1>3, <1>4
  <2>3. CASE <<t, full.field[g]>> \in full.implements
    BY <2>2, <2>3, <1>4, LeftOver
  <2>4. CASE <<full.field[g], t>> \in full.members
    <3>1. t \in OfKind(full, {"object", "interface"})
      BY <2>4 DEF Fits, ValidSchema, OfKind
    <3>2. FieldsOf(full, t) \cap usage.fields # {}
      BY <2>2, <3>1 DEF NoSelection
    <3>3. <<full.field[g], t>> \in KeptMembers
      BY <2>2, <2>4, <3>2 DEF KeptMembers
    <3> QED BY <3>3, <1>4, LeftOver
  <2> QED BY <2>1, <2>3, <2>4
<1>7. operations.conditions \cup operations.variables \subseteq Types(F)
  BY <1>3, LeftOver
<1> HIDE DEF F
<1>8. OperationsValidate(F, operations)
  BY <1>2, <1>5, <1>6, <1>7 DEF OperationsValidate
<1> QED BY <1>8 DEF F

\* Nothing is left that no operation needs.
LEMMA NothingExtraLeft ==
  ASSUME Fits, UsageInv, FieldsInv, pruned = Filtered, ~EnumChanged
  PROVE  NothingExtra
<1>1. ASSUME NEW f \in DOMAIN pruned.field
      PROVE  \/ full.kind[f[1]] = "input" \/ f \in operations.selects
             \/ \E p \in full.implements, g \in operations.selects : p[1] = f[1] /\ p[2] = g[1] /\ g[2] = f[2]
  <2>1. f \in KeptFields
    BY LeftOver
  <2>2. CASE f \in usage.fields \ operations.selects
    <3>1. PICK p \in full.implements : \E g \in SelectedThrough(p) : f = <<p[1], g[2]>>
      BY <2>2 DEF FieldsInv
    <3> QED BY <3>1 DEF SelectedThrough
  <2> QED BY <2>1, <2>2 DEF KeptFields
<1>2. ASSUME NEW S \in SUBSET Types(pruned), Serves(S)
      PROVE  S = Types(pruned)
  <2>1. Types(pruned) = Kept /\ S \subseteq Types(full)
    BY LeftOver
  <2>2. Kept \subseteq usage.types /\ usage.types \subseteq S
    BY <1>2, <2>1 DEF UsageInv
  <2> QED BY <2>1, <2>2
<1>3. \A t \in DOMAIN PublishedValues \cap DOMAIN pruned.values : pruned.values[t] = PublishedValues[t]
  BY DEF EnumChanged
<1> QED BY <1>1, <1>2, <1>3 DEF NothingExtra

\* The collection starts with what is selected and nothing else.
LEMMA CollectKeepsInv ==
  ASSUME PruneInv, Collect
  PROVE  PruneInv'
<1>1. Fits /\ stage = "collect" /\ stage' = "close" /\ usage' = Collected /\ queue' = Collected.types \cap Inputs
  BY DEF PruneInv, Collect, Fits
<1>2. full' = full /\ operations' = operations /\ Inputs' = Inputs /\ Collected' = Collected
  BY DEF Collect, Inputs, Collected, TypesOf, OfKind, Types
<1>3. usage'.fields = operations.selects /\ usage'.types = Collected.types
  BY <1>1, CollectedTypes
<1>4. ASSUME NEW S \in SUBSET Types(full), Serves(S)
      PROVE  Collected.types \subseteq S
  <2>1. \A f \in operations.selects : TypesOf(f) \subseteq S
    BY <1>4 DEF Serves, TypesOf
  <2>2. {Root} \cup operations.conditions \cup operations.variables \subseteq S
    BY <1>4 DEF Serves
  <2> QED BY <2>1, <2>2, CollectedTypes
<1>5. UsageInv'
  <2>1. Kept' \subseteq usage'.types
    <3>1. ASSUME NEW f \in operations.selects PROVE f[1] \in Collected.types
      <4>1. \/ f[1] \in {Root} \cup operations.conditions
            \/ \E g \in operations.selects : f[1] \in TypesOf(g)
        BY <1>1 DEF Fits, OperationsValidate, TypesOf
      <4> QED BY <4>1, CollectedTypes
    <3>2. ASSUME NEW u \in Kept' PROVE u \in Collected.types
      BY <1>2, <1>3, <3>1 DEF Kept, FieldsOf
    <3> QED BY <1>3, <3>2
  <2>2. (\A S \in SUBSET Types(full) : Serves(S) => usage.types \subseteq S)'
    BY <1>2, <1>3, <1>4 DEF Serves
  <2>3. Collected'.types \subseteq usage'.types /\ queue' \subseteq usage'.types \cap Inputs'
    BY <1>1, <1>2
  <2>4. (usage'.types \cap Inputs') \ queue' = {}
    BY <1>1, <1>2
  <2> QED BY <2>1, <2>2, <2>3, <2>4 DEF UsageInv
<1>6. FieldsInv'
  BY <1>1, <1>2, <1>3 DEF FieldsInv
<1> QED BY <1>1, <1>2, <1>5, <1>6 DEF PruneInv, PrunedRight, Fits

\* An input that has been looked at is closed over, for as long as types are added.
LEMMA CloseKeepsInv ==
  ASSUME PruneInv, NEW t \in queue, CloseInput(t)
  PROVE  PruneInv'
<1> DEFINE more == {full.field[f] : f \in FieldsOf(full, t)} \ usage.types
<1>1. /\ Fits /\ UsageInv /\ FieldsInv /\ stage = "close" /\ stage' = "close"
      /\ full' = full /\ operations' = operations /\ Inputs' = Inputs /\ Collected' = Collected
  BY DEF PruneInv, CloseInput, Fits, Inputs, Collected, TypesOf, OfKind, Types
<1>2. /\ usage'.types = usage.types \cup more /\ usage'.fields = usage.fields
      /\ queue' = (queue \ {t}) \cup (more \cap Inputs)
  <2>1. usage' = [usage EXCEPT !.types = @ \cup more] /\ queue' = (queue \ {t}) \cup (more \cap Inputs)
    BY DEF CloseInput
  <2> QED BY <2>1
<1>3. ASSUME NEW S \in SUBSET Types(full), Serves(S)
      PROVE  usage'.types \subseteq S
  <2>1. usage.types \subseteq S /\ t \in usage.types /\ full.kind[t] = "input"
    BY <1>1, <1>3 DEF UsageInv, Inputs, OfKind
  <2>2. more \subseteq S
    BY <1>3, <2>1 DEF Serves, FieldsOf
  <2> QED BY <1>2, <2>1, <2>2
<1>4. ASSUME NEW f \in DOMAIN full.field, f[1] \in (usage'.types \cap Inputs) \ queue'
      PROVE  full.field[f] \in usage'.types
  <2>1. CASE f[1] = t
    BY <1>2, <2>1 DEF FieldsOf
  <2>2. CASE f[1] # t
    BY <1>1, <1>2, <1>4, <2>2 DEF UsageInv
  <2> QED BY <2>1, <2>2
<1>5. UsageInv'
  <2>1. Collected'.types \subseteq usage'.types /\ queue' \subseteq usage'.types \cap Inputs
    BY <1>1, <1>2 DEF UsageInv
  <2>2. Kept' \subseteq usage'.types
    <3>1. Kept \subseteq usage.types /\ usage.types \subseteq usage'.types
      BY <1>1, <1>2 DEF UsageInv
    <3> QED BY <1>1, <1>2, <3>1 DEF Kept
  <2>3. (\A S \in SUBSET Types(full) : Serves(S) => usage.types \subseteq S)'
    BY <1>1, <1>3 DEF Serves
  <2> HIDE DEF more
  <2> QED BY <1>1, <1>4, <2>1, <2>2, <2>3 DEF UsageInv
<1>6. FieldsInv'
  <2>1. \A f \in usage.fields : f \in operations.selects
    BY <1>1 DEF FieldsInv
  <2> QED BY <1>1, <1>2, <2>1 DEF FieldsInv
<1> QED BY <1>1, <1>5, <1>6 DEF PruneInv, PrunedRight, Fits

\* What is forced makes no type kept that was not.
LEMMA ReconcileKeepsInv ==
  ASSUME PruneInv, Reconcile
  PROVE  PruneInv'
<1>1. /\ Fits /\ UsageInv /\ FieldsInv /\ stage = "close" /\ queue = {} /\ stage' = "filter"
      /\ full' = full /\ operations' = operations /\ Inputs' = Inputs /\ Collected' = Collected /\ queue' = queue
  BY DEF PruneInv, Reconcile, Fits, Inputs, Collected, TypesOf, OfKind, Types
<1>2. usage'.types = usage.types /\ usage'.fields = usage.fields \cup Forced
  <2>1. usage' = [usage EXCEPT !.fields = @ \cup Forced]
    BY DEF Reconcile
  <2> QED BY <2>1
<1>4. usage.fields = operations.selects
  BY <1>1 DEF FieldsInv
<1>5. ASSUME NEW f \in Forced
      PROVE  \E p \in full.implements : \E g \in operations.selects :
               full.kind[p[1]] = "object" /\ p[1] \in Kept /\ g[1] = p[2] /\ f = <<p[1], g[2]>>
  BY <1>4 DEF Forced, ForcedOn
<1>6. Kept \subseteq Kept'
  BY <1>1, <1>2 DEF Kept
<1>7. ASSUME NEW u \in Kept'
      PROVE  u \in Kept
  <2>1. CASE u \in usage.types
    BY <1>1, <2>1 DEF Kept
  <2>2. CASE FieldsOf(full, u) \cap usage'.fields # {}
    <3>1. PICK f \in FieldsOf(full, u) : f \in usage.fields \cup Forced
      BY <1>2, <2>2
    <3>2. CASE f \in Forced
      <4>1. f[1] = u
        BY DEF FieldsOf
      <4> QED BY <1>5, <3>2, <4>1
    <3>3. CASE f \in usage.fields
      BY <1>1, <1>7, <3>1, <3>3 DEF Kept
    <3> QED BY <3>1, <3>2, <3>3
  <2> QED BY <1>1, <1>2, <2>1, <2>2 DEF Kept
<1>3. UsageInv'
  <2>1. Kept' \subseteq usage'.types
    BY <1>1, <1>2, <1>7 DEF UsageInv
  <2> QED BY <1>1, <1>2, <2>1 DEF UsageInv, Serves
<1>8. ASSUME NEW p PROVE SelectedThrough(p)' = SelectedThrough(p)
  BY <1>1, <1>6, <1>7 DEF SelectedThrough
<1>9. ASSUME NEW f \in usage'.fields \ operations.selects
      PROVE  \E p \in full.implements : \E g \in SelectedThrough(p) :
               full.kind[p[1]] = "object" /\ f = <<p[1], g[2]>>
  BY <1>2, <1>4, <1>5 DEF SelectedThrough
<1>10. ASSUME NEW p \in full.implements, NEW g \in SelectedThrough(p), full.kind[p[1]] = "object"
       PROVE  <<p[1], g[2]>> \in usage'.fields
  <2>1. <<p[1], g[2]>> \in ForcedOn(p) /\ p[1] \in Kept
    BY <1>4 DEF SelectedThrough, ForcedOn
  <2> QED BY <1>2, <1>10, <2>1 DEF Forced
<1>11. FieldsInv'
  BY <1>1, <1>2, <1>4, <1>8, <1>9, <1>10 DEF FieldsInv
<1> QED BY <1>1, <1>3, <1>11 DEF PruneInv, PrunedRight, Fits

\* What the later steps leave alone.
LEMMA StillHeld ==
  ASSUME UNCHANGED <<full, operations, usage, queue>>, stage # "close", stage' # "close"
  PROVE  /\ Fits => Fits' /\ (UsageInv => UsageInv') /\ (FieldsInv => FieldsInv')
         /\ Filtered' = Filtered /\ NoSelection' = NoSelection /\ NoMember' = NoMember
         /\ EnumChanged' = EnumChanged /\ Departs' = Departs /\ InterfaceShort' = InterfaceShort
<1>1. Kept' = Kept /\ Inputs' = Inputs /\ Collected' = Collected
  BY DEF Kept, Inputs, OfKind, Types, Collected, TypesOf
<1>2. KeptFields' = KeptFields /\ KeptMembers' = KeptMembers
  BY <1>1 DEF KeptFields, KeptMembers
<1>3. Filtered' = Filtered
  BY <1>1, <1>2 DEF Filtered
<1>4. \A p : SelectedThrough(p)' = SelectedThrough(p)
  BY <1>1 DEF SelectedThrough
<1>5. /\ NoSelection' = NoSelection /\ NoMember' = NoMember /\ EnumChanged' = EnumChanged
      /\ Departs' = Departs /\ InterfaceShort' = InterfaceShort
  BY <1>1, <1>2, <1>3, <1>4 DEF NoSelection, NoMember, EnumChanged, Departs, InterfaceShort
<1>6. (Fits => Fits') /\ (UsageInv => UsageInv') /\ (FieldsInv => FieldsInv')
  BY <1>1, <1>4 DEF Fits, UsageInv, FieldsInv, Serves
<1> QED BY <1>3, <1>5, <1>6

LEMMA Stuttering ==
  ASSUME PruneInv, UNCHANGED <<stage, full, operations, usage, queue, pruned>>
  PROVE  PruneInv'
<1>1. Kept' = Kept /\ Inputs' = Inputs /\ Collected' = Collected
  BY DEF Kept, Inputs, OfKind, Types, Collected, TypesOf
<1>2. KeptFields' = KeptFields /\ KeptMembers' = KeptMembers
  BY <1>1 DEF KeptFields, KeptMembers
<1>3. Filtered' = Filtered
  BY <1>1, <1>2 DEF Filtered
<1>4. \A p : SelectedThrough(p)' = SelectedThrough(p)
  BY <1>1 DEF SelectedThrough
<1>5. UsageInv' = UsageInv /\ FieldsInv' = FieldsInv
  BY <1>1, <1>4 DEF UsageInv, FieldsInv, Serves
<1>6. NoSelection' = NoSelection /\ NoMember' = NoMember /\ EnumChanged' = EnumChanged
  BY <1>1, <1>2, <1>3 DEF NoSelection, NoMember, EnumChanged
<1>7. PrunedRight'
  <2>1. \A S : Serves(S)' = Serves(S)
    BY DEF Serves
  <2>2. NothingExtra' = NothingExtra
    BY <2>1 DEF NothingExtra
  <2> QED BY <1>1, <1>4, <1>6, <2>2 DEF PruneInv, PrunedRight, Departs, InterfaceShort
<1> QED BY <1>3, <1>5, <1>6, <1>7 DEF PruneInv

\* What is filtered fits the operations, or there is a reason it cannot.
LEMMA FilterKeepsInv ==
  ASSUME PruneInv, Filter
  PROVE  PruneInv'
<1>1. Fits /\ UsageInv /\ FieldsInv /\ stage = "filter" /\ UNCHANGED <<full, operations, usage, queue>>
  BY DEF PruneInv, Filter, Fits
<1>2. \/ stage' = "failed" /\ (NoSelection \/ NoMember \/ EnumChanged)
      \/ stage' = "check" /\ pruned' = Filtered /\ ~(NoSelection \/ NoMember \/ EnumChanged)
  BY DEF Filter
<1> QED BY <1>1, <1>2, StillHeld DEF PruneInv, PrunedRight, Fits

LEMMA WriteKeepsInv ==
  ASSUME PruneInv, Write
  PROVE  PruneInv'
<1>1. /\ Fits /\ UsageInv /\ FieldsInv /\ stage = "check" /\ UNCHANGED <<full, operations, usage, queue, pruned>>
      /\ pruned = Filtered /\ ~(NoSelection \/ NoMember \/ EnumChanged)
  BY DEF PruneInv, Write, Fits
<1>2. CASE stage' = "failed" /\ ~Acceptable
  <2>1. Departs \/ InterfaceShort
    BY <1>1, <1>2, LeftIsValid, LeftServes DEF Acceptable
  <2> QED BY <1>1, <1>2, <2>1, StillHeld DEF PruneInv, PrunedRight, Fits
<1>3. CASE stage' = "written" /\ Acceptable
  <2>1. ValidSchema(pruned) /\ OperationsValidate(pruned, operations)
    BY <1>3 DEF Acceptable
  <2>2. NothingExtra
    BY <1>1, NothingExtraLeft
  <2>3. NothingExtra' /\ (ValidSchema(pruned) /\ OperationsValidate(pruned, operations))'
    BY <1>1, <2>1, <2>2 DEF NothingExtra, Serves
  <2> QED BY <1>1, <1>3, <2>3, StillHeld DEF PruneInv, PrunedRight, Fits
<1> QED BY <1>2, <1>3 DEF Write

\* What is written serves every operation and publishes nothing more, and
\* nothing is written only for one of the reasons PrunedRight names: for any
\* schemas, documents, root type and published enums (prune-schema.ts:194-290).
THEOREM PrunedRightHolds == PruneSpec => []PrunedRight
<1>1. PruneInit => PruneInv
  BY DEF PruneInit, PruneInv, PrunedRight
<1>2. PruneInv /\ [PruneNext]_pruneVars => PruneInv'
  <2> SUFFICES ASSUME PruneInv, [PruneNext]_pruneVars
               PROVE  PruneInv'
    OBVIOUS
  <2>1. CASE StartPruning
    BY <2>1 DEF StartPruning, PruneInv, PrunedRight
  <2>2. CASE Collect
    BY <2>2, CollectKeepsInv
  <2>3. CASE \E t \in queue : CloseInput(t)
    BY <2>3, CloseKeepsInv
  <2>4. CASE Reconcile
    BY <2>4, ReconcileKeepsInv
  <2>5. CASE Filter
    BY <2>5, FilterKeepsInv
  <2>6. CASE Write
    BY <2>6, WriteKeepsInv
  <2>7. CASE UNCHANGED pruneVars
    <3>1. UNCHANGED <<stage, full, operations, usage, queue, pruned>>
      BY <2>7 DEF pruneVars
    <3> QED BY <3>1, Stuttering
  <2> QED BY <2>1, <2>2, <2>3, <2>4, <2>5, <2>6, <2>7 DEF PruneNext
<1>3. PruneInv => PrunedRight
  BY DEF PruneInv
<1> QED BY <1>1, <1>2, <1>3, PTL DEF PruneSpec

=============================================================================
