------------------------- MODULE AgentWritesProofs -------------------------
(***************************************************************************)
(* What holds of agent writes for any number of calls, approvals, payloads *)
(* and parts, whatever is lost, cancelled, declined or changed meanwhile.  *)
(***************************************************************************)
EXTENDS AgentWrites, FiniteSetTheorems, TLAPS

\* A sealed state is a record, so not None.
LEMMA StateParts ==
  \A s \in State : s # None /\ s.a \in Args /\ s.d \in Payload /\ s.k \in Key
BY NoneIsNoPayload DEF State

\* A payload built from a call's arguments.
LEMMA BuiltPayload == \A a \in Args, w \in Version : <<a, w>> \in Payload /\ <<a, w>> # None
BY NoneIsNoPayload DEF Payload

\* Where the counters of a call start.
LEMMA StartOfCall == 1 \in Part /\ 0 \in 0..MaxPolls /\ 0 \in 0..(MaxAsks + 1)
BY WritesAssumption DEF Part

\* The status a call reads says APPROVED only of what the user approved.
LEMMA ApprovedWasAgreed ==
  ASSUME IInv, NEW k \in Key
  PROVE  /\ Status(k) \in Final \cup {"none", "PENDING", "APPROVED"}
         /\ Status(k) = "APPROVED" => k \in agreed
         /\ Status(k) \in {"PENDING", "APPROVED"} => Registered(k)
BY DEF IInv, TypeOK, ApiTypeOK, Agreement, Status, Final, Registered

\* What a call has in hand survives the steps of others, as long as approvals
\* keep their payloads and their consent.
LEMMA OthersKeep ==
  ASSUME IInv, NEW d \in Call,
         states \subseteq states', agreed \subseteq agreed',
         \A k \in Key : Registered(k) => Registered(k)' /\ appr'[k].pay = appr[k].pay,
         pc'[d] = pc[d], args'[d] = args[d], st'[d] = st[d], seen'[d] = seen[d],
         pay'[d] = pay[d], key'[d] = key[d], api'[d] = "none" \/ api[d] # "none"
  PROVE  CarriesSealed(d)' /\ ChoseRightly(d)'
<1>1. key[d] \in Key \cup {None}
  BY DEF IInv, TypeOK, CallTypeOK
<1> QED
  BY <1>1 DEF IInv, CallsInHand, CarriesSealed, ChoseRightly, Registered

\* The API, the user and other calls never take back what a call relies on.
LEMMA CallsKeep ==
  ASSUME IInv, NEW c \in Call, CarriesSealed(c)', ChoseRightly(c)',
         states \subseteq states', agreed \subseteq agreed',
         \A k \in Key : Registered(k) => Registered(k)' /\ appr'[k].pay = appr[k].pay,
         \A d \in Call \ {c} :
           /\ pc'[d] = pc[d] /\ args'[d] = args[d] /\ st'[d] = st[d] /\ seen'[d] = seen[d]
           /\ pay'[d] = pay[d] /\ key'[d] = key[d] /\ api'[d] = api[d]
  PROVE  CallsInHand'
<1>1. ASSUME NEW d \in Call \ {c} PROVE CarriesSealed(d)' /\ ChoseRightly(d)'
  BY OthersKeep
<1> QED
  BY <1>1 DEF CallsInHand

\* What the API and the user hold is in order after a step that changes none of it.
LEMMA ApiKeeps ==
  ASSUME IInv, UNCHANGED <<apiVars, version, states, agreed>>
  PROVE  ApiTypeOK' /\ Agreement' /\ SealedStates' /\ LateWrites'
BY DEF IInv, TypeOK, apiVars, ApiTypeOK, Agreement, SealedStates, LateWrites, Registered

\* An answered call is typed, and relies on nothing any more.
LEMMA AnswerKeepsCalls ==
  ASSUME IInv, NEW c \in Call, NEW how \in Answers, Answer(c, how),
         states \subseteq states',
         \A k \in Key : Registered(k) => Registered(k)' /\ appr'[k].pay = appr[k].pay
  PROVE  CallTypeOK' /\ CallsInHand'
<1>1. CallTypeOK'
  BY StartOfCall DEF Answer, Goto, IInv, TypeOK, CallTypeOK
<1>2. pc'[c] = "idle" /\ st'[c] = None /\ seen'[c] = "none" /\ api'[c] = "none"
  BY DEF Answer, Goto, IInv, TypeOK, CallTypeOK
<1>3. CarriesSealed(c)' /\ ChoseRightly(c)'
  BY <1>2 DEF CarriesSealed, ChoseRightly
<1>4. \A d \in Call \ {c} :
        /\ pc'[d] = pc[d] /\ args'[d] = args[d] /\ st'[d] = st[d] /\ seen'[d] = seen[d]
        /\ pay'[d] = pay[d] /\ key'[d] = key[d] /\ api'[d] = api[d]
  BY DEF Answer, Goto, IInv, TypeOK, CallTypeOK
<1> QED
  BY <1>1, <1>3, <1>4, CallsKeep DEF Answer

\* Most calls end without touching anything else.
LEMMA AnswerKeeps ==
  ASSUME IInv, NEW c \in Call, NEW how \in Answers, Answer(c, how),
         UNCHANGED <<apiVars, version, states>>
  PROVE  IInv'
<1>1. ApiTypeOK' /\ Agreement' /\ SealedStates' /\ LateWrites'
  BY ApiKeeps DEF Answer
<1>2. CallTypeOK' /\ CallsInHand'
  BY AnswerKeepsCalls DEF apiVars, Registered
<1> QED
  BY <1>1, <1>2 DEF IInv, TypeOK

\* A step of the call c alone, on its own side of the API.
OthersStill(c) == \A d \in Call \ {c} :
  /\ pc'[d] = pc[d] /\ args'[d] = args[d] /\ st'[d] = st[d] /\ seen'[d] = seen[d]
  /\ pay'[d] = pay[d] /\ key'[d] = key[d] /\ api'[d] = api[d]

\* Such a step keeps the invariant if it keeps what is said of c.
LEMMA OwnStepKeeps ==
  ASSUME IInv, NEW c \in Call, UNCHANGED <<apiVars, version, states, agreed>>,
         CallTypeOK', OthersStill(c), CarriesSealed(c)', ChoseRightly(c)'
  PROVE  IInv'
<1>1. ApiTypeOK' /\ Agreement' /\ SealedStates' /\ LateWrites'
  BY ApiKeeps
<1>2. CallsInHand'
  BY CallsKeep DEF OthersStill, apiVars, Registered
<1> QED
  BY <1>1, <1>2 DEF IInv, TypeOK

-----------------------------------------------------------------------------
(* ApprovalGate.check *)

\* Start preserves the invariant.
LEMMA StartKeeps == ASSUME IInv, NEW c \in Call, Start(c) PROVE IInv'
<1>1. PICK a \in Args :
        /\ args' = [args EXCEPT ![c] = a]
        /\ \/ Goto(c, "build") /\ UNCHANGED <<st, strayed>>
           \/ Goto(c, "build") /\ strayed' = strayed \cup {c} /\ UNCHANGED st
           \/ \E s \in states : st' = [st EXCEPT ![c] = s] /\ Goto(c, "read") /\ UNCHANGED strayed
  BY DEF Start
<1>2. \A s \in states : s \in State
  BY DEF IInv, TypeOK, ApiTypeOK
<1>3. CallTypeOK'
  BY <1>1, <1>2 DEF Start, Goto, sendVars, Answers, IInv, TypeOK, CallTypeOK
<1>4. OthersStill(c)
  BY <1>1 DEF Start, Goto, sendVars, IInv, TypeOK, CallTypeOK, OthersStill
<1>5. /\ pc[c] = "idle" /\ args'[c] = a /\ a # None
      /\ \/ pc'[c] = "build" /\ st'[c] = st[c]
         \/ pc'[c] = "read" /\ st'[c] \in states /\ st'[c] # None
      /\ seen'[c] = seen[c] /\ api'[c] = api[c] /\ states' = states /\ agreed' = agreed
  BY <1>1, <1>2, StateParts, WritesAssumption
     DEF Start, Goto, sendVars, IInv, TypeOK, CallTypeOK
<1>6. CarriesSealed(c)' /\ ChoseRightly(c)'
  BY <1>5 DEF IInv, CallsInHand, CarriesSealed, ChoseRightly
<1> QED
  BY <1>3, <1>4, <1>6, OwnStepKeeps DEF Start

\* Read preserves the invariant.
LEMMA ReadKeeps == ASSUME IInv, NEW c \in Call, Read(c) PROVE IInv'
<1> DEFINE s == Status(st[c].k)
<1>1. CASE s \in Final
  <2>1. Answer(c, "settled") /\ UNCHANGED <<apiVars, version, states>>
    BY <1>1 DEF Read
  <2> QED
    BY <2>1, AnswerKeeps DEF Answers
<1>2. CASE s \notin Final
  <2>1. /\ pc[c] = "read" /\ seen' = [seen EXCEPT ![c] = s] /\ Goto(c, "build")
        /\ UNCHANGED <<args, st, polls, pay, key, sendVars, out, histVars, apiVars, version, states>>
    BY <1>2 DEF Read
  <2>2. st[c] # None /\ st[c] \in states /\ st[c].k \in Key
    BY <2>1, StateParts DEF IInv, CallsInHand, CarriesSealed, TypeOK, ApiTypeOK
  <2>3. s \in Final \cup {"none", "PENDING", "APPROVED"} /\ (s = "APPROVED" => st[c].k \in agreed)
    BY <2>2, ApprovedWasAgreed
  <2>4. CallTypeOK' /\ OthersStill(c)
    BY <2>1, <2>3 DEF Goto, sendVars, histVars, IInv, TypeOK, CallTypeOK, OthersStill
  <2>5. /\ pc'[c] = "build" /\ st' = st /\ seen'[c] = s /\ api' = api /\ args' = args
        /\ states' = states /\ agreed' = agreed
    BY <2>1 DEF Goto, sendVars, histVars, IInv, TypeOK, CallTypeOK
  <2>6. CarriesSealed(c)' /\ ChoseRightly(c)'
    BY <2>1, <2>2, <2>3, <2>5 DEF IInv, CallsInHand, CarriesSealed, ChoseRightly
  <2> QED
    BY <2>1, <2>4, <2>6, OwnStepKeeps DEF histVars
<1> QED
  BY <1>1, <1>2

\* Build preserves the invariant.
LEMMA BuildKeeps == ASSUME IInv, NEW c \in Call, Build(c) PROVE IInv'
<1> DEFINE p == <<args[c], version>>
<1>1. pc[c] = "build" /\ p \in Payload /\ p # None
  BY BuiltPayload
     DEF Build, IInv, TypeOK, ApiTypeOK, CallTypeOK, CallsInHand, ChoseRightly
<1>2. /\ pay' = [pay EXCEPT ![c] = p]
      /\ UNCHANGED <<apiVars, version, states, args, seen, polls, key, sendVars, out, agreed, exposed, crossed>>
      /\ \/ Goto(c, "await") /\ UNCHANGED <<st, strayed>> /\ st[c] # None /\ st[c].d = p
         \/ /\ Goto(c, "find") /\ st' = [st EXCEPT ![c] = None]
            /\ strayed' \in {strayed, strayed \cup {c}}
  BY DEF Build
<1>3. CallTypeOK'
  BY <1>1, <1>2 DEF Goto, sendVars, IInv, TypeOK, CallTypeOK
<1>4. OthersStill(c)
  BY <1>2 DEF Goto, sendVars, IInv, TypeOK, CallTypeOK, OthersStill
<1>5. /\ pay'[c] = p /\ seen' = seen /\ api' = api /\ args' = args
      /\ \/ pc'[c] = "await" /\ st' = st /\ st[c] # None /\ st[c].d = p
         \/ pc'[c] = "find" /\ st'[c] = None
      /\ states' = states /\ agreed' = agreed
  BY <1>2 DEF Goto, sendVars, IInv, TypeOK, CallTypeOK
<1>6. CarriesSealed(c)' /\ ChoseRightly(c)'
  BY <1>1, <1>5 DEF IInv, CallsInHand, CarriesSealed, ChoseRightly
<1> QED
  BY <1>2, <1>3, <1>4, <1>6, OwnStepKeeps

\* Poll preserves the invariant.
LEMMA PollKeeps == ASSUME IInv, NEW c \in Call, Poll(c) PROVE IInv'
<1>1. st[c] # None /\ st[c] \in states /\ st[c].k \in Key
  BY StateParts DEF Poll, IInv, CallsInHand, CarriesSealed, TypeOK, ApiTypeOK
<1>2. /\ Status(st[c].k) \in Final \cup {"none", "PENDING", "APPROVED"}
      /\ Status(st[c].k) = "APPROVED" => st[c].k \in agreed
  BY <1>1, ApprovedWasAgreed
<1>3. CallTypeOK'
  BY <1>2, WritesAssumption DEF Poll, sendVars, histVars, IInv, TypeOK, CallTypeOK
<1>4. OthersStill(c)
  BY DEF Poll, sendVars, histVars, IInv, TypeOK, CallTypeOK, OthersStill
<1>5. seen'[c] = Status(st[c].k)
  BY DEF Poll, IInv, TypeOK, CallTypeOK
<1>6. CarriesSealed(c)' /\ ChoseRightly(c)'
  BY <1>1, <1>2, <1>5
     DEF Poll, apiVars, sendVars, histVars, IInv, CallsInHand, CarriesSealed, ChoseRightly, Registered
<1> QED
  BY <1>3, <1>4, <1>6, OwnStepKeeps DEF Poll, histVars

\* Decided preserves the invariant.
LEMMA DecidedKeeps == ASSUME IInv, NEW c \in Call, Decided(c) PROVE IInv'
<1>1. CASE seen[c] # "APPROVED"
  <2>1. Answer(c, "settled") /\ UNCHANGED <<apiVars, version, states>>
    BY <1>1 DEF Decided
  <2> QED
    BY <2>1, AnswerKeeps DEF Answers
<1>2. CASE seen[c] = "APPROVED"
  <2>1. /\ pc[c] = "await" /\ key' = [key EXCEPT ![c] = st[c].k] /\ Goto(c, "send")
        /\ UNCHANGED <<args, st, seen, polls, pay, sendVars, out, histVars, apiVars, version, states>>
    BY <1>2 DEF Decided
  <2>2. /\ st[c] # None /\ st[c] \in states /\ st[c].k \in agreed /\ st[c].d = pay[c]
        /\ st[c].k \in Key /\ st[c].k # None /\ Registered(st[c].k) /\ appr[st[c].k].pay = pay[c]
    BY <1>2, <2>1, StateParts, WritesAssumption
       DEF IInv, CallsInHand, CarriesSealed, SealedStates, TypeOK, ApiTypeOK
  <2>3. CallTypeOK' /\ OthersStill(c)
    BY <2>1, <2>2 DEF Goto, sendVars, histVars, IInv, TypeOK, CallTypeOK, OthersStill
  <2>4. pc'[c] = "send" /\ key'[c] = st[c].k /\ pay' = pay /\ api' = api
    BY <2>1 DEF Goto, sendVars, IInv, TypeOK, CallTypeOK
  <2>5. CarriesSealed(c)' /\ ChoseRightly(c)'
    BY <2>1, <2>2, <2>4
       DEF apiVars, histVars, IInv, CallsInHand, CarriesSealed, ChoseRightly, Registered
  <2> QED
    BY <2>1, <2>3, <2>5, OwnStepKeeps DEF histVars
<1> QED
  BY <1>1, <1>2

\* Find preserves the invariant.
LEMMA FindKeeps == ASSUME IInv, NEW c \in Call, Find(c) PROVE IInv'
<1>1. /\ pc[c] = "find"
      /\ UNCHANGED <<apiVars, version, states, args, st, seen, polls, pay, sendVars, out,
                     agreed, exposed, strayed>>
      /\ crossed' \in {crossed, crossed \cup ({pay[c]} \cap BeingRegistered)}
      /\ \/ \E k \in Key : /\ appr[k].pay = pay[c] /\ Status(k) = "APPROVED"
                           /\ key' = [key EXCEPT ![c] = k] /\ Goto(c, "send")
         \/ \E k \in Key : /\ appr[k].pay = pay[c] /\ Status(k) = "PENDING"
                           /\ key' = [key EXCEPT ![c] = k] /\ Goto(c, "ask")
         \/ Goto(c, "create") /\ UNCHANGED key
  BY DEF Find, Live
<1>2. CallTypeOK' /\ OthersStill(c)
  <2>1. crossed' \subseteq Payload
    BY <1>1 DEF IInv, TypeOK, CallTypeOK, CallsInHand, ChoseRightly
  <2> QED
    BY <1>1, <2>1 DEF Goto, sendVars, IInv, TypeOK, CallTypeOK, OthersStill
<1>3. \/ /\ pc'[c] = "send" /\ key'[c] \in agreed
         /\ key'[c] \in Key /\ Registered(key'[c]) /\ appr[key'[c]].pay = pay[c]
      \/ /\ pc'[c] = "ask"
         /\ key'[c] \in Key /\ Registered(key'[c]) /\ appr[key'[c]].pay = pay[c]
      \/ pc'[c] = "create"
  BY <1>1, ApprovedWasAgreed DEF Goto, IInv, TypeOK, CallTypeOK
<1>4. CarriesSealed(c)' /\ ChoseRightly(c)'
  BY <1>1, <1>3, WritesAssumption
     DEF apiVars, sendVars, IInv, CallsInHand, CarriesSealed, ChoseRightly, Registered
<1> QED
  BY <1>1, <1>2, <1>4, OwnStepKeeps

\* What was sealed or sent stays true as approvals are registered and decided.
LEMMA PromisesKeep ==
  ASSUME IInv, states' = states, late' \subseteq late, agreed \subseteq agreed',
         \A k \in Key : Registered(k) => Registered(k)' /\ appr'[k].pay = appr[k].pay
  PROVE  SealedStates' /\ LateWrites'
<1>1. \A s \in states : s.k \in Key
  BY StateParts DEF IInv, TypeOK, ApiTypeOK
<1>2. \A r \in late : r.k \in Key /\ r.k \in agreed
  BY DEF IInv, TypeOK, ApiTypeOK, Request, LateWrites
<1> QED
  BY <1>1, <1>2 DEF IInv, SealedStates, LateWrites, Agreement

\* A registration takes a new approval, so what was said of others stays.
LEMMA RegistrationKeeps ==
  ASSUME IInv, NEW k \in Key, NEW p \in Payload, Registers(k, p), posted' \subseteq posted,
         UNCHANGED <<used, running, late, version, states, agreed>>
  PROVE  /\ ApiTypeOK' /\ Agreement' /\ SealedStates' /\ LateWrites'
         /\ \A j \in Key : Registered(j) => Registered(j)' /\ appr'[j].pay = appr[j].pay
         /\ Registered(k)' /\ appr'[k].pay = p
<1>1. ApiTypeOK'
  BY DEF Registers, IInv, TypeOK, ApiTypeOK
<1>2. /\ \A j \in Key : Registered(j) => Registered(j)' /\ appr'[j].pay = appr[j].pay
      /\ Registered(k)' /\ appr'[k].pay = p
  BY DEF Registers, Registered, IInv, TypeOK, ApiTypeOK
<1>3. Agreement'
  BY DEF Registers, IInv, TypeOK, ApiTypeOK, Agreement, Registered
<1>4. SealedStates' /\ LateWrites'
  BY <1>2, PromisesKeep
<1> QED
  BY <1>1, <1>2, <1>3, <1>4

\* Create preserves the invariant.
LEMMA CreateKeeps == ASSUME IInv, NEW c \in Call, Create(c) PROVE IInv'
<1>1. PICK k \in Key : Registers(k, pay[c]) /\ key' = [key EXCEPT ![c] = k]
  BY DEF Create
<1>2. /\ pc[c] = "create" /\ Goto(c, "ask")
      /\ UNCHANGED <<used, running, late, posted, version, states, args, st, seen, polls, pay, sendVars, out,
                     agreed, exposed, strayed, crossed>>
  BY DEF Create, histVars
<1>3. pay[c] \in Payload /\ args[c] # None
  BY <1>2 DEF IInv, TypeOK, CallTypeOK, CallsInHand, ChoseRightly
<1>4. /\ ApiTypeOK' /\ Agreement' /\ SealedStates' /\ LateWrites'
      /\ \A j \in Key : Registered(j) => Registered(j)' /\ appr'[j].pay = appr[j].pay
      /\ Registered(k)' /\ appr'[k].pay = pay[c]
  BY <1>1, <1>2, <1>3, RegistrationKeeps
<1>5. CallTypeOK' /\ OthersStill(c)
  BY <1>1, <1>2 DEF Goto, sendVars, IInv, TypeOK, CallTypeOK, OthersStill
<1>6. pc'[c] = "ask" /\ key'[c] = k /\ pay' = pay /\ api' = api
  BY <1>1, <1>2 DEF Goto, sendVars, IInv, TypeOK, CallTypeOK
<1>7. CarriesSealed(c)'
  BY <1>2, <1>6 DEF IInv, CallsInHand, CarriesSealed
<1>8. ChoseRightly(c)'
  BY <1>2, <1>3, <1>4, <1>6, WritesAssumption, NoneIsNoPayload DEF IInv, CallsInHand, ChoseRightly
<1>9. CallsInHand'
  BY <1>2, <1>4, <1>5, <1>7, <1>8, CallsKeep DEF OthersStill
<1> QED
  BY <1>4, <1>5, <1>9 DEF IInv, TypeOK

\* Ask preserves the invariant.
LEMMA AskKeeps == ASSUME IInv, NEW c \in Call, Ask(c) PROVE IInv'
<1> DEFINE s == [a |-> args[c], d |-> pay[c], k |-> key[c]]
<1>1. /\ states' = states \cup {s} /\ Answer(c, "input_required")
      /\ UNCHANGED <<apiVars, version, agreed>>
  BY DEF Ask, Answer
<1>2. s \in State /\ Registered(key[c]) /\ appr[key[c]].pay = pay[c]
  BY DEF Ask, IInv, TypeOK, CallTypeOK, CallsInHand, ChoseRightly, State
<1>3. ApiTypeOK' /\ Agreement' /\ SealedStates' /\ LateWrites'
  BY <1>1, <1>2
     DEF apiVars, IInv, TypeOK, ApiTypeOK, Agreement, SealedStates, LateWrites, Registered
<1>4. CallTypeOK' /\ CallsInHand'
  BY <1>1, AnswerKeepsCalls DEF apiVars, Registered, Answers
<1> QED
  BY <1>3, <1>4 DEF IInv, TypeOK

-----------------------------------------------------------------------------
(* approvedWrite and resendingLostWrites *)

\* Send preserves the invariant.
LEMMA SendKeeps == ASSUME IInv, NEW c \in Call, Send(c) PROVE IInv'
<1>1. CallTypeOK' /\ OthersStill(c)
  BY DEF Send, Goto, gateVars, histVars, IInv, TypeOK, CallTypeOK, OthersStill
<1>2. pc'[c] = "wire"
  BY DEF Send, Goto, IInv, TypeOK, CallTypeOK
<1>3. CarriesSealed(c)' /\ ChoseRightly(c)'
  BY <1>2 DEF Send, apiVars, gateVars, histVars, IInv, CallsInHand, CarriesSealed, ChoseRightly,
     Registered
<1> QED
  BY <1>1, <1>3, OwnStepKeeps DEF Send, histVars

\* Confirmed preserves the invariant.
LEMMA ConfirmedKeeps == ASSUME IInv, NEW c \in Call, Confirmed(c) PROVE IInv'
<1>1. CASE part[c] = Parts
  <2>1. Answer(c, "ok") /\ UNCHANGED <<apiVars, version, states>>
    BY <1>1 DEF Confirmed
  <2> QED
    BY <2>1, AnswerKeeps DEF Answers
<1>2. CASE part[c] # Parts
  <2>1. /\ pc[c] = "wire" /\ Goto(c, "send") /\ part' = [part EXCEPT ![c] = @ + 1]
        /\ api' = [api EXCEPT ![c] = "none"] /\ asks' = [asks EXCEPT ![c] = 0]
        /\ exposed' = exposed \ {c}
        /\ UNCHANGED <<gateVars, out, agreed, strayed, crossed, apiVars, version, states>>
    BY <1>2 DEF Confirmed
  <2>2. part[c] + 1 \in Part
    BY <1>2, WritesAssumption DEF Part, IInv, TypeOK, CallTypeOK
  <2>3. CallTypeOK'
    BY <2>1, <2>2, StartOfCall DEF Goto, gateVars, IInv, TypeOK, CallTypeOK
  <2>4. OthersStill(c)
    BY <2>1 DEF Goto, gateVars, IInv, TypeOK, CallTypeOK, OthersStill
  <2>5. pc'[c] = "send" /\ api'[c] = "none"
    BY <2>1 DEF Goto, IInv, TypeOK, CallTypeOK
  <2>6. CarriesSealed(c)' /\ ChoseRightly(c)'
    BY <2>1, <2>5 DEF apiVars, gateVars, IInv, CallsInHand, CarriesSealed, ChoseRightly, Registered
  <2> QED
    BY <2>1, <2>3, <2>4, <2>6, OwnStepKeeps
<1> QED
  BY <1>1, <1>2

\* A request left to itself is one for what was approved.
LEMMA AbandonKeeps ==
  ASSUME IInv, NEW c \in Call, Abandon(c), UNCHANGED <<appr, used, version, states, agreed>>
  PROVE  ApiTypeOK' /\ Agreement' /\ SealedStates' /\ LateWrites'
<1>1. ASSUME api[c] \in {"sent", "running"}
      PROVE  MyRequest(c) \in Request /\ key[c] \in agreed /\ appr[key[c]].pay = pay[c]
  BY <1>1 DEF IInv, TypeOK, CallTypeOK, CallsInHand, ChoseRightly, MyRequest, Request
<1>2. LateWrites'
  BY <1>1 DEF Abandon, MyRequest, IInv, LateWrites
<1>3. late' \subseteq Request /\ running' \in [Key -> [Part -> Call \cup {Late, None}]]
  BY <1>1 DEF Abandon, IInv, TypeOK, ApiTypeOK
<1>5. posted' \subseteq Payload
  BY DEF Abandon, IInv, TypeOK, ApiTypeOK, CallTypeOK, CallsInHand, ChoseRightly
<1>4. ApiTypeOK' /\ Agreement' /\ SealedStates'
  BY <1>3, <1>5 DEF IInv, TypeOK, ApiTypeOK, Agreement, SealedStates, Registered
<1> QED
  BY <1>2, <1>4

\* Resend preserves the invariant.
LEMMA ResendKeeps == ASSUME IInv, NEW c \in Call, Resend(c) PROVE IInv'
<1>1. ApiTypeOK' /\ Agreement' /\ SealedStates' /\ LateWrites'
  BY AbandonKeeps DEF Resend
<1>2. CallTypeOK'
  BY WritesAssumption DEF Resend, gateVars, IInv, TypeOK, CallTypeOK
<1>3. OthersStill(c)
  BY DEF Resend, gateVars, IInv, TypeOK, CallTypeOK, OthersStill
<1>4. CarriesSealed(c)' /\ ChoseRightly(c)'
  BY DEF Resend, gateVars, IInv, CallsInHand, CarriesSealed, ChoseRightly, Registered
<1>5. CallsInHand'
  BY <1>3, <1>4, CallsKeep DEF Resend, OthersStill, Registered
<1> QED
  BY <1>1, <1>2, <1>5 DEF IInv, TypeOK

\* AskAgain preserves the invariant.
LEMMA AskAgainKeeps == ASSUME IInv, NEW c \in Call, AskAgain(c) PROVE IInv'
<1>1. asks[c] + 1 \in 0..(MaxAsks + 1)
  BY WritesAssumption DEF AskAgain, IInv, TypeOK, CallTypeOK
<1>2. CallTypeOK' /\ OthersStill(c)
  BY <1>1 DEF AskAgain, gateVars, histVars, IInv, TypeOK, CallTypeOK, OthersStill
<1>3. CarriesSealed(c)' /\ ChoseRightly(c)'
  BY DEF AskAgain, apiVars, gateVars, histVars, IInv, CallsInHand, CarriesSealed, ChoseRightly,
     Registered
<1> QED
  BY <1>2, <1>3, OwnStepKeeps DEF AskAgain, histVars

\* A call that gives up.
LEMMA GivenUpKeeps ==
  ASSUME IInv, NEW c \in Call, OutcomeUnknown(c) \/ Cancel(c)
  PROVE  IInv'
<1>1. PICK how \in Answers : Answer(c, how)
  BY DEF OutcomeUnknown, Cancel, Answers
<1>2. Abandon(c) /\ UNCHANGED <<appr, used, version, states, agreed>>
  BY DEF OutcomeUnknown, Cancel, Answer
<1>3. ApiTypeOK' /\ Agreement' /\ SealedStates' /\ LateWrites'
  BY <1>2, AbandonKeeps
<1>4. CallTypeOK' /\ CallsInHand'
  BY <1>1, <1>2, AnswerKeepsCalls DEF Registered
<1> QED
  BY <1>3, <1>4 DEF IInv, TypeOK

\* The steps that only answer the call.
LEMMA AnsweredKeeps ==
  ASSUME IInv, NEW c \in Call,
         \/ NotOpened(c) \/ LookupFails(c) \/ BudgetSpent(c) \/ Fallback(c)
         \/ CallDeadline(c) \/ Unreadable(c) \/ Refused(c)
  PROVE  IInv'
<1>1. PICK how \in Answers : Answer(c, how)
  BY DEF NotOpened, LookupFails, BudgetSpent, Fallback, CallDeadline, Unreadable, Refused, Answers
<1>2. UNCHANGED <<apiVars, version, states>>
  BY DEF NotOpened, LookupFails, BudgetSpent, Fallback, CallDeadline, Unreadable, Refused
<1> QED
  BY <1>1, <1>2, AnswerKeeps

-----------------------------------------------------------------------------
(* The API, the user, and everybody else *)

\* A step of the API or the user leaves every call with what it relies on.
LEMMA BystandersKeep ==
  ASSUME IInv, UNCHANGED <<states, pc, gateVars>>, agreed \subseteq agreed',
         \A k \in Key : Registered(k) => Registered(k)' /\ appr'[k].pay = appr[k].pay,
         \A d \in Call : api'[d] = api[d] \/ api[d] # "none"
  PROVE  CallsInHand'
<1>1. ASSUME NEW d \in Call PROVE CarriesSealed(d)' /\ ChoseRightly(d)'
  BY OthersKeep DEF gateVars
<1> QED
  BY <1>1 DEF CallsInHand

\* The API runs, commits, rolls back or answers a call's request.
LEMMA ApiStepKeeps == ASSUME IInv, NEW c \in Call, ApiStep(c) PROVE IInv'
<1>1. /\ UNCHANGED <<appr, late, posted, version, states, agreed, pc, gateVars, part, asks, out,
                     strayed, crossed>>
      /\ api[c] # "none" /\ \A d \in Call \ {c} : api'[d] = api[d]
  BY DEF ApiStep, ApiRuns, ApiCommits, ApiRollsBack, ApiAnswers, apiVars, histVars,
     IInv, TypeOK, CallTypeOK
<1>2. CallTypeOK'
  <2>1. exposed' \subseteq Call
    BY DEF ApiStep, ApiRuns, ApiCommits, ApiRollsBack, ApiAnswers, histVars, IInv, TypeOK, CallTypeOK
  <2>2. api' \in [Call -> {"none", "sent", "running", "done", "refused", "busy", "failed"}]
    BY DEF ApiStep, ApiRuns, ApiCommits, ApiRollsBack, ApiAnswers, IInv, TypeOK, CallTypeOK
  <2> QED
    BY <1>1, <2>1, <2>2 DEF gateVars, IInv, TypeOK, CallTypeOK
<1>3. used' \in [Key -> SUBSET Part]
  <2>1. part[c] \in Part /\ used \in [Key -> SUBSET Part]
    BY DEF IInv, TypeOK, ApiTypeOK, CallTypeOK
  <2>2. used' = used \/ used' = [used EXCEPT ![key[c]] = @ \cup {part[c]}]
    BY DEF ApiStep, ApiRuns, ApiCommits, ApiRollsBack, ApiAnswers, apiVars
  <2> QED
    BY <2>1, <2>2
<1>4. running' \in [Key -> [Part -> Call \cup {Late, None}]]
  <2>1. part[c] \in Part /\ running \in [Key -> [Part -> Call \cup {Late, None}]]
    BY DEF IInv, TypeOK, ApiTypeOK, CallTypeOK
  <2>2. \/ running' = running
        \/ \E x \in {c, None} : running' = [running EXCEPT ![key[c]][part[c]] = x]
    BY DEF ApiStep, ApiRuns, ApiCommits, ApiRollsBack, ApiAnswers, apiVars
  <2> QED
    BY <2>1, <2>2
<1>5. ApiTypeOK' /\ Agreement' /\ SealedStates' /\ LateWrites'
  BY <1>1, <1>3, <1>4
     DEF IInv, TypeOK, ApiTypeOK, Agreement, SealedStates, LateWrites, Registered
<1>6. CallsInHand'
  BY <1>1, BystandersKeep DEF Registered
<1> QED
  BY <1>2, <1>5, <1>6 DEF IInv, TypeOK

\* LateRuns preserves the invariant.
LEMMA LateRunsKeeps == ASSUME IInv, NEW r \in late, LateRuns(r) PROVE IInv'
<1>1. r.k \in Key /\ r.i \in Part
  BY DEF IInv, TypeOK, ApiTypeOK, Request
<1>2. ApiTypeOK' /\ Agreement' /\ SealedStates' /\ LateWrites'
  BY <1>1 DEF LateRuns, histVars, IInv, TypeOK, ApiTypeOK, Agreement, SealedStates, LateWrites,
     Registered
<1>3. CallTypeOK'
  BY DEF LateRuns, gateVars, sendVars, histVars, IInv, TypeOK, CallTypeOK
<1>4. CallsInHand'
  BY BystandersKeep DEF LateRuns, sendVars, histVars, Registered
<1> QED
  BY <1>2, <1>3, <1>4 DEF IInv, TypeOK

\* LateEnds preserves the invariant.
LEMMA LateEndsKeeps ==
  ASSUME IInv, NEW k \in Key, NEW i \in Part, LateEnds(k, i) PROVE IInv'
<1>1. used' \in [Key -> SUBSET Part]
  BY DEF LateEnds, IInv, TypeOK, ApiTypeOK
<1>2. running' \in [Key -> [Part -> Call \cup {Late, None}]]
  BY DEF LateEnds, IInv, TypeOK, ApiTypeOK
<1>3. ApiTypeOK' /\ Agreement' /\ SealedStates' /\ LateWrites'
  BY <1>1, <1>2 DEF LateEnds, histVars, IInv, TypeOK, ApiTypeOK, Agreement, SealedStates,
     LateWrites, Registered
<1>4. CallTypeOK'
  BY DEF LateEnds, gateVars, sendVars, histVars, IInv, TypeOK, CallTypeOK
<1>5. CallsInHand'
  BY BystandersKeep DEF LateEnds, sendVars, histVars, Registered
<1> QED
  BY <1>3, <1>4, <1>5 DEF IInv, TypeOK

\* LateRegisters preserves the invariant.
LEMMA LateRegistersKeeps == ASSUME IInv, NEW p \in posted, LateRegisters(p) PROVE IInv'
<1>1. PICK k \in Key : Registers(k, p)
  BY DEF LateRegisters
<1>2. p \in Payload
  BY DEF IInv, TypeOK, ApiTypeOK
<1>3. /\ ApiTypeOK' /\ Agreement' /\ SealedStates' /\ LateWrites'
      /\ \A j \in Key : Registered(j) => Registered(j)' /\ appr'[j].pay = appr[j].pay
  BY <1>1, <1>2, RegistrationKeeps DEF LateRegisters, histVars
<1>4. CallTypeOK'
  BY DEF LateRegisters, gateVars, sendVars, histVars, IInv, TypeOK, CallTypeOK
<1>5. CallsInHand'
  BY <1>3, BystandersKeep DEF LateRegisters, sendVars, histVars
<1> QED
  BY <1>3, <1>4, <1>5 DEF IInv, TypeOK

\* The user decides, or time runs out, on an approval that is registered.
LEMMA DecisionKeeps == ASSUME IInv, NEW k \in Key, Decide(k) \/ Lapse(k) PROVE IInv'
<1>1. Registered(k)
  BY ApprovedWasAgreed DEF Decide, Lapse, Registered
<1>2. PICK s \in {"APPROVED", "DECLINED", "EXPIRED"} :
        /\ appr' = [appr EXCEPT ![k].status = s]
        /\ agreed' \in {agreed, agreed \cup {k}} /\ (s = "APPROVED" => k \in agreed')
  BY DEF Decide, Lapse, histVars
<1>3. UNCHANGED <<used, running, late, posted, version, states, pc, gateVars, sendVars, out,
                  exposed, strayed, crossed>>
  BY DEF Decide, Lapse, histVars
<1>4. appr' \in [Key -> [pay : Payload \cup {None},
                         status : {"none", "PENDING", "APPROVED", "DECLINED", "EXPIRED"}]]
  BY <1>2 DEF IInv, TypeOK, ApiTypeOK
<1>5. /\ \A j \in Key : appr'[j].pay = appr[j].pay
      /\ \A j \in Key \ {k} : appr'[j].status = appr[j].status
      /\ appr'[k].status = s
  BY <1>2 DEF IInv, TypeOK, ApiTypeOK
<1>6. ApiTypeOK'
  BY <1>2, <1>3, <1>4 DEF IInv, TypeOK, ApiTypeOK
<1>7. Agreement'
  BY <1>1, <1>2, <1>5 DEF IInv, Agreement, Registered
<1>8. \A j \in Key : Registered(j) => Registered(j)' /\ appr'[j].pay = appr[j].pay
  BY <1>5 DEF Registered
<1>9. SealedStates' /\ LateWrites'
  BY <1>2, <1>3, <1>8, PromisesKeep
<1>10. CallTypeOK'
  BY <1>3 DEF gateVars, sendVars, IInv, TypeOK, CallTypeOK
<1>11. CallsInHand'
  BY <1>2, <1>3, <1>8, BystandersKeep DEF sendVars
<1> QED
  BY <1>6, <1>7, <1>9, <1>10, <1>11 DEF IInv, TypeOK

\* The data that payloads depend on changes, or nothing does.
LEMMA IdleKeeps == ASSUME IInv, ChangeVersion \/ UNCHANGED vars PROVE IInv'
<1>1. /\ UNCHANGED <<apiVars, states, pc, gateVars, sendVars, out, histVars>>
      /\ version' \in Version
  BY DEF ChangeVersion, vars, IInv, TypeOK, ApiTypeOK
<1>2. ApiTypeOK' /\ Agreement' /\ SealedStates' /\ LateWrites'
  BY <1>1 DEF apiVars, histVars, IInv, TypeOK, ApiTypeOK, Agreement, SealedStates, LateWrites,
     Registered
<1>3. CallTypeOK'
  BY <1>1 DEF gateVars, sendVars, histVars, IInv, TypeOK, CallTypeOK
<1>4. CallsInHand'
  BY <1>1, BystandersKeep DEF apiVars, sendVars, histVars, Registered
<1> QED
  BY <1>2, <1>3, <1>4 DEF IInv, TypeOK

-----------------------------------------------------------------------------
(* Parts are sent in order, and what may have been made is not forgotten *)

\* A call whose own sending does not move keeps what is said of it.
LEMMA OthersSend ==
  ASSUME IInv, SendingInv, NEW d \in Call, d \in exposed' => d \in exposed,
         pc'[d] = pc[d], part'[d] = part[d], key'[d] = key[d], api'[d] = api[d], asks'[d] = asks[d],
         \A k \in Key : used[k] \subseteq used'[k]
  PROVE  ExposedOnTheWire(d)' /\ PartsInOrder(d)'
<1>1. pc[d] \in {"send", "wire"} \/ api[d] = "done" => key[d] \in Key
  BY DEF IInv, CallsInHand, ChoseRightly, TypeOK, CallTypeOK
<1> QED
  BY <1>1 DEF SendingInv, ExposedOnTheWire, PartsInOrder

\* A step of the call c leaves the sending of the others alone.
Alone(c) == \A d \in Call \ {c} :
  /\ d \in exposed' => d \in exposed
  /\ pc'[d] = pc[d] /\ part'[d] = part[d] /\ key'[d] = key[d] /\ api'[d] = api[d] /\ asks'[d] = asks[d]

\* It is enough to look at the call that moves.
LEMMA OneSends ==
  ASSUME IInv, SendingInv, NEW c \in Call, Alone(c), \A k \in Key : used[k] \subseteq used'[k],
         ExposedOnTheWire(c)', PartsInOrder(c)'
  PROVE  SendingInv'
<1>1. ASSUME NEW d \in Call \ {c} PROVE ExposedOnTheWire(d)' /\ PartsInOrder(d)'
  BY OthersSend DEF Alone
<1> QED
  BY <1>1 DEF SendingInv

\* An answered call has nothing under way.
LEMMA AnswerSends ==
  ASSUME IInv, SendingInv, NEW c \in Call, NEW how \in Answers, Answer(c, how), used' = used
  PROVE  SendingInv'
<1>1. Alone(c)
  BY DEF Answer, Goto, Alone, IInv, TypeOK, CallTypeOK
<1>2. pc'[c] = "idle" /\ part'[c] = 1 /\ api'[c] = "none" /\ c \notin exposed'
  BY DEF Answer, Goto, IInv, TypeOK, CallTypeOK
<1>3. ExposedOnTheWire(c)' /\ PartsInOrder(c)'
  BY <1>2 DEF ExposedOnTheWire, PartsInOrder
<1> QED
  BY <1>1, <1>3, OneSends

\* The steps of calls keep the parts in order.
LEMMA CallSends ==
  ASSUME IInv, SendingInv, NEW c \in Call,
         Start(c) \/ NotOpened(c) \/ CodeStep(c) \/ Cancel(c)
  PROVE  SendingInv'
<1>1. used' = used
  BY DEF Start, NotOpened, CodeStep, Cancel, LookupFails, Read, Build, Poll, BudgetSpent, Decided,
     Find, Create, Ask, Fallback, Send, CallDeadline, Confirmed, Unreadable, Refused, Resend,
     AskAgain, OutcomeUnknown, apiVars
<1>2. ASSUME NEW how \in Answers, Answer(c, how) PROVE SendingInv'
  BY <1>1, <1>2, AnswerSends
<1>3. CASE NotOpened(c) \/ LookupFails(c) \/ BudgetSpent(c) \/ Fallback(c) \/ CallDeadline(c)
           \/ Unreadable(c) \/ Refused(c) \/ OutcomeUnknown(c) \/ Cancel(c) \/ Ask(c)
  BY <1>2, <1>3 DEF NotOpened, LookupFails, BudgetSpent, Fallback, CallDeadline, Unreadable,
     Refused, OutcomeUnknown, Cancel, Ask, Answers
<1>4. CASE \/ Start(c) \/ Read(c) \/ Build(c) \/ Poll(c) \/ Decided(c) \/ Find(c) \/ Create(c)
           \/ Send(c)
  <2>1. CASE \E how \in Answers : Answer(c, how)
    BY <1>2, <2>1
  <2>2. CASE ~ \E how \in Answers : Answer(c, how)
    <3>1. /\ pc[c] \in {"idle", "read", "build", "await", "find", "create", "send"}
          /\ \E l \in {"read", "build", "await", "find", "create", "ask", "send", "wire"} :
               Goto(c, l) \/ (pc' = pc /\ pc[c] = "await")
          /\ UNCHANGED <<part, exposed, asks>>
          /\ api' = api \/ api' = [api EXCEPT ![c] = "sent"]
          /\ key' = key \/ (pc[c] # "send" /\ \E k \in Key : key' = [key EXCEPT ![c] = k])
          /\ IF pc[c] = "send" THEN Goto(c, "wire") ELSE api' = api
      <4>1. CASE Start(c) \/ Build(c) \/ Poll(c) \/ Send(c)
        BY <4>1 DEF Start, Build, Poll, Send, sendVars, histVars, gateVars
      <4>2. CASE Read(c)
        BY <2>2, <4>2 DEF Read, sendVars, histVars, Answers
      <4>3. CASE Decided(c)
        <5>1. seen[c] = "APPROVED" /\ pc[c] = "await"
          BY <2>2, <4>3 DEF Decided, Answers
        <5>2. st[c].k \in Key
          BY <5>1, StateParts DEF IInv, CallsInHand, CarriesSealed, TypeOK, ApiTypeOK
        <5> QED
          BY <4>3, <5>1, <5>2 DEF Decided, sendVars, histVars
      <4>4. CASE Find(c)
        BY <4>4 DEF Find, Live, sendVars, histVars
      <4>5. CASE Create(c)
        BY <4>5 DEF Create, sendVars, histVars
      <4> QED
        BY <1>4, <4>1, <4>2, <4>3, <4>4, <4>5
    <3>2. Alone(c)
      BY <3>1 DEF Goto, Alone, IInv, TypeOK, CallTypeOK
    <3>3. api[c] = "none" /\ c \notin exposed
      BY <3>1 DEF IInv, CallsInHand, ChoseRightly, SendingInv, ExposedOnTheWire
    <3>4. c \notin exposed' /\ api'[c] \in {"none", "sent"} /\ part'[c] = part[c]
      BY <3>1, <3>3 DEF IInv, TypeOK, CallTypeOK
    <3>5. CASE pc[c] = "send"
      <4>1. key' = key /\ pc'[c] = "wire"
        BY <3>1, <3>5 DEF Goto, IInv, TypeOK, CallTypeOK
      <4>2. ExposedOnTheWire(c)' /\ PartsInOrder(c)'
        BY <1>1, <3>4, <3>5, <4>1 DEF ExposedOnTheWire, PartsInOrder, SendingInv
      <4> QED
        BY <1>1, <3>2, <4>2, OneSends
    <3>6. CASE pc[c] # "send"
      <4>1. part[c] = 1
        BY <3>1, <3>6 DEF SendingInv, PartsInOrder
      <4>2. \A i \in Part : ~ i < 1
        BY WritesAssumption DEF Part
      <4> QED
        BY <1>1, <3>2, <3>4, <4>1, <4>2, OneSends DEF ExposedOnTheWire, PartsInOrder
    <3> QED
      BY <3>5, <3>6
  <2> QED
    BY <2>1, <2>2
<1>5. CASE Confirmed(c)
  <2>1. CASE part[c] = Parts
    BY <1>2, <1>5, <2>1 DEF Confirmed, Answers
  <2>2. CASE part[c] # Parts
    <3>1. /\ pc[c] = "wire" /\ api[c] = "done" /\ Goto(c, "send") /\ part' = [part EXCEPT ![c] = @ + 1]
          /\ api' = [api EXCEPT ![c] = "none"] /\ asks' = [asks EXCEPT ![c] = 0]
          /\ exposed' = exposed \ {c} /\ key' = key
      BY <1>5, <2>2 DEF Confirmed, gateVars
    <3>2. Alone(c)
      BY <3>1 DEF Goto, Alone, IInv, TypeOK, CallTypeOK
    <3>3. /\ pc'[c] = "send" /\ part'[c] = part[c] + 1 /\ api'[c] = "none" /\ c \notin exposed'
          /\ part[c] \in Part
      BY <3>1 DEF Goto, IInv, TypeOK, CallTypeOK
    <3>4. \A i \in Part : i < part[c] + 1 => i < part[c] \/ i = part[c]
      BY <3>3, WritesAssumption DEF Part
    <3>5. ExposedOnTheWire(c)' /\ PartsInOrder(c)'
      BY <1>1, <3>1, <3>3, <3>4 DEF SendingInv, ExposedOnTheWire, PartsInOrder
    <3> QED
      BY <1>1, <3>2, <3>5, OneSends
  <2> QED
    BY <2>1, <2>2
<1>6. CASE Resend(c) \/ AskAgain(c)
  <2>1. /\ UNCHANGED <<pc, part, key>> /\ pc[c] = "wire" /\ api' = [api EXCEPT ![c] = "sent"]
        /\ asks' = [asks EXCEPT ![c] = @ + 1] /\ exposed' \in {exposed, exposed \cup {c}}
    BY <1>6 DEF Resend, AskAgain, gateVars, histVars, IInv, TypeOK, CallTypeOK
  <2>2. Alone(c)
    BY <2>1 DEF Alone, IInv, TypeOK, CallTypeOK
  <2>3. api'[c] = "sent" /\ asks'[c] > 0
    BY <2>1, WritesAssumption DEF IInv, TypeOK, CallTypeOK
  <2>4. ExposedOnTheWire(c)' /\ PartsInOrder(c)'
    BY <1>1, <2>1, <2>3 DEF SendingInv, ExposedOnTheWire, PartsInOrder
  <2> QED
    BY <1>1, <2>2, <2>4, OneSends
<1> QED
  BY <1>3, <1>4, <1>5, <1>6 DEF CodeStep

\* So do the answers of the API.
LEMMA ApiSends == ASSUME IInv, SendingInv, NEW c \in Call, ApiStep(c) PROVE SendingInv'
<1>1. /\ UNCHANGED <<pc, part, key, asks>> /\ \A d \in Call \ {c} : api'[d] = api[d]
      /\ \A d \in Call \ {c} : d \in exposed' => d \in exposed
      /\ api[c] \in {"sent", "running"}
  BY DEF ApiStep, ApiRuns, ApiCommits, ApiRollsBack, ApiAnswers, gateVars, histVars,
     IInv, TypeOK, CallTypeOK
<1>2. pc[c] = "wire" /\ part[c] \in Part /\ key[c] \in Key
  BY <1>1 DEF IInv, CallsInHand, ChoseRightly, TypeOK, CallTypeOK
<1>3. /\ \A k \in Key : used[k] \subseteq used'[k]
      /\ api'[c] = "done" => part[c] \in used'[key[c]]
      /\ c \in exposed' => c \in exposed \/ api'[c] = "done"
  BY <1>2 DEF ApiStep, ApiRuns, ApiCommits, ApiRollsBack, ApiAnswers, apiVars, histVars,
     IInv, TypeOK, ApiTypeOK, CallTypeOK
<1>4. Alone(c)
  BY <1>1 DEF Alone
<1>5. ExposedOnTheWire(c)' /\ PartsInOrder(c)'
  BY <1>1, <1>2, <1>3 DEF SendingInv, ExposedOnTheWire, PartsInOrder
<1> QED
  BY <1>3, <1>4, <1>5, OneSends

\* So does whatever happens elsewhere, and abandoned writes that are made late.
LEMMA ElsewhereSends ==
  ASSUME IInv, SendingInv, UNCHANGED <<pc, gateVars, sendVars, exposed>>,
         \A k \in Key : used[k] \subseteq used'[k]
  PROVE  SendingInv'
<1>1. ASSUME NEW d \in Call PROVE ExposedOnTheWire(d)' /\ PartsInOrder(d)'
  BY OthersSend DEF gateVars, sendVars
<1> QED
  BY <1>1 DEF SendingInv

\* Every step keeps the parts in order.
LEMMA SendingKeeps == ASSUME IInv, SendingInv, [Next]_vars PROVE SendingInv'
<1>1. ASSUME NEW c \in Call, Start(c) \/ NotOpened(c) \/ CodeStep(c) \/ Cancel(c) \/ ApiStep(c)
      PROVE  SendingInv'
  BY <1>1, CallSends, ApiSends
<1>2. ASSUME \/ \E r \in late : LateRuns(r)
             \/ \E p \in posted : LateRegisters(p)
             \/ \E k \in Key : Decide(k) \/ Lapse(k)
             \/ ChangeVersion \/ UNCHANGED vars
      PROVE  SendingInv'
  <2>1. UNCHANGED <<used, pc, gateVars, sendVars, exposed>>
    BY <1>2 DEF LateRuns, LateRegisters, Decide, Lapse, ChangeVersion, vars, apiVars, histVars
  <2> QED
    BY <2>1, ElsewhereSends
<1>3. ASSUME NEW k \in Key, NEW i \in Part, LateEnds(k, i) PROVE SendingInv'
  <2>1. UNCHANGED <<pc, gateVars, sendVars, exposed>>
    BY <1>3 DEF LateEnds, histVars
  <2>2. \A j \in Key : used[j] \subseteq used'[j]
    BY <1>3 DEF LateEnds, IInv, TypeOK, ApiTypeOK
  <2> QED
    BY <2>1, <2>2, ElsewhereSends
<1> QED
  BY <1>1, <1>2, <1>3 DEF Next

-----------------------------------------------------------------------------
(* Theorems *)

\* Every step preserves the invariant.
LEMMA StepKeeps == ASSUME IInv, [Next]_vars PROVE IInv'
<1>1. ASSUME NEW c \in Call, Start(c) \/ NotOpened(c) \/ CodeStep(c) \/ Cancel(c) \/ ApiStep(c)
      PROVE  IInv'
  BY <1>1, StartKeeps, ReadKeeps, BuildKeeps, PollKeeps, DecidedKeeps, FindKeeps, CreateKeeps,
     AskKeeps, SendKeeps, ConfirmedKeeps, ResendKeeps, AskAgainKeeps, GivenUpKeeps, AnsweredKeeps,
     ApiStepKeeps
     DEF CodeStep
<1>2. ASSUME NEW r \in late, LateRuns(r) PROVE IInv'
  BY <1>2, LateRunsKeeps
<1>3. ASSUME NEW k \in Key, NEW i \in Part, LateEnds(k, i) PROVE IInv'
  BY <1>3, LateEndsKeeps
<1>4. ASSUME NEW k \in Key, Decide(k) \/ Lapse(k) PROVE IInv'
  BY <1>4, DecisionKeeps
<1>5. ASSUME NEW p \in posted, LateRegisters(p) PROVE IInv'
  BY <1>5, LateRegistersKeeps
<1>6. ASSUME ChangeVersion \/ UNCHANGED vars PROVE IInv'
  BY <1>6, IdleKeeps
<1> QED
  BY <1>1, <1>2, <1>3, <1>4, <1>5, <1>6 DEF Next

\* The invariant holds at the start.
LEMMA InitHolds == ASSUME Init PROVE IInv
<1>1. ApiTypeOK
  BY DEF Init, ApiTypeOK
<1>2. CallTypeOK
  BY StartOfCall DEF Init, CallTypeOK, Answers
<1>3. Agreement /\ SealedStates /\ CallsInHand /\ LateWrites
  BY DEF Init, Agreement, SealedStates, CallsInHand, CarriesSealed, ChoseRightly, LateWrites,
     Registered
<1> QED
  BY <1>1, <1>2, <1>3 DEF IInv, TypeOK

\* The inductive invariant.
THEOREM InductiveInvariant == Spec => []IInv
<1>1. Init => IInv
  BY InitHolds
<1>2. IInv /\ [Next]_vars => IInv'
  BY StepKeeps
<1> QED
  BY <1>1, <1>2, PTL DEF Spec

\* Every write on its way to the API, abandoned ones included, is for an approval
\* the user gave, and carries exactly the payload it was given for.
THEOREM OnlyApprovedIsSentHolds == Spec => []OnlyApprovedIsSent
<1>1. IInv => OnlyApprovedIsSent
  BY DEF IInv, CallsInHand, ChoseRightly, LateWrites, OnlyApprovedIsSent, OnTheWire, MyRequest
<1> QED
  BY <1>1, InductiveInvariant, PTL

\* What was sent of an approval is in order, and known to the call.
THEOREM SendingInvHolds == Spec => []SendingInv
<1>1. Init => SendingInv
  BY DEF Init, SendingInv, ExposedOnTheWire, PartsInOrder
<1>2. IInv /\ SendingInv /\ [Next]_vars => SendingInv'
  BY SendingKeeps
<1> QED
  BY <1>1, <1>2, InductiveInvariant, PTL DEF Spec

\* Only one step answers "ok", and only two answer a call on the wire "failed".
LEMMA AnswersOf ==
  ASSUME IInv, [Next]_vars, NEW c \in Call, out'[c] # out[c]
  PROVE  /\ out'[c] = "ok" => Confirmed(c) /\ part[c] = Parts
         /\ out'[c] = "failed" /\ pc[c] = "wire" => Unreadable(c) \/ Refused(c)
<1>1. ASSUME NEW d \in Call,
             Start(d) \/ NotOpened(d) \/ CodeStep(d) \/ Cancel(d) \/ ApiStep(d), d # c
      PROVE  FALSE
  <2>1. out' = out \/ \E how : out' = [out EXCEPT ![d] = how]
    BY <1>1 DEF Start, NotOpened, CodeStep, Cancel, ApiStep, LookupFails, Read, Build, Poll,
       BudgetSpent, Decided, Find, Create, Ask, Fallback, Send, CallDeadline, Confirmed, Unreadable,
       Refused, Resend, AskAgain, OutcomeUnknown, ApiRuns, ApiCommits, ApiRollsBack, ApiAnswers,
       Answer
  <2> QED
    BY <1>1, <2>1 DEF IInv, TypeOK, CallTypeOK
<1>2. CASE Start(c) \/ NotOpened(c) \/ CodeStep(c) \/ Cancel(c) \/ ApiStep(c)
  <2>1. \A how : Answer(c, how) => out'[c] = how
    BY DEF Answer, IInv, TypeOK, CallTypeOK
  <2>2. CASE Start(c) \/ NotOpened(c) \/ Cancel(c) \/ ApiStep(c)
    BY <2>1, <2>2 DEF Start, NotOpened, Cancel, ApiStep, ApiRuns, ApiCommits, ApiRollsBack,
       ApiAnswers, IInv, TypeOK, CallTypeOK
  <2>3. CASE LookupFails(c) \/ Read(c) \/ Build(c) \/ Poll(c) \/ BudgetSpent(c) \/ Decided(c)
             \/ Find(c) \/ Create(c) \/ Ask(c) \/ Fallback(c)
    <3>1. pc[c] # "wire"
      BY <2>3 DEF LookupFails, Read, Build, Poll, BudgetSpent, Decided, Find, Create, Ask, Fallback
    <3>2. out'[c] # "ok"
      BY <2>1, <2>3 DEF LookupFails, Read, Build, Poll, BudgetSpent, Decided, Find, Create, Ask,
         Fallback
    <3> QED
      BY <3>1, <3>2
  <2>4. CASE Send(c) \/ CallDeadline(c) \/ Unreadable(c) \/ Refused(c) \/ Resend(c)
             \/ AskAgain(c) \/ OutcomeUnknown(c)
    BY <2>1, <2>4 DEF Send, CallDeadline, Unreadable, Refused, Resend, AskAgain, OutcomeUnknown
  <2>5. CASE Confirmed(c)
    BY <2>1, <2>5 DEF Confirmed
  <2> QED
    BY <1>2, <2>2, <2>3, <2>4, <2>5 DEF CodeStep
<1>3. CASE \/ \E r \in late : LateRuns(r)
           \/ \E p \in posted : LateRegisters(p)
           \/ \E k \in Key, i \in Part : LateEnds(k, i)
           \/ \E k \in Key : Decide(k) \/ Lapse(k)
           \/ ChangeVersion \/ UNCHANGED vars
  BY <1>3 DEF LateRuns, LateRegisters, LateEnds, Decide, Lapse, ChangeVersion, vars
<1> QED
  BY <1>1, <1>2, <1>3 DEF Next

\* A call that says the change was made tells the truth.
THEOREM OkMeansAllMadeHolds == Spec => OkMeansAllMade
<1> DEFINE Truth == \A c \in Call : out[c] # out'[c] /\ out'[c] = "ok" => used[key[c]] = Part
<1>1. IInv /\ SendingInv /\ [Next]_vars => Truth
  <2> SUFFICES ASSUME IInv, SendingInv, [Next]_vars,
                      NEW c \in Call, out[c] # out'[c], out'[c] = "ok"
               PROVE  used[key[c]] = Part
    OBVIOUS
  <2>1. pc[c] = "wire" /\ api[c] = "done" /\ part[c] = Parts
    BY AnswersOf DEF Confirmed
  <2>2. key[c] \in Key /\ used[key[c]] \subseteq Part
    BY <2>1 DEF IInv, CallsInHand, ChoseRightly, TypeOK, ApiTypeOK, CallTypeOK
  <2>3. \A i \in Part : i < Parts \/ i = Parts
    BY WritesAssumption DEF Part
  <2>4. Part \subseteq used[key[c]]
    BY <2>1, <2>3 DEF SendingInv, PartsInOrder
  <2> QED
    BY <2>2, <2>4
<1> QED
  BY <1>1, InductiveInvariant, SendingInvHolds, PTL DEF Spec, OkMeansAllMade

\* As long as answers to committed writes are readable, a write that may have been
\* made is never reported as a plain failure.
THEOREM NoWriteDeniedHolds ==
  ASSUME ~ Garbling
  PROVE  Spec => NoWriteDenied
<1> DEFINE Owned ==
      \A c \in Call : pc[c] = "wire" /\ out[c] # out'[c] /\ out'[c] = "failed" => c \notin exposed
<1>1. IInv /\ SendingInv /\ [Next]_vars => Owned
  <2> SUFFICES ASSUME IInv, SendingInv, [Next]_vars,
                      NEW c \in Call, pc[c] = "wire", out[c] # out'[c], out'[c] = "failed"
               PROVE  c \notin exposed
    OBVIOUS
  <2>1. Refused(c)
    BY AnswersOf DEF Unreadable
  <2> QED
    BY <2>1 DEF Refused, SendingInv, ExposedOnTheWire
<1> QED
  BY <1>1, InductiveInvariant, SendingInvHolds, PTL DEF Spec, NoWriteDenied

-----------------------------------------------------------------------------
(* Asked twice only together.  Two approvals of a payload can be in force    *)
(* only if it was being registered when a call found none: as long as that   *)
(* has not been, one call or one abandoned request at most is about to       *)
(* register the payload, and then nothing of it is in force.                 *)
InForce(k) == Status(k) \in {"PENDING", "APPROVED"}
NothingInForce(p) == \A k \in Key : InForce(k) => appr[k].pay # p
Registering(c, p) == pc[c] = "create" /\ pay[c] = p

OnceInForce(p) ==
  /\ \A k, l \in Key : InForce(k) /\ InForce(l) /\ appr[k].pay = p /\ appr[l].pay = p => k = l
  /\ \A c, d \in Call : Registering(c, p) /\ Registering(d, p) => c = d
  /\ p \in posted => \A c \in Call : ~Registering(c, p)
  /\ p \in posted \/ (\E c \in Call : Registering(c, p)) => NothingInForce(p)

OnceUnlessCrossed == \A p \in Payload \ crossed : OnceInForce(p)

\* What being registered means, now and after the step.
LEMMA WhoRegisters ==
  ASSUME NEW p
  PROVE  p \in BeingRegistered <=> p \in posted \/ \E c \in Call : Registering(c, p)
BY DEF BeingRegistered, Registering

\* A registration brings into force its own approval, and no other.
LEMMA RegistrationAlone ==
  ASSUME IInv, NEW k \in Key, NEW p, Registers(k, p), used' = used
  PROVE  /\ \A l \in Key \ {k} : (InForce(l)' <=> InForce(l)) /\ appr'[l] = appr[l]
         /\ appr'[k].pay = p
BY DEF Registers, InForce, Status, IInv, TypeOK, ApiTypeOK

\* Nothing comes into force but by a registration.
LEMMA ForceEnds ==
  ASSUME IInv, [Next]_vars, NEW k \in Key, InForce(k)'
  PROVE  \/ InForce(k) /\ appr'[k].pay = appr[k].pay
         \/ \E c \in Call : Create(c)
         \/ \E p \in posted : LateRegisters(p)
<1>1. CASE UNCHANGED appr /\ used[k] \subseteq used'[k]
  <2>1. used'[k] \subseteq Part
    BY StepKeeps DEF IInv, TypeOK, ApiTypeOK
  <2> QED  BY <1>1, <2>1 DEF InForce, Status, IInv, TypeOK, ApiTypeOK
<1> SUFFICES ASSUME ~(UNCHANGED appr /\ used[k] \subseteq used'[k]),
                    \A c \in Call : ~Create(c), \A p \in posted : ~LateRegisters(p)
             PROVE  InForce(k) /\ appr'[k].pay = appr[k].pay
  BY <1>1
<1>2. ASSUME NEW c \in Call, Start(c) \/ NotOpened(c) \/ CodeStep(c) \/ Cancel(c) \/ ApiStep(c)
      PROVE  FALSE
  <2>1. CASE ApiStep(c)
    BY <2>1 DEF ApiStep, ApiRuns, ApiCommits, ApiRollsBack, ApiAnswers, apiVars, IInv, TypeOK, ApiTypeOK
  <2> QED
    BY <1>2, <2>1 DEF Start, NotOpened, CodeStep, Cancel, LookupFails, Read, Build, Poll, BudgetSpent,
       Decided, Find, Ask, Fallback, Send, CallDeadline, Confirmed, Unreadable, Refused, Resend, AskAgain,
       OutcomeUnknown, apiVars
<1>3. ASSUME NEW r \in late, LateRuns(r) PROVE FALSE
  BY <1>3 DEF LateRuns
<1>4. ASSUME NEW l \in Key, NEW i \in Part, LateEnds(l, i) PROVE FALSE
  BY <1>4 DEF LateEnds, IInv, TypeOK, ApiTypeOK
<1>5. ASSUME NEW l \in Key, Decide(l) \/ Lapse(l) PROVE InForce(k) /\ appr'[k].pay = appr[k].pay
  <2>1. CASE k = l
    BY <1>5, <2>1 DEF Decide, Lapse, InForce, Status, IInv, TypeOK, ApiTypeOK
  <2>2. CASE k # l
    BY <1>5, <2>2 DEF Decide, Lapse, InForce, Status, IInv, TypeOK, ApiTypeOK
  <2> QED  BY <2>1, <2>2
<1>6. CASE ChangeVersion \/ UNCHANGED vars
  BY <1>6 DEF ChangeVersion, vars, apiVars
<1> QED
  BY <1>2, <1>3, <1>4, <1>5, <1>6 DEF Next

\* A call's own step moves no other call.
LEMMA OthersStay ==
  ASSUME IInv, NEW d \in Call, Start(d) \/ NotOpened(d) \/ CodeStep(d) \/ Cancel(d) \/ ApiStep(d),
         NEW c \in Call, c # d
  PROVE  pc'[c] = pc[c] /\ pay'[c] = pay[c]
<1>1. /\ pc' = pc \/ \E l : pc' = [pc EXCEPT ![d] = l]
      /\ pay' = pay \/ \E p : pay' = [pay EXCEPT ![d] = p]
  BY DEF Start, NotOpened, CodeStep, Cancel, ApiStep, LookupFails, Read, Build, Poll,
     BudgetSpent, Decided, Find, Create, Ask, Fallback, Send, CallDeadline, Confirmed, Unreadable,
     Refused, Resend, AskAgain, OutcomeUnknown, ApiRuns, ApiCommits, ApiRollsBack, ApiAnswers,
     Answer, Goto, gateVars
<1> QED
  BY <1>1 DEF IInv, TypeOK, CallTypeOK

\* The steps of the API, of the user and of abandoned requests.
Elsewhere ==
  \/ \E r \in late : LateRuns(r)
  \/ \E p \in posted : LateRegisters(p)
  \/ \E k \in Key, i \in Part : LateEnds(k, i)
  \/ \E k \in Key : Decide(k) \/ Lapse(k)
  \/ ChangeVersion \/ UNCHANGED vars

\* They move no call, and give nothing up.
LEMMA CallsStay == ASSUME Elsewhere PROVE UNCHANGED <<pc, pay>> /\ posted' \subseteq posted
BY DEF Elsewhere, LateRuns, LateRegisters, LateEnds, Decide, Lapse, ChangeVersion, vars, apiVars, gateVars

\* #find has found neither an approved nor a pending approval, and a payload
\* that is being registered then is remembered.
FoundNone(c) ==
  /\ Find(c)
  /\ NothingInForce(pay[c])
  /\ pay[c] \in BeingRegistered => pay[c] \in crossed'

\* A call comes to register by finding nothing in force, and changes nothing then.
LEMMA SearchedFirst ==
  ASSUME IInv, [Next]_vars, NEW c \in Call, pc'[c] = "create"
  PROVE  pay'[c] = pay[c] /\ (pc[c] = "create" \/ FoundNone(c))
<1>1. ASSUME NEW d \in Call, Start(d) \/ NotOpened(d) \/ CodeStep(d) \/ Cancel(d) \/ ApiStep(d), d # c
      PROVE  pc'[c] = pc[c] /\ pay'[c] = pay[c]
  BY <1>1, OthersStay
<1>2. ASSUME Start(c) \/ NotOpened(c) \/ CodeStep(c) \/ Cancel(c) \/ ApiStep(c)
      PROVE  pay'[c] = pay[c] /\ (pc[c] = "create" \/ FoundNone(c))
  <2>1. \A l : Goto(c, l) => pc'[c] = l
    BY DEF Goto, IInv, TypeOK, CallTypeOK
  <2>2. \A how : ~Answer(c, how)
    BY <2>1 DEF Answer
  <2>3. CASE Find(c)
    <3>1. /\ Live(pay[c], "APPROVED") \cup Live(pay[c], "PENDING") = {}
          /\ crossed' = crossed \cup ({pay[c]} \cap BeingRegistered)
      BY <2>1, <2>3 DEF Find
    <3>2. NothingInForce(pay[c])
      BY <3>1 DEF Live, InForce, NothingInForce
    <3> QED
      BY <2>3, <3>1, <3>2 DEF Find, FoundNone
  <2>4. CASE Start(c) \/ NotOpened(c) \/ Cancel(c) \/ LookupFails(c) \/ Read(c) \/ Build(c) \/ BudgetSpent(c)
             \/ Decided(c) \/ Create(c) \/ Ask(c) \/ Fallback(c)
    BY <2>1, <2>2, <2>4 DEF Start, NotOpened, Cancel, LookupFails, Read, Build, BudgetSpent, Decided, Create,
       Ask, Fallback
  <2>5. CASE Send(c) \/ CallDeadline(c) \/ Confirmed(c) \/ Unreadable(c) \/ Refused(c) \/ OutcomeUnknown(c)
    BY <2>1, <2>2, <2>5 DEF Send, CallDeadline, Confirmed, Unreadable, Refused, OutcomeUnknown
  <2>6. CASE Poll(c) \/ Resend(c) \/ AskAgain(c) \/ ApiStep(c)
    BY <2>6 DEF Poll, Resend, AskAgain, ApiStep, ApiRuns, ApiCommits, ApiRollsBack, ApiAnswers, gateVars
  <2> QED
    BY <1>2, <2>3, <2>4, <2>5, <2>6 DEF CodeStep
<1>3. CASE Elsewhere
  BY <1>3, CallsStay
<1> QED
  BY <1>1, <1>2, <1>3 DEF Next, Elsewhere

\* A registration that is left to itself was that of a call, which goes no further.
LEMMA GivenUp ==
  ASSUME IInv, [Next]_vars, NEW p \in posted', p \notin posted
  PROVE  \E c \in Call :
           Registering(c, p) /\ pc'[c] # "create" /\ \A d \in Call \ {c} : pc'[d] = pc[d]
<1>1. ~Elsewhere
  BY CallsStay
<1>2. PICK c \in Call : Start(c) \/ NotOpened(c) \/ CodeStep(c) \/ Cancel(c) \/ ApiStep(c)
  BY <1>1 DEF Next, Elsewhere
<1>3. Abandon(c) /\ (Resend(c) \/ OutcomeUnknown(c) \/ Cancel(c))
  BY <1>2 DEF Start, NotOpened, CodeStep, Cancel, ApiStep, LookupFails, Read, Build, Poll, BudgetSpent,
     Decided, Find, Create, Ask, Fallback, Send, CallDeadline, Confirmed, Unreadable, Refused, Resend,
     AskAgain, OutcomeUnknown, ApiRuns, ApiCommits, ApiRollsBack, ApiAnswers, apiVars
<1>4. Registering(c, p)
  BY <1>3 DEF Abandon, Registering
<1>5. \E how : Answer(c, how)
  BY <1>3, <1>4 DEF Registering, Resend, OutcomeUnknown, Cancel
<1>6. pc'[c] # "create"
  BY <1>5 DEF Answer, Goto, IInv, TypeOK, CallTypeOK
<1> QED
  BY <1>2, <1>4, <1>6, OthersStay

\* What is remembered is not forgotten.
LEMMA CrossedGrows == ASSUME [Next]_vars PROVE crossed \subseteq crossed'
<1>1. ASSUME NEW c \in Call, Start(c) \/ NotOpened(c) \/ Cancel(c) \/ ApiStep(c) PROVE crossed' = crossed
  BY <1>1 DEF Start, NotOpened, Cancel, ApiStep, ApiRuns, ApiCommits, ApiRollsBack, ApiAnswers, Answer,
     histVars
<1>2. ASSUME NEW c \in Call, LookupFails(c) \/ Read(c) \/ Build(c) \/ Poll(c) \/ BudgetSpent(c)
             \/ Decided(c) \/ Create(c) \/ Ask(c) \/ Fallback(c)
      PROVE  crossed' = crossed
  BY <1>2 DEF LookupFails, Read, Build, Poll, BudgetSpent, Decided, Create, Ask, Fallback, Answer, histVars
<1>3. ASSUME NEW c \in Call, Send(c) \/ CallDeadline(c) \/ Confirmed(c) \/ Unreadable(c) \/ Refused(c)
             \/ Resend(c) \/ AskAgain(c) \/ OutcomeUnknown(c)
      PROVE  crossed' = crossed
  BY <1>3 DEF Send, CallDeadline, Confirmed, Unreadable, Refused, Resend, AskAgain, OutcomeUnknown, Answer,
     histVars
<1>4. ASSUME NEW c \in Call, Find(c) PROVE crossed \subseteq crossed'
  BY <1>4 DEF Find
<1>5. CASE Elsewhere
  BY <1>5 DEF Elsewhere, LateRuns, LateRegisters, LateEnds, Decide, Lapse, ChangeVersion, vars, histVars
<1> QED
  BY <1>1, <1>2, <1>3, <1>4, <1>5 DEF Next, CodeStep, Elsewhere

\* The call or the request that registers a payload was the only one to do so.
LEMMA RegistrationKeepsOnce ==
  ASSUME IInv, NEW p, OnceInForce(p),
         (\E c \in Call : Create(c)) \/ (\E q \in posted : LateRegisters(q))
  PROVE  OnceInForce(p)'
<1>1. ASSUME NEW c \in Call, Create(c) PROVE OnceInForce(p)'
  <2>1. PICK k \in Key : Registers(k, pay[c])
    BY <1>1 DEF Create
  <2>2. /\ \A l \in Key \ {k} : (InForce(l)' <=> InForce(l)) /\ appr'[l] = appr[l]
        /\ appr'[k].pay = pay[c]
    BY <1>1, <2>1, RegistrationAlone DEF Create
  <2>3. /\ Registering(c, pay[c]) /\ posted' = posted
        /\ \A d \in Call : Registering(d, p)' <=> d # c /\ Registering(d, p)
    BY <1>1 DEF Create, Goto, Registering, IInv, TypeOK, CallTypeOK
  <2>4. CASE pay[c] = p
    BY <2>2, <2>3, <2>4 DEF OnceInForce, NothingInForce
  <2>5. CASE pay[c] # p
    BY <2>2, <2>3, <2>5 DEF OnceInForce, NothingInForce
  <2> QED  BY <2>4, <2>5
<1>2. ASSUME NEW q \in posted, LateRegisters(q) PROVE OnceInForce(p)'
  <2>1. PICK k \in Key : Registers(k, q)
    BY <1>2 DEF LateRegisters
  <2>2. /\ \A l \in Key \ {k} : (InForce(l)' <=> InForce(l)) /\ appr'[l] = appr[l]
        /\ appr'[k].pay = q
    BY <1>2, <2>1, RegistrationAlone DEF LateRegisters
  <2>3. posted' = posted \ {q} /\ \A d \in Call : Registering(d, p)' <=> Registering(d, p)
    BY <1>2 DEF LateRegisters, gateVars, Registering
  <2>4. CASE q = p
    BY <2>2, <2>3, <2>4 DEF OnceInForce, NothingInForce
  <2>5. CASE q # p
    BY <2>2, <2>3, <2>5 DEF OnceInForce, NothingInForce
  <2> QED  BY <2>4, <2>5
<1> QED
  BY <1>1, <1>2

\* Every other step only ends what is in force, and passes a registration on.
LEMMA OnceKept ==
  ASSUME IInv, OnceUnlessCrossed, [Next]_vars PROVE OnceUnlessCrossed'
<1> SUFFICES ASSUME NEW p \in Payload, p \notin crossed'
             PROVE  OnceInForce(p)'
  BY DEF OnceUnlessCrossed
<1>1. OnceInForce(p)
  BY CrossedGrows DEF OnceUnlessCrossed
<1>2. CASE (\E c \in Call : Create(c)) \/ (\E q \in posted : LateRegisters(q))
  BY <1>1, <1>2, RegistrationKeepsOnce
<1>3. CASE (\A c \in Call : ~Create(c)) /\ (\A q \in posted : ~LateRegisters(q))
  <2>1. \A k \in Key : InForce(k)' => InForce(k) /\ appr'[k].pay = appr[k].pay
    BY <1>3, ForceEnds
  <2>2. \A c \in Call : Registering(c, p)' =>
          Registering(c, p) \/ (Find(c) /\ NothingInForce(p) /\ p \notin BeingRegistered)
    BY SearchedFirst DEF Registering, FoundNone
  <2>3. \A c, d \in Call : Find(c) /\ pc'[c] = "create" /\ Find(d) /\ pc'[d] = "create" => c = d
    BY OthersStay DEF CodeStep, Find
  <2>4. ASSUME NEW c \in Call, NEW d \in Call, Registering(c, p)', Registering(d, p)' PROVE c = d
    BY <1>1, <2>2, <2>3, <2>4, WhoRegisters DEF OnceInForce, Registering
  <2>5. ASSUME p \in posted', NEW c \in Call, Registering(c, p)' PROVE FALSE
    <3>1. CASE p \in posted
      BY <1>1, <2>2, <2>5, <3>1, WhoRegisters DEF OnceInForce
    <3>2. CASE p \notin posted
      <4>1. PICK d \in Call :
              Registering(d, p) /\ pc'[d] # "create" /\ \A e \in Call \ {d} : pc'[e] = pc[e]
        BY <2>5, <3>2, GivenUp
      <4>2. c # d /\ Registering(c, p)
        BY <2>5, <4>1, SearchedFirst DEF Registering
      <4> QED
        BY <1>1, <4>1, <4>2 DEF OnceInForce
    <3> QED  BY <3>1, <3>2
  <2>6. ASSUME p \in posted' \/ \E c \in Call : Registering(c, p)' PROVE NothingInForce(p)
    <3>1. CASE p \in BeingRegistered
      BY <1>1, <3>1, WhoRegisters DEF OnceInForce
    <3>2. CASE p \notin BeingRegistered
      BY <2>2, <2>6, <3>2, GivenUp, WhoRegisters
    <3> QED  BY <3>1, <3>2
  <2>7. \A k, l \in Key : InForce(k)' /\ InForce(l)' /\ appr'[k].pay = p /\ appr'[l].pay = p => k = l
    BY <1>1, <2>1 DEF OnceInForce
  <2> QED
    BY <2>1, <2>4, <2>5, <2>6, <2>7 DEF OnceInForce, NothingInForce
<1> QED  BY <1>2, <1>3

\* One approval in force is what the property counts.
LEMMA OneIsEnough == ASSUME NEW p, OnceInForce(p) PROVE InForceOnce(p)
<1> DEFINE live == Live(p, "PENDING") \cup Live(p, "APPROVED")
<1>1. \A k, l \in live : k = l
  BY DEF Live, InForce, OnceInForce
<1>2. CASE live = {}
  BY <1>2, FS_EmptySet DEF InForceOnce
<1>3. CASE live # {}
  <2>1. PICK k : live = {k}
    BY <1>1, <1>3
  <2>2. Cardinality(live) = 1
    BY <2>1, FS_Singleton
  <2> QED  BY <2>2 DEF InForceOnce
<1> QED  BY <1>2, <1>3

(* Whatever the number of calls, and whatever is lost, late or cancelled: a   *)
(* payload has at most one undecided or unused approval, unless it was being  *)
(* registered when a call looked for its approval and found none.             *)
THEOREM AskedTwiceOnlyTogetherHolds == Spec => []AskedTwiceOnlyTogether
<1>1. Init => OnceUnlessCrossed
  BY DEF Init, OnceUnlessCrossed, OnceInForce, NothingInForce, Registering, InForce, Status
<1>2. IInv /\ OnceUnlessCrossed /\ [Next]_vars => OnceUnlessCrossed'
  BY OnceKept
<1>3. OnceUnlessCrossed => AskedTwiceOnlyTogether
  BY OneIsEnough DEF OnceUnlessCrossed, AskedTwiceOnlyTogether
<1> QED
  BY <1>1, <1>2, <1>3, InductiveInvariant, PTL DEF Spec
=============================================================================
