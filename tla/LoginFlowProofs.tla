--------------------------- MODULE LoginFlowProofs ---------------------------
(***************************************************************************)
(* Logins and logouts in any number of terminals, for any issuers, stores, *)
(* ports and authorizations: no entry of a store is lost to a change of    *)
(* another, and tokens are kept under the issuer they were asked of.       *)
(***************************************************************************)
EXTENDS LoginFlow, TLAPS

\* Contents that can be read are entries.
LEMMA ContentsAreEntries ==
  ASSUME StoreTypeOK
  PROVE  /\ NoEntries \in Entries /\ ReadAll \in Entries
         /\ \A f \in Entries : f # Garbled
  BY StoreAssumption DEF StoreTypeOK, ReadAll, NoEntries, Entries

\* A save or a delete by a process that has read the present entries changes
\* the entry of its issuer, in its store, and no other.
LEMMA PutChangesOne ==
  ASSUME StoreTypeOK, NoEntryLost, NEW p \in Process, NEW i \in Issuer,
         NEW l \in Login \cup {None}, Put(p, i, l),
         kind[p] = "file" => entries[p] = ReadAll
  PROVE  /\ StoreTypeOK' /\ NoEntryLost'
         /\ \A j \in Issuer : ReadAll'[j] = ReadAll[j] \/ (j = i /\ ReadAll'[j] = l)
         /\ \A j \in Issuer : keychain'[j] = keychain[j] \/ (j = i /\ keychain'[j] = l)
<1>1. /\ kind' \in [Process -> Kinds \cup {None}] /\ entries' \in [Process -> Entries]
      /\ promised' = [promised EXCEPT ![kind[p]] = [@ EXCEPT ![i] = l]]
      /\ keyring' = keyring
  BY ContentsAreEntries DEF Put, ReplaceFile, SetPassword, Forget, Promise, StoreTypeOK
<1>2. CASE ReplaceFile(p, i, l)
  <2>1. /\ kind[p] = "file" /\ keychain' = keychain
        /\ file' = [ReadAll EXCEPT ![i] = l]
    BY <1>2 DEF ReplaceFile
  <2>2. file' \in Entries /\ ReadAll' = [ReadAll EXCEPT ![i] = l]
    <3>1. file' \in Entries
      BY <2>1, ContentsAreEntries DEF Entries
    <3> QED BY <2>1, <3>1, ContentsAreEntries DEF ReadAll
  <2>3. /\ promised' \in [Kinds -> Entries]
        /\ promised'["keychain"] = promised["keychain"]
        /\ promised'["file"] = [promised["file"] EXCEPT ![i] = l]
    BY <1>1, <2>1 DEF StoreTypeOK, Kinds, Entries
  <2>4. ReadAll \in Entries /\ promised["file"] \in Entries
    BY ContentsAreEntries DEF StoreTypeOK, Kinds
  <2>5. NoEntryLost'
    BY <2>1, <2>2, <2>3, <2>4 DEF NoEntryLost, Entries
  <2> QED BY <1>1, <2>1, <2>2, <2>3, <2>4, <2>5 DEF StoreTypeOK, Entries
<1>3. CASE SetPassword(p, i, l)
  <2>1. /\ kind[p] = "keychain" /\ file' = file
        /\ keychain' = [keychain EXCEPT ![i] = l]
    BY <1>3 DEF SetPassword
  <2>2. /\ promised' \in [Kinds -> Entries]
        /\ promised'["file"] = promised["file"]
        /\ promised'["keychain"] = [promised["keychain"] EXCEPT ![i] = l]
    BY <1>1, <2>1 DEF StoreTypeOK, Kinds, Entries
  <2>3. keychain' \in Entries /\ ReadAll' = ReadAll
    BY <2>1 DEF StoreTypeOK, Entries, ReadAll
  <2>4. keychain \in Entries /\ promised["keychain"] \in Entries
    BY DEF StoreTypeOK, Kinds
  <2>5. NoEntryLost'
    BY <2>1, <2>2, <2>3, <2>4 DEF NoEntryLost, Entries
  <2> QED BY <1>1, <2>1, <2>2, <2>3, <2>4, <2>5 DEF StoreTypeOK, Entries
<1> QED BY <1>2, <1>3 DEF Put

\* A process that leaves takes nothing from the others.
LEMMA LeaveKeeps ==
  ASSUME FlowTypeOK, NEW p \in Process, Leave(p)
  PROVE  /\ FlowTypeOK' /\ asked' = asked
         /\ pc'[p] = "idle" /\ got'[p] = None /\ auth'[p] = None /\ outcome'[p] = "open"
         /\ \A q \in Process : q # p =>
              /\ pc'[q] = pc[q] /\ got'[q] = got[q] /\ auth'[q] = auth[q]
              /\ target'[q] = target[q] /\ outcome'[q] = outcome[q]
              /\ (holder = q => holder' = q)
  BY FlowAssumption DEF Leave, FlowTypeOK, Places

\* Leaving without a change keeps the invariant.
LEMMA AbandonKeeps ==
  ASSUME IInv, NEW p \in Process, Leave(p), Abandon(p)
  PROVE  IInv'
<1>1. StoreTypeOK' /\ NoEntryLost' /\ ReadAll' = ReadAll /\ keychain' = keychain
  BY ContentsAreEntries
  DEF Abandon, Forget, IInv, TypeOK, StoreTypeOK, NoEntryLost, ReadAll
<1>2. /\ FlowTypeOK' /\ asked' = asked
      /\ pc'[p] = "idle" /\ got'[p] = None /\ auth'[p] = None /\ outcome'[p] = "open"
      /\ \A q \in Process : q # p =>
           /\ pc'[q] = pc[q] /\ got'[q] = got[q] /\ auth'[q] = auth[q]
           /\ target'[q] = target[q] /\ outcome'[q] = outcome[q]
           /\ (holder = q => holder' = q)
  BY LeaveKeeps DEF IInv, TypeOK
<1>3. \A q \in Process : q # p => kind'[q] = kind[q] /\ entries'[q] = entries[q]
  BY DEF Abandon, Forget, IInv, TypeOK, StoreTypeOK
<1>4. FlowInv'
  BY <1>1, <1>2, <1>3 DEF IInv, FlowInv, Orderly, Locked
<1>5. LoginsOfTheirIssuer'
  BY <1>1, <1>2 DEF IInv, LoginsOfTheirIssuer, Stored
<1> QED BY <1>1, <1>2, <1>4, <1>5 DEF IInv, TypeOK

\* Saving or deleting, by the holder of the lock, keeps the invariant.
LEMMA PutKeeps ==
  ASSUME IInv, NEW p \in Process, NEW l \in Login \cup {None},
         pc[p] \in {"replace", "delete"}, Put(p, target[p], l), Leave(p),
         l # None => asked[l] # None /\ asked[l].issuer = target[p]
  PROVE  IInv'
<1>1. target[p] \in Issuer /\ holder = p /\ (kind[p] = "file" => entries[p] = ReadAll)
  BY DEF IInv, TypeOK, FlowTypeOK, FlowInv, Orderly, Locked
<1>2. /\ StoreTypeOK' /\ NoEntryLost'
      /\ \A j \in Issuer : ReadAll'[j] = ReadAll[j] \/ (j = target[p] /\ ReadAll'[j] = l)
      /\ \A j \in Issuer : keychain'[j] = keychain[j] \/ (j = target[p] /\ keychain'[j] = l)
  BY <1>1, PutChangesOne DEF IInv, TypeOK
<1>3. /\ FlowTypeOK' /\ asked' = asked
      /\ pc'[p] = "idle" /\ got'[p] = None /\ auth'[p] = None /\ outcome'[p] = "open"
      /\ \A q \in Process : q # p =>
           /\ pc'[q] = pc[q] /\ got'[q] = got[q] /\ auth'[q] = auth[q]
           /\ target'[q] = target[q] /\ outcome'[q] = outcome[q]
           /\ (holder = q => holder' = q)
  BY LeaveKeeps DEF IInv, TypeOK
<1>4. \A q \in Process : q # p => pc[q] \notin Locked
  BY <1>1 DEF IInv, FlowInv, Orderly
<1>5. FlowInv'
  <2> SUFFICES ASSUME NEW q \in Process PROVE Orderly(q)'
    BY DEF FlowInv
  <2>1. CASE q = p
    BY <1>3, <2>1 DEF Orderly, Locked
  <2>2. CASE q # p
    BY <1>3, <1>4, <2>2 DEF IInv, FlowInv, Orderly, Locked
  <2> QED BY <2>1, <2>2
<1>6. LoginsOfTheirIssuer'
  BY <1>2, <1>3 DEF IInv, LoginsOfTheirIssuer, Stored
<1> QED BY <1>2, <1>3, <1>5, <1>6 DEF IInv, TypeOK

-----------------------------------------------------------------------------
(* Steps that leave the stores alone *)

\* Only the process itself and what was asked change.
LEMMA FlowKeeps ==
  ASSUME IInv, FlowTypeOK', UNCHANGED storeVars, NEW p \in Process,
         \A q \in Process : q # p =>
           /\ pc'[q] = pc[q] /\ got'[q] = got[q] /\ auth'[q] = auth[q]
           /\ target'[q] = target[q] /\ outcome'[q] = outcome[q]
           /\ (holder = q => holder' = q),
         \A a \in Login : asked[a] # None => asked'[a] = asked[a],
         Orderly(p)', pc'[p] \notin {"replace", "delete"}
  PROVE  IInv'
<1>1. StoreTypeOK' /\ NoEntryLost' /\ ReadAll' = ReadAll /\ keychain' = keychain
      /\ kind' = kind /\ entries' = entries
  BY DEF storeVars, IInv, TypeOK, StoreTypeOK, NoEntryLost, ReadAll
<1>2. \A q \in Process : auth[q] \in Login \cup {None}
  BY DEF IInv, TypeOK, FlowTypeOK
<1>3. FlowInv'
  <2> SUFFICES ASSUME NEW q \in Process PROVE Orderly(q)'
    BY DEF FlowInv
  <2>1. CASE q = p
    BY <2>1
  <2>2. CASE q # p
    BY <1>1, <1>2, <2>2 DEF IInv, FlowInv, Orderly
  <2> QED BY <2>1, <2>2
<1>4. LoginsOfTheirIssuer'
  <2> SUFFICES ASSUME NEW i \in Issuer, NEW a \in Stored(i)
      PROVE  asked'[a] # None /\ asked'[a].issuer = i
    BY <1>1 DEF LoginsOfTheirIssuer, Stored
  <2>1. a \in Login
    BY ContentsAreEntries DEF Stored, IInv, TypeOK, StoreTypeOK, Entries
  <2> QED BY <2>1 DEF IInv, LoginsOfTheirIssuer
<1> QED BY <1>1, <1>3, <1>4 DEF IInv, TypeOK

\* Going to another place, and nothing else.
LEMMA GoKeeps ==
  ASSUME IInv, NEW p \in Process,
         NEW to \in Places \ {"idle", "choose", "discover", "replace", "delete"},
         pc' = [pc EXCEPT ![p] = to], pc[p] # "idle",
         UNCHANGED <<storeVars, target, auth, port, outcome, got, asked>>,
         holder' = holder \/ (holder = None /\ holder' = p),
         to \in Locked => holder' = p,
         to \in {"redeem", "lock", "read"} => outcome[p] = "code"
  PROVE  IInv'
<1>1. FlowTypeOK'
  BY DEF IInv, TypeOK, FlowTypeOK
<1>2. pc'[p] = to /\ \A q \in Process : q # p => pc'[q] = pc[q] /\ (holder = q => holder' = q)
  BY FlowAssumption DEF IInv, TypeOK, FlowTypeOK
<1>3. Orderly(p)'
  BY <1>2 DEF IInv, FlowInv, Orderly
<1> QED BY <1>1, <1>2, <1>3, FlowKeeps

LEMMA StartKeeps ==
  ASSUME IInv, NEW p \in Process, NEW i \in Issuer,
         NEW where \in {"choose", "signout"}, Start(p, i, where)
  PROVE  IInv'
<1>1. FlowTypeOK'
  BY DEF Start, Go, Places, IInv, TypeOK, FlowTypeOK
<1>2. /\ pc'[p] = where /\ target'[p] = i
      /\ \A q \in Process : q # p => pc'[q] = pc[q] /\ target'[q] = target[q]
  BY DEF Start, Go, IInv, TypeOK, FlowTypeOK
<1>3. Orderly(p)'
  BY <1>2, FlowAssumption DEF Start, Go, IInv, FlowInv, Orderly, Locked
<1> QED BY <1>1, <1>2, <1>3, FlowKeeps DEF Start

LEMMA ListenKeeps ==
  ASSUME IInv, NEW p \in Process, NEW a \in Login, NEW n \in Port, Listen(p, a, n)
  PROVE  IInv'
<1>1. FlowTypeOK'
  <2>1. target[p] \in Issuer
    BY DEF Listen, Go, IInv, TypeOK, FlowTypeOK, FlowInv, Orderly
  <2>2. [port |-> n, issuer |-> target[p]] \in Redirect
    BY <2>1 DEF Redirect
  <2> QED BY <2>2 DEF Listen, Go, Places, Listening, IInv, TypeOK, FlowTypeOK
<1>2. /\ pc'[p] = "present" /\ auth'[p] = a
      /\ \A q \in Process : q # p => pc'[q] = pc[q] /\ auth'[q] = auth[q]
      /\ asked[a] = None /\ asked'[a] = [port |-> n, issuer |-> target[p]]
      /\ \A b \in Login : asked[b] # None => asked'[b] = asked[b]
  BY DEF Listen, Go, IInv, TypeOK, FlowTypeOK
<1>3. asked'[a] # None
  <2>1. target[p] \in Issuer
    BY DEF Listen, Go, IInv, TypeOK, FlowTypeOK, FlowInv, Orderly
  <2> QED BY <1>2, <2>1, FlowAssumption DEF Redirect
<1>4. Orderly(p)'
  BY <1>2, <1>3 DEF Listen, Go, IInv, FlowInv, Orderly, Locked
<1> QED BY <1>1, <1>2, <1>4, FlowKeeps DEF Listen

LEMMA CallbackKeeps ==
  ASSUME IInv, NEW p \in Process, NEW a \in Login, NEW iss, NEW carries,
         Callback(p, a, iss, carries)
  PROVE  IInv'
<1>1. /\ outcome' = [outcome EXCEPT ![p] = Evaluate(p, a, iss, carries)]
      /\ got' = [got EXCEPT ![p] = IF Evaluate(p, a, iss, carries) = "code" THEN a ELSE @]
      /\ \/ Evaluate(p, a, iss, carries) = "code" /\ a = auth[p]
         \/ Evaluate(p, a, iss, carries) = "error"
  BY DEF Callback, Evaluate
<1>2. FlowTypeOK'
  BY <1>1 DEF Callback, IInv, TypeOK, FlowTypeOK
<1>3. /\ outcome'[p] = Evaluate(p, a, iss, carries)
      /\ got'[p] = IF Evaluate(p, a, iss, carries) = "code" THEN a ELSE got[p]
      /\ \A q \in Process : q # p => outcome'[q] = outcome[q] /\ got'[q] = got[q]
  BY <1>1 DEF IInv, TypeOK, FlowTypeOK
<1>4. Orderly(p)' /\ pc[p] \in Listening
  BY <1>1, <1>3, StoreAssumption DEF Callback, IInv, FlowInv, Orderly, Locked, Listening
<1> QED BY <1>2, <1>3, <1>4, FlowKeeps DEF Callback, Listening

LEMMA TimeoutKeeps ==
  ASSUME IInv, NEW p \in Process, Timeout(p)
  PROVE  IInv'
<1>1. FlowTypeOK'
  BY DEF Timeout, IInv, TypeOK, FlowTypeOK
<1>2. outcome'[p] = "error" /\ \A q \in Process : q # p => outcome'[q] = outcome[q]
  BY DEF Timeout, IInv, TypeOK, FlowTypeOK
<1>3. Orderly(p)' /\ pc[p] \in Listening
  BY <1>2 DEF Timeout, IInv, FlowInv, Orderly, Locked, Listening
<1> QED BY <1>1, <1>2, <1>3, FlowKeeps DEF Timeout, Listening

LEMMA CodeArrivedKeeps ==
  ASSUME IInv, NEW p \in Process, CodeArrived(p)
  PROVE  IInv'
<1>1. FlowTypeOK'
  BY DEF CodeArrived, Go, Places, IInv, TypeOK, FlowTypeOK
<1>2. pc'[p] = "redeem" /\ \A q \in Process : q # p => pc'[q] = pc[q]
  BY DEF CodeArrived, Go, IInv, TypeOK, FlowTypeOK
<1>3. Orderly(p)'
  BY <1>2 DEF CodeArrived, Go, IInv, FlowInv, Orderly, Locked
<1> QED BY <1>1, <1>2, <1>3, FlowKeeps DEF CodeArrived

\* A process chooses a store; the stores stay as they are.
LEMMA ChooseKeeps ==
  ASSUME IInv, NEW p \in Process, NEW from, NEW to, ChooseStore(p, from, to),
         \/ from = "choose" /\ to = "discover"
         \/ from = "signout" /\ to = "logout"
  PROVE  IInv'
<1> PICK k \in Kinds : Choose(p, k)
  BY DEF ChooseStore
<1>1. FlowTypeOK' /\ pc'[p] = to /\ pc[p] = from /\ \A q \in Process : q # p => pc'[q] = pc[q]
  BY DEF ChooseStore, Go, Places, IInv, TypeOK, FlowTypeOK
<1>2. /\ StoreTypeOK' /\ NoEntryLost' /\ ReadAll' = ReadAll
      /\ \A q \in Process : q # p => kind'[q] = kind[q]
  BY DEF Choose, IInv, TypeOK, StoreTypeOK, NoEntryLost, ReadAll
<1>3. FlowInv'
  <2> SUFFICES ASSUME NEW q \in Process PROVE Orderly(q)'
    BY DEF FlowInv
  <2>1. CASE q = p
    <3>1. /\ pc'[p] \in {"discover", "logout"} /\ pc[p] \in {"choose", "signout"}
          /\ (pc'[p] = "discover" => pc[p] = "choose")
      BY <1>1 DEF ChooseStore
    <3> QED BY <2>1, <3>1 DEF ChooseStore, IInv, FlowInv, Orderly, Locked
  <2>2. CASE q # p
    BY <1>1, <1>2, <2>2 DEF ChooseStore, Choose, IInv, FlowInv, Orderly
  <2> QED BY <2>1, <2>2
<1>4. LoginsOfTheirIssuer'
  BY <1>2 DEF ChooseStore, Choose, IInv, LoginsOfTheirIssuer, Stored
<1> QED BY <1>1, <1>2, <1>3, <1>4 DEF IInv, TypeOK

\* A process reads the entries, with the lock.
LEMMA ReadKeeps ==
  ASSUME IInv, NEW p \in Process,
         Read(p, "read", "replace") \/ Read(p, "reread", "delete")
  PROVE  IInv'
<1>1. /\ FlowTypeOK' /\ pc'[p] \in {"replace", "delete"} /\ pc[p] \in {"read", "reread"}
      /\ (pc'[p] = "replace" => pc[p] = "read")
      /\ \A q \in Process : q # p => pc'[q] = pc[q]
  BY DEF Read, Go, Places, Locked, IInv, TypeOK, FlowTypeOK
<1>2. ReadEntries(p) /\ UNCHANGED <<target, auth, port, outcome, got, holder, asked>>
  BY DEF Read
<1>3. /\ StoreTypeOK' /\ NoEntryLost' /\ ReadAll' = ReadAll /\ kind' = kind
      /\ (kind[p] = "file" => entries'[p] = ReadAll)
      /\ \A q \in Process : q # p => entries'[q] = entries[q]
  BY <1>2, ContentsAreEntries
  DEF ReadEntries, IInv, TypeOK, StoreTypeOK, NoEntryLost, ReadAll
<1>4. FlowInv'
  <2> SUFFICES ASSUME NEW q \in Process PROVE Orderly(q)'
    BY DEF FlowInv
  <2>1. CASE q = p
    BY <1>1, <1>2, <1>3, <2>1 DEF IInv, FlowInv, Orderly, Locked
  <2>2. CASE q # p
    BY <1>1, <1>2, <1>3, <2>2 DEF IInv, FlowInv, Orderly
  <2> QED BY <2>1, <2>2
<1>5. LoginsOfTheirIssuer'
  BY <1>2, <1>3 DEF ReadEntries, IInv, LoginsOfTheirIssuer, Stored
<1> QED BY <1>1, <1>3, <1>4, <1>5 DEF IInv, TypeOK

LEMMA KeyringKeeps ==
  ASSUME IInv, KeyringChanges, UNCHANGED flowVars
  PROVE  IInv'
<1>1. StoreTypeOK' /\ NoEntryLost' /\ ReadAll' = ReadAll
  BY DEF KeyringChanges, IInv, TypeOK, StoreTypeOK, NoEntryLost, ReadAll
<1>2. FlowTypeOK' /\ FlowInv'
  BY <1>1 DEF KeyringChanges, flowVars, IInv, TypeOK, FlowTypeOK, FlowInv, Orderly
<1>3. LoginsOfTheirIssuer'
  BY <1>1 DEF KeyringChanges, flowVars, IInv, LoginsOfTheirIssuer, Stored
<1> QED BY <1>1, <1>2, <1>3 DEF IInv, TypeOK

-----------------------------------------------------------------------------
(* The invariant *)

LEMMA InitHolds == Init => IInv
<1> SUFFICES ASSUME Init PROVE IInv
  OBVIOUS
<1>1. NoEntries \in Entries /\ ReadAll = NoEntries
  BY DEF Init, StoreInit, ReadAll, NoEntries, Entries
<1>2. StoreTypeOK /\ NoEntryLost
  BY <1>1 DEF Init, StoreInit, StoreTypeOK, NoEntryLost, Kinds
<1>3. FlowTypeOK /\ FlowInv
  BY DEF Init, FlowTypeOK, FlowInv, Orderly, Places, Locked
<1>4. LoginsOfTheirIssuer
  BY <1>1 DEF Init, StoreInit, LoginsOfTheirIssuer, Stored, NoEntries
<1> QED BY <1>2, <1>3, <1>4 DEF IInv, TypeOK

\* What a process keeps by leaving a place for the next one.
LEMMA LoginStepKeeps ==
  ASSUME IInv, NEW p \in Process, LoginStep(p)
  PROVE  IInv'
<1>1. CASE ChooseStore(p, "choose", "discover")
  BY <1>1, ChooseKeeps
<1>2. CASE \E a \in Login, n \in Port : Listen(p, a, n)
  BY <1>2, ListenKeeps
<1>3. CASE Presented(p)
  BY <1>3, GoKeeps DEF Presented, Go, Places, Listening, Locked
<1>4. CASE Timeout(p)
  BY <1>4, TimeoutKeeps
<1>5. CASE CodeArrived(p)
  BY <1>5, CodeArrivedKeeps
<1>6. CASE NoCode(p)
  BY <1>6, AbandonKeeps DEF NoCode
<1>7. CASE Redeemed(p)
  BY <1>7, GoKeeps DEF Redeemed, Go, Places, Locked, IInv, FlowInv, Orderly
<1>8. CASE TakeLock(p, "lock", "read")
  BY <1>8, GoKeeps DEF TakeLock, Go, Places, Locked, IInv, FlowInv, Orderly
<1>9. CASE Read(p, "read", "replace")
  BY <1>9, ReadKeeps
<1>10. CASE Save(p)
  <2>1. /\ got[p] \in Login \cup {None}
        /\ (got[p] # None => asked[got[p]] # None /\ asked[got[p]].issuer = target[p])
    BY DEF IInv, TypeOK, FlowTypeOK, FlowInv, Orderly
  <2> QED BY <1>10, <2>1, PutKeeps DEF Save
<1> QED BY <1>1, <1>2, <1>3, <1>4, <1>5, <1>6, <1>7, <1>8, <1>9, <1>10 DEF LoginStep

LEMMA LogoutStepKeeps ==
  ASSUME IInv, NEW p \in Process, LogoutStep(p)
  PROVE  IInv'
<1>1. CASE ChooseStore(p, "signout", "logout")
  BY <1>1, ChooseKeeps
<1>2. CASE TakeLock(p, "logout", "load")
  BY <1>2, GoKeeps DEF TakeLock, Go, Places, Locked
<1>3. CASE NotSignedIn(p)
  BY <1>3, AbandonKeeps DEF NotSignedIn
<1>4. CASE LoadLogin(p)
  BY <1>4, GoKeeps DEF LoadLogin, Go, Places, Locked, IInv, FlowInv, Orderly
<1>5. CASE Revoked(p)
  BY <1>5, GoKeeps DEF Revoked, Go, Places, Locked, IInv, FlowInv, Orderly
<1>6. CASE Read(p, "reread", "delete")
  BY <1>6, ReadKeeps
<1>7. CASE Delete(p)
  BY <1>7, PutKeeps DEF Delete
<1> QED BY <1>1, <1>2, <1>3, <1>4, <1>5, <1>6, <1>7 DEF LogoutStep

LEMMA NextKeeps == IInv /\ [Next]_vars => IInv'
<1> SUFFICES ASSUME IInv, [Next]_vars PROVE IInv'
  OBVIOUS
<1>1. CASE UNCHANGED vars
  BY <1>1 DEF vars, storeVars, flowVars, IInv, TypeOK, StoreTypeOK, FlowTypeOK, FlowInv,
              Orderly, NoEntryLost, LoginsOfTheirIssuer, Stored, ReadAll
<1>2. CASE World
  <2>1. CASE KeyringChanges /\ UNCHANGED flowVars
    BY <2>1, KeyringKeeps
  <2>2. CASE \E p \in Process, i \in Issuer : Start(p, i, "choose") \/ Start(p, i, "signout")
    BY <2>2, StartKeeps
  <2>3. CASE \E p \in Process, a \in Login, iss \in {"own", "other", "none"},
                carries \in {"code", "error", "nothing"} : Callback(p, a, iss, carries)
    BY <2>3, CallbackKeeps
  <2>4. CASE \E p \in Process : pc[p] # "idle" /\ Leave(p) /\ Abandon(p)
    BY <2>4, AbandonKeeps
  <2> QED BY <1>2, <2>1, <2>2, <2>3, <2>4 DEF World
<1>3. ASSUME NEW p \in Process, Step(p) PROVE IInv'
  BY <1>3, LoginStepKeeps, LogoutStepKeeps, AbandonKeeps DEF Step, Fails
<1> QED BY <1>1, <1>2, <1>3 DEF Next

\* Whoever changes a store has the credentials lock and has read what is there,
\* and a receiver that got a code got that of its own authorization.
THEOREM LoginInvariant == Spec => []IInv
  BY InitHolds, NextKeeps, PTL DEF Spec

\* No process, by saving or deleting the login of its issuer, undoes what
\* another one saved or deleted for another issuer in the same file.
THEOREM NoLoginLost == Spec => []NoEntryLost
<1>1. IInv => NoEntryLost
  BY DEF IInv
<1> QED BY <1>1, LoginInvariant, PTL

\* Tokens are stored under the issuer that was asked for them, whichever
\* ports are used again and whichever old browser tabs answer.
THEOREM LoginsStayWithTheirIssuer == Spec => []LoginsOfTheirIssuer
<1>1. IInv => LoginsOfTheirIssuer
  BY DEF IInv
<1> QED BY <1>1, LoginInvariant, PTL
=============================================================================
