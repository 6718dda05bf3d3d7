------------------------- MODULE LocalSessionProofs -------------------------
(***************************************************************************)
(* What holds of the shared login for any number of servers, callers,      *)
(* commands, grants and rotations, and whatever fails: the inductive       *)
(* invariant IInv, that a refresh token is replayed only where a refresh   *)
(* of it got no answer or the pair that replaced it was lost, that only a  *)
(* refused token is made to look expired, and that LocalSession implements *)
(* StoredLogin.                                                            *)
(***************************************************************************)
EXTENDS LocalSession, TLAPS

\* A token is a pair of a grant and a number.
LEMMA TokenParts ==
  /\ \A t \in Token : t[1] \in Grant /\ t[2] \in 0..MaxGen
  /\ \A g \in Grant, n \in 0..MaxGen :
       <<g, n>> \in Token /\ <<g, n>>[1] = g /\ <<g, n>>[2] = n
BY DEF Token

\* Grants(S) without the set constructor.
LEMMA GrantsOf == \A S, g : g \in Grants(S) <=> \E t \in S : t[1] = g
BY DEF Grants

\* GetAccessToken preserves the invariant.
LEMMA GetAccessTokenKeeps == ASSUME IInv, NEW c \in Caller, GetAccessToken(c) PROVE IInv'
<1>1. TypeOK'
  BY SessionAssumption
     DEF GetAccessToken, HandOutOrRefresh, asVars, timeVars, sessVars,
         histVars, IInv, TypeOK
<1>2. RefreshInHand'
  BY DEF GetAccessToken, HandOutOrRefresh, asVars, IInv, TypeOK, RefreshInHand
<1>3. HandedOutWasStored'
  BY SessionAssumption
     DEF GetAccessToken, HandOutOrRefresh, sessVars, histVars, IInv, TypeOK,
         HandedOutWasStored
<1>4. LogoutInHand' /\ LoginInHand' /\ Recorded' /\ SignedOutStaysOut'
  BY DEF GetAccessToken, asVars, histVars, IInv, LogoutInHand, LoginInHand,
         Recorded, SignedOutStaysOut
<1>5. InOrder'
  BY DEF GetAccessToken, asVars, histVars, IInv, InOrder
<1> QED  BY <1>1, <1>2, <1>3, <1>4, <1>5 DEF IInv

\* Load preserves the invariant.
LEMMA LoadKeeps == ASSUME IInv, NEW c \in Caller, Load(c) PROVE IInv'
<1>1. TypeOK'
  BY DEF Load, asVars, timeVars, sessVars, histVars, IInv, TypeOK
<1>2. HandedOutWasStored'
  BY DEF Load, sessVars, histVars, IInv, Recorded, HandedOutWasStored
<1>3. RefreshInHand' /\ LogoutInHand' /\ LoginInHand'
     /\ Recorded' /\ SignedOutStaysOut'
  BY DEF Load, asVars, histVars, IInv, RefreshInHand, LogoutInHand,
         LoginInHand, Recorded, SignedOutStaysOut
<1>4. InOrder'
  BY DEF Load, asVars, histVars, IInv, InOrder
<1> QED  BY <1>1, <1>2, <1>3, <1>4 DEF IInv

\* Loaded preserves the invariant.
LEMMA LoadedKeeps == ASSUME IInv, NEW c \in Caller, Loaded(c) PROVE IInv'
<1>1. TypeOK'
  <2>1. /\ cached' \in [Proc -> Token \cup {None}] /\ forced' \subseteq Proc
        /\ cpc' \in [Caller -> {"idle", "load", "loaded", "wait", "have"}]
    BY SessionAssumption DEF Loaded, HandOutOrRefresh, IInv, TypeOK
  <2>2. /\ tok' \in [Caller -> Token \cup {None}]
        /\ rpc' \in [Proc -> {"none", "lock", "request", "save"}]
    BY SessionAssumption DEF Loaded, HandOutOrRefresh, IInv, TypeOK
  <2>3. UNCHANGED <<store, holder, asVars, timeVars, mine, kpc, histVars>>
    BY DEF Loaded
  <2> QED BY <2>1, <2>2, <2>3 DEF asVars, timeVars, histVars, IInv, TypeOK
<1>2. RefreshInHand'
  BY DEF Loaded, HandOutOrRefresh, asVars, IInv, TypeOK, RefreshInHand
<1>3. HandedOutWasStored'
  BY DEF Loaded, HandOutOrRefresh, histVars, IInv, TypeOK, HandedOutWasStored
<1>4. LogoutInHand' /\ LoginInHand' /\ Recorded' /\ SignedOutStaysOut'
  BY DEF Loaded, asVars, histVars, IInv, LogoutInHand, LoginInHand, Recorded,
         SignedOutStaysOut
<1>5. InOrder'
  BY DEF Loaded, asVars, histVars, IInv, InOrder
<1> QED  BY <1>1, <1>2, <1>3, <1>4, <1>5 DEF IInv

\* Accepted preserves the invariant.
LEMMA AcceptedKeeps == ASSUME IInv, NEW c \in Caller, Accepted(c) PROVE IInv'
<1>1. TypeOK'
  BY DEF Accepted, asVars, timeVars, sessVars, histVars, IInv, TypeOK
<1>2. HandedOutWasStored'
  BY DEF Accepted, sessVars, histVars, IInv, HandedOutWasStored
<1>3. RefreshInHand' /\ LogoutInHand' /\ LoginInHand'
     /\ Recorded' /\ SignedOutStaysOut'
  BY DEF Accepted, asVars, histVars, IInv, RefreshInHand, LogoutInHand,
         LoginInHand, Recorded, SignedOutStaysOut
<1>4. InOrder'
  BY DEF Accepted, asVars, histVars, IInv, InOrder
<1> QED  BY <1>1, <1>2, <1>3, <1>4 DEF IInv

\* Invalidate preserves the invariant.
LEMMA InvalidateKeeps == ASSUME IInv, NEW c \in Caller, Invalidate(c) PROVE IInv'
<1>1. TypeOK'
  <2>1. Home[c] \in Proc
    BY SessionAssumption
  <2>2. forced' \subseteq Proc
    BY <2>1 DEF Invalidate, IInv, TypeOK
  <2>3. tok' \in [Caller -> Token \cup {None}]
    BY DEF Invalidate, IInv, TypeOK
  <2>4. cpc' \in [Caller -> {"idle", "load", "loaded", "wait", "have"}]
    BY DEF Invalidate, IInv, TypeOK
  <2> QED
    BY <2>2, <2>3, <2>4 DEF Invalidate, asVars, timeVars, histVars, IInv, TypeOK
<1>2. HandedOutWasStored'
  BY DEF Invalidate, histVars, IInv, HandedOutWasStored
<1>3. RefreshInHand' /\ LogoutInHand' /\ LoginInHand'
     /\ Recorded' /\ SignedOutStaysOut'
  BY DEF Invalidate, asVars, histVars, IInv, RefreshInHand, LogoutInHand,
         LoginInHand, Recorded, SignedOutStaysOut
<1>4. InOrder'
  BY DEF Invalidate, asVars, histVars, IInv, InOrder
<1> QED  BY <1>1, <1>2, <1>3, <1>4 DEF IInv

\* Busy preserves the invariant.
LEMMA BusyKeeps == ASSUME IInv, NEW p \in Proc, Busy(p) PROVE IInv'
<1>1. TypeOK'
  BY DEF Busy, Settle, asVars, timeVars, sessVars, histVars, IInv, TypeOK
<1>2. RefreshInHand'
  BY DEF Busy, Settle, asVars, IInv, RefreshInHand
<1>3. LogoutInHand'
  BY SessionAssumption DEF Busy, Settle, IInv, LogoutInHand
<1>4. LoginInHand'
  BY SessionAssumption DEF Busy, Settle, asVars, histVars, IInv, LoginInHand
<1>5. HandedOutWasStored'
  BY DEF Busy, Settle, sessVars, histVars, IInv, HandedOutWasStored
<1>6. Recorded' /\ SignedOutStaysOut'
  BY DEF Busy, asVars, histVars, IInv, Recorded, SignedOutStaysOut
<1>7. InOrder'
  BY DEF Busy, asVars, histVars, IInv, InOrder
<1> QED  BY <1>1, <1>2, <1>3, <1>4, <1>5, <1>6, <1>7 DEF IInv

\* RefreshLoad preserves the invariant.
LEMMA RefreshLoadKeeps == ASSUME IInv, NEW p \in Proc, RefreshLoad(p) PROVE IInv'
<1>1. TypeOK'
  <2>1. /\ cached' \in [Proc -> Token \cup {None}] /\ forced' \subseteq Proc
    BY DEF RefreshLoad, sessVars, IInv, TypeOK
  <2>2. /\ rpc' \in [Proc -> {"none", "lock", "request", "save"}]
        /\ holder' \in Proc \cup Cli \cup {None}
    BY DEF RefreshLoad, Settle, IInv, TypeOK
  <2>3. mine' \in [Proc \cup Cli -> Token \cup {None}]
    BY DEF RefreshLoad, Settle, IInv, TypeOK
  <2>4. cpc' \in [Caller -> {"idle", "load", "loaded", "wait", "have"}]
    BY DEF RefreshLoad, Settle, callerVars, IInv, TypeOK
  <2>5. tok' \in [Caller -> Token \cup {None}]
    BY DEF RefreshLoad, Settle, callerVars, IInv, TypeOK
  <2> QED
    BY <2>1, <2>2, <2>3, <2>4, <2>5
       DEF RefreshLoad, asVars, timeVars, histVars, IInv, TypeOK
<1>2. RefreshInHand'
  BY SessionAssumption DEF RefreshLoad, Settle, IInv, TypeOK, RefreshInHand
<1>3. LogoutInHand'
  BY SessionAssumption DEF RefreshLoad, IInv, LogoutInHand
<1>4. LoginInHand'
  BY SessionAssumption
     DEF RefreshLoad, Settle, asVars, histVars, IInv, TypeOK, LoginInHand
<1>5. HandedOutWasStored'
  <2>1. store \in saved \cup {None} /\ saved' = saved
    BY DEF RefreshLoad, histVars, IInv, Recorded
  <2>2. ASSUME NEW q \in Proc PROVE cached'[q] \in saved \cup {None}
    BY <2>1 DEF RefreshLoad, sessVars, IInv, TypeOK, HandedOutWasStored
  <2>3. ASSUME NEW c \in Caller PROVE tok'[c] \in saved \cup {None}
    BY <2>1 DEF RefreshLoad, Settle, callerVars, IInv, TypeOK, HandedOutWasStored
  <2> QED
    BY <2>1, <2>2, <2>3 DEF HandedOutWasStored
<1>6. Recorded' /\ SignedOutStaysOut'
  BY DEF RefreshLoad, asVars, histVars, IInv, Recorded, SignedOutStaysOut
<1>7. InOrder'
  BY DEF RefreshLoad, asVars, histVars, IInv, InOrder
<1> QED  BY <1>1, <1>2, <1>3, <1>4, <1>5, <1>6, <1>7 DEF IInv

\* Refreshed preserves the invariant.
LEMMA RefreshedKeeps == ASSUME IInv, NEW p \in Proc, Refreshed(p) PROVE IInv'
<1>1. TypeOK'
  BY SessionAssumption, TokenParts
     DEF Refreshed, Rotates, Successor, timeVars, callerVars, sessVars, histVars, IInv,
         TypeOK, RefreshInHand
<1>2. RefreshInHand'
  BY SessionAssumption, NoneIsNoToken, TokenParts
     DEF Refreshed, Rotates, Successor, IInv, TypeOK, RefreshInHand
<1>3. LogoutInHand'
  BY SessionAssumption DEF Refreshed, IInv, LogoutInHand
<1>4. LoginInHand'
  BY GrantsOf
     DEF Refreshed, Rotates, Successor, histVars, IInv, RefreshInHand, LoginInHand,
         Recorded
<1>5. Recorded'
  BY GrantsOf DEF Refreshed, Rotates, Successor, histVars, IInv, RefreshInHand, Recorded
<1>6. HandedOutWasStored' /\ SignedOutStaysOut'
  BY DEF Refreshed, callerVars, sessVars, histVars, IInv, HandedOutWasStored,
         SignedOutStaysOut
<1>7. InOrder'
  BY TokenParts DEF Refreshed, Rotates, Successor, histVars, IInv, TypeOK, RefreshInHand, InOrder
<1> QED  BY <1>1, <1>2, <1>3, <1>4, <1>5, <1>6, <1>7 DEF IInv

\* AnswerLost preserves the invariant.
LEMMA AnswerLostKeeps == ASSUME IInv, NEW p \in Proc, AnswerLost(p) PROVE IInv'
<1>1. TypeOK'
  BY DEF AnswerLost, Settle, asVars, timeVars, sessVars, IInv, TypeOK, RefreshInHand
<1>2. RefreshInHand'
  BY DEF AnswerLost, Settle, asVars, IInv, TypeOK, RefreshInHand
<1>3. LogoutInHand'
  BY SessionAssumption DEF AnswerLost, Settle, IInv, LogoutInHand
<1>4. LoginInHand'
  BY SessionAssumption DEF AnswerLost, Settle, asVars, IInv, LoginInHand
<1>5. HandedOutWasStored'
  BY DEF AnswerLost, Settle, sessVars, IInv, HandedOutWasStored
<1>6. Recorded' /\ SignedOutStaysOut'
  BY DEF AnswerLost, asVars, IInv, Recorded, SignedOutStaysOut
<1>7. InOrder'
  BY DEF AnswerLost, asVars, IInv, RefreshInHand, Recorded, InOrder
<1> QED  BY <1>1, <1>2, <1>3, <1>4, <1>5, <1>6, <1>7 DEF IInv

\* PerformedLate preserves the invariant: what is on its way was stored before,
\* so it is no login's and not ahead of the stored pair.
LEMMA PerformedLateKeeps == ASSUME IInv, NEW t \in unanswered, PerformedLate(t) PROVE IInv'
<1>1. t \in Token /\ t \in saved /\ t[1] \in Grants(saved) /\ t[1] \in issued
  BY GrantsOf DEF IInv, TypeOK, Recorded, InOrder
<1>2. TypeOK'
  <2>1. t[1] \in Grant /\ t[2] \in 0..MaxGen
    BY <1>1, TokenParts
  <2>2. CASE Rotates(t) /\ orphaned' = orphaned \cup {Successor(t)}
    <3>1. Successor(t) \in Token
      BY <2>1, <2>2, SessionAssumption, TokenParts DEF Rotates, Successor
    <3>2. newest' \in [Grant -> 0..MaxGen]
      BY <2>1, <2>2, SessionAssumption DEF Rotates, IInv, TypeOK
    <3> QED
      BY <2>2, <3>1, <3>2
         DEF PerformedLate, Rotates, timeVars, sessVars, callerVars, IInv, TypeOK
  <2>3. CASE Refuses(t) /\ UNCHANGED orphaned
    BY <1>1, <2>1, <2>3
       DEF PerformedLate, Refuses, timeVars, sessVars, callerVars, IInv, TypeOK
  <2> QED  BY <2>2, <2>3 DEF PerformedLate
<1>3. store # None /\ t[1] = store[1] => t[2] <= store[2]
  BY <1>1 DEF IInv, InOrder
<1>4. RefreshInHand'
  BY <1>1, <1>3, TokenParts
     DEF PerformedLate, Rotates, Refuses, Successor, IInv, TypeOK, RefreshInHand
<1>5. LogoutInHand'
  BY DEF PerformedLate, IInv, LogoutInHand
<1>6. LoginInHand' /\ Recorded'
  BY <1>1 DEF PerformedLate, Rotates, Refuses, IInv, TypeOK, LoginInHand, Recorded
<1>7. HandedOutWasStored' /\ SignedOutStaysOut'
  BY DEF PerformedLate, sessVars, callerVars, IInv, HandedOutWasStored, SignedOutStaysOut
<1>8. InOrder'
  BY <1>1, <1>3, TokenParts DEF PerformedLate, Rotates, Refuses, IInv, TypeOK, InOrder
<1> QED  BY <1>2, <1>4, <1>5, <1>6, <1>7, <1>8 DEF IInv

\* Unreachable preserves the invariant.
LEMMA UnreachableKeeps == ASSUME IInv, NEW p \in Proc, Unreachable(p) PROVE IInv'
<1>1. TypeOK'
  BY DEF Unreachable, Settle, asVars, timeVars, sessVars, histVars, IInv,
         TypeOK
<1>2. RefreshInHand'
  BY DEF Unreachable, Settle, IInv, TypeOK, RefreshInHand
<1>3. LogoutInHand'
  BY SessionAssumption DEF Unreachable, Settle, IInv, LogoutInHand
<1>4. LoginInHand'
  BY SessionAssumption
     DEF Unreachable, Settle, asVars, histVars, IInv, LoginInHand
<1>5. HandedOutWasStored'
  BY DEF Unreachable, Settle, sessVars, histVars, IInv, HandedOutWasStored
<1>6. Recorded' /\ SignedOutStaysOut'
  BY DEF Unreachable, asVars, histVars, IInv, Recorded, SignedOutStaysOut
<1>7. InOrder'
  BY DEF Unreachable, asVars, histVars, IInv, InOrder
<1> QED  BY <1>1, <1>2, <1>3, <1>4, <1>5, <1>6, <1>7 DEF IInv

\* Rejected preserves the invariant.
LEMMA RejectedKeeps == ASSUME IInv, NEW p \in Proc, Rejected(p) PROVE IInv'
<1>1. TypeOK'
  BY TokenParts
     DEF Rejected, Refuses, Settle, timeVars, histVars, IInv, TypeOK,
         RefreshInHand
<1>2. RefreshInHand'
  BY DEF Rejected, Settle, IInv, TypeOK, RefreshInHand
<1>3. LogoutInHand'
  BY SessionAssumption DEF Rejected, IInv, RefreshInHand, LogoutInHand
<1>4. LoginInHand'
  BY SessionAssumption
     DEF Rejected, Refuses, Settle, histVars, IInv, LoginInHand
<1>5. Recorded'
  BY DEF Rejected, Refuses, histVars, IInv, Recorded
<1>6. HandedOutWasStored'
  BY DEF Rejected, Settle, histVars, IInv, HandedOutWasStored
<1>7. SignedOutStaysOut'
  BY DEF Rejected, SignedOutStaysOut
<1>8. InOrder'
  BY DEF Rejected, Refuses, histVars, IInv, InOrder
<1> QED  BY <1>1, <1>2, <1>3, <1>4, <1>5, <1>6, <1>7, <1>8 DEF IInv

\* RemovalFails preserves the invariant.
LEMMA RemovalFailsKeeps == ASSUME IInv, NEW p \in Proc, RemovalFails(p) PROVE IInv'
<1>1. TypeOK'
  BY TokenParts
     DEF RemovalFails, Refuses, Settle, timeVars, sessVars, histVars, IInv,
         TypeOK, RefreshInHand
<1>2. RefreshInHand'
  BY DEF RemovalFails, Settle, IInv, TypeOK, RefreshInHand
<1>3. LogoutInHand'
  BY SessionAssumption DEF RemovalFails, Settle, IInv, LogoutInHand
<1>4. LoginInHand'
  BY SessionAssumption
     DEF RemovalFails, Refuses, Settle, histVars, IInv, LoginInHand
<1>5. HandedOutWasStored'
  BY DEF RemovalFails, Settle, sessVars, histVars, IInv, HandedOutWasStored
<1>6. Recorded' /\ SignedOutStaysOut'
  BY DEF RemovalFails, Refuses, histVars, IInv, Recorded, SignedOutStaysOut
<1>7. InOrder'
  BY DEF RemovalFails, Refuses, histVars, IInv, InOrder
<1> QED  BY <1>1, <1>2, <1>3, <1>4, <1>5, <1>6, <1>7 DEF IInv

\* Save preserves the invariant.
LEMMA SaveKeeps == ASSUME IInv, NEW p \in Proc, Save(p) PROVE IInv'
<1>1. TypeOK'
  BY DEF Save, Settle, asVars, timeVars, IInv, TypeOK, RefreshInHand
<1>2. RefreshInHand'
  BY DEF Save, Settle, IInv, TypeOK, RefreshInHand
<1>3. LogoutInHand'
  BY SessionAssumption DEF Save, IInv, RefreshInHand, LogoutInHand
<1>4. LoginInHand'
  BY GrantsOf
     DEF Save, Settle, asVars, IInv, RefreshInHand, LoginInHand, Recorded
<1>5. Recorded'
  BY GrantsOf DEF Save, asVars, IInv, RefreshInHand, Recorded
<1>6. HandedOutWasStored'
  BY DEF Save, Settle, IInv, HandedOutWasStored
<1>7. SignedOutStaysOut'
  BY DEF Save, IInv, RefreshInHand, SignedOutStaysOut
<1>8. InOrder'
  BY TokenParts DEF Save, asVars, Successor, IInv, TypeOK, RefreshInHand, Recorded, InOrder
<1> QED  BY <1>1, <1>2, <1>3, <1>4, <1>5, <1>6, <1>7, <1>8 DEF IInv

\* SaveFails preserves the invariant.
LEMMA SaveFailsKeeps == ASSUME IInv, NEW p \in Proc, SaveFails(p) PROVE IInv'
<1>1. TypeOK'
  BY TokenParts
     DEF SaveFails, Settle, asVars, timeVars, sessVars, IInv, TypeOK, RefreshInHand
<1>2. RefreshInHand'
  BY DEF SaveFails, Settle, IInv, TypeOK, RefreshInHand
<1>3. LogoutInHand'
  BY SessionAssumption DEF SaveFails, Settle, IInv, LogoutInHand
<1>4. LoginInHand'
  BY SessionAssumption
     DEF SaveFails, Settle, asVars, histVars, IInv, LoginInHand
<1>5. HandedOutWasStored'
  BY DEF SaveFails, Settle, sessVars, histVars, IInv, HandedOutWasStored
<1>6. Recorded' /\ SignedOutStaysOut'
  BY DEF SaveFails, asVars, histVars, IInv, Recorded, SignedOutStaysOut
<1>7. InOrder'
  BY DEF SaveFails, asVars, IInv, InOrder
<1> QED  BY <1>1, <1>2, <1>3, <1>4, <1>5, <1>6, <1>7 DEF IInv

\* Crash preserves the invariant.
LEMMA CrashKeeps == ASSUME IInv, NEW p \in Proc, Crash(p) PROVE IInv'
<1>1. TypeOK'
  BY TokenParts DEF Crash, asVars, timeVars, IInv, TypeOK, RefreshInHand
<1>2. RefreshInHand'
  BY DEF Crash, asVars, IInv, TypeOK, RefreshInHand
<1>3. LogoutInHand'
  BY SessionAssumption DEF Crash, IInv, LogoutInHand
<1>4. LoginInHand'
  BY SessionAssumption DEF Crash, asVars, histVars, IInv, LoginInHand
<1>5. HandedOutWasStored'
  BY DEF Crash, histVars, IInv, HandedOutWasStored
<1>6. Recorded' /\ SignedOutStaysOut'
  BY DEF Crash, asVars, histVars, IInv, Recorded, SignedOutStaysOut
<1>7. InOrder'
  BY DEF Crash, asVars, IInv, RefreshInHand, Recorded, InOrder
<1> QED  BY <1>1, <1>2, <1>3, <1>4, <1>5, <1>6, <1>7 DEF IInv

\* Redeem preserves the invariant.
LEMMA RedeemKeeps == ASSUME IInv, NEW k \in Cli, NEW g \in Grant, Redeem(k, g) PROVE IInv'
<1>1. TypeOK'
  BY SessionAssumption, TokenParts
     DEF Redeem, timeVars, callerVars, sessVars, histVars, IInv, TypeOK
<1>2. RefreshInHand'
  BY SessionAssumption DEF Redeem, IInv, RefreshInHand
<1>3. LogoutInHand'
  BY DEF Redeem, IInv, LogoutInHand
<1>4. LoginInHand'
  BY NoneIsNoToken, TokenParts
     DEF Redeem, histVars, IInv, TypeOK, LoginInHand, Recorded
<1>5. Recorded'
  BY DEF Redeem, histVars, IInv, Recorded
<1>6. HandedOutWasStored' /\ SignedOutStaysOut'
  BY DEF Redeem, callerVars, sessVars, histVars, IInv, HandedOutWasStored,
         SignedOutStaysOut
<1>7. InOrder'
  BY DEF Redeem, histVars, IInv, InOrder
<1> QED  BY <1>1, <1>2, <1>3, <1>4, <1>5, <1>6, <1>7 DEF IInv

\* SaveLogin preserves the invariant.
LEMMA SaveLoginKeeps == ASSUME IInv, NEW k \in Cli, SaveLogin(k) PROVE IInv'
<1>1. TypeOK'
  BY DEF SaveLogin, EndCommand, asVars, timeVars, callerVars, sessVars, IInv,
         TypeOK, LoginInHand
<1>2. RefreshInHand'
  BY SessionAssumption DEF SaveLogin, IInv, RefreshInHand
<1>3. LogoutInHand'
  BY SessionAssumption DEF SaveLogin, EndCommand, IInv, LogoutInHand
<1>4. LoginInHand'
  BY GrantsOf DEF SaveLogin, EndCommand, asVars, IInv, TypeOK, LoginInHand
<1>5. Recorded'
  BY GrantsOf DEF SaveLogin, asVars, IInv, LoginInHand, Recorded
<1>6. HandedOutWasStored'
  BY DEF SaveLogin, callerVars, sessVars, IInv, HandedOutWasStored
<1>7. SignedOutStaysOut'
  BY DEF SaveLogin, IInv, LoginInHand, Recorded, SignedOutStaysOut
<1>8. InOrder'
  BY GrantsOf DEF SaveLogin, asVars, IInv, LoginInHand, InOrder
<1> QED  BY <1>1, <1>2, <1>3, <1>4, <1>5, <1>6, <1>7, <1>8 DEF IInv

\* LoginBusy preserves the invariant.
LEMMA LoginBusyKeeps == ASSUME IInv, NEW k \in Cli, LoginBusy(k) PROVE IInv'
<1>1. TypeOK'
  BY DEF LoginBusy, EndCommand, asVars, timeVars, callerVars, sessVars,
         histVars, IInv, TypeOK
<1>2. RefreshInHand'
  BY SessionAssumption DEF LoginBusy, EndCommand, asVars, IInv, RefreshInHand
<1>3. LogoutInHand'
  BY DEF LoginBusy, EndCommand, IInv, LogoutInHand
<1>4. LoginInHand'
  BY DEF LoginBusy, EndCommand, asVars, histVars, IInv, TypeOK, LoginInHand
<1>5. Recorded' /\ HandedOutWasStored' /\ SignedOutStaysOut'
  BY DEF LoginBusy, asVars, callerVars, sessVars, histVars, IInv, Recorded,
         HandedOutWasStored, SignedOutStaysOut
<1>6. InOrder'
  BY DEF LoginBusy, asVars, histVars, IInv, InOrder
<1> QED  BY <1>1, <1>2, <1>3, <1>4, <1>5, <1>6 DEF IInv

\* LogoutLoad preserves the invariant.
LEMMA LogoutLoadKeeps == ASSUME IInv, NEW k \in Cli, LogoutLoad(k) PROVE IInv'
<1>1. TypeOK'
  BY DEF LogoutLoad, asVars, timeVars, callerVars, sessVars, histVars, IInv,
         TypeOK
<1>2. RefreshInHand'
  BY SessionAssumption DEF LogoutLoad, IInv, RefreshInHand
<1>3. LogoutInHand'
  BY SessionAssumption DEF LogoutLoad, IInv, TypeOK, LogoutInHand
<1>4. LoginInHand'
  BY DEF LogoutLoad, asVars, histVars, IInv, LoginInHand
<1>5. Recorded' /\ HandedOutWasStored' /\ SignedOutStaysOut'
  BY DEF LogoutLoad, asVars, callerVars, sessVars, histVars, IInv, Recorded,
         HandedOutWasStored, SignedOutStaysOut
<1>6. InOrder'
  BY DEF LogoutLoad, asVars, histVars, IInv, InOrder
<1> QED  BY <1>1, <1>2, <1>3, <1>4, <1>5, <1>6 DEF IInv

\* Revoke preserves the invariant.
LEMMA RevokeKeeps == ASSUME IInv, NEW k \in Cli, Revoke(k) PROVE IInv'
<1>1. TypeOK'
  BY TokenParts
     DEF Revoke, timeVars, callerVars, sessVars, histVars, IInv, TypeOK,
         LogoutInHand
<1>2. LogoutInHand'
  BY DEF Revoke, IInv, LogoutInHand
<1>3. LoginInHand'
  BY DEF Revoke, histVars, IInv, LoginInHand
<1>4. RefreshInHand' /\ Recorded' /\ HandedOutWasStored'
     /\ SignedOutStaysOut'
  BY DEF Revoke, callerVars, sessVars, histVars, IInv, RefreshInHand,
         Recorded, HandedOutWasStored, SignedOutStaysOut
<1>5. InOrder'
  BY DEF Revoke, histVars, IInv, InOrder
<1> QED  BY <1>1, <1>2, <1>3, <1>4, <1>5 DEF IInv

\* Delete preserves the invariant.
LEMMA DeleteKeeps == ASSUME IInv, NEW k \in Cli, Delete(k) PROVE IInv'
<1>1. TypeOK'
  BY TokenParts
     DEF Delete, EndCommand, asVars, timeVars, callerVars, sessVars, IInv,
         TypeOK, LogoutInHand
<1>2. RefreshInHand'
  BY SessionAssumption DEF Delete, IInv, RefreshInHand, LogoutInHand
<1>3. LogoutInHand'
  BY DEF Delete, EndCommand, IInv, TypeOK, LogoutInHand
<1>4. LoginInHand'
  BY DEF Delete, EndCommand, asVars, IInv, LoginInHand
<1>5. Recorded'
  BY GrantsOf DEF Delete, asVars, IInv, LogoutInHand, Recorded
<1>6. SignedOutStaysOut'
  BY DEF Delete, SignedOutStaysOut
<1>7. HandedOutWasStored'
  BY DEF Delete, callerVars, sessVars, IInv, HandedOutWasStored
<1>8. InOrder'
  BY DEF Delete, asVars, IInv, InOrder
<1> QED  BY <1>1, <1>2, <1>3, <1>4, <1>5, <1>6, <1>7, <1>8 DEF IInv

\* CommandDies preserves the invariant.
LEMMA CommandDiesKeeps == ASSUME IInv, NEW k \in Cli, CommandDies(k) PROVE IInv'
<1>1. TypeOK'
  BY DEF CommandDies, EndCommand, asVars, timeVars, callerVars, sessVars,
         histVars, IInv, TypeOK
<1>2. RefreshInHand'
  BY SessionAssumption
     DEF CommandDies, EndCommand, asVars, IInv, RefreshInHand
<1>3. LogoutInHand'
  BY DEF CommandDies, EndCommand, IInv, TypeOK, LogoutInHand
<1>4. LoginInHand'
  BY DEF CommandDies, EndCommand, asVars, histVars, IInv, TypeOK, LoginInHand
<1>5. Recorded' /\ HandedOutWasStored' /\ SignedOutStaysOut'
  BY DEF CommandDies, asVars, callerVars, sessVars, histVars, IInv, Recorded,
         HandedOutWasStored, SignedOutStaysOut
<1>6. InOrder'
  BY DEF CommandDies, asVars, histVars, IInv, InOrder
<1> QED  BY <1>1, <1>2, <1>3, <1>4, <1>5, <1>6 DEF IInv

\* Expire preserves the invariant.
LEMMA ExpireKeeps == ASSUME IInv, NEW t \in InUse, Expire(t) PROVE IInv'
<1>1. TypeOK'
  BY DEF Expire, asVars, callerVars, sessVars, histVars, IInv, TypeOK, InUse
<1>2. RefreshInHand' /\ LogoutInHand' /\ LoginInHand'
     /\ Recorded' /\ HandedOutWasStored' /\ SignedOutStaysOut'
  BY DEF Expire, asVars, callerVars, sessVars, histVars, IInv, RefreshInHand,
         LogoutInHand, LoginInHand, Recorded, HandedOutWasStored,
         SignedOutStaysOut
<1>3. InOrder'
  BY DEF Expire, asVars, histVars, IInv, InOrder
<1> QED  BY <1>1, <1>2, <1>3 DEF IInv

\* Spoil preserves the invariant.
LEMMA SpoilKeeps == ASSUME IInv, NEW t \in InUse, Spoil(t) PROVE IInv'
<1>1. TypeOK'
  BY DEF Spoil, asVars, callerVars, sessVars, histVars, IInv, TypeOK, InUse
<1>2. RefreshInHand' /\ LogoutInHand' /\ LoginInHand'
     /\ Recorded' /\ HandedOutWasStored' /\ SignedOutStaysOut'
  BY DEF Spoil, asVars, callerVars, sessVars, histVars, IInv, RefreshInHand,
         LogoutInHand, LoginInHand, Recorded, HandedOutWasStored,
         SignedOutStaysOut
<1>3. InOrder'
  BY DEF Spoil, asVars, histVars, IInv, InOrder
<1> QED  BY <1>1, <1>2, <1>3 DEF IInv

\* EndGrant preserves the invariant.
LEMMA EndGrantKeeps == ASSUME IInv, NEW g \in Grant, EndGrant(g) PROVE IInv'
<1>1. TypeOK'
  BY DEF EndGrant, timeVars, callerVars, sessVars, histVars, IInv, TypeOK
<1>2. RefreshInHand' /\ LogoutInHand' /\ LoginInHand'
     /\ Recorded' /\ HandedOutWasStored' /\ SignedOutStaysOut'
  BY DEF EndGrant, callerVars, sessVars, histVars, IInv, RefreshInHand,
         LogoutInHand, LoginInHand, Recorded, HandedOutWasStored,
         SignedOutStaysOut
<1>3. InOrder'
  BY DEF EndGrant, histVars, IInv, InOrder
<1> QED  BY <1>1, <1>2, <1>3 DEF IInv

\* Every step preserves the invariant.
LEMMA StepKeeps == ASSUME IInv, [Next]_vars PROVE IInv'
<1>1. ASSUME NEW c \in Caller, CallerStep(c) PROVE IInv'
  BY <1>1, GetAccessTokenKeeps, LoadKeeps, LoadedKeeps,
     AcceptedKeeps, InvalidateKeeps DEF CallerStep
<1>2. ASSUME NEW p \in Proc, RefreshStep(p) PROVE IInv'
  BY <1>2, BusyKeeps, RefreshLoadKeeps, RefreshedKeeps, AnswerLostKeeps,
     UnreachableKeeps, RejectedKeeps, RemovalFailsKeeps, SaveKeeps,
     SaveFailsKeeps DEF RefreshStep
<1>3. ASSUME NEW p \in Proc, Crash(p) PROVE IInv'
  BY <1>3, CrashKeeps
<1>4. ASSUME NEW k \in Cli, Command(k) PROVE IInv'
  BY <1>4, RedeemKeeps, SaveLoginKeeps, LoginBusyKeeps, LogoutLoadKeeps,
     RevokeKeeps, DeleteKeeps, CommandDiesKeeps DEF Command
<1>5. ASSUME NEW t \in InUse, Expire(t) \/ Spoil(t) PROVE IInv'
  BY <1>5, ExpireKeeps, SpoilKeeps
<1>6. ASSUME NEW g \in Grant, EndGrant(g) PROVE IInv'
  BY <1>6, EndGrantKeeps
<1>7. ASSUME NEW t \in unanswered, PerformedLate(t) PROVE IInv'
  BY <1>7, PerformedLateKeeps
<1>8. CASE UNCHANGED vars
  BY <1>8 DEF vars, asVars, timeVars, sessVars, callerVars, histVars, IInv, TypeOK,
     RefreshInHand, LogoutInHand, LoginInHand, Recorded, InOrder, HandedOutWasStored,
     SignedOutStaysOut
<1> QED
  BY <1>1, <1>2, <1>3, <1>4, <1>5, <1>6, <1>7, <1>8 DEF Next

\* The inductive invariant, whatever fails.
THEOREM InductiveInvariant == Spec => []IInv
<1>1. Init => IInv
  BY SessionAssumption, NoneIsNoToken, GrantsOf
     DEF Init, IInv, TypeOK, RefreshInHand, LogoutInHand, LoginInHand, Recorded,
         InOrder, HandedOutWasStored, SignedOutStaysOut
<1>2. IInv /\ [Next]_vars => IInv'
  BY StepKeeps
<1> QED
  BY <1>1, <1>2, PTL DEF Spec

\* Rotated pairs are stored before they are used, whatever fails.
THEOREM HandedOutWasStoredHolds == Spec => []HandedOutWasStored
BY InductiveInvariant, PTL DEF IInv

\* A signed-out login never comes back, whatever fails.
THEOREM SignedOutStaysOutHolds == Spec => []SignedOutStaysOut
BY InductiveInvariant, PTL DEF IInv

\* Only four kinds of step write the store.
LEMMA StoreWriters ==
  ASSUME [Next]_vars, store' # store
  PROVE  \/ \E p \in Proc : Rejected(p) \/ Save(p)
         \/ \E k \in Cli : SaveLogin(k) \/ Delete(k)
<1>1. ASSUME NEW c \in Caller, CallerStep(c) PROVE FALSE
  BY <1>1 DEF CallerStep, GetAccessToken, Load, Loaded, Accepted, Invalidate
<1>2. ASSUME NEW p \in Proc, RefreshStep(p) PROVE Rejected(p) \/ Save(p)
  BY <1>2 DEF RefreshStep, Busy, RefreshLoad, Refreshed, AnswerLost, Unreachable,
     RemovalFails, SaveFails
<1>3. ASSUME NEW p \in Proc, Crash(p) PROVE FALSE
  BY <1>3 DEF Crash
<1>4. ASSUME NEW k \in Cli, Command(k) PROVE SaveLogin(k) \/ Delete(k)
  BY <1>4 DEF Command, Redeem, LoginBusy, LogoutLoad, Revoke, CommandDies
<1>5. ASSUME NEW t \in InUse, Expire(t) \/ Spoil(t) PROVE FALSE
  BY <1>5 DEF Expire, Spoil
<1>6. ASSUME NEW g \in Grant, EndGrant(g) PROVE FALSE
  BY <1>6 DEF EndGrant
<1>7. ASSUME NEW t \in unanswered, PerformedLate(t) PROVE FALSE
  BY <1>7 DEF PerformedLate
<1>8. ~ UNCHANGED vars
  BY DEF vars
<1> QED
  BY <1>1, <1>2, <1>3, <1>4, <1>5, <1>6, <1>7, <1>8 DEF Next

\* A refresh never replaces the login of another grant, whatever fails.
THEOREM LoginNotOverwrittenHolds == Spec => LoginNotOverwritten
<1> DEFINE Changed == store' # None /\ (store = None \/ store'[1] # store[1])
           ByLogin == \E k \in Cli : kpc[k] = "login" /\ store' = mine[k]
<1>1. IInv /\ [Next]_vars => (Changed => ByLogin)
  <2> SUFFICES ASSUME IInv, [Next]_vars, Changed PROVE ByLogin
    OBVIOUS
  <2>1. store' # store
    OBVIOUS
  <2>2. ASSUME NEW p \in Proc, Rejected(p) PROVE FALSE
    BY <2>2 DEF Rejected
  <2>3. ASSUME NEW p \in Proc, Save(p) PROVE FALSE
    BY <2>3 DEF Save, IInv, RefreshInHand
  <2>4. ASSUME NEW k \in Cli, SaveLogin(k) PROVE ByLogin
    BY <2>4 DEF SaveLogin
  <2>5. ASSUME NEW k \in Cli, Delete(k) PROVE FALSE
    BY <2>5 DEF Delete
  <2> QED
    BY <2>1, <2>2, <2>3, <2>4, <2>5, StoreWriters
<1> QED
  BY <1>1, InductiveInvariant, PTL DEF Spec, LoginNotOverwritten

\* A refresh removes a login only when its own grant is dead, whatever fails.
THEOREM OnlyDeadLoginRemovedHolds == Spec => OnlyDeadLoginRemoved
<1> DEFINE Removed == store # None /\ store' = None
           Rightly == \/ store[1] \in ended'
                      \/ \E k \in Cli : kpc[k] = "delete" /\ mine[k] = store
<1>1. IInv /\ [Next]_vars => (Removed => Rightly)
  <2> SUFFICES ASSUME IInv, [Next]_vars, Removed PROVE Rightly
    OBVIOUS
  <2>1. store' # store
    OBVIOUS
  <2>2. ASSUME NEW p \in Proc, Rejected(p) PROVE Rightly
    BY <2>2 DEF Rejected, Refuses, IInv, RefreshInHand
  <2>3. ASSUME NEW p \in Proc, Save(p) PROVE FALSE
    BY <2>3 DEF Save, IInv, RefreshInHand
  <2>4. ASSUME NEW k \in Cli, SaveLogin(k) PROVE FALSE
    BY <2>4 DEF SaveLogin, IInv, LoginInHand
  <2>5. ASSUME NEW k \in Cli, Delete(k) PROVE Rightly
    BY <2>5 DEF Delete, IInv, LogoutInHand
  <2> QED
    BY <2>1, <2>2, <2>3, <2>4, <2>5, StoreWriters
<1> QED
  BY <1>1, InductiveInvariant, PTL DEF Spec, OnlyDeadLoginRemoved

-----------------------------------------------------------------------------
(* Rotated refresh tokens *)

\* What StoredIsNewest says survives every step that leaves the stored pair and
\* the process that is about to replace it alone.
LEMMA NewestUndisturbed ==
  ASSUME StoredIsNewest, store' = store, newest' = newest, ended \subseteq ended',
         orphaned \subseteq orphaned',
         \A q \in Proc : holder = q /\ rpc[q] = "save" =>
           holder' = q /\ rpc'[q] = "save" /\ mine'[q] = mine[q]
  PROVE  StoredIsNewest'
<1> SUFFICES ASSUME store # None, store[1] \notin ended,
                    <<store[1], newest[store[1]]>> \notin orphaned,
                    store[2] # newest[store[1]]
             PROVE  \E q \in Proc : holder' = q /\ rpc'[q] = "save"
                                      /\ mine'[q] = <<store'[1], newest'[store'[1]]>>
  BY DEF StoredIsNewest
<1>1. PICK q \in Proc : holder = q /\ rpc[q] = "save" /\ mine[q] = <<store[1], newest[store[1]]>>
  BY DEF StoredIsNewest
<1> QED
  BY <1>1

\* Callers only ever start a refresh.
LEMMA CallersKeepNewest ==
  ASSUME IInv, StoredIsNewest, NEW c \in Caller, CallerStep(c)
  PROVE  StoredIsNewest' /\ UNCHANGED <<replayed, orphaned, unanswered>>
<1>1. UNCHANGED <<store, holder, newest, ended, replayed, mine, orphaned, unanswered>>
  BY DEF CallerStep, GetAccessToken, Load, Loaded, Accepted, Invalidate, asVars, histVars
<1>2. \A q \in Proc : rpc[q] = "save" => rpc'[q] = "save"
  BY DEF CallerStep, GetAccessToken, Load, Loaded, Accepted, Invalidate, HandOutOrRefresh,
     IInv, TypeOK
<1> QED
  BY <1>1, <1>2, NewestUndisturbed

\* A refresh that is refused although its grant lives sent a used-up pair, and
\* the pair that replaced it was lost.
LEMMA RefusedWasLost ==
  ASSUME IInv, StoredIsNewest, NEW p \in Proc, rpc[p] = "request", Refuses(mine[p])
  PROVE  /\ store[1] \in ended'
         /\ \A t \in replayed' : t \in replayed \/ Successor(t) \in orphaned
<1>1. mine[p] = store /\ holder = p /\ store # None /\ store \in Token
  BY DEF IInv, TypeOK, RefreshInHand
<1>2. ended' = ended \cup {store[1]}
  BY <1>1 DEF Refuses
<1>3. ASSUME store[1] \notin ended PROVE Successor(store) \in orphaned
  <2>1. store[2] # newest[store[1]]
    BY <1>1, <1>3 DEF Refuses
  <2>2. ~ \E q \in Proc : holder = q /\ rpc[q] = "save"
    BY <1>1
  <2>3. <<store[1], newest[store[1]]>> \in orphaned
    BY <1>1, <1>3, <2>1, <2>2 DEF StoredIsNewest
  <2>4. newest[store[1]] = store[2] + 1
    BY <1>1, <2>1 DEF IInv, InOrder
  <2> QED  BY <2>3, <2>4 DEF Successor
<1>4. replayed' = IF store[1] \in ended THEN replayed ELSE replayed \cup {store}
  BY <1>1 DEF Refuses
<1> QED  BY <1>2, <1>3, <1>4

\* The steps of a refresh.
LEMMA RefreshKeepsNewest ==
  ASSUME IInv, NoReplay, StoredIsNewest, NEW p \in Proc, RefreshStep(p)
  PROVE  StoredIsNewest' /\ NoReplay'
<1>1. CASE Busy(p) \/ RefreshLoad(p) \/ AnswerLost(p) \/ Unreachable(p)
  <2>1. UNCHANGED <<store, newest, ended, replayed, orphaned>> /\ unanswered \subseteq unanswered'
    BY <1>1 DEF Busy, RefreshLoad, AnswerLost, Unreachable, asVars, histVars
  <2>2. \A q \in Proc : holder = q /\ rpc[q] = "save" =>
          holder' = q /\ rpc'[q] = "save" /\ mine'[q] = mine[q]
    BY <1>1, SessionAssumption
       DEF Busy, RefreshLoad, AnswerLost, Unreachable, Settle, IInv, TypeOK
  <2>3. NoReplay'
    BY <2>1 DEF NoReplay, Successor
  <2> QED
    BY <2>1, <2>2, <2>3, NewestUndisturbed
<1>2. CASE Refreshed(p)
  <2>1. mine[p] = store /\ holder = p /\ store \in Token /\ store[2] = newest[store[1]]
    BY <1>2 DEF Refreshed, Rotates, IInv, TypeOK, RefreshInHand
  <2>2. /\ store' = store /\ holder' = p /\ rpc'[p] = "save"
        /\ UNCHANGED <<replayed, orphaned, unanswered>>
        /\ mine'[p] = <<store[1], store[2] + 1>>
        /\ newest'[store[1]] = newest[store[1]] + 1
    BY <1>2, <2>1, TokenParts DEF Refreshed, Rotates, Successor, IInv, TypeOK, histVars
  <2>3. NoReplay'
    BY <2>2 DEF NoReplay
  <2> QED
    BY <2>1, <2>2, <2>3 DEF StoredIsNewest
<1>3. CASE Rejected(p) \/ RemovalFails(p)
  <2>1. /\ store[1] \in ended'
        /\ \A t \in replayed' : t \in replayed \/ Successor(t) \in orphaned
    BY <1>3, RefusedWasLost DEF Rejected, RemovalFails
  <2>2. UNCHANGED <<orphaned, unanswered>> /\ store' \in {None, store}
    BY <1>3 DEF Rejected, RemovalFails, histVars
  <2>3. NoReplay'
    BY <2>1, <2>2 DEF NoReplay
  <2> QED
    BY <2>1, <2>2, <2>3 DEF StoredIsNewest
<1>4. CASE Save(p)
  <2>1. store' = mine[p] /\ newest' = newest /\ UNCHANGED <<replayed, orphaned, unanswered>>
    BY <1>4 DEF Save, asVars
  <2>2. mine[p][2] = newest[mine[p][1]]
    BY <1>4 DEF Save, IInv, RefreshInHand
  <2>3. NoReplay'
    BY <2>1 DEF NoReplay
  <2> QED
    BY <2>1, <2>2, <2>3 DEF StoredIsNewest
<1>5. CASE SaveFails(p)
  <2>1. /\ store' = store /\ UNCHANGED <<newest, replayed, unanswered>>
        /\ orphaned' = orphaned \cup {mine[p]}
    BY <1>5 DEF SaveFails, asVars
  <2>2. mine[p] = <<store[1], newest[store[1]]>>
    BY <1>5 DEF SaveFails, Successor, IInv, RefreshInHand
  <2>3. NoReplay'
    BY <2>1 DEF NoReplay
  <2> QED
    BY <2>1, <2>2, <2>3 DEF StoredIsNewest
<1> QED
  BY <1>1, <1>2, <1>3, <1>4, <1>5 DEF RefreshStep

\* A request performed after its sender gave up: the pair it gives is lost, and
\* the one it used up is known to have been sent without an answer.
LEMMA LateKeepsNewest ==
  ASSUME IInv, NoReplay, StoredIsNewest, NEW t \in unanswered, PerformedLate(t)
  PROVE  StoredIsNewest' /\ NoReplay'
<1>1. UNCHANGED <<store, holder, rpc, mine, unanswered>>
  BY DEF PerformedLate
<1>2. CASE Rotates(t) /\ orphaned' = orphaned \cup {Successor(t)}
  <2>1. /\ replayed' = replayed /\ ended' = ended
        /\ newest' = [newest EXCEPT ![t[1]] = t[2] + 1]
    BY <1>2 DEF Rotates
  <2>2. NoReplay'
    BY <1>1, <1>2, <2>1 DEF NoReplay, Successor
  <2>3. CASE store # None /\ store[1] = t[1]
    <3>1. newest'[store[1]] = t[2] + 1
      BY <2>1, <2>3, TokenParts DEF IInv, TypeOK
    <3>2. <<store'[1], newest'[store'[1]]>> \in orphaned'
      BY <1>1, <1>2, <2>3, <3>1 DEF Successor
    <3> QED  BY <2>2, <3>2 DEF StoredIsNewest
  <2>4. CASE store = None \/ store[1] # t[1]
    <3>1. store # None => newest'[store[1]] = newest[store[1]]
      BY <2>1, <2>4, TokenParts DEF IInv, TypeOK
    <3>2. StoredIsNewest'
      BY <1>1, <1>2, <2>1, <3>1 DEF StoredIsNewest
    <3> QED  BY <2>2, <3>2
  <2> QED  BY <2>3, <2>4
<1>3. CASE Refuses(t) /\ UNCHANGED orphaned
  <2>1. newest' = newest /\ ended \subseteq ended' /\ replayed' \subseteq replayed \cup {t}
    BY <1>3 DEF Refuses
  <2>2. NoReplay'
    BY <1>1, <1>3, <2>1 DEF NoReplay, Successor
  <2> QED  BY <1>1, <1>3, <2>1, <2>2, NewestUndisturbed
<1> QED
  BY <1>2, <1>3 DEF PerformedLate

\* A process that dies with a rotated pair in its hands loses it.
LEMMA CrashKeepsNewest ==
  ASSUME IInv, NoReplay, StoredIsNewest, NEW p \in Proc, Crash(p)
  PROVE  StoredIsNewest' /\ NoReplay'
<1>1. /\ UNCHANGED <<store, newest, ended, replayed>>
      /\ orphaned \subseteq orphaned' /\ unanswered \subseteq unanswered'
  BY DEF Crash, asVars
<1>2. NoReplay'
  BY <1>1 DEF NoReplay, Successor
<1>3. CASE rpc[p] = "save"
  <2>1. mine[p] = <<store[1], newest[store[1]]>> /\ mine[p] \in orphaned'
    BY <1>3 DEF Crash, Successor, IInv, RefreshInHand
  <2> QED
    BY <1>1, <1>2, <2>1 DEF StoredIsNewest
<1>4. CASE rpc[p] # "save"
  <2>1. \A q \in Proc : holder = q /\ rpc[q] = "save" =>
          holder' = q /\ rpc'[q] = "save" /\ mine'[q] = mine[q]
    BY <1>4, SessionAssumption DEF Crash, IInv, TypeOK
  <2> QED
    BY <1>1, <1>2, <2>1, NewestUndisturbed
<1> QED
  BY <1>3, <1>4

\* login and logout.
LEMMA CommandsKeepNewest ==
  ASSUME IInv, NoReplay, StoredIsNewest, NEW k \in Cli, Command(k)
  PROVE  StoredIsNewest' /\ NoReplay'
<1>1. UNCHANGED <<replayed, newest, orphaned, unanswered>> /\ ended \subseteq ended'
  BY DEF Command, Redeem, SaveLogin, LoginBusy, LogoutLoad, Revoke, Delete, CommandDies, asVars,
         histVars
<1>2. CASE SaveLogin(k)
  <2>1. store' = mine[k] /\ newest[mine[k][1]] = mine[k][2]
    BY <1>2 DEF SaveLogin, IInv, LoginInHand
  <2> QED
    BY <1>1, <2>1 DEF StoredIsNewest, NoReplay
<1>3. CASE Delete(k)
  BY <1>1, <1>3 DEF Delete, StoredIsNewest, NoReplay
<1>4. CASE ~ SaveLogin(k) /\ ~ Delete(k)
  <2>1. store' = store /\ rpc' = rpc
    BY <1>4 DEF Command, Redeem, LoginBusy, LogoutLoad, Revoke, CommandDies
  <2>2. \A q \in Proc : holder = q => holder' = q
    BY <1>4, SessionAssumption DEF Command, Redeem, LoginBusy, LogoutLoad, Revoke, CommandDies
  <2>3. \A q \in Proc : mine'[q] = mine[q]
    BY <1>4, SessionAssumption
       DEF Command, Redeem, LoginBusy, LogoutLoad, Revoke, CommandDies, EndCommand, IInv, TypeOK
  <2> QED
    BY <1>1, <2>1, <2>2, <2>3, NewestUndisturbed DEF NoReplay
<1> QED
  BY <1>2, <1>3, <1>4

\* Whatever fails, the stored pair is the newest of its grant, or about to be
\* replaced by it under the lock, unless that pair was lost; and no used-up refresh
\* token comes back unless a refresh of it got no answer or its successor was lost.
THEOREM NoReplayHolds == Spec => [](StoredIsNewest /\ NoReplay)
<1> DEFINE QInv == StoredIsNewest /\ NoReplay
<1>1. Init => QInv
  BY DEF Init, StoredIsNewest, NoReplay
<1>2. IInv /\ QInv /\ [Next]_vars => QInv'
  <2> SUFFICES ASSUME IInv, QInv, [Next]_vars PROVE QInv'
    OBVIOUS
  <2>1. ASSUME NEW c \in Caller, CallerStep(c) PROVE QInv'
    BY <2>1, CallersKeepNewest DEF NoReplay
  <2>2. ASSUME NEW p \in Proc, RefreshStep(p) PROVE QInv'
    BY <2>2, RefreshKeepsNewest
  <2>3. ASSUME NEW p \in Proc, Crash(p) PROVE QInv'
    BY <2>3, CrashKeepsNewest
  <2>4. ASSUME NEW k \in Cli, Command(k) PROVE QInv'
    BY <2>4, CommandsKeepNewest
  <2>5. ASSUME NEW t \in unanswered, PerformedLate(t) PROVE QInv'
    BY <2>5, LateKeepsNewest
  <2>6. ASSUME \/ \E t \in InUse : Expire(t) \/ Spoil(t)
               \/ \E g \in Grant : EndGrant(g)
               \/ UNCHANGED vars
        PROVE QInv'
    <3>1. /\ UNCHANGED <<store, holder, newest, replayed, rpc, mine, orphaned, unanswered>>
          /\ ended \subseteq ended'
      BY <2>6 DEF Expire, Spoil, EndGrant, vars, asVars, histVars
    <3> QED
      BY <3>1, NewestUndisturbed DEF NoReplay
  <2> QED
    BY <2>1, <2>2, <2>3, <2>4, <2>5, <2>6 DEF Next
<1> QED
  BY <1>1, <1>2, InductiveInvariant, PTL DEF Spec

\* The stored pair of a living grant is its newest or about to be replaced by it,
\* unless the newest pair was lost.
THEOREM StoredIsNewestHolds == Spec => []StoredIsNewest
<1>1. StoredIsNewest /\ NoReplay => StoredIsNewest
  OBVIOUS
<1> QED BY <1>1, NoReplayHolds, PTL

-----------------------------------------------------------------------------
(* What is forced to look expired.  Only a refusal adds a process, whose    *)
(* token is then the one refused; a step that replaces the token takes the  *)
(* process out; and a refused token stays refused.                          *)
Refused(t) == t \in stale \cup bad \/ t[1] \in ended

\* What is refused, or of a dead grant, stays so.
LEMMA RefusalsStay ==
  ASSUME [Next]_vars
  PROVE  stale \subseteq stale' /\ bad \subseteq bad' /\ ended \subseteq ended'
<1> USE DEF asVars, timeVars
<1>1. ASSUME NEW c \in Caller, CallerStep(c) PROVE UNCHANGED <<stale, bad, ended>>
  BY <1>1 DEF CallerStep, GetAccessToken, Load, Loaded, Accepted, Invalidate
<1>2. ASSUME NEW p \in Proc, RefreshStep(p) \/ Crash(p)
      PROVE  UNCHANGED <<stale, bad>> /\ ended \subseteq ended'
  BY <1>2 DEF RefreshStep, Busy, RefreshLoad, Refreshed, AnswerLost, Unreachable, Rejected, RemovalFails,
     Save, SaveFails, Rotates, Refuses, Crash
<1>3. ASSUME NEW k \in Cli, Command(k) PROVE UNCHANGED <<stale, bad>> /\ ended \subseteq ended'
  BY <1>3 DEF Command, Redeem, SaveLogin, LoginBusy, LogoutLoad, Revoke, Delete, CommandDies
<1>4. ASSUME NEW t \in InUse, Expire(t) \/ Spoil(t)
      PROVE  stale \subseteq stale' /\ bad \subseteq bad' /\ ended' = ended
  BY <1>4 DEF Expire, Spoil
<1>5. ASSUME NEW g \in Grant, EndGrant(g) PROVE UNCHANGED <<stale, bad>> /\ ended \subseteq ended'
  BY <1>5 DEF EndGrant
<1>6. ASSUME NEW t \in unanswered, PerformedLate(t) PROVE UNCHANGED <<stale, bad>> /\ ended \subseteq ended'
  BY <1>6 DEF PerformedLate, Rotates, Refuses
<1>7. CASE UNCHANGED vars
  BY <1>7 DEF vars
<1> QED  BY <1>1, <1>2, <1>3, <1>4, <1>5, <1>6, <1>7 DEF Next

\* A process newly or still forced has the token it had, which was refused.
LEMMA ForcedByRefusal ==
  ASSUME IInv, [Next]_vars, NEW p \in forced'
  PROVE  cached'[p] = cached[p] /\ (p \in forced \/ Refused(cached[p]))
<1> USE DEF sessVars, IInv, TypeOK
<1>1. ASSUME NEW c \in Caller, CallerStep(c)
      PROVE  cached'[p] = cached[p] /\ (p \in forced \/ Refused(cached[p]))
  <2>1. CASE Invalidate(c)
    BY <2>1 DEF Invalidate, Refused
  <2>2. CASE Loaded(c)
    BY <2>2 DEF Loaded
  <2> QED  BY <1>1, <2>1, <2>2 DEF CallerStep, GetAccessToken, Load, Accepted
<1>2. ASSUME NEW q \in Proc, RefreshStep(q) \/ Crash(q) PROVE cached'[p] = cached[p] /\ p \in forced
  BY <1>2 DEF RefreshStep, Busy, RefreshLoad, Refreshed, AnswerLost, Unreachable, Rejected, RemovalFails,
     Save, SaveFails, Crash
<1>3. ASSUME NEW k \in Cli, Command(k) PROVE UNCHANGED <<cached, forced>>
  BY <1>3 DEF Command, Redeem, SaveLogin, LoginBusy, LogoutLoad, Revoke, Delete, CommandDies
<1>4. ASSUME NEW t \in InUse, Expire(t) \/ Spoil(t) PROVE UNCHANGED <<cached, forced>>
  BY <1>4 DEF Expire, Spoil
<1>5. ASSUME NEW g \in Grant, EndGrant(g) PROVE UNCHANGED <<cached, forced>>
  BY <1>5 DEF EndGrant
<1>6. ASSUME NEW t \in unanswered, PerformedLate(t) PROVE UNCHANGED <<cached, forced>>
  BY <1>6 DEF PerformedLate
<1>7. CASE UNCHANGED vars
  BY <1>7 DEF vars
<1> QED  BY <1>1, <1>2, <1>3, <1>4, <1>5, <1>6, <1>7 DEF Next

\* A session's token is made to look expired only when it was itself refused:
\* an answer 401 to an older token does not spoil the one that replaced it.
THEOREM OnlyRefusedTokensForcedHolds == Spec => []OnlyRefusedTokensForced
<1>1. Init => OnlyRefusedTokensForced
  BY DEF Init, OnlyRefusedTokensForced
<1>2. IInv /\ OnlyRefusedTokensForced /\ [Next]_vars => OnlyRefusedTokensForced'
  <2> SUFFICES ASSUME IInv, OnlyRefusedTokensForced, [Next]_vars, NEW p \in forced'
               PROVE  cached'[p] \in stale' \cup bad' \/ cached'[p][1] \in ended'
    BY DEF OnlyRefusedTokensForced
  <2>1. cached'[p] = cached[p] /\ Refused(cached[p])
    BY ForcedByRefusal DEF OnlyRefusedTokensForced, Refused
  <2> QED  BY <2>1, RefusalsStay DEF Refused
<1> QED  BY <1>1, <1>2, InductiveInvariant, PTL DEF Spec
-----------------------------------------------------------------------------
(* LocalSession implements StoredLogin.  Whoever changes the login has the   *)
(* lock, so no sign-out is under way but its own; and what a refresh stores  *)
(* is the pair that follows the stored one.                                  *)

\* Without the lock in the hands of a command there is no sign-out.
LEMMA NoSignOut ==
  ASSUME IInv, holder = None \/ holder \in Proc
  PROVE  ~SigningOut
BY SessionAssumption DEF IInv, LogoutInHand, SigningOut

(* A step of the processes, as StoredLogin sees it. *)
Forward == [L!Next]_(L!vars)

\* A step that changes nothing StoredLogin sees is a stutter.
LEMMA QuietForward ==
  ASSUME store' = store, saved' = saved, ended' = ended, SigningOut' <=> SigningOut
  PROVE  Forward
<1>1. Grants(saved)' = Grants(saved)
  BY DEF Grants
<1> QED  BY <1>1, Zenon DEF Forward, L!vars

\* The end of a grant, and nothing else.
LEMMA EndForward ==
  ASSUME NEW g \in Grant, ended' = ended \cup {g},
         store' = store, saved' = saved, SigningOut' <=> SigningOut
  PROVE  Forward
<1>1. Grants(saved)' = Grants(saved)
  BY DEF Grants
<1> QED  BY <1>1, Zenon DEF Forward, L!Next, L!End

\* Steps of servers.
LEMMA RefreshForward ==
  ASSUME IInv, NEW p \in Proc, RefreshStep(p) PROVE Forward
<1>1. kpc' = kpc
  BY DEF RefreshStep, Busy, RefreshLoad, Refreshed, AnswerLost, Unreachable, Rejected, RemovalFails, Save,
     SaveFails
<1>2. SigningOut' <=> SigningOut
  BY <1>1 DEF SigningOut
<1>3. rpc[p] = "request" => mine[p] = store /\ store # None /\ store[1] \in Grant
  BY TokenParts DEF IInv, TypeOK, RefreshInHand
<1>4. CASE \/ Busy(p) \/ RefreshLoad(p) \/ Refreshed(p) \/ AnswerLost(p)
            \/ Unreachable(p) \/ SaveFails(p)
  <2>1. store' = store /\ saved' = saved /\ ended' = ended
    BY <1>4 DEF Busy, RefreshLoad, Refreshed, Rotates, AnswerLost, Unreachable, SaveFails,
       asVars, histVars
  <2> QED  BY <1>2, <2>1, QuietForward
<1>5. CASE RemovalFails(p)
  <2>1. store' = store /\ saved' = saved /\ ended' = ended \cup {store[1]} /\ store[1] \in Grant
    BY <1>3, <1>5 DEF RemovalFails, Refuses, histVars
  <2> QED  BY <1>2, <2>1, EndForward
<1>6. CASE Rejected(p)
  <2>1. ~SigningOut
    BY <1>6, NoSignOut DEF Rejected, IInv, RefreshInHand
  <2>2. store # None /\ store' = None /\ ended' = ended \cup {store[1]}
    BY <1>3, <1>6 DEF Rejected, Refuses
  <2>3. Grants(saved)' = Grants(saved)
    BY <1>6 DEF Rejected, histVars, Grants
  <2>4. L!Drop
    BY <1>2, <2>1, <2>2, <2>3, Zenon DEF L!Drop
  <2> QED  BY <2>4, Zenon DEF Forward, L!Next
<1>7. CASE Save(p)
  <2>1. ~SigningOut
    BY <1>7, NoSignOut DEF Save, IInv, RefreshInHand
  <2>2. store # None /\ store' = <<store[1], store[2] + 1>>
    BY <1>7 DEF Save, Successor, IInv, RefreshInHand
  <2>3. Grants(saved)' = Grants(saved)
    <3>1. saved' = saved \cup {mine[p]} /\ mine[p][1] = store[1] /\ store \in saved
      BY <1>7 DEF Save, IInv, RefreshInHand, Recorded
    <3> QED  BY <3>1 DEF Grants
  <2>4. ended' = ended
    BY <1>7 DEF Save, asVars
  <2>5. L!Renew
    BY <1>2, <2>1, <2>2, <2>3, <2>4, Zenon DEF L!Renew
  <2> QED  BY <2>5, Zenon DEF Forward, L!Next
<1> QED  BY <1>4, <1>5, <1>6, <1>7 DEF RefreshStep

\* Steps of commands.
LEMMA CommandForward == ASSUME IInv, NEW k \in Cli, Command(k) PROVE Forward
<1> USE DEF IInv, TypeOK
<1>1. ASSUME \/ \E g \in Grant : Redeem(k, g)
             \/ LoginBusy(k)
             \/ CommandDies(k) /\ kpc[k] = "login"
      PROVE  Forward
  <2>1. store' = store /\ saved' = saved /\ ended' = ended
    BY <1>1 DEF Redeem, LoginBusy, CommandDies, asVars, histVars
  <2>2. kpc[k] \in {"idle", "login"} /\ \E now \in {"idle", "login"} : kpc' = [kpc EXCEPT ![k] = now]
    BY <1>1 DEF Redeem, LoginBusy, CommandDies, EndCommand
  <2>3. SigningOut' <=> SigningOut
    BY <2>2 DEF SigningOut
  <2> QED  BY <2>1, <2>3, QuietForward
<1>2. ASSUME SaveLogin(k) PROVE Forward
  <2>1. ~SigningOut
    BY <1>2, NoSignOut DEF SaveLogin
  <2>2. ~SigningOut'
    BY <1>2, <2>1 DEF SaveLogin, EndCommand, SigningOut
  <2>3. PICK g \in Grant : mine[k] = <<g, 0>> /\ g \notin Grants(saved)
    BY <1>2 DEF SaveLogin, LoginInHand, Token
  <2>4. store' = <<g, 0>> /\ Grants(saved)' = Grants(saved) \cup {g}
    <3>1. store' = mine[k] /\ saved' = saved \cup {<<g, 0>>}
      BY <1>2, <2>3 DEF SaveLogin
    <3> QED  BY <2>3, <3>1 DEF Grants
  <2>5. ended' = ended
    BY <1>2 DEF SaveLogin, asVars
  <2>6. SigningOut' <=> SigningOut
    BY <2>1, <2>2
  <2>7. L!SignIn(g)
    BY <2>1, <2>3, <2>4, <2>5, <2>6, Zenon DEF L!SignIn
  <2> QED  BY <2>7, Zenon DEF Forward, L!Next
<1>3. ASSUME LogoutLoad(k) PROVE Forward
  <2>1. ~SigningOut /\ SigningOut'
    BY <1>3, NoSignOut DEF LogoutLoad, SigningOut
  <2>2. store # None /\ store' = store /\ saved' = saved /\ ended' = ended
    BY <1>3 DEF LogoutLoad, asVars, histVars
  <2>3. Grants(saved)' = Grants(saved)
    BY <2>2 DEF Grants
  <2>4. L!BeginSignOut
    BY <2>1, <2>2, <2>3, Zenon DEF L!BeginSignOut
  <2> QED  BY <2>4, Zenon DEF Forward, L!Next
<1>4. ASSUME Revoke(k) PROVE Forward
  <2>1. SigningOut /\ SigningOut'
    BY <1>4 DEF Revoke, SigningOut
  <2>2. store' = store /\ saved' = saved /\ ended' \in {ended, ended \cup {mine[k][1]}}
    BY <1>4 DEF Revoke, histVars
  <2>3. mine[k][1] \in Grant
    BY <1>4, TokenParts DEF Revoke, LogoutInHand
  <2> QED  BY <2>1, <2>2, <2>3, QuietForward, EndForward
<1>5. ASSUME Delete(k) \/ (CommandDies(k) /\ kpc[k] # "login") PROVE Forward
  <2>1. kpc[k] \in {"revoke", "delete"} /\ holder = k /\ SigningOut
    BY <1>5 DEF Delete, CommandDies, LogoutInHand, SigningOut
  <2>2. SigningOut' = FALSE
    BY <1>5, <2>1 DEF Delete, CommandDies, EndCommand, LogoutInHand, SigningOut
  <2>3. saved' = saved /\ ended' = ended
    BY <1>5 DEF Delete, CommandDies, asVars, histVars
  <2>4. Grants(saved)' = Grants(saved)
    BY <2>3 DEF Grants
  <2>5. store' = None \/ store' = store
    BY <1>5 DEF Delete, CommandDies
  <2>6. L!SignOut \/ L!AbandonSignOut
    <3>1. ASSUME store' = None PROVE L!SignOut
      BY <2>1, <2>2, <2>3, <2>4, <3>1, Zenon DEF L!SignOut
    <3>2. ASSUME store' = store PROVE L!AbandonSignOut
      BY <2>1, <2>2, <2>3, <2>4, <3>2, Zenon DEF L!AbandonSignOut
    <3> QED  BY <2>5, <3>1, <3>2
  <2> QED  BY <2>6, Zenon DEF Forward, L!Next
<1> QED  BY <1>1, <1>2, <1>3, <1>4, <1>5 DEF Command

(* Whatever servers, logins and logouts do at once, and whatever fails, the  *)
(* stored login only moves forward: it is renewed by the pair that follows,  *)
(* replaced by a grant that was never stored, and removed when its grant is  *)
(* over or by a sign-out that nothing interferes with.                       *)
THEOREM SessionImplementsStoredLogin == Spec => ImplementsStoredLogin
<1>1. Init => L!Init
  <2>1. Init => ~SigningOut
    BY DEF Init, SigningOut
  <2>2. Init => store = None /\ Grants(saved) = {} /\ ended = {}
    BY DEF Init, Grants
  <2> QED  BY <2>1, <2>2, Zenon DEF L!Init
<1>2. IInv /\ [Next]_vars => Forward
  <2> SUFFICES ASSUME IInv, [Next]_vars PROVE Forward
    OBVIOUS
  <2>1. ASSUME NEW p \in Proc, RefreshStep(p) PROVE Forward
    BY <2>1, RefreshForward
  <2>2. ASSUME NEW k \in Cli, Command(k) PROVE Forward
    BY <2>2, CommandForward
  <2>3. ASSUME NEW g \in Grant, EndGrant(g) PROVE Forward
    <3>1. SigningOut' <=> SigningOut
      BY <2>3 DEF EndGrant, SigningOut
    <3>2. ended' = ended \cup {g} /\ store' = store /\ saved' = saved
      BY <2>3 DEF EndGrant, histVars
    <3> QED  BY <3>1, <3>2, EndForward
  <2>4. ASSUME UNCHANGED <<store, saved, ended, kpc>> PROVE Forward
    <3>1. SigningOut' <=> SigningOut
      BY <2>4 DEF SigningOut
    <3> QED  BY <2>4, <3>1, QuietForward
  <2>5. ASSUME NEW c \in Caller, CallerStep(c) PROVE UNCHANGED <<store, saved, ended, kpc>>
    BY <2>5 DEF CallerStep, GetAccessToken, Load, Loaded, Accepted, Invalidate, asVars, histVars
  <2>6. ASSUME NEW p \in Proc, Crash(p) PROVE UNCHANGED <<store, saved, ended, kpc>>
    BY <2>6 DEF Crash, asVars
  <2>7. ASSUME NEW t \in InUse, Expire(t) \/ Spoil(t) PROVE UNCHANGED <<store, saved, ended, kpc>>
    BY <2>7 DEF Expire, Spoil, asVars, histVars
  <2>8. ASSUME NEW t \in unanswered, PerformedLate(t) PROVE Forward
    <3>1. SigningOut' <=> SigningOut
      BY <2>8 DEF PerformedLate, SigningOut
    <3>2. store' = store /\ saved' = saved /\ (ended' = ended \/ ended' = ended \cup {t[1]})
      BY <2>8 DEF PerformedLate, Rotates, Refuses
    <3>3. t[1] \in Grant
      BY TokenParts DEF IInv, TypeOK
    <3> QED  BY <3>1, <3>2, <3>3, QuietForward, EndForward
  <2>9. CASE UNCHANGED vars
    BY <2>4, <2>9 DEF vars, asVars, histVars
  <2> QED  BY <2>1, <2>2, <2>3, <2>4, <2>5, <2>6, <2>7, <2>8, <2>9 DEF Next
<1> QED
  BY <1>1, <1>2, InductiveInvariant, PTL DEF Spec, ImplementsStoredLogin, L!Spec, Forward
=============================================================================
