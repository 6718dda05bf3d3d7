---------------------------- MODULE StoredLogin ----------------------------
(***************************************************************************)
(* What the processes of one user are promised about the login they share: *)
(* it only moves forward.  A login is a grant of its own, stored once; its *)
(* pair of tokens is replaced by the next one and never by an earlier one; *)
(* it goes away when its grant is over, or by a sign-out, which has it to  *)
(* itself from its beginning to its end.                                   *)
(***************************************************************************)
EXTENDS Naturals

CONSTANTS Grant, None

VARIABLES
  login,    \* the pair that is stored, or None
  known,    \* grants that have been stored
  over,     \* grants that have ended
  leaving   \* a sign-out is under way

vars == <<login, known, over, leaving>>

Init == login = None /\ known = {} /\ over = {} /\ ~leaving

SignIn(g) ==
  /\ ~leaving /\ g \notin known
  /\ login' = <<g, 0>> /\ known' = known \cup {g}
  /\ UNCHANGED <<over, leaving>>

Renew ==
  /\ ~leaving /\ login # None
  /\ login' = <<login[1], login[2] + 1>>
  /\ UNCHANGED <<known, over, leaving>>

End(g) ==
  /\ over' = over \cup {g}
  /\ UNCHANGED <<login, known, leaving>>

\* A refresh has been told that the grant is over.
Drop ==
  /\ ~leaving /\ login # None
  /\ login' = None /\ over' = over \cup {login[1]}
  /\ UNCHANGED <<known, leaving>>

BeginSignOut ==
  /\ ~leaving /\ login # None /\ leaving' = TRUE
  /\ UNCHANGED <<login, known, over>>

SignOut ==
  /\ leaving /\ leaving' = FALSE /\ login' = None
  /\ UNCHANGED <<known, over>>

\* The user interrupts it.
AbandonSignOut ==
  /\ leaving /\ leaving' = FALSE
  /\ UNCHANGED <<login, known, over>>

Next ==
  \/ \E g \in Grant : SignIn(g) \/ End(g)
  \/ Renew \/ Drop \/ BeginSignOut \/ SignOut \/ AbandonSignOut

Spec == Init /\ [][Next]_vars
=============================================================================
