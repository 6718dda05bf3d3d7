------------------------------- MODULE Mutex --------------------------------
(***************************************************************************)
(* What withFileLock promises its callers: one owner at a time, operations *)
(* only inside, and a process that dies stops owning.  An owner that is    *)
(* not inside is one whose release failed: it keeps everybody out.         *)
(***************************************************************************)
CONSTANTS Proc, None

VARIABLES owner, inside, dead

vars == <<owner, inside, dead>>

Init == owner = None /\ inside = {} /\ dead = {}

Acquire(p) ==
  /\ owner = None /\ p \notin dead
  /\ owner' = p
  /\ UNCHANGED <<inside, dead>>

Enter(p) ==
  /\ owner = p /\ p \notin inside
  /\ inside' = inside \cup {p}
  /\ UNCHANGED <<owner, dead>>

Leave(p) ==
  /\ owner = p /\ p \in inside
  /\ inside' = inside \ {p}
  /\ UNCHANGED <<owner, dead>>

Release(p) ==
  /\ owner = p /\ p \notin inside
  /\ owner' = None
  /\ UNCHANGED <<inside, dead>>

Die(p) ==
  /\ p \notin dead
  /\ dead' = dead \cup {p}
  /\ inside' = inside \ {p}
  /\ owner' = IF owner = p THEN None ELSE owner

Next == \E p \in Proc : Acquire(p) \/ Enter(p) \/ Leave(p) \/ Release(p) \/ Die(p)

Spec == Init /\ [][Next]_vars
=============================================================================
