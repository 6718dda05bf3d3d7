------------------------------ MODULE MCHttpApp ------------------------------
EXTENDS HttpApp

CONSTANTS s1, s2, r1, r2

\* One request at a time is of the first user, another of either.
Users == r1 :> {s1} @@ r2 :> {s1, s2}
Expiries == s1 :> 3 @@ s2 :> 2

\* A second token is issued to one user only, and while none expires.
OneFollows == (count[s1] > 1 => now = 0 /\ count[s2] = 0) /\ count[s2] <= 1
=============================================================================
