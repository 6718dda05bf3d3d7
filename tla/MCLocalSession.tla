--------------------------- MODULE MCLocalSession ---------------------------
(***************************************************************************)
(* Sessions of one login: one caller in each of two servers, or two        *)
(* callers in one server and one login, as is chosen at the start.  The    *)
(* refreshes given up on are of one pair, and the first login is g1's.     *)
(***************************************************************************)
EXTENDS LocalSession, TLC

CONSTANTS p1, p2, c1, c2, c3, g1, g2

TwoServers == c1 :> p1 @@ c2 :> p2 @@ c3 :> p1

VARIABLE silent   \* the caller that asks for nothing

SessionInit == Init /\ silent \in {c2, c3}
SessionNext ==
  /\ Next /\ UNCHANGED silent
  /\ cpc'[silent] = "idle"
  /\ silent = c3 \/ issued' \subseteq {g1}
  /\ issued' # {g2}
  /\ Cardinality(unanswered') <= 1
SessionSpec == SessionInit /\ [][SessionNext]_<<vars, silent>>

\* The two servers are alike while c3 asks for nothing; a state in which c2 is the
\* one that does not is like no other.
Alike ==
  {f \in Permutations({p1, p2, c1, c2}) : {f[p1], f[p2]} = {p1, p2} /\ (f[p1] = p1 <=> f[c1] = c1)}
=============================================================================
