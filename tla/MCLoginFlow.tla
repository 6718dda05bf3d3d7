----------------------------- MODULE MCLoginFlow -----------------------------
(***************************************************************************)
(* Two parts of the stdio program in one run: its commands in every        *)
(* detail, and the tool calls of a server, which share a login while    *)
(* nothing fails.  Only the part chosen at the start moves.                *)
(***************************************************************************)
EXTENDS LoginFlow, TLC

CONSTANTS p1, p2, i1, i2, a1, a2, n1, c1, c2, k1, g1

Mixed == p1 :> "auto" @@ p2 :> "file"

VARIABLES part, store, credentialsLock, issued, newest, ended, replayed, stale, bad, cached, forced,
          rpc, mine, cpc, tok, kpc, saved, signedOut, orphaned, unanswered

sharingVars == <<store, credentialsLock, issued, newest, ended, replayed, stale, bad, cached, forced,
                 rpc, mine, cpc, tok, kpc, saved, signedOut, orphaned, unanswered>>

\* Two callers in one server, and a login or logout at a time.
Sharing ==
  INSTANCE LocalSession WITH
    Proc <- {p1}, Caller <- {c1, c2}, Home <- (c1 :> p1 @@ c2 :> p1),
    Cli <- {k1}, Grant <- {g1}, MaxGen <- 1, Faults <- {}, holder <- credentialsLock

allVars == <<part, vars, sharingVars>>

StdioInit ==
  /\ part \in {"commands", "callers"}
  /\ Init /\ Sharing!Init
  /\ part = "callers" => keyring /\ file = NoEntries

StdioNext ==
  /\ UNCHANGED part
  /\ \/ part = "commands" /\ Next /\ UNCHANGED sharingVars
     \/ part = "callers" /\ Sharing!Next /\ UNCHANGED vars

StdioSpec == StdioInit /\ [][StdioNext]_allVars /\ Fairness /\ Sharing!Fairness

\* Every caller is answered.
CallersAnswered == Sharing!CallersAnswered
=============================================================================
