--------------------------- MODULE MCAgentWrites ---------------------------
(***************************************************************************)
(* Two questions, each with the other's inputs held small: what is written *)
(* under one approval while the data change, and what is registered while  *)
(* nothing is written.                                                     *)
(***************************************************************************)
EXTENDS AgentWrites, TLC

VARIABLE question

MCInit ==
  /\ Init
  /\ question \in {"what is written", "what is registered"}

MCNext ==
  /\ Next
  /\ question = "what is written" =>
       Cardinality({k \in Key : Registered(k)'}) <= 1 /\ posted' \cup crossed' = {}
  /\ question = "what is registered" => version' = version /\ \A c \in Call : pc'[c] # "wire"
  /\ UNCHANGED question

MCSpec == MCInit /\ [][MCNext]_<<vars, question>>

Symmetry == Permutations(Call) \cup Permutations(Key)
=============================================================================
