------------------------- MODULE MCAgentOperations -------------------------
(* Instances of AgentOperations for TLC. *)
EXTENDS AgentOperations, TLC

CONSTANTS c1, c2, code, src

\* At first source-dir is the default, and the module, if there is one, is there
\* or at the service root.
MCInit == AgentInit /\ declared = code /\ mods \in {{}, {code}, {Root}}

\* The Inits and what moves the root touch different variables: a behaviour has
\* one Load and the Inits, or no Init and as many Loads and edits as there may be.
\* One directory at most holds a go.mod.
MCNext ==
  /\ AgentNext
  /\ inits' > 0 => loads' = 1 /\ edits' = 0
  /\ Cardinality(mods') <= 1

MCSpec == MCInit /\ [][MCNext]_agentVars

Symmetric == Permutations(Calls)
=============================================================================
