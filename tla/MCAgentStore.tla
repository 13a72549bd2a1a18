---------------------------- MODULE MCAgentStore ----------------------------
\* Instances of the agents for TLC.
EXTENDS AgentStore, TLC

Symmetry == Permutations(Agents) \union Permutations(Tasks)
=============================================================================
