------------------------------ MODULE MCAgent -------------------------------
(* TLC instances of Agent.                                                 *)
EXTENDS Agent
CONSTANT cpu   \* an input
=============================================================================
