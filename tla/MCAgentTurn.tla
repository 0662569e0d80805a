----------------------------- MODULE MCAgentTurn -----------------------------
(* Instances of AgentTurn for TLC.  The runs of the .cfg files differ in the *)
(* kinds of tool the model asks for, so that each stays small.               *)
EXTENDS AgentTurn, TLC

MCCall == (Turn \X (1 .. MaxCalls)) \cup {Preview}

Ids == Permutations(Turn)

==============================================================================
