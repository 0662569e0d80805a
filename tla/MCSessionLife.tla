---------------------------- MODULE MCSessionLife ----------------------------
(* Instances of SessionLife for TLC: two turns, one or two calls, short      *)
(* queues, so that every pair of actors can meet on the same call or turn.   *)
EXTENDS SessionLife, TLC

Ids == Permutations(Call) \cup Permutations(Message)

==============================================================================
