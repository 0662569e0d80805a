---------------------------- MODULE MCSessionWatch ----------------------------
(* Two connections on one session that is created, used, left, restored and  *)
(* disposed of.                                                              *)
EXTENDS SessionWatch, TLC

Connections == Permutations(Client)

===============================================================================
