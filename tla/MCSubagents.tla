------------------------------ MODULE MCSubagents ------------------------------
(* A subagent with two calls, over two turns of the session: the second turn   *)
(* finds it still at work; the smallest instance that loses a link.            *)
EXTENDS Subagents

===============================================================================
