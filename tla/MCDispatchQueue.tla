--------------------------- MODULE MCDispatchQueue ---------------------------
(* Two clients with three actions each: a message to rewrite, a plain action *)
(* behind it and one sent when the chain is empty again.                     *)
EXTENDS DispatchQueue

==============================================================================
