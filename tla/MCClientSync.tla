----------------------------- MODULE MCClientSync -----------------------------
(* A client that acquires the session twice, with an action of its own before *)
(* and after, while the agent acts and another client comes and goes.         *)
EXTENDS ClientSync

===============================================================================
