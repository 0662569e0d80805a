----------------------------- MODULE ReplicaView -----------------------------
(***************************************************************************)
(* What a client that watches a session is promised about the state it     *)
(* shows: the actions reduced into it were reduced by the host, the view   *)
(* is refreshed with later actions only, and over a lossless connection    *)
(* none is skipped.  A session state is the set of the serverSeqs reduced  *)
(* into it.  Client subscriptions and the host (ClientSync) implement it.  *)
(***************************************************************************)
EXTENDS Naturals

VARIABLES log,      \* actions the host has reduced into the session
          viewing,  \* does the client show a confirmed state?
          view,     \* the actions in the state it shows
          lossless  \* is every envelope delivered to the client?

vars == <<log, viewing, view, lossless>>

\* v is a state of the host, as far as the connection allows.
Faithful(v) ==
  /\ v \subseteq log
  /\ lossless => \A i \in log, j \in v : i < j => i \in v

Init == log = {} /\ viewing = FALSE /\ view = {} /\ lossless \in BOOLEAN

Reduces ==
  /\ \E i \in log' : log' = log \cup {i} /\ \A j \in log : j < i
  /\ UNCHANGED <<viewing, view, lossless>>

\* A first view may be any state of the host; later ones extend it.
Refreshes ==
  /\ viewing' = TRUE
  /\ view' \in SUBSET log /\ Faithful(view')
  /\ viewing => view \subseteq view' /\ \A i \in view, j \in view' \ view : i < j
  /\ UNCHANGED <<log, lossless>>

Forgets ==
  /\ viewing' = FALSE /\ view' = {}
  /\ UNCHANGED <<log, lossless>>

Next == Reduces \/ Refreshes \/ Forgets

Spec == Init /\ [][Next]_vars
==============================================================================
