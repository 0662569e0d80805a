---------------------------- MODULE ClientOrder ----------------------------
(***************************************************************************)
(* What the host promises every client about the actions it dispatches:    *)
(* they are reduced in the order they were sent, each at most once, and    *)
(* one that fails is skipped without holding up the ones behind it.        *)
(* AgentService.dispatchAction (DispatchQueue) implements it.              *)
(***************************************************************************)
EXTENDS Naturals, Sequences

CONSTANTS Client, MaxSeq  \* bound: actions sent by one client

VARIABLES sent,    \* number of actions each client has sent
          settled, \* number of its actions that are reduced or skipped
          log      \* the reduced actions, in order, as <<client, clientSeq>>

vars == <<sent, settled, log>>

Init ==
  /\ sent = [c \in Client |-> 0] /\ settled = [c \in Client |-> 0]
  /\ log = <<>>

Sends(c) ==
  /\ sent[c] < MaxSeq
  /\ sent' = [sent EXCEPT ![c] = @ + 1]

\* The next action of c is reduced, or skipped.
Reduces(c) ==
  /\ settled' = [settled EXCEPT ![c] = @ + 1]
  /\ log' = Append(log, <<c, settled[c] + 1>>)

Skips(c) ==
  /\ settled' = [settled EXCEPT ![c] = @ + 1]
  /\ UNCHANGED log

Advances(c) ==
  /\ settled[c] < sent[c]
  /\ Reduces(c) \/ Skips(c)
  /\ UNCHANGED sent

\* With nothing before it, an action may be reduced as it is sent.
Next ==
  \E c \in Client :
    \/ Sends(c) /\ UNCHANGED <<settled, log>>
    \/ Sends(c) /\ settled[c] = sent[c] /\ Reduces(c)
    \/ Advances(c)

Spec == Init /\ [][Next]_vars

\* Every action sent is reduced or skipped in the end.
FairSpec == Spec /\ \A c \in Client : WF_vars(Advances(c))
=============================================================================
