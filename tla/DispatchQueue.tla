--------------------------- MODULE DispatchQueue ---------------------------
(***************************************************************************)
(* AgentService.dispatchAction: the actions of one client are reduced at   *)
(* once, or chained behind the promise kept for that client when one of    *)
(* them needs its attachments rewritten first.                             *)
(*                                                                         *)
(* The chain of promises is a queue whose head is running.  The map entry  *)
(* of a client is meant to go away when its chain is empty: the clean-up   *)
(* compares the entry, which is next.finally(...), with next itself.       *)
(***************************************************************************)
EXTENDS Naturals, Sequences

CONSTANTS Client,  \* connected clients
          MaxSeq   \* bound: actions sent by one client

ASSUME QueueAssumption == MaxSeq \in Nat

Rewrite == "rewrite"  \* a message with attachments to snapshot
Plain == "plain"

VARIABLES sent,       \* clientSeq of the last action of each client
          entries,    \* clients with an entry in _clientDispatchQueues
          chain,      \* the chained actions of each client, oldest first
          rewriting,  \* clients whose oldest action awaits its rewrite
          settled,    \* number of actions of each client reduced or failed
          log         \* reduced actions, in order

vars == <<sent, entries, chain, rewriting, settled, log>>

Init ==
  /\ sent = [c \in Client |-> 0] /\ entries = {}
  /\ chain = [c \in Client |-> <<>>] /\ rewriting = {}
  /\ settled = [c \in Client |-> 0] /\ log = <<>>

\* Mutant of DispatchNow: the clientSeq of the next action is reported.
DispatchNowNextSeq(c, seq) ==
  /\ log' = Append(log, <<c, seq + 1>>)
  /\ settled' = [settled EXCEPT ![c] = @ + 1]

\* _dispatchActionNow
DispatchNow(c, seq) ==
  /\ log' = Append(log, <<c, seq>>)
  /\ settled' = [settled EXCEPT ![c] = @ + 1]

\* Mutant of Bypasses: earlier actions of the client are not considered.
BypassesPending(c, kind) == kind = Plain

Bypasses(c, kind) == c \notin entries /\ kind = Plain

Dispatch(c, kind) ==
  /\ sent[c] < MaxSeq
  /\ sent' = [sent EXCEPT ![c] = @ + 1]
  /\ IF Bypasses(c, kind)
     THEN DispatchNow(c, sent[c] + 1) /\ UNCHANGED <<entries, chain>>
     ELSE /\ chain' = [chain EXCEPT ![c] = Append(@, [seq |-> sent[c] + 1, kind |-> kind])]
          /\ entries' = entries \cup {c}
          /\ UNCHANGED <<settled, log>>
  /\ UNCHANGED rewriting

\* The promise before it is settled: the oldest action starts its rewrite.
StartsRewrite(c) ==
  /\ chain[c] # <<>> /\ c \notin rewriting
  /\ Head(chain[c]).kind = Rewrite
  /\ rewriting' = rewriting \cup {c}
  /\ UNCHANGED <<sent, entries, chain, settled, log>>

\* Nothing to rewrite, or the rewrite is done.  The finally of the chain
\* leaves the entry: it is not the promise it is compared with.
Proceeds(c) ==
  /\ chain[c] # <<>>
  /\ Head(chain[c]).kind = Rewrite => c \in rewriting
  /\ chain' = [chain EXCEPT ![c] = Tail(@)]
  /\ rewriting' = rewriting \ {c}
  /\ UNCHANGED <<sent, entries>>

Completes(c) == Proceeds(c) /\ DispatchNow(c, Head(chain[c]).seq)

\* Mutant of Drops: a failed action counts as neither reduced nor skipped.
DropsUnsettled(c) == Proceeds(c) /\ UNCHANGED <<settled, log>>

\* The catch: the action is logged and dropped.
Drops(c) ==
  /\ Proceeds(c)
  /\ settled' = [settled EXCEPT ![c] = @ + 1]
  /\ UNCHANGED log

Queue(c) == StartsRewrite(c) \/ Completes(c) \/ Drops(c)

Next == \E c \in Client : Queue(c) \/ \E kind \in {Plain, Rewrite} : Dispatch(c, kind)

Spec == Init /\ [][Next]_vars

\* A rewrite settles, with the attachment as it was when it fails.
FairSpec == Spec /\ \A c \in Client : WF_vars(Queue(c))

-----------------------------------------------------------------------------
(* Properties *)

\* Every variable has the shape of the field it stands for.
TypeOK ==
  /\ sent \in [Client -> 0..MaxSeq] /\ settled \in [Client -> 0..MaxSeq]
  /\ entries \subseteq Client /\ rewriting \subseteq Client
  /\ chain \in [Client -> Seq([seq : 1..MaxSeq, kind : {Plain, Rewrite}])]
  /\ log \in Seq(Client \X (1..MaxSeq))

\* dispatchAction: actions of one client are reduced in the order they were
\* sent, whichever of them had to wait, and none is reduced twice.
OrderPerClient ==
  \A i, j \in 1..Len(log) : i < j /\ log[i][1] = log[j][1] => log[i][2] < log[j][2]

\* The per-client promise, as an abstract specification.
Promise == INSTANCE ClientOrder
KeepsPromise == Promise!FairSpec

=============================================================================
