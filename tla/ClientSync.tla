------------------------------ MODULE ClientSync ------------------------------
(***************************************************************************)
(* One client watching one session: AgentSubscriptionManager and its       *)
(* SessionStateSubscription on the client; subscribe, unsubscribe and the  *)
(* broadcast of envelopes on the host.  The connection keeps the order of  *)
(* messages both ways.  A local client (LocalAgentHostService) is sent     *)
(* every envelope; a remote one (RemoteAgentHostProtocolClient) those of   *)
(* the resources the protocol server has on its list.                      *)
(*                                                                         *)
(* The reducer is applied to envelopes one at a time, so a session state   *)
(* is the set of serverSeqs reduced into it, and `sound' says that each    *)
(* was applied once and after the ones before it.                          *)
(***************************************************************************)
EXTENDS Naturals, Sequences, FiniteSets

CONSTANTS MaxHost,  \* bound: actions of the agent and of other clients
          MaxActs,  \* bound: actions of this client
          MaxSubs   \* bound: subscribe requests of this client

ASSUME SyncAssumption == MaxHost \in Nat /\ MaxActs \in Nat /\ MaxSubs \in Nat

Acts == 1..MaxActs
Subs == 1..MaxSubs

VARIABLES
  remote,      \* does the client connect through the protocol server?
  log,         \* envelopes by serverSeq: the clientSeq of an action of this client, or 0
  host,        \* the session: serverSeqs the host has reduced into it
  loaded,      \* is it in the state manager's memory?
  counted,     \* is this client in _resourceSubscribers?
  others,      \* is another client?
  subscribed,  \* does the protocol server's client.subscriptions hold it?
  handler,     \* where the host is in each subscribe request
  miscounted,  \* did a failed request take back the registration of a later one?
  up, down,    \* messages under way to the host, and to the client
  entry,       \* the request of the client's current subscription object, or 0
  hydrated, failed, \* did its snapshot, or an error, arrive?
  confirmed,   \* its _confirmedState
  buffered,    \* its _bufferedEnvelopes
  pending,     \* clientSeqs of its _pendingActions
  early,       \* those dispatched before it was hydrated
  asked, acted \* requests and actions sent so far

hostVars == <<log, host, loaded, counted, others, subscribed, handler, miscounted>>
clientVars == <<entry, hydrated, failed, confirmed, buffered, pending, early, asked, acted>>
vars == <<remote, hostVars, up, down, clientVars>>

Empty == [seqs |-> {}, sound |-> TRUE]
Waiting(stage) == [stage |-> stage, seqs |-> {}, from |-> 0]

Init ==
  /\ remote \in BOOLEAN /\ loaded \in BOOLEAN
  /\ log = <<>> /\ host = {}
  /\ counted = FALSE /\ others = FALSE /\ subscribed = FALSE
  /\ handler = [r \in Subs |-> Waiting("none")]
  /\ up = <<>> /\ down = <<>>
  /\ miscounted = FALSE
  /\ entry = 0 /\ hydrated = FALSE /\ failed = FALSE
  /\ confirmed = Empty /\ buffered = {} /\ pending = {} /\ early = {}
  /\ asked = 0 /\ acted = 0

Envelope(i) == [kind |-> "envelope", seq |-> i]
Snapshot(r, h) == [kind |-> "snapshot", req |-> r, seqs |-> h.seqs, from |-> h.from]
Failure(r) == [kind |-> "failure", req |-> r]

-----------------------------------------------------------------------------
(* The host *)

\* Is a broadcast envelope sent to this client?
Reaches == ~remote \/ subscribed

\* Mutant of ApplyAndEmit: an action is not sent back to its client.
ApplyAndEmitToOthers(by) ==
  LET i == Len(log) + 1 IN
  /\ log' = Append(log, by)
  /\ host' = IF loaded THEN host \cup {i} ELSE host
  /\ down' = IF Reaches /\ by = 0 THEN Append(down, Envelope(i)) ELSE down

\* _applyAndEmit: reduced if the session is in memory, then broadcast with
\* the next serverSeq in any case.
ApplyAndEmit(by) ==
  LET i == Len(log) + 1 IN
  /\ log' = Append(log, by)
  /\ host' = IF loaded THEN host \cup {i} ELSE host
  /\ down' = IF Reaches THEN Append(down, Envelope(i)) ELSE down

HostActs ==
  /\ loaded
  /\ Cardinality({i \in 1..Len(log) : log[i] = 0}) < MaxHost
  /\ ApplyAndEmit(0)
  /\ UNCHANGED <<remote, loaded, counted, others, subscribed, handler, miscounted, up, clientVars>>

\* _maybeEvictIdleSession: once nobody watches, unless a turn is running.
Evicts(watched) == loaded' \in (IF watched THEN {loaded} ELSE {loaded, FALSE})

OtherSubscribes ==
  /\ ~others /\ others' = TRUE
  /\ UNCHANGED <<remote, log, host, loaded, counted, subscribed, handler, miscounted, up, down, clientVars>>

OtherRestores ==
  /\ others /\ ~loaded /\ loaded' = TRUE
  /\ UNCHANGED <<remote, log, host, counted, others, subscribed, handler, miscounted, up, down, clientVars>>

OtherLeaves ==
  /\ others /\ others' = FALSE
  /\ Evicts(counted)
  /\ UNCHANGED <<remote, log, host, counted, subscribed, handler, miscounted, up, down, clientVars>>

\* Mutant of Taken: fromSeq is the next serverSeq.
TakenFromNext == [stage |-> "answering", seqs |-> host, from |-> Len(log) + 1]

\* getSnapshot
Taken == [stage |-> "answering", seqs |-> host, from |-> Len(log)]

\* AgentService.subscribe up to its first await.
HandlesSubscribe(r) ==
  /\ counted' = TRUE
  /\ handler' = [handler EXCEPT ![r] = IF loaded THEN Taken ELSE Waiting("restoring")]
  /\ UNCHANGED <<log, host, loaded, others, subscribed, miscounted, down>>

\* An unsubscribe of a resource that is not on the list yet is ignored.
HandlesUnsubscribe ==
  /\ IF remote /\ ~subscribed
     THEN UNCHANGED <<loaded, counted, subscribed>>
     ELSE counted' = FALSE /\ subscribed' = FALSE /\ Evicts(others \/ ~counted)
  /\ UNCHANGED <<log, host, others, handler, miscounted, down>>

HandlesAction(n) ==
  /\ ApplyAndEmit(n)
  /\ UNCHANGED <<loaded, counted, others, subscribed, handler, miscounted>>

HostReceives ==
  /\ up # <<>> /\ up' = Tail(up)
  /\ LET m == Head(up) IN
     \/ m.kind = "subscribe" /\ HandlesSubscribe(m.req)
     \/ m.kind = "unsubscribe" /\ HandlesUnsubscribe
     \/ m.kind = "action" /\ HandlesAction(m.seq)
  /\ UNCHANGED <<remote, clientVars>>

At(r, stage) == handler[r].stage = stage

\* restoreSession has read the session; its configuration is still resolved.
Restores(r) ==
  /\ At(r, "restoring")
  /\ loaded' = TRUE
  /\ handler' = [handler EXCEPT ![r].stage = "configuring"]
  /\ UNCHANGED <<remote, log, host, counted, others, subscribed, miscounted, up, down, clientVars>>

\* The snapshot is taken after that await; without a state it fails.
TakesSnapshot(r) ==
  /\ At(r, "configuring") /\ loaded
  /\ handler' = [handler EXCEPT ![r] = Taken]
  /\ UNCHANGED <<remote, log, host, loaded, counted, others, subscribed, miscounted, up, down, clientVars>>

\* The provider could not read the session, or it was evicted meanwhile: the
\* catch takes the registration back, also that of another request.
RestoreFails(r) ==
  /\ At(r, "restoring") \/ (At(r, "configuring") /\ ~loaded)
  /\ handler' = [handler EXCEPT ![r] = Waiting("done")]
  /\ counted' = FALSE /\ Evicts(others \/ ~counted)
  /\ miscounted' = (miscounted \/ \E q \in Subs : q > r /\ ~At(q, "none"))
  /\ down' = Append(down, Failure(r))
  /\ UNCHANGED <<remote, log, host, others, subscribed, up, clientVars>>

\* The protocol server's handler goes on: from here the session is on its list.
Joins(r) ==
  /\ remote /\ At(r, "answering")
  /\ subscribed' = TRUE
  /\ handler' = [handler EXCEPT ![r].stage = "replying"]
  /\ UNCHANGED <<remote, log, host, loaded, counted, others, miscounted, up, down, clientVars>>

\* The result of the handler is sent.
Replies(r) ==
  /\ At(r, IF remote THEN "replying" ELSE "answering")
  /\ down' = Append(down, Snapshot(r, handler[r]))
  /\ handler' = [handler EXCEPT ![r] = Waiting("done")]
  /\ UNCHANGED <<remote, log, host, loaded, counted, others, subscribed, miscounted, up, clientVars>>

-----------------------------------------------------------------------------
(* The client *)

\* getSubscription: a new subscription object and its subscribe request.
Acquires ==
  /\ entry = 0 /\ asked < MaxSubs
  /\ asked' = asked + 1 /\ entry' = asked + 1
  /\ up' = Append(up, [kind |-> "subscribe", req |-> asked + 1])
  /\ UNCHANGED <<remote, hostVars, down, hydrated, failed, confirmed, buffered, pending, early, acted>>

\* The last reference is disposed of.
Releases ==
  /\ entry # 0
  /\ entry' = 0 /\ hydrated' = FALSE /\ failed' = FALSE
  /\ confirmed' = Empty /\ buffered' = {} /\ pending' = {} /\ early' = {}
  /\ up' = Append(up, [kind |-> "unsubscribe"])
  /\ UNCHANGED <<remote, hostVars, down, asked, acted>>

\* dispatch: applied optimistically if there is a subscription, and sent.
Dispatches ==
  /\ acted < MaxActs /\ acted' = acted + 1
  /\ pending' = IF entry # 0 THEN pending \cup {acted + 1} ELSE pending
  /\ early' = IF entry # 0 /\ ~hydrated THEN early \cup {acted + 1} ELSE early
  /\ up' = Append(up, [kind |-> "action", seq |-> acted + 1])
  /\ UNCHANGED <<remote, hostVars, down, entry, hydrated, failed, confirmed, buffered, asked>>

\* The reducer run on state s for the envelopes in E, oldest first.
Reduce(s, E) ==
  [seqs |-> s.seqs \cup E,
   sound |-> s.sound /\ \A i \in s.seqs, j \in E : i < j]

\* Mutant of Unechoed: an echo leaves its pending action.
UnechoedNone(E) == pending

\* _reconcile drops the pending action an envelope echoes.
Unechoed(E) == pending \ {log[i] : i \in E}

\* Mutant of ReceivesEnvelope: envelopes before the snapshot are not buffered.
ReceivesEnvelopeUnbuffered(i) ==
  /\ IF hydrated
     THEN confirmed' = Reduce(confirmed, {i}) /\ pending' = Unechoed({i})
     ELSE UNCHANGED <<confirmed, pending>>
  /\ UNCHANGED <<entry, hydrated, failed, buffered, early>>

ReceivesEnvelope(i) ==
  /\ IF hydrated
     THEN /\ confirmed' = Reduce(confirmed, {i})
          /\ pending' = Unechoed({i})
          /\ UNCHANGED buffered
     ELSE /\ buffered' = IF entry # 0 THEN buffered \cup {i} ELSE buffered
          /\ UNCHANGED <<confirmed, pending>>
  /\ UNCHANGED <<entry, hydrated, failed, early>>

\* The result of an earlier subscription object is not for the current one.
IsCurrent(req) == entry = req

\* Mutant of HandlesSnapshot: every buffered envelope is reduced again.
HandlesSnapshotUnfiltered(m) ==
  /\ IF IsCurrent(m.req)
     THEN /\ confirmed' = Reduce([seqs |-> m.seqs, sound |-> TRUE], buffered)
          /\ pending' = Unechoed(buffered)
          /\ hydrated' = TRUE /\ failed' = FALSE /\ buffered' = {}
     ELSE UNCHANGED <<confirmed, pending, hydrated, failed, buffered>>
  /\ UNCHANGED <<entry, early>>

\* handleSnapshot: buffered envelopes the snapshot does not cover are reduced.
HandlesSnapshot(m) ==
  LET newer == {i \in buffered : i > m.from} IN
  /\ IF IsCurrent(m.req)
     THEN /\ confirmed' = Reduce([seqs |-> m.seqs, sound |-> TRUE], newer)
          /\ pending' = Unechoed(newer)
          /\ hydrated' = TRUE /\ failed' = FALSE /\ buffered' = {}
     ELSE UNCHANGED <<confirmed, pending, hydrated, failed, buffered>>
  /\ UNCHANGED <<entry, early>>

\* Mutant of HandlesFailure: the error is forgotten.
HandlesFailureSilently(m) ==
  UNCHANGED <<entry, hydrated, failed, confirmed, buffered, pending, early>>

HandlesFailure(m) ==
  /\ failed' = (IF IsCurrent(m.req) THEN TRUE ELSE failed)
  /\ UNCHANGED <<entry, hydrated, confirmed, buffered, pending, early>>

ClientReceives ==
  /\ down # <<>> /\ down' = Tail(down)
  /\ LET m == Head(down) IN
     \/ m.kind = "envelope" /\ ReceivesEnvelope(m.seq)
     \/ m.kind = "snapshot" /\ HandlesSnapshot(m)
     \/ m.kind = "failure" /\ HandlesFailure(m)
  /\ UNCHANGED <<remote, hostVars, up, asked, acted>>

-----------------------------------------------------------------------------

Handles(r) == Restores(r) \/ TakesSnapshot(r) \/ RestoreFails(r) \/ Joins(r) \/ Replies(r)

Next ==
  \/ HostActs \/ OtherSubscribes \/ OtherRestores \/ OtherLeaves
  \/ HostReceives \/ \E r \in Subs : Handles(r)
  \/ Acquires \/ Releases \/ Dispatches \/ ClientReceives

Spec == Init /\ [][Next]_vars

\* Messages arrive and the awaits of a handler are answered.
FairSpec ==
  /\ Spec
  /\ WF_vars(HostReceives) /\ WF_vars(ClientReceives)
  /\ \A r \in Subs : WF_vars(Handles(r))

-----------------------------------------------------------------------------
(* Properties *)

\* The envelopes a message or a state speaks of have been emitted.
Emitted == 1..Len(log)

Message ==
  [kind : {"envelope"}, seq : Emitted]
    \cup [kind : {"snapshot"}, req : Subs, seqs : SUBSET Emitted, from : 0..Len(log)]
    \cup [kind : {"failure"}, req : Subs]

\* Every variable has the shape of the field it stands for.
TypeOK ==
  /\ {remote, loaded, counted, others, subscribed, miscounted, hydrated, failed} \subseteq BOOLEAN
  /\ log \in Seq(0..MaxActs) /\ host \subseteq Emitted
  /\ handler \in [Subs -> [stage : {"none", "restoring", "configuring", "answering", "replying", "done"},
                           seqs : SUBSET Emitted, from : 0..Len(log)]]
  /\ up \in Seq([kind : {"subscribe"}, req : Subs] \cup [kind : {"unsubscribe"}]
                  \cup [kind : {"action"}, seq : Acts])
  /\ down \in Seq(Message)
  /\ entry \in 0..MaxSubs /\ asked \in 0..MaxSubs /\ acted \in 0..MaxActs
  /\ confirmed \in [seqs : SUBSET Emitted, sound : BOOLEAN]
  /\ buffered \subseteq Emitted /\ pending \subseteq Acts /\ early \subseteq Acts

\* The confirmed state of a client never takes an envelope twice or late,
\* whatever it let go of and acquired again while requests were under way:
\* nothing in receiveEnvelope looks at serverSeq.
AppliedInOrderOnce == confirmed.sound

\* What a client shows as confirmed is a state of the host, until a failed
\* request takes back its registration: locally without a gap, remotely with
\* at most the envelopes of the time it was not on the list.
View == INSTANCE ReplicaView WITH
          log <- host,
          viewing <- hydrated /\ ~miscounted,
          view <- IF miscounted THEN {} ELSE confirmed.seqs,
          lossless <- ~remote
ShowsHostState == View!Spec

\* An own action dispatched on a hydrated subscription is not replayed on top
\* of a confirmed state that contains it.
ReplayedOnce == \A n \in pending \ early, i \in confirmed.seqs : log[i] # n

\* A subscription object is answered, with a state or an error.
SubscribeAnswered ==
  \A r \in Subs : entry = r ~> (entry # r \/ hydrated \/ failed)

\* An own action dispatched on a hydrated subscription is echoed, and leaves
\* the pending ones.
EchoArrives == \A n \in Acts : n \in pending \ early ~> n \notin pending \ early

\* agentSubscription.ts, applyOptimistic: the clientSeq is sent "so it can
\* echo back for reconciliation": what is pending once the state is there is
\* echoed, or let go of.
PendingIsEchoed == \A n \in Acts : n \in pending /\ hydrated ~> n \notin pending

=============================================================================
