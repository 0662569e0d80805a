--------------------------- MODULE ClientSyncProofs ---------------------------
(***************************************************************************)
(* Proofs about ClientSync, for any number of requests and actions: the    *)
(* types, the order of what a client applies, what it replays, and that    *)
(* client and host implement ReplicaView.                                  *)
(***************************************************************************)
EXTENDS ClientSync, TLAPS

-----------------------------------------------------------------------------
(* The inductive invariant *)

IsEnvelope(k) == k \in 1..Len(down) /\ down[k].kind = "envelope"
IsSnapshot(k) == k \in 1..Len(down) /\ down[k].kind = "snapshot"
IsAnswer(k) == k \in 1..Len(down) /\ down[k].kind # "envelope"
IsRequest(k) == k \in 1..Len(up) /\ up[k].kind = "subscribe"

\* Envelopes arrive in the order of their serverSeq ...
EnvelopesAscend ==
  \A j, k \in Nat : IsEnvelope(j) /\ IsEnvelope(k) /\ j < k => down[j].seq < down[k].seq

\* ... after what the client has of the session ...
AheadOfClient ==
  \A k \in Nat : IsEnvelope(k) =>
    \A i \in confirmed.seqs \cup buffered : i < down[k].seq

\* ... and a snapshot covers those before it, and none of those after it.
SnapshotsCover ==
  \A k \in Nat : IsSnapshot(k) =>
    /\ \A i \in down[k].seqs : i <= down[k].from
    /\ \A j \in Nat : IsEnvelope(j) /\ k < j => down[k].from < down[j].seq

TakenCovers == \A r \in Subs : \A i \in handler[r].seqs : i <= handler[r].from

OrderInv ==
  /\ EnvelopesAscend /\ AheadOfClient /\ SnapshotsCover /\ TakenCovers
  /\ AppliedInOrderOnce

\* A request is on its way, with its handler, or answered: once.
RequestsAreNew ==
  /\ \A k \in Nat : IsRequest(k) => up[k].req <= asked /\ At(up[k].req, "none")
  /\ \A j, k \in Nat : IsRequest(j) /\ IsRequest(k) /\ up[j].req = up[k].req => j = k
  /\ \A r \in Subs : r > asked => At(r, "none")

AnswersAreDone ==
  /\ \A k \in Nat : IsAnswer(k) => At(down[k].req, "done")
  /\ \A j, k \in Nat : IsAnswer(j) /\ IsAnswer(k) /\ down[j].req = down[k].req => j = k

\* A hydrated subscription has had the answer of its request.
HydratedIsAnswered ==
  hydrated =>
    /\ entry \in Subs /\ At(entry, "done")
    /\ \A k \in Nat : IsAnswer(k) => down[k].req # entry

RequestInv ==
  /\ RequestsAreNew /\ AnswersAreDone /\ HydratedIsAnswered
  /\ entry # 0 => entry = asked

\* Actions are numbered as they are sent.
ActionsWereSent ==
  /\ \A n \in pending : n <= acted
  /\ \A i \in 1..Len(log) : log[i] <= acted
  /\ \A k \in 1..Len(up) : up[k].kind = "action" => up[k].seq <= acted

PendingInv ==
  /\ ActionsWereSent
  /\ ~hydrated => pending \subseteq early
  /\ ReplayedOnce

\* Has request r been counted, and not been refused?
IsAnswering(r) == At(r, "answering") \/ At(r, "replying")
IsAnswered(r) ==
  (hydrated /\ entry = r) \/ \E k \in Nat : IsSnapshot(k) /\ down[k].req = r
IsServed(r) == At(r, "restoring") \/ At(r, "configuring") \/ IsAnswering(r) \/ IsAnswered(r)

\* The current request comes after every unsubscribe.
UnsubscribesAreOld ==
  entry # 0 =>
    \A j \in 1..Len(up) : up[j].kind = "unsubscribe" =>
      \E k \in Nat : IsRequest(k) /\ up[k].req = entry /\ j < k

\* Between the snapshot and the unsubscribe of the current subscription the
\* session is counted and in memory.
ServedIsCounted ==
  entry # 0 /\ ~miscounted =>
    /\ IsServed(entry) => counted
    /\ IsAnswering(entry) \/ IsAnswered(entry) => loaded

CountInv == UnsubscribesAreOld /\ ServedIsCounted

\* A snapshot is the state of the host at its fromSeq.
IsStateAt(S, from) == S \subseteq host /\ \A i \in host : i <= from => i \in S

SnapshotsAreStates ==
  /\ \A r \in Subs : IsAnswering(r) => IsStateAt(handler[r].seqs, handler[r].from)
  /\ \A k \in Nat : IsSnapshot(k) => IsStateAt(down[k].seqs, down[k].from)

\* The host has reduced what follows the snapshot of the current subscription.
Reduced(from) ==
  /\ \A i \in buffered : i > from => i \in host
  /\ \A k \in Nat : IsEnvelope(k) /\ down[k].seq > from => down[k].seq \in host

FollowersAreReduced ==
  entry # 0 /\ ~miscounted =>
    /\ IsAnswering(entry) => Reduced(handler[entry].from)
    /\ \A k \in Nat : IsSnapshot(k) /\ down[k].req = entry => Reduced(down[k].from)
    /\ hydrated =>
         /\ confirmed.seqs \subseteq host
         /\ \A k \in Nat : IsEnvelope(k) => down[k].seq \in host

\* A local client is sent all that follows it.
IsSent(i) == \E k \in Nat : IsEnvelope(k) /\ down[k].seq = i
NoGapAfter(from) == \A i \in host : i > from => i \in buffered \/ IsSent(i)

NothingIsSkipped ==
  entry # 0 /\ ~remote =>
    /\ IsAnswering(entry) => NoGapAfter(handler[entry].from)
    /\ \A k \in Nat : IsSnapshot(k) /\ down[k].req = entry => NoGapAfter(down[k].from)
    /\ hydrated => \A i \in host : i \in confirmed.seqs \/ IsSent(i)

StateInv == SnapshotsAreStates /\ FollowersAreReduced /\ NothingIsSkipped

-----------------------------------------------------------------------------
(* Sequences of messages *)

Grown(s, t, m) ==
  /\ Len(s) \in Nat /\ Len(t) = Len(s) + 1 /\ t[Len(s) + 1] = m
  /\ \A k \in 1..Len(s) : t[k] = s[k]

Dropped(s, t) ==
  /\ Len(t) \in Nat /\ Len(s) = Len(t) + 1
  /\ \A k \in 1..Len(t) : t[k] = s[k + 1]

\* Appending a message leaves the others where they are.
LEMMA AppendGrows ==
  ASSUME NEW S, NEW s \in Seq(S), NEW m \in S
  PROVE  Grown(s, Append(s, m), m) /\ Append(s, m) \in Seq(S)
BY DEF Grown

\* Taking the first message moves the others up by one.
LEMMA TailDrops ==
  ASSUME NEW S, NEW s \in Seq(S), s # <<>>
  PROVE  Dropped(s, Tail(s)) /\ Tail(s) \in Seq(S) /\ Head(s) = s[1] /\ Head(s) \in S
BY DEF Dropped

\* A sequence over a set is one over a larger set.
LEMMA SeqOfMore ==
  ASSUME NEW S, NEW T, S \subseteq T, NEW s \in Seq(S)
  PROVE  s \in Seq(T)
<1>1. s \in [1..Len(s) -> S]
  OBVIOUS
<1>2. s \in [1..Len(s) -> T]
  BY <1>1
<1> QED BY <1>2

Request == [kind : {"subscribe"}, req : Subs] \cup [kind : {"unsubscribe"}]
             \cup [kind : {"action"}, seq : Acts]

Stage == {"none", "restoring", "configuring", "answering", "replying", "done"}

Handler == [stage : Stage, seqs : SUBSET Emitted, from : 0..Len(log)]

\* What the shapes say, part by part.
FlagsTyped == {remote, loaded, counted, others, subscribed, miscounted, hydrated, failed} \subseteq BOOLEAN
HostTyped == log \in Seq(0..MaxActs) /\ host \subseteq Emitted
HandlerTyped == handler \in [Subs -> Handler]
MessagesTyped == up \in Seq(Request) /\ down \in Seq(Message)
CountersTyped == entry \in 0..MaxSubs /\ asked \in 0..MaxSubs /\ acted \in 0..MaxActs
ClientTyped ==
  /\ confirmed \in [seqs : SUBSET Emitted, sound : BOOLEAN]
  /\ buffered \subseteq Emitted /\ pending \subseteq Acts /\ early \subseteq Acts

LEMMA TypeParts ==
  /\ TypeOK <=> FlagsTyped /\ HostTyped /\ HandlerTyped /\ MessagesTyped
                  /\ CountersTyped /\ ClientTyped
  /\ TypeOK' <=> FlagsTyped' /\ HostTyped' /\ HandlerTyped' /\ MessagesTyped'
                  /\ CountersTyped' /\ ClientTyped'
BY DEF TypeOK, FlagsTyped, HostTyped, HandlerTyped, MessagesTyped, CountersTyped,
       ClientTyped, Handler, Stage, Request

\* A new envelope extends what messages and states may speak of.
LEMMA LogGrows ==
  ASSUME HostTyped, NEW by \in 0..MaxActs, log' = Append(log, by)
  PROVE  /\ log' \in Seq(0..MaxActs) /\ Len(log) \in Nat /\ Len(log') = Len(log) + 1
         /\ Emitted \subseteq Emitted' /\ Len(log) + 1 \in Emitted'
         /\ \A k \in 1..Len(log) : log'[k] = log[k]
         /\ log'[Len(log) + 1] = by
         /\ Message \subseteq Message' /\ Handler \subseteq Handler'
<1>1. /\ log' \in Seq(0..MaxActs) /\ Len(log) \in Nat /\ Len(log') = Len(log) + 1
      /\ \A k \in 1..Len(log) : log'[k] = log[k]
      /\ log'[Len(log) + 1] = by
  BY DEF HostTyped
<1>2. Emitted \subseteq Emitted' /\ Len(log) + 1 \in Emitted' /\ 0..Len(log) \subseteq 0..Len(log')
  BY <1>1 DEF Emitted
<1>3. SUBSET Emitted \subseteq SUBSET Emitted'
  BY <1>2
<1>4. Message \subseteq Message'
  BY <1>2, <1>3 DEF Message
<1>5. Handler \subseteq Handler'
  BY <1>2, <1>3 DEF Handler
<1> QED BY <1>1, <1>2, <1>4, <1>5

\* The fields of a message, by its kind.
LEMMA MessageFields ==
  ASSUME NEW m \in Message
  PROVE  /\ m.kind = "envelope" => m.seq \in Emitted /\ m = Envelope(m.seq)
         /\ m.kind = "snapshot" => m.req \in Subs /\ m.seqs \subseteq Emitted /\ m.from \in 0..Len(log)
         /\ m.kind = "failure" => m.req \in Subs
         /\ m.kind \in {"envelope", "snapshot", "failure"}
BY DEF Message, Envelope

LEMMA RequestFields ==
  ASSUME NEW m \in Request
  PROVE  /\ m.kind = "subscribe" => m.req \in Subs
         /\ m.kind = "action" => m.seq \in Acts
         /\ m.kind \in {"subscribe", "unsubscribe", "action"}
BY DEF Request

\* What _applyAndEmit does to the log, the session and the messages.
LEMMA EmitEffect ==
  ASSUME TypeOK, NEW by \in 0..MaxActs, ApplyAndEmit(by)
  PROVE  /\ log' \in Seq(0..MaxActs) /\ host' \subseteq Emitted' /\ down' \in Seq(Message')
         /\ Len(log) \in Nat /\ Len(log') = Len(log) + 1 /\ Emitted \subseteq Emitted'
         /\ \A k \in 1..Len(log) : log'[k] = log[k]
         /\ log'[Len(log) + 1] = by
         /\ Message \subseteq Message' /\ Handler \subseteq Handler'
         /\ host' = IF loaded THEN host \cup {Len(log) + 1} ELSE host
         /\ IF Reaches THEN Grown(down, down', Envelope(Len(log) + 1)) ELSE down' = down
<1> DEFINE i == Len(log) + 1
<1>1. log' = Append(log, by) /\ HostTyped /\ MessagesTyped
  BY TypeParts DEF ApplyAndEmit
<1>2. /\ log' \in Seq(0..MaxActs) /\ Len(log) \in Nat /\ Len(log') = Len(log) + 1
      /\ Emitted \subseteq Emitted' /\ i \in Emitted'
      /\ \A k \in 1..Len(log) : log'[k] = log[k]
      /\ log'[i] = by
      /\ Message \subseteq Message' /\ Handler \subseteq Handler'
  BY <1>1, LogGrows
<1>3. host' = IF loaded THEN host \cup {i} ELSE host
  BY DEF ApplyAndEmit
<1>4. host' \subseteq Emitted'
  BY <1>1, <1>2, <1>3 DEF HostTyped
<1>5. down \in Seq(Message')
  BY <1>1, <1>2, SeqOfMore DEF MessagesTyped
<1>6. Envelope(i) \in Message'
  BY <1>2 DEF Message, Envelope
<1>7. down' = IF Reaches THEN Append(down, Envelope(i)) ELSE down
  BY DEF ApplyAndEmit
<1>8. /\ down' \in Seq(Message')
      /\ IF Reaches THEN Grown(down, down', Envelope(i)) ELSE down' = down
  BY <1>5, <1>6, <1>7, AppendGrows
<1> QED BY <1>2, <1>3, <1>4, <1>8

\* What a message to the client does to those under way.
LEMMA SendEffect ==
  ASSUME TypeOK, NEW m \in Message, down' = Append(down, m)
  PROVE  down' \in Seq(Message) /\ Grown(down, down', m)
BY TypeParts, AppendGrows DEF MessagesTyped

\* What the client finds when it receives.
LEMMA ReceiveEffect ==
  ASSUME TypeOK, down # <<>>, down' = Tail(down)
  PROVE  down' \in Seq(Message) /\ Dropped(down, down') /\ Head(down) = down[1]
           /\ Head(down) \in Message
BY TypeParts, TailDrops DEF MessagesTyped

LEMMA AskEffect ==
  ASSUME TypeOK, NEW m \in Request, up' = Append(up, m)
  PROVE  up' \in Seq(Request) /\ Grown(up, up', m)
BY TypeParts, AppendGrows DEF MessagesTyped

LEMMA HandleEffect ==
  ASSUME TypeOK, up # <<>>, up' = Tail(up)
  PROVE  up' \in Seq(Request) /\ Dropped(up, up') /\ Head(up) = up[1] /\ Head(up) \in Request
BY TypeParts, TailDrops DEF MessagesTyped

\* Without a new envelope, messages speak of the same ones.
LEMMA LogStays ==
  ASSUME log' = log
  PROVE  Emitted' = Emitted /\ Message' = Message /\ Handler' = Handler /\ Len(log') = Len(log)
<1>1. Emitted' = Emitted
  BY DEF Emitted
<1> QED BY <1>1 DEF Message, Handler

\* A snapshot taken has the shape of a handler's state.
LEMMA TakenTyped ==
  ASSUME TypeOK
  PROVE  /\ Taken \in Handler /\ Taken.stage = "answering"
         /\ Taken.seqs = host /\ Taken.from = Len(log)
         /\ \A i \in Taken.seqs : i <= Taken.from
         /\ \A s \in Stage : Waiting(s) \in Handler /\ Waiting(s).stage = s
                               /\ Waiting(s).seqs = {}
<1>1. Len(log) \in Nat /\ host \subseteq Emitted
  BY TypeParts DEF HostTyped
<1> QED BY <1>1 DEF Taken, Waiting, Handler, Stage, Emitted

\* A received message, by its kind.
ReceivesSubscribe(r) ==
  /\ up # <<>> /\ up' = Tail(up) /\ Head(up).kind = "subscribe" /\ Head(up).req = r
  /\ HandlesSubscribe(r) /\ UNCHANGED <<remote, clientVars>>
ReceivesUnsubscribe ==
  /\ up # <<>> /\ up' = Tail(up) /\ Head(up).kind = "unsubscribe"
  /\ HandlesUnsubscribe /\ UNCHANGED <<remote, clientVars>>
ReceivesAction(n) ==
  /\ up # <<>> /\ up' = Tail(up) /\ Head(up).kind = "action" /\ Head(up).seq = n
  /\ HandlesAction(n) /\ UNCHANGED <<remote, clientVars>>
GetsEnvelope(i) ==
  /\ down # <<>> /\ down' = Tail(down) /\ Head(down).kind = "envelope" /\ Head(down).seq = i
  /\ ReceivesEnvelope(i) /\ UNCHANGED <<remote, hostVars, up, asked, acted>>
GetsSnapshot(m) ==
  /\ down # <<>> /\ down' = Tail(down) /\ Head(down) = m /\ m.kind = "snapshot"
  /\ HandlesSnapshot(m) /\ UNCHANGED <<remote, hostVars, up, asked, acted>>
GetsFailure(m) ==
  /\ down # <<>> /\ down' = Tail(down) /\ Head(down) = m /\ m.kind = "failure"
  /\ HandlesFailure(m) /\ UNCHANGED <<remote, hostVars, up, asked, acted>>

\* The steps of Next, one by one.
LEMMA Steps ==
  ASSUME TypeOK, [Next]_vars
  PROVE  \/ HostActs \/ OtherSubscribes \/ OtherRestores \/ OtherLeaves
         \/ \E r \in Subs : ReceivesSubscribe(r)
         \/ ReceivesUnsubscribe
         \/ \E n \in Acts : ReceivesAction(n)
         \/ \E r \in Subs : Restores(r) \/ TakesSnapshot(r) \/ RestoreFails(r) \/ Joins(r) \/ Replies(r)
         \/ Acquires \/ Releases \/ Dispatches
         \/ \E i \in Emitted : GetsEnvelope(i)
         \/ \E m \in Message : GetsSnapshot(m) \/ GetsFailure(m)
         \/ UNCHANGED vars
<1>1. CASE HostReceives
  <2>1. up # <<>> /\ up' = Tail(up) /\ UNCHANGED <<remote, clientVars>>
    BY <1>1 DEF HostReceives
  <2>2. Head(up) \in Request
    BY <2>1, HandleEffect
  <2>3. \/ Head(up).kind = "subscribe" /\ HandlesSubscribe(Head(up).req)
        \/ Head(up).kind = "unsubscribe" /\ HandlesUnsubscribe
        \/ Head(up).kind = "action" /\ HandlesAction(Head(up).seq)
    BY <1>1 DEF HostReceives
  <2> QED BY <2>1, <2>2, <2>3, RequestFields DEF ReceivesSubscribe, ReceivesUnsubscribe, ReceivesAction
<1>2. CASE ClientReceives
  <2>1. down # <<>> /\ down' = Tail(down) /\ UNCHANGED <<remote, hostVars, up, asked, acted>>
    BY <1>2 DEF ClientReceives
  <2>2. Head(down) \in Message
    BY <2>1, ReceiveEffect
  <2>3. \/ Head(down).kind = "envelope" /\ ReceivesEnvelope(Head(down).seq)
        \/ Head(down).kind = "snapshot" /\ HandlesSnapshot(Head(down))
        \/ Head(down).kind = "failure" /\ HandlesFailure(Head(down))
    BY <1>2 DEF ClientReceives
  <2> QED BY <2>1, <2>2, <2>3, MessageFields DEF GetsEnvelope, GetsSnapshot, GetsFailure
<1> QED BY <1>1, <1>2 DEF Next, Handles

-----------------------------------------------------------------------------
(* Types *)

\* The reducer keeps the shape of a state.
LEMMA ReduceTyped ==
  ASSUME NEW s \in [seqs : SUBSET Emitted, sound : BOOLEAN], NEW E \in SUBSET Emitted
  PROVE  /\ Reduce(s, E) \in [seqs : SUBSET Emitted, sound : BOOLEAN]
         /\ Reduce(s, E).seqs = s.seqs \cup E
         /\ Reduce(s, E).sound <=> s.sound /\ \A i \in s.seqs, j \in E : i < j
<1>1. (s.sound /\ \A i \in s.seqs, j \in E : i < j) \in BOOLEAN
  OBVIOUS
<1>2. s.seqs \cup E \in SUBSET Emitted
  OBVIOUS
<1> QED BY <1>1, <1>2, Zenon DEF Reduce

\* What hydrating and reconciling do to the client.
LEMMA ReconcileTyped ==
  ASSUME NEW E
  PROVE  Unechoed(E) \subseteq pending
BY DEF Unechoed

\* Every step keeps the shapes.
LEMMA TypeStep ==
  ASSUME TypeOK, [Next]_vars
  PROVE  TypeOK'
<1> USE SyncAssumption
<1>0. FlagsTyped /\ HostTyped /\ HandlerTyped /\ MessagesTyped /\ CountersTyped /\ ClientTyped
  BY TypeParts
<1> USE <1>0
<1>1. CASE HostActs
  <2>1. ApplyAndEmit(0)
    BY <1>1 DEF HostActs, hostVars, clientVars
  <2>2. /\ log' \in Seq(0..MaxActs) /\ host' \subseteq Emitted' /\ down' \in Seq(Message')
        /\ Emitted \subseteq Emitted' /\ Handler \subseteq Handler'
    BY <2>1, EmitEffect, 0 \in 0..MaxActs DEF Acts
  <2>3. FlagsTyped'
    BY <1>1 DEF HostActs, hostVars, clientVars, FlagsTyped
  <2>4. HostTyped'
    BY <2>1, <2>2 DEF HostTyped
  <2>5. HandlerTyped'
    BY <1>1, <2>2 DEF HostActs, hostVars, clientVars, HandlerTyped
  <2>6. MessagesTyped'
    BY <1>1, <2>2 DEF HostActs, hostVars, clientVars, MessagesTyped
  <2>7. CountersTyped'
    BY <1>1 DEF HostActs, hostVars, clientVars, CountersTyped, Subs
  <2>8. ClientTyped'
    BY <1>1, <2>2 DEF HostActs, hostVars, clientVars, ClientTyped
  <2> QED BY <2>3, <2>4, <2>5, <2>6, <2>7, <2>8, TypeParts
<1>2. CASE OtherSubscribes
  <2>1. log' = log /\ host' = host
    BY <1>2 DEF OtherSubscribes, hostVars, clientVars
  <2>2. Emitted' = Emitted /\ Message' = Message /\ Handler' = Handler
    BY <2>1, LogStays
  <2>3. FlagsTyped'
    BY <1>2 DEF OtherSubscribes, hostVars, clientVars, FlagsTyped
  <2>4. HostTyped'
    BY <2>1, <2>2 DEF HostTyped
  <2>5. HandlerTyped'
    BY <1>2, <2>2 DEF OtherSubscribes, hostVars, clientVars, HandlerTyped
  <2>6. MessagesTyped'
    BY <1>2, <2>2 DEF OtherSubscribes, hostVars, clientVars, MessagesTyped
  <2>7. CountersTyped'
    BY <1>2 DEF OtherSubscribes, hostVars, clientVars, CountersTyped, Subs
  <2>8. ClientTyped'
    BY <1>2, <2>2 DEF OtherSubscribes, hostVars, clientVars, ClientTyped
  <2> QED BY <2>3, <2>4, <2>5, <2>6, <2>7, <2>8, TypeParts
<1>3. CASE OtherRestores
  <2>1. log' = log /\ host' = host
    BY <1>3 DEF OtherRestores, hostVars, clientVars
  <2>2. Emitted' = Emitted /\ Message' = Message /\ Handler' = Handler
    BY <2>1, LogStays
  <2>3. FlagsTyped'
    BY <1>3 DEF OtherRestores, hostVars, clientVars, FlagsTyped
  <2>4. HostTyped'
    BY <2>1, <2>2 DEF HostTyped
  <2>5. HandlerTyped'
    BY <1>3, <2>2 DEF OtherRestores, hostVars, clientVars, HandlerTyped
  <2>6. MessagesTyped'
    BY <1>3, <2>2 DEF OtherRestores, hostVars, clientVars, MessagesTyped
  <2>7. CountersTyped'
    BY <1>3 DEF OtherRestores, hostVars, clientVars, CountersTyped, Subs
  <2>8. ClientTyped'
    BY <1>3, <2>2 DEF OtherRestores, hostVars, clientVars, ClientTyped
  <2> QED BY <2>3, <2>4, <2>5, <2>6, <2>7, <2>8, TypeParts
<1>4. CASE OtherLeaves
  <2>1. log' = log /\ host' = host
    BY <1>4 DEF OtherLeaves, Evicts, hostVars, clientVars
  <2>2. Emitted' = Emitted /\ Message' = Message /\ Handler' = Handler
    BY <2>1, LogStays
  <2>3. FlagsTyped'
    BY <1>4 DEF OtherLeaves, Evicts, hostVars, clientVars, FlagsTyped
  <2>4. HostTyped'
    BY <2>1, <2>2 DEF HostTyped
  <2>5. HandlerTyped'
    BY <1>4, <2>2 DEF OtherLeaves, Evicts, hostVars, clientVars, HandlerTyped
  <2>6. MessagesTyped'
    BY <1>4, <2>2 DEF OtherLeaves, Evicts, hostVars, clientVars, MessagesTyped
  <2>7. CountersTyped'
    BY <1>4 DEF OtherLeaves, Evicts, hostVars, clientVars, CountersTyped, Subs
  <2>8. ClientTyped'
    BY <1>4, <2>2 DEF OtherLeaves, Evicts, hostVars, clientVars, ClientTyped
  <2> QED BY <2>3, <2>4, <2>5, <2>6, <2>7, <2>8, TypeParts
<1>5. ASSUME NEW r \in Subs, ReceivesSubscribe(r) PROVE TypeOK'
  <2>1. log' = log /\ host' = host
    BY <1>5 DEF ReceivesSubscribe, HandlesSubscribe, hostVars, clientVars
  <2>2. Emitted' = Emitted /\ Message' = Message /\ Handler' = Handler
    BY <2>1, LogStays
  <2>3. FlagsTyped'
    BY <1>5 DEF ReceivesSubscribe, HandlesSubscribe, hostVars, clientVars, FlagsTyped
  <2>4. HostTyped'
    BY <2>1, <2>2 DEF HostTyped
  <2>5. HandlerTyped'
    <3>1. handler' = [handler EXCEPT ![r] = IF loaded THEN Taken ELSE Waiting("restoring")]
      BY <1>5 DEF ReceivesSubscribe, HandlesSubscribe, hostVars, clientVars
    <3>2. (IF loaded THEN Taken ELSE Waiting("restoring")) \in Handler
      BY TakenTyped DEF Stage
    <3> QED BY <2>2, <3>1, <3>2 DEF HandlerTyped
  <2>6. MessagesTyped'
    BY <1>5, <2>2, HandleEffect DEF ReceivesSubscribe, HandlesSubscribe, hostVars, clientVars, MessagesTyped
  <2>7. CountersTyped'
    BY <1>5 DEF ReceivesSubscribe, HandlesSubscribe, hostVars, clientVars, CountersTyped, Subs
  <2>8. ClientTyped'
    BY <1>5, <2>2 DEF ReceivesSubscribe, HandlesSubscribe, hostVars, clientVars, ClientTyped
  <2> QED BY <2>3, <2>4, <2>5, <2>6, <2>7, <2>8, TypeParts
<1>6. CASE ReceivesUnsubscribe
  <2>1. log' = log /\ host' = host
    BY <1>6 DEF ReceivesUnsubscribe, HandlesUnsubscribe, Evicts, hostVars, clientVars
  <2>2. Emitted' = Emitted /\ Message' = Message /\ Handler' = Handler
    BY <2>1, LogStays
  <2>3. FlagsTyped'
    BY <1>6 DEF ReceivesUnsubscribe, HandlesUnsubscribe, Evicts, hostVars, clientVars, FlagsTyped
  <2>4. HostTyped'
    BY <2>1, <2>2 DEF HostTyped
  <2>5. HandlerTyped'
    BY <1>6, <2>2 DEF ReceivesUnsubscribe, HandlesUnsubscribe, Evicts, hostVars, clientVars, HandlerTyped
  <2>6. MessagesTyped'
    BY <1>6, <2>2, HandleEffect DEF ReceivesUnsubscribe, HandlesUnsubscribe, Evicts, hostVars, clientVars, MessagesTyped
  <2>7. CountersTyped'
    BY <1>6 DEF ReceivesUnsubscribe, HandlesUnsubscribe, Evicts, hostVars, clientVars, CountersTyped, Subs
  <2>8. ClientTyped'
    BY <1>6, <2>2 DEF ReceivesUnsubscribe, HandlesUnsubscribe, Evicts, hostVars, clientVars, ClientTyped
  <2> QED BY <2>3, <2>4, <2>5, <2>6, <2>7, <2>8, TypeParts
<1>7. ASSUME NEW n \in Acts, ReceivesAction(n) PROVE TypeOK'
  <2>1. ApplyAndEmit(n)
    BY <1>7 DEF ReceivesAction, HandlesAction, hostVars, clientVars
  <2>2. /\ log' \in Seq(0..MaxActs) /\ host' \subseteq Emitted' /\ down' \in Seq(Message')
        /\ Emitted \subseteq Emitted' /\ Handler \subseteq Handler'
    BY <2>1, EmitEffect, n \in 0..MaxActs DEF Acts
  <2>3. FlagsTyped'
    BY <1>7 DEF ReceivesAction, HandlesAction, hostVars, clientVars, FlagsTyped
  <2>4. HostTyped'
    BY <2>1, <2>2 DEF HostTyped
  <2>5. HandlerTyped'
    BY <1>7, <2>2 DEF ReceivesAction, HandlesAction, hostVars, clientVars, HandlerTyped
  <2>6. MessagesTyped'
    BY <1>7, <2>2, HandleEffect DEF ReceivesAction, HandlesAction, hostVars, clientVars, MessagesTyped
  <2>7. CountersTyped'
    BY <1>7 DEF ReceivesAction, HandlesAction, hostVars, clientVars, CountersTyped, Subs
  <2>8. ClientTyped'
    BY <1>7, <2>2 DEF ReceivesAction, HandlesAction, hostVars, clientVars, ClientTyped
  <2> QED BY <2>3, <2>4, <2>5, <2>6, <2>7, <2>8, TypeParts
<1>8. ASSUME NEW r \in Subs, Restores(r) PROVE TypeOK'
  <2>1. log' = log /\ host' = host
    BY <1>8 DEF Restores, At, hostVars, clientVars
  <2>2. Emitted' = Emitted /\ Message' = Message /\ Handler' = Handler
    BY <2>1, LogStays
  <2>3. FlagsTyped'
    BY <1>8 DEF Restores, At, hostVars, clientVars, FlagsTyped
  <2>4. HostTyped'
    BY <2>1, <2>2 DEF HostTyped
  <2>5. HandlerTyped'
    BY <1>8, <2>2 DEF Restores, At, hostVars, clientVars, HandlerTyped, Handler, Stage
  <2>6. MessagesTyped'
    BY <1>8, <2>2 DEF Restores, At, hostVars, clientVars, MessagesTyped
  <2>7. CountersTyped'
    BY <1>8 DEF Restores, At, hostVars, clientVars, CountersTyped, Subs
  <2>8. ClientTyped'
    BY <1>8, <2>2 DEF Restores, At, hostVars, clientVars, ClientTyped
  <2> QED BY <2>3, <2>4, <2>5, <2>6, <2>7, <2>8, TypeParts
<1>9. ASSUME NEW r \in Subs, TakesSnapshot(r) PROVE TypeOK'
  <2>1. log' = log /\ host' = host
    BY <1>9 DEF TakesSnapshot, At, hostVars, clientVars
  <2>2. Emitted' = Emitted /\ Message' = Message /\ Handler' = Handler
    BY <2>1, LogStays
  <2>3. FlagsTyped'
    BY <1>9 DEF TakesSnapshot, At, hostVars, clientVars, FlagsTyped
  <2>4. HostTyped'
    BY <2>1, <2>2 DEF HostTyped
  <2>5. HandlerTyped'
    <3>1. handler' = [handler EXCEPT ![r] = Taken]
      BY <1>9 DEF TakesSnapshot, At, hostVars, clientVars
    <3>2. (Taken) \in Handler
      BY TakenTyped DEF Stage
    <3> QED BY <2>2, <3>1, <3>2 DEF HandlerTyped
  <2>6. MessagesTyped'
    BY <1>9, <2>2 DEF TakesSnapshot, At, hostVars, clientVars, MessagesTyped
  <2>7. CountersTyped'
    BY <1>9 DEF TakesSnapshot, At, hostVars, clientVars, CountersTyped, Subs
  <2>8. ClientTyped'
    BY <1>9, <2>2 DEF TakesSnapshot, At, hostVars, clientVars, ClientTyped
  <2> QED BY <2>3, <2>4, <2>5, <2>6, <2>7, <2>8, TypeParts
<1>10. ASSUME NEW r \in Subs, RestoreFails(r) PROVE TypeOK'
  <2>1. log' = log /\ host' = host
    BY <1>10 DEF RestoreFails, At, Evicts, Failure, hostVars, clientVars
  <2>2. Emitted' = Emitted /\ Message' = Message /\ Handler' = Handler
    BY <2>1, LogStays
  <2>3. FlagsTyped'
    BY <1>10 DEF RestoreFails, At, Evicts, Failure, hostVars, clientVars, FlagsTyped
  <2>4. HostTyped'
    BY <2>1, <2>2 DEF HostTyped
  <2>5. HandlerTyped'
    <3>1. handler' = [handler EXCEPT ![r] = Waiting("done")]
      BY <1>10 DEF RestoreFails, At, Evicts, Failure, hostVars, clientVars
    <3>2. (Waiting("done")) \in Handler
      BY TakenTyped DEF Stage
    <3> QED BY <2>2, <3>1, <3>2 DEF HandlerTyped
  <2>6. MessagesTyped'
    <3>1. Failure(r) \in Message
      BY DEF Failure, Message
    <3> QED BY <1>10, <2>2, <3>1, SendEffect DEF RestoreFails, hostVars, MessagesTyped
  <2>7. CountersTyped'
    BY <1>10 DEF RestoreFails, At, Evicts, Failure, hostVars, clientVars, CountersTyped, Subs
  <2>8. ClientTyped'
    BY <1>10, <2>2 DEF RestoreFails, At, Evicts, Failure, hostVars, clientVars, ClientTyped
  <2> QED BY <2>3, <2>4, <2>5, <2>6, <2>7, <2>8, TypeParts
<1>11. ASSUME NEW r \in Subs, Joins(r) PROVE TypeOK'
  <2>1. log' = log /\ host' = host
    BY <1>11 DEF Joins, At, hostVars, clientVars
  <2>2. Emitted' = Emitted /\ Message' = Message /\ Handler' = Handler
    BY <2>1, LogStays
  <2>3. FlagsTyped'
    BY <1>11 DEF Joins, At, hostVars, clientVars, FlagsTyped
  <2>4. HostTyped'
    BY <2>1, <2>2 DEF HostTyped
  <2>5. HandlerTyped'
    BY <1>11, <2>2 DEF Joins, At, hostVars, clientVars, HandlerTyped, Handler, Stage
  <2>6. MessagesTyped'
    BY <1>11, <2>2 DEF Joins, At, hostVars, clientVars, MessagesTyped
  <2>7. CountersTyped'
    BY <1>11 DEF Joins, At, hostVars, clientVars, CountersTyped, Subs
  <2>8. ClientTyped'
    BY <1>11, <2>2 DEF Joins, At, hostVars, clientVars, ClientTyped
  <2> QED BY <2>3, <2>4, <2>5, <2>6, <2>7, <2>8, TypeParts
<1>12. ASSUME NEW r \in Subs, Replies(r) PROVE TypeOK'
  <2>1. log' = log /\ host' = host
    BY <1>12 DEF Replies, At, Snapshot, hostVars, clientVars
  <2>2. Emitted' = Emitted /\ Message' = Message /\ Handler' = Handler
    BY <2>1, LogStays
  <2>3. FlagsTyped'
    BY <1>12 DEF Replies, At, Snapshot, hostVars, clientVars, FlagsTyped
  <2>4. HostTyped'
    BY <2>1, <2>2 DEF HostTyped
  <2>5. HandlerTyped'
    <3>1. handler' = [handler EXCEPT ![r] = Waiting("done")]
      BY <1>12 DEF Replies, At, Snapshot, hostVars, clientVars
    <3>2. (Waiting("done")) \in Handler
      BY TakenTyped DEF Stage
    <3> QED BY <2>2, <3>1, <3>2 DEF HandlerTyped
  <2>6. MessagesTyped'
    <3>1. Snapshot(r, handler[r]) \in Message
      BY DEF Snapshot, Message, HandlerTyped, Handler
    <3> QED BY <1>12, <2>2, <3>1, SendEffect DEF Replies, MessagesTyped
  <2>7. CountersTyped'
    BY <1>12 DEF Replies, At, Snapshot, hostVars, clientVars, CountersTyped, Subs
  <2>8. ClientTyped'
    BY <1>12, <2>2 DEF Replies, At, Snapshot, hostVars, clientVars, ClientTyped
  <2> QED BY <2>3, <2>4, <2>5, <2>6, <2>7, <2>8, TypeParts
<1>13. CASE Acquires
  <2>1. log' = log /\ host' = host
    BY <1>13 DEF Acquires, hostVars, clientVars
  <2>2. Emitted' = Emitted /\ Message' = Message /\ Handler' = Handler
    BY <2>1, LogStays
  <2>3. FlagsTyped'
    BY <1>13 DEF Acquires, hostVars, clientVars, FlagsTyped
  <2>4. HostTyped'
    BY <2>1, <2>2 DEF HostTyped
  <2>5. HandlerTyped'
    BY <1>13, <2>2 DEF Acquires, hostVars, clientVars, HandlerTyped
  <2>6. MessagesTyped'
    <3>1. [kind |-> "subscribe", req |-> asked + 1] \in Request
      BY <1>13 DEF Acquires, Request, Subs, Acts, CountersTyped
    <3> QED BY <1>13, <2>2, <3>1, AskEffect DEF Acquires, MessagesTyped
  <2>7. CountersTyped'
    BY <1>13 DEF Acquires, hostVars, clientVars, CountersTyped, Subs
  <2>8. ClientTyped'
    BY <1>13, <2>2 DEF Acquires, hostVars, clientVars, ClientTyped
  <2> QED BY <2>3, <2>4, <2>5, <2>6, <2>7, <2>8, TypeParts
<1>14. CASE Releases
  <2>1. log' = log /\ host' = host
    BY <1>14 DEF Releases, Empty, hostVars, clientVars
  <2>2. Emitted' = Emitted /\ Message' = Message /\ Handler' = Handler
    BY <2>1, LogStays
  <2>3. FlagsTyped'
    BY <1>14 DEF Releases, Empty, hostVars, clientVars, FlagsTyped
  <2>4. HostTyped'
    BY <2>1, <2>2 DEF HostTyped
  <2>5. HandlerTyped'
    BY <1>14, <2>2 DEF Releases, Empty, hostVars, clientVars, HandlerTyped
  <2>6. MessagesTyped'
    <3>1. [kind |-> "unsubscribe"] \in Request
      BY <1>14 DEF Releases, Request, Subs, Acts, CountersTyped
    <3> QED BY <1>14, <2>2, <3>1, AskEffect DEF Releases, MessagesTyped
  <2>7. CountersTyped'
    BY <1>14 DEF Releases, Empty, hostVars, clientVars, CountersTyped, Subs
  <2>8. ClientTyped'
    BY <1>14, <2>2 DEF Releases, Empty, hostVars, clientVars, ClientTyped
  <2> QED BY <2>3, <2>4, <2>5, <2>6, <2>7, <2>8, TypeParts
<1>15. CASE Dispatches
  <2>1. log' = log /\ host' = host
    BY <1>15 DEF Dispatches, hostVars, clientVars
  <2>2. Emitted' = Emitted /\ Message' = Message /\ Handler' = Handler
    BY <2>1, LogStays
  <2>3. FlagsTyped'
    BY <1>15 DEF Dispatches, hostVars, clientVars, FlagsTyped
  <2>4. HostTyped'
    BY <2>1, <2>2 DEF HostTyped
  <2>5. HandlerTyped'
    BY <1>15, <2>2 DEF Dispatches, hostVars, clientVars, HandlerTyped
  <2>6. MessagesTyped'
    <3>1. [kind |-> "action", seq |-> acted + 1] \in Request
      BY <1>15 DEF Dispatches, Request, Subs, Acts, CountersTyped
    <3> QED BY <1>15, <2>2, <3>1, AskEffect DEF Dispatches, MessagesTyped
  <2>7. CountersTyped'
    BY <1>15 DEF Dispatches, hostVars, clientVars, CountersTyped, Subs
  <2>8. ClientTyped'
    <3>1. acted + 1 \in Acts
      BY <1>15 DEF Dispatches, Acts, CountersTyped
    <3> QED BY <1>15, <2>2, <3>1 DEF Dispatches, hostVars, clientVars, ClientTyped
  <2> QED BY <2>3, <2>4, <2>5, <2>6, <2>7, <2>8, TypeParts
<1>16. ASSUME NEW i \in Emitted, GetsEnvelope(i) PROVE TypeOK'
  <2>1. log' = log /\ host' = host
    BY <1>16 DEF GetsEnvelope, ReceivesEnvelope, Reduce, Unechoed, hostVars, clientVars
  <2>2. Emitted' = Emitted /\ Message' = Message /\ Handler' = Handler
    BY <2>1, LogStays
  <2>3. FlagsTyped'
    BY <1>16 DEF GetsEnvelope, ReceivesEnvelope, Reduce, Unechoed, hostVars, clientVars, FlagsTyped
  <2>4. HostTyped'
    BY <2>1, <2>2 DEF HostTyped
  <2>5. HandlerTyped'
    BY <1>16, <2>2 DEF GetsEnvelope, ReceivesEnvelope, Reduce, Unechoed, hostVars, clientVars, HandlerTyped
  <2>6. MessagesTyped'
    BY <1>16, <2>2, ReceiveEffect DEF GetsEnvelope, ReceivesEnvelope, Reduce, Unechoed, hostVars, clientVars, MessagesTyped
  <2>7. CountersTyped'
    BY <1>16 DEF GetsEnvelope, ReceivesEnvelope, Reduce, Unechoed, hostVars, clientVars, CountersTyped, Subs
  <2>8. ClientTyped'
    <3>1. confirmed' \in [seqs : SUBSET Emitted, sound : BOOLEAN]
      BY <1>16, ReduceTyped DEF GetsEnvelope, ReceivesEnvelope, ClientTyped
    <3>2. pending' \subseteq pending /\ buffered' \subseteq buffered \cup {i} /\ early' = early
      BY <1>16, ReconcileTyped DEF GetsEnvelope, ReceivesEnvelope
    <3> QED BY <2>2, <3>1, <3>2 DEF ClientTyped
  <2> QED BY <2>3, <2>4, <2>5, <2>6, <2>7, <2>8, TypeParts
<1>17. ASSUME NEW m \in Message, GetsSnapshot(m) PROVE TypeOK'
  <2>1. log' = log /\ host' = host
    BY <1>17 DEF GetsSnapshot, HandlesSnapshot, Reduce, Unechoed, IsCurrent, hostVars, clientVars
  <2>2. Emitted' = Emitted /\ Message' = Message /\ Handler' = Handler
    BY <2>1, LogStays
  <2>3. FlagsTyped'
    BY <1>17 DEF GetsSnapshot, HandlesSnapshot, Reduce, Unechoed, IsCurrent, hostVars, clientVars, FlagsTyped
  <2>4. HostTyped'
    BY <2>1, <2>2 DEF HostTyped
  <2>5. HandlerTyped'
    BY <1>17, <2>2 DEF GetsSnapshot, HandlesSnapshot, Reduce, Unechoed, IsCurrent, hostVars, clientVars, HandlerTyped
  <2>6. MessagesTyped'
    BY <1>17, <2>2, ReceiveEffect DEF GetsSnapshot, HandlesSnapshot, Reduce, Unechoed, IsCurrent, hostVars, clientVars, MessagesTyped
  <2>7. CountersTyped'
    BY <1>17 DEF GetsSnapshot, HandlesSnapshot, Reduce, Unechoed, IsCurrent, hostVars, clientVars, CountersTyped, Subs
  <2>8. ClientTyped'
    <3>1. [seqs |-> m.seqs, sound |-> TRUE] \in [seqs : SUBSET Emitted, sound : BOOLEAN]
      BY <1>17, MessageFields DEF GetsSnapshot
    <3>2. {i \in buffered : i > m.from} \in SUBSET Emitted
      BY DEF ClientTyped
    <3>3. confirmed' \in [seqs : SUBSET Emitted, sound : BOOLEAN]
      <4>1. CASE IsCurrent(m.req)
        <5>1. confirmed' = Reduce([seqs |-> m.seqs, sound |-> TRUE], {i \in buffered : i > m.from})
          BY <1>17, <4>1 DEF GetsSnapshot, HandlesSnapshot
        <5> QED BY <3>1, <3>2, <5>1, ReduceTyped
      <4>2. CASE ~IsCurrent(m.req)
        BY <1>17, <4>2 DEF GetsSnapshot, HandlesSnapshot, ClientTyped
      <4> QED BY <4>1, <4>2
    <3>4. pending' \subseteq pending /\ buffered' \subseteq buffered /\ early' = early
      BY <1>17, ReconcileTyped DEF GetsSnapshot, HandlesSnapshot
    <3> QED BY <2>2, <3>3, <3>4 DEF ClientTyped
  <2> QED BY <2>3, <2>4, <2>5, <2>6, <2>7, <2>8, TypeParts
<1>18. ASSUME NEW m \in Message, GetsFailure(m) PROVE TypeOK'
  <2>1. log' = log /\ host' = host
    BY <1>18 DEF GetsFailure, HandlesFailure, IsCurrent, hostVars, clientVars
  <2>2. Emitted' = Emitted /\ Message' = Message /\ Handler' = Handler
    BY <2>1, LogStays
  <2>3. FlagsTyped'
    BY <1>18 DEF GetsFailure, HandlesFailure, IsCurrent, hostVars, clientVars, FlagsTyped
  <2>4. HostTyped'
    BY <2>1, <2>2 DEF HostTyped
  <2>5. HandlerTyped'
    BY <1>18, <2>2 DEF GetsFailure, HandlesFailure, IsCurrent, hostVars, clientVars, HandlerTyped
  <2>6. MessagesTyped'
    BY <1>18, <2>2, ReceiveEffect DEF GetsFailure, HandlesFailure, IsCurrent, hostVars, clientVars, MessagesTyped
  <2>7. CountersTyped'
    BY <1>18 DEF GetsFailure, HandlesFailure, IsCurrent, hostVars, clientVars, CountersTyped, Subs
  <2>8. ClientTyped'
    BY <1>18, <2>2 DEF GetsFailure, HandlesFailure, IsCurrent, hostVars, clientVars, ClientTyped
  <2> QED BY <2>3, <2>4, <2>5, <2>6, <2>7, <2>8, TypeParts
<1>19. CASE UNCHANGED vars
  <2>1. log' = log /\ host' = host
    BY <1>19 DEF vars, hostVars, clientVars
  <2>2. Emitted' = Emitted /\ Message' = Message /\ Handler' = Handler
    BY <2>1, LogStays
  <2>3. FlagsTyped'
    BY <1>19 DEF vars, hostVars, clientVars, FlagsTyped
  <2>4. HostTyped'
    BY <2>1, <2>2 DEF HostTyped
  <2>5. HandlerTyped'
    BY <1>19, <2>2 DEF vars, hostVars, clientVars, HandlerTyped
  <2>6. MessagesTyped'
    BY <1>19, <2>2 DEF vars, hostVars, clientVars, MessagesTyped
  <2>7. CountersTyped'
    BY <1>19 DEF vars, hostVars, clientVars, CountersTyped, Subs
  <2>8. ClientTyped'
    BY <1>19, <2>2 DEF vars, hostVars, clientVars, ClientTyped
  <2> QED BY <2>3, <2>4, <2>5, <2>6, <2>7, <2>8, TypeParts
<1> QED
  BY Steps, <1>1, <1>2, <1>3, <1>4, <1>5, <1>6, <1>7, <1>8, <1>9, <1>10, <1>11, <1>12, <1>13, <1>14, <1>15, <1>16, <1>17, <1>18, <1>19

-----------------------------------------------------------------------------
(* Messages under way, by position *)

LEMMA DownTyped ==
  ASSUME TypeOK
  PROVE  \A k \in Nat :
           /\ IsEnvelope(k) => down[k].seq \in Emitted /\ down[k].seq \in Nat /\ down[k].seq <= Len(log)
           /\ IsSnapshot(k) => /\ IsAnswer(k) /\ down[k].seqs \subseteq Emitted
                               /\ down[k].from \in Nat /\ down[k].from <= Len(log)
           /\ IsAnswer(k) => ~IsEnvelope(k) /\ down[k].req \in Subs
<1>1. Len(log) \in Nat
  BY TypeParts DEF HostTyped
<1>2. ASSUME NEW k \in Nat, k \in 1..Len(down)
      PROVE  /\ down[k].kind = "envelope" => down[k].seq \in Emitted
             /\ down[k].kind = "snapshot" => down[k].seqs \subseteq Emitted /\ down[k].from \in 0..Len(log)
             /\ down[k].kind # "envelope" => down[k].req \in Subs
  <2>1. down[k] \in Message
    BY <1>2, TypeParts DEF MessagesTyped
  <2> QED BY <2>1, MessageFields
<1> QED BY <1>1, <1>2 DEF IsEnvelope, IsSnapshot, IsAnswer, Emitted

\* A message sent is the last one under way.
LEMMA DownGrown ==
  ASSUME TypeOK, NEW m, Grown(down, down', m)
  PROVE  /\ Len(down) \in Nat
         /\ down'[Len(down) + 1] = m
         /\ \A k \in Nat :
              /\ IsEnvelope(k)' <=> IsEnvelope(k) \/ (k = Len(down) + 1 /\ m.kind = "envelope")
              /\ IsSnapshot(k)' <=> IsSnapshot(k) \/ (k = Len(down) + 1 /\ m.kind = "snapshot")
              /\ IsAnswer(k)' <=> IsAnswer(k) \/ (k = Len(down) + 1 /\ m.kind # "envelope")
              /\ IsEnvelope(k) \/ IsSnapshot(k) \/ IsAnswer(k) => k <= Len(down) /\ down'[k] = down[k]
BY DEF Grown, IsEnvelope, IsSnapshot, IsAnswer

\* A message received was the first one; the others move up.
LEMMA DownDropped ==
  ASSUME TypeOK, Dropped(down, down')
  PROVE  /\ 1 \in 1..Len(down)
         /\ \A k \in Nat :
              /\ IsEnvelope(k)' <=> k # 0 /\ IsEnvelope(k + 1)
              /\ IsSnapshot(k)' <=> k # 0 /\ IsSnapshot(k + 1)
              /\ IsAnswer(k)' <=> k # 0 /\ IsAnswer(k + 1)
              /\ IsEnvelope(k)' \/ IsSnapshot(k)' \/ IsAnswer(k)' => down'[k] = down[k + 1]
              /\ (IsEnvelope(k) \/ IsSnapshot(k) \/ IsAnswer(k)) /\ k # 1 =>
                   k - 1 \in Nat /\ k - 1 # 0 /\ (k - 1) + 1 = k
BY DEF Dropped, IsEnvelope, IsSnapshot, IsAnswer

LEMMA DownStays ==
  ASSUME down' = down
  PROVE  \A k : /\ IsEnvelope(k)' <=> IsEnvelope(k)
                /\ IsSnapshot(k)' <=> IsSnapshot(k)
                /\ IsAnswer(k)' <=> IsAnswer(k)
BY DEF IsEnvelope, IsSnapshot, IsAnswer

-----------------------------------------------------------------------------
(* The order of envelopes *)

\* Other steps leave all that it speaks of.
LEMMA OrderFrame ==
  ASSUME OrderInv, UNCHANGED <<down, confirmed, buffered, handler>>
  PROVE  OrderInv'
BY DownStays DEF OrderInv, EnvelopesAscend, AheadOfClient, SnapshotsCover, TakenCovers, AppliedInOrderOnce

\* A snapshot is ahead of the envelopes it does not cover, and these are in order.
LEMMA OrderStep ==
  ASSUME TypeOK, OrderInv, [Next]_vars
  PROVE  OrderInv'
<1> USE SyncAssumption
<1>0. FlagsTyped /\ HostTyped /\ HandlerTyped /\ MessagesTyped /\ CountersTyped /\ ClientTyped
  BY TypeParts
<1> USE <1>0 DEF OrderInv
<1>1. CASE HostActs
  <2>1. ApplyAndEmit(0)
    BY <1>1 DEF HostActs, hostVars, clientVars
  <2>2. /\ Len(log') = Len(log) + 1
        /\ IF Reaches THEN Grown(down, down', Envelope(Len(log) + 1)) ELSE down' = down
    BY <2>1, EmitEffect, 0 \in 0..MaxActs DEF Acts
  <2>3. confirmed' = confirmed /\ buffered' = buffered /\ handler' = handler
    BY <1>1 DEF HostActs, hostVars, clientVars
  <2>4. Envelope(Len(log) + 1).kind = "envelope" /\ Envelope(Len(log) + 1).seq = Len(log) + 1
    BY DEF Envelope
  <2>5. EnvelopesAscend'
    BY <2>2, <2>4, DownGrown, DownStays, DownTyped DEF EnvelopesAscend
  <2>6. AheadOfClient'
    BY <2>2, <2>3, <2>4, DownGrown, DownStays, DownTyped DEF AheadOfClient, ClientTyped, Emitted
  <2>7. SnapshotsCover'
    BY <2>2, <2>4, DownGrown, DownStays, DownTyped DEF SnapshotsCover
  <2>8. TakenCovers' /\ AppliedInOrderOnce'
    BY <2>3 DEF TakenCovers, AppliedInOrderOnce
  <2> QED BY <2>5, <2>6, <2>7, <2>8 DEF OrderInv
<1>2. CASE OtherSubscribes
  BY <1>2, OrderFrame DEF OtherSubscribes, hostVars, clientVars
<1>3. CASE OtherRestores
  BY <1>3, OrderFrame DEF OtherRestores, hostVars, clientVars
<1>4. CASE OtherLeaves
  BY <1>4, OrderFrame DEF OtherLeaves, Evicts, hostVars, clientVars
<1>5. ASSUME NEW r \in Subs, ReceivesSubscribe(r) PROVE OrderInv'
  <2>1. down' = down
    BY <1>5 DEF ReceivesSubscribe, HandlesSubscribe, hostVars, clientVars
  <2>2. confirmed' = confirmed /\ buffered' = buffered
    BY <1>5 DEF ReceivesSubscribe, HandlesSubscribe, hostVars, clientVars
  <2>3. AheadOfClient' /\ AppliedInOrderOnce'
    BY <2>1, <2>2, DownStays DEF AheadOfClient, AppliedInOrderOnce
  <2>4. EnvelopesAscend' /\ SnapshotsCover'
    BY <2>1, DownStays DEF EnvelopesAscend, SnapshotsCover
  <2>5. handler' = [handler EXCEPT ![r] = IF loaded THEN Taken ELSE Waiting("restoring")]
    BY <1>5 DEF ReceivesSubscribe, HandlesSubscribe, hostVars, clientVars
  <2>6. \A i \in (IF loaded THEN Taken ELSE Waiting("restoring")).seqs : i <= (IF loaded THEN Taken ELSE Waiting("restoring")).from
    BY TakenTyped DEF Stage
  <2>7. TakenCovers'
    BY <2>5, <2>6 DEF TakenCovers, HandlerTyped
  <2> QED BY <2>3, <2>4, <2>7 DEF OrderInv
<1>6. CASE ReceivesUnsubscribe
  BY <1>6, OrderFrame DEF ReceivesUnsubscribe, HandlesUnsubscribe, Evicts, hostVars, clientVars
<1>7. ASSUME NEW n \in Acts, ReceivesAction(n) PROVE OrderInv'
  <2>1. ApplyAndEmit(n)
    BY <1>7 DEF ReceivesAction, HandlesAction, hostVars, clientVars
  <2>2. /\ Len(log') = Len(log) + 1
        /\ IF Reaches THEN Grown(down, down', Envelope(Len(log) + 1)) ELSE down' = down
    BY <2>1, EmitEffect, 0 \in 0..MaxActs, n \in 0..MaxActs DEF Acts
  <2>3. confirmed' = confirmed /\ buffered' = buffered /\ handler' = handler
    BY <1>7 DEF ReceivesAction, HandlesAction, hostVars, clientVars
  <2>4. Envelope(Len(log) + 1).kind = "envelope" /\ Envelope(Len(log) + 1).seq = Len(log) + 1
    BY DEF Envelope
  <2>5. EnvelopesAscend'
    BY <2>2, <2>4, DownGrown, DownStays, DownTyped DEF EnvelopesAscend
  <2>6. AheadOfClient'
    BY <2>2, <2>3, <2>4, DownGrown, DownStays, DownTyped DEF AheadOfClient, ClientTyped, Emitted
  <2>7. SnapshotsCover'
    BY <2>2, <2>4, DownGrown, DownStays, DownTyped DEF SnapshotsCover
  <2>8. TakenCovers' /\ AppliedInOrderOnce'
    BY <2>3 DEF TakenCovers, AppliedInOrderOnce
  <2> QED BY <2>5, <2>6, <2>7, <2>8 DEF OrderInv
<1>8. ASSUME NEW r \in Subs, Restores(r) PROVE OrderInv'
  <2>1. down' = down
    BY <1>8 DEF Restores, At, hostVars, clientVars
  <2>2. confirmed' = confirmed /\ buffered' = buffered
    BY <1>8 DEF Restores, At, hostVars, clientVars
  <2>3. AheadOfClient' /\ AppliedInOrderOnce'
    BY <2>1, <2>2, DownStays DEF AheadOfClient, AppliedInOrderOnce
  <2>4. EnvelopesAscend' /\ SnapshotsCover'
    BY <2>1, DownStays DEF EnvelopesAscend, SnapshotsCover
  <2>5. TakenCovers'
    BY <1>8 DEF Restores, TakenCovers, HandlerTyped, Handler
  <2> QED BY <2>3, <2>4, <2>5 DEF OrderInv
<1>9. ASSUME NEW r \in Subs, TakesSnapshot(r) PROVE OrderInv'
  <2>1. down' = down
    BY <1>9 DEF TakesSnapshot, At, hostVars, clientVars
  <2>2. confirmed' = confirmed /\ buffered' = buffered
    BY <1>9 DEF TakesSnapshot, At, hostVars, clientVars
  <2>3. AheadOfClient' /\ AppliedInOrderOnce'
    BY <2>1, <2>2, DownStays DEF AheadOfClient, AppliedInOrderOnce
  <2>4. EnvelopesAscend' /\ SnapshotsCover'
    BY <2>1, DownStays DEF EnvelopesAscend, SnapshotsCover
  <2>5. handler' = [handler EXCEPT ![r] = Taken]
    BY <1>9 DEF TakesSnapshot, At, hostVars, clientVars
  <2>6. \A i \in (Taken).seqs : i <= (Taken).from
    BY TakenTyped DEF Stage
  <2>7. TakenCovers'
    BY <2>5, <2>6 DEF TakenCovers, HandlerTyped
  <2> QED BY <2>3, <2>4, <2>7 DEF OrderInv
<1>10. ASSUME NEW r \in Subs, RestoreFails(r) PROVE OrderInv'
  <2>1. Failure(r) \in Message
    BY DEF Message, Failure, Snapshot
  <2>2. Grown(down, down', Failure(r))
    BY <1>10, <2>1, SendEffect DEF RestoreFails
  <2>3. /\ Failure(r).kind = "failure"
    BY DEF Failure, Snapshot
  <2>4. /\ confirmed' = confirmed /\ buffered' = buffered /\ log' = log
        /\ handler' = [handler EXCEPT ![r] = Waiting("done")]
    BY <1>10 DEF RestoreFails, At, Evicts, Failure, hostVars, clientVars
  <2>5. EnvelopesAscend'
    BY <2>2, <2>3, DownGrown DEF EnvelopesAscend
  <2>6. AheadOfClient'
    BY <2>2, <2>4, <2>3, DownGrown DEF AheadOfClient
  <2>7. SnapshotsCover'
    BY <2>2, <2>3, DownGrown, DownTyped DEF SnapshotsCover, TakenCovers
  <2>8. TakenCovers'
    BY <2>4, TakenTyped DEF TakenCovers, HandlerTyped, Stage
  <2>9. AppliedInOrderOnce'
    BY <2>4 DEF AppliedInOrderOnce
  <2> QED BY <2>5, <2>6, <2>7, <2>8, <2>9 DEF OrderInv
<1>11. ASSUME NEW r \in Subs, Joins(r) PROVE OrderInv'
  <2>1. down' = down
    BY <1>11 DEF Joins, At, hostVars, clientVars
  <2>2. confirmed' = confirmed /\ buffered' = buffered
    BY <1>11 DEF Joins, At, hostVars, clientVars
  <2>3. AheadOfClient' /\ AppliedInOrderOnce'
    BY <2>1, <2>2, DownStays DEF AheadOfClient, AppliedInOrderOnce
  <2>4. EnvelopesAscend' /\ SnapshotsCover'
    BY <2>1, DownStays DEF EnvelopesAscend, SnapshotsCover
  <2>5. TakenCovers'
    BY <1>11 DEF Joins, TakenCovers, HandlerTyped, Handler
  <2> QED BY <2>3, <2>4, <2>5 DEF OrderInv
<1>12. ASSUME NEW r \in Subs, Replies(r) PROVE OrderInv'
  <2>1. Snapshot(r, handler[r]) \in Message
    BY DEF HandlerTyped, Handler, Message, Failure, Snapshot
  <2>2. Grown(down, down', Snapshot(r, handler[r]))
    BY <1>12, <2>1, SendEffect DEF Replies
  <2>3. /\ Snapshot(r, handler[r]).kind = "snapshot"
        /\ Snapshot(r, handler[r]).seqs = handler[r].seqs /\ Snapshot(r, handler[r]).from = handler[r].from
    BY DEF Failure, Snapshot
  <2>4. /\ confirmed' = confirmed /\ buffered' = buffered /\ log' = log
        /\ handler' = [handler EXCEPT ![r] = Waiting("done")]
    BY <1>12 DEF Replies, At, Snapshot, hostVars, clientVars
  <2>5. EnvelopesAscend'
    BY <2>2, <2>3, DownGrown DEF EnvelopesAscend
  <2>6. AheadOfClient'
    BY <2>2, <2>4, <2>3, DownGrown DEF AheadOfClient
  <2>7. SnapshotsCover'
    BY <2>2, <2>3, DownGrown, DownTyped DEF SnapshotsCover, TakenCovers
  <2>8. TakenCovers'
    BY <2>4, TakenTyped DEF TakenCovers, HandlerTyped, Stage
  <2>9. AppliedInOrderOnce'
    BY <2>4 DEF AppliedInOrderOnce
  <2> QED BY <2>5, <2>6, <2>7, <2>8, <2>9 DEF OrderInv
<1>13. CASE Acquires
  BY <1>13, OrderFrame DEF Acquires, hostVars, clientVars
<1>14. CASE Releases
  <2>1. down' = down
    BY <1>14 DEF Releases, Empty, hostVars, clientVars
  <2>2. confirmed' = Empty /\ buffered' = {}
    BY <1>14 DEF Releases, Empty, hostVars, clientVars
  <2>3. AheadOfClient' /\ AppliedInOrderOnce'
    BY <2>2 DEF AheadOfClient, AppliedInOrderOnce, Empty
  <2>4. EnvelopesAscend' /\ SnapshotsCover'
    BY <2>1, DownStays DEF EnvelopesAscend, SnapshotsCover
  <2>5. TakenCovers'
    BY <1>14 DEF Releases, Empty, hostVars, clientVars, TakenCovers
  <2> QED BY <2>3, <2>4, <2>5 DEF OrderInv
<1>15. CASE Dispatches
  BY <1>15, OrderFrame DEF Dispatches, hostVars, clientVars
<1>16. ASSUME NEW i \in Emitted, GetsEnvelope(i) PROVE OrderInv'
  <2>1. Dropped(down, down') /\ Head(down) = down[1] /\ Head(down) \in Message
    BY <1>16, ReceiveEffect DEF GetsEnvelope
  <2>2. EnvelopesAscend'
    BY <2>1, DownDropped DEF EnvelopesAscend
  <2>3. SnapshotsCover'
    BY <2>1, DownDropped DEF SnapshotsCover
  <2>4. TakenCovers'
    BY <1>16 DEF GetsEnvelope, hostVars, TakenCovers
  <2>5. IsEnvelope(1) /\ down[1].seq = i
    BY <1>16, <2>1, DownDropped DEF GetsEnvelope, IsEnvelope
  <2>6. \A j \in confirmed.seqs \cup buffered : j < i
    BY <2>5, 1 \in Nat DEF AheadOfClient
  <2>7. \A k \in Nat : IsEnvelope(k)' => i < down'[k].seq
    BY <2>1, <2>5, DownDropped DEF EnvelopesAscend
  <2>8. confirmed'.seqs \cup buffered' \subseteq confirmed.seqs \cup buffered \cup {i}
    BY <1>16, ReduceTyped DEF GetsEnvelope, ReceivesEnvelope, ClientTyped
  <2>9. AheadOfClient'
    BY <2>1, <2>8, <2>7, DownDropped DEF AheadOfClient
  <2>10. AppliedInOrderOnce'
    BY <1>16, <2>6, ReduceTyped DEF GetsEnvelope, ReceivesEnvelope, AppliedInOrderOnce, ClientTyped
  <2> QED BY <2>2, <2>3, <2>4, <2>9, <2>10 DEF OrderInv
<1>17. ASSUME NEW m \in Message, GetsSnapshot(m) PROVE OrderInv'
  <2>1. Dropped(down, down') /\ Head(down) = down[1] /\ Head(down) \in Message
    BY <1>17, ReceiveEffect DEF GetsSnapshot
  <2>2. EnvelopesAscend'
    BY <2>1, DownDropped DEF EnvelopesAscend
  <2>3. SnapshotsCover'
    BY <2>1, DownDropped DEF SnapshotsCover
  <2>4. TakenCovers'
    BY <1>17 DEF GetsSnapshot, hostVars, TakenCovers
  <2>5. IsSnapshot(1) /\ down[1] = m
    BY <1>17, <2>1, DownDropped DEF GetsSnapshot, IsSnapshot
  <2>6. /\ \A j \in m.seqs : j <= m.from
        /\ \A k \in Nat : IsEnvelope(k) /\ 1 < k => m.from < down[k].seq
    BY <2>5, 1 \in Nat DEF SnapshotsCover
  <2>7. \A k \in Nat : IsEnvelope(k)' => m.from < down'[k].seq
    BY <2>1, <2>6, DownDropped
  <2>8. /\ m.seqs \subseteq Emitted /\ m.from \in Nat
        /\ [seqs |-> m.seqs, sound |-> TRUE] \in [seqs : SUBSET Emitted, sound : BOOLEAN]
        /\ {j \in buffered : j > m.from} \in SUBSET Emitted
    BY <2>1, <1>17, MessageFields DEF GetsSnapshot, ClientTyped, HostTyped
  <2>9. ASSUME IsCurrent(m.req)
        PROVE  /\ confirmed'.seqs = m.seqs \cup {j \in buffered : j > m.from}
               /\ confirmed'.sound
               /\ buffered' = {}
    <3>1. confirmed' = Reduce([seqs |-> m.seqs, sound |-> TRUE], {j \in buffered : j > m.from})
      BY <1>17, <2>9 DEF GetsSnapshot, HandlesSnapshot
    <3>2. buffered' = {}
      BY <1>17, <2>9 DEF GetsSnapshot, HandlesSnapshot
    <3>3. \A x \in m.seqs, y \in {j \in buffered : j > m.from} : x < y
      BY <2>6, <2>8 DEF Emitted, ClientTyped
    <3> QED BY <2>8, <3>1, <3>2, <3>3, ReduceTyped
  <2>10. ASSUME ~IsCurrent(m.req) PROVE confirmed' = confirmed /\ buffered' = buffered
    BY <1>17, <2>10 DEF GetsSnapshot, HandlesSnapshot
  <2>11. AheadOfClient'
    <3>1. CASE IsCurrent(m.req)
      <4> SUFFICES ASSUME NEW k \in Nat, IsEnvelope(k)', NEW j \in m.seqs \cup buffered
                   PROVE  j < down'[k].seq
        BY <3>1, <2>9 DEF AheadOfClient
      <4>1. CASE j \in m.seqs
        <5>1. j <= m.from /\ m.from < down'[k].seq /\ j \in Nat
          BY <4>1, <2>6, <2>7, <2>8 DEF Emitted
        <5>2. down'[k].seq \in Nat
          BY <2>1, DownDropped, DownTyped
        <5> QED BY <5>1, <5>2, <2>8
      <4>2. CASE j \in buffered
        BY <4>2, <2>1, DownDropped DEF AheadOfClient
      <4> QED BY <4>1, <4>2
    <3>2. CASE ~IsCurrent(m.req)
      BY <3>2, <2>10, <2>1, DownDropped DEF AheadOfClient
    <3> QED BY <3>1, <3>2
  <2>12. AppliedInOrderOnce'
    BY <2>9, <2>10 DEF AppliedInOrderOnce
  <2> QED BY <2>2, <2>3, <2>4, <2>11, <2>12 DEF OrderInv
<1>18. ASSUME NEW m \in Message, GetsFailure(m) PROVE OrderInv'
  <2>1. Dropped(down, down') /\ Head(down) = down[1] /\ Head(down) \in Message
    BY <1>18, ReceiveEffect DEF GetsFailure
  <2>2. EnvelopesAscend'
    BY <2>1, DownDropped DEF EnvelopesAscend
  <2>3. SnapshotsCover'
    BY <2>1, DownDropped DEF SnapshotsCover
  <2>4. TakenCovers'
    BY <1>18 DEF GetsFailure, hostVars, TakenCovers
  <2>5. confirmed' = confirmed /\ buffered' = buffered
    BY <1>18 DEF GetsFailure, HandlesFailure
  <2>6. AheadOfClient'
    BY <2>5, <2>1, DownDropped DEF AheadOfClient
  <2>7. AppliedInOrderOnce'
    BY <1>18 DEF GetsFailure, HandlesFailure, IsCurrent, hostVars, clientVars, AppliedInOrderOnce
  <2> QED BY <2>2, <2>3, <2>4, <2>6, <2>7 DEF OrderInv
<1>19. CASE UNCHANGED vars
  BY <1>19, OrderFrame DEF vars, hostVars, clientVars
<1> QED
  BY Steps, <1>1, <1>2, <1>3, <1>4, <1>5, <1>6, <1>7, <1>8, <1>9, <1>10, <1>11, <1>12, <1>13, <1>14, <1>15, <1>16, <1>17, <1>18, <1>19

-----------------------------------------------------------------------------
(* Requests and their answers *)

LEMMA UpTyped ==
  ASSUME TypeOK
  PROVE  \A k \in Nat : IsRequest(k) => up[k].req \in Subs /\ up[k].req \in Nat
<1>1. ASSUME NEW k \in Nat, IsRequest(k) PROVE up[k].req \in Subs
  <2>1. up[k] \in Request /\ up[k].kind = "subscribe"
    BY <1>1, TypeParts DEF MessagesTyped, IsRequest
  <2> QED BY <2>1, RequestFields
<1> QED BY <1>1 DEF Subs

LEMMA UpGrown ==
  ASSUME TypeOK, NEW m, Grown(up, up', m)
  PROVE  /\ Len(up) \in Nat
         /\ up'[Len(up) + 1] = m
         /\ Len(up') = Len(up) + 1
         /\ \A k \in 1..Len(up) : up'[k] = up[k]
         /\ \A k \in Nat :
              /\ IsRequest(k)' <=> IsRequest(k) \/ (k = Len(up) + 1 /\ m.kind = "subscribe")
              /\ IsRequest(k) => k <= Len(up) /\ up'[k] = up[k]
BY DEF Grown, IsRequest

LEMMA UpDropped ==
  ASSUME TypeOK, Dropped(up, up')
  PROVE  /\ 1 \in 1..Len(up) /\ Len(up') \in Nat /\ Len(up) = Len(up') + 1
         /\ \A k \in 1..Len(up') : up'[k] = up[k + 1]
         /\ \A k \in Nat :
              /\ IsRequest(k)' <=> k # 0 /\ IsRequest(k + 1)
              /\ IsRequest(k)' => up'[k] = up[k + 1]
BY DEF Dropped, IsRequest

LEMMA UpStays ==
  ASSUME up' = up
  PROVE  \A k : IsRequest(k)' <=> IsRequest(k)
BY DEF IsRequest

\* Request r has reached stage s.
Moves(r, s) == \A q \in Subs : handler'[q].stage = IF q = r THEN s ELSE handler[q].stage

LEMMA HandlerMoves ==
  ASSUME TypeOK, NEW r \in Subs
  PROVE  /\ ReceivesSubscribe(r) => \E s \in {"answering", "restoring"} : Moves(r, s)
         /\ Restores(r) => Moves(r, "configuring") /\ At(r, "restoring")
         /\ TakesSnapshot(r) => Moves(r, "answering") /\ At(r, "configuring")
         /\ RestoreFails(r) => Moves(r, "done") /\ (At(r, "restoring") \/ At(r, "configuring"))
         /\ Joins(r) => Moves(r, "replying") /\ At(r, "answering")
         /\ Replies(r) => Moves(r, "done") /\ IsAnswering(r)
<1>1. HandlerTyped /\ Taken.stage = "answering"
      /\ Waiting("restoring").stage = "restoring" /\ Waiting("done").stage = "done"
  BY TypeParts, TakenTyped DEF Stage
<1>2. ReceivesSubscribe(r) => \E s \in {"answering", "restoring"} : Moves(r, s)
  BY <1>1 DEF ReceivesSubscribe, HandlesSubscribe, Moves, HandlerTyped
<1>3. Restores(r) => Moves(r, "configuring") /\ At(r, "restoring")
  BY <1>1 DEF Restores, Moves, HandlerTyped, Handler
<1>4. TakesSnapshot(r) => Moves(r, "answering") /\ At(r, "configuring")
  BY <1>1 DEF TakesSnapshot, Moves, HandlerTyped
<1>5. RestoreFails(r) => Moves(r, "done") /\ (At(r, "restoring") \/ At(r, "configuring"))
  BY <1>1 DEF RestoreFails, Moves, HandlerTyped
<1>6. Joins(r) => Moves(r, "replying") /\ At(r, "answering")
  BY <1>1 DEF Joins, Moves, HandlerTyped, Handler
<1>7. Replies(r) => Moves(r, "done") /\ IsAnswering(r)
  BY <1>1 DEF Replies, Moves, HandlerTyped, IsAnswering
<1> QED BY <1>2, <1>3, <1>4, <1>5, <1>6, <1>7

\* The messages that are left keep what was said of them.
LEMMA AnswersDrop ==
  ASSUME TypeOK, AnswersAreDone, Dropped(down, down')
  PROVE  /\ \A k \in Nat : IsAnswer(k)' => At(down'[k].req, "done") /\ down'[k].req \in Subs
         /\ \A j, k \in Nat : IsAnswer(j)' /\ IsAnswer(k)' /\ down'[j].req = down'[k].req => j = k
<1>1. ASSUME NEW k \in Nat, IsAnswer(k)'
      PROVE  k + 1 \in Nat /\ IsAnswer(k + 1) /\ down'[k] = down[k + 1]
  BY <1>1, DownDropped
<1>2. ASSUME NEW k \in Nat, IsAnswer(k)'
      PROVE  At(down'[k].req, "done") /\ down'[k].req \in Subs
  BY <1>1, <1>2, DownTyped DEF AnswersAreDone
<1>3. ASSUME NEW j \in Nat, NEW k \in Nat, IsAnswer(j)', IsAnswer(k)', down'[j].req = down'[k].req
      PROVE  j = k
  <2>1. j + 1 = k + 1
    BY <1>1, <1>3 DEF AnswersAreDone
  <2> QED BY <2>1
<1> QED BY <1>2, <1>3

LEMMA RequestsDrop ==
  ASSUME TypeOK, RequestsAreNew, Dropped(up, up')
  PROVE  /\ \A k \in Nat : IsRequest(k)' =>
              /\ up'[k].req <= asked /\ At(up'[k].req, "none") /\ up'[k].req \in Subs
              /\ IsRequest(1) => up'[k].req # up[1].req
         /\ \A j, k \in Nat : IsRequest(j)' /\ IsRequest(k)' /\ up'[j].req = up'[k].req => j = k
<1>1. ASSUME NEW k \in Nat, IsRequest(k)'
      PROVE  k + 1 \in Nat /\ k + 1 # 1 /\ IsRequest(k + 1) /\ up'[k] = up[k + 1]
  BY <1>1, UpDropped
<1>2. ASSUME NEW k \in Nat, IsRequest(k)'
      PROVE  /\ up'[k].req <= asked /\ At(up'[k].req, "none") /\ up'[k].req \in Subs
             /\ IsRequest(1) => up'[k].req # up[1].req
  BY <1>1, <1>2, UpTyped, 1 \in Nat DEF RequestsAreNew
<1>3. ASSUME NEW j \in Nat, NEW k \in Nat, IsRequest(j)', IsRequest(k)', up'[j].req = up'[k].req
      PROVE  j = k
  <2>1. j + 1 = k + 1
    BY <1>1, <1>3 DEF RequestsAreNew
  <2> QED BY <2>1
<1> QED BY <1>2, <1>3

\* Other steps leave all that it speaks of.
LEMMA RequestFrame ==
  ASSUME RequestInv, UNCHANGED <<up, down, entry, hydrated, asked, handler>>
  PROVE  RequestInv'
BY UpStays, DownStays DEF RequestInv, RequestsAreNew, AnswersAreDone, HydratedIsAnswered, At

\* A request moves on once: from the way to the host to its handler, to its answer.
LEMMA RequestStep ==
  ASSUME TypeOK, RequestInv, [Next]_vars
  PROVE  RequestInv'
<1> USE SyncAssumption
<1>0. FlagsTyped /\ HostTyped /\ HandlerTyped /\ MessagesTyped /\ CountersTyped /\ ClientTyped
  BY TypeParts
<1> USE <1>0 DEF RequestInv
<1>1. CASE HostActs
  <2>1. ApplyAndEmit(0)
    BY <1>1 DEF HostActs, hostVars, clientVars
  <2>2. IF Reaches THEN Grown(down, down', Envelope(Len(log) + 1)) ELSE down' = down
    BY <2>1, EmitEffect, 0 \in 0..MaxActs DEF Acts
  <2>3. Envelope(Len(log) + 1).kind = "envelope" /\ Envelope(Len(log) + 1).seq = Len(log) + 1
    BY DEF Envelope
  <2>4. up' = up
    BY <1>1 DEF HostActs, hostVars, clientVars
  <2>5. handler' = handler
    BY <1>1 DEF HostActs, hostVars, clientVars
  <2>6. hydrated' = hydrated /\ entry' = entry /\ asked' = asked
    BY <1>1 DEF HostActs, hostVars, clientVars
  <2>7. RequestsAreNew'
    BY <2>6, <2>4, UpStays, <2>5, UpTyped DEF RequestsAreNew, At
  <2>8. AnswersAreDone'
    BY <2>2, <2>3, DownGrown, DownStays, <2>5, DownTyped DEF AnswersAreDone, At
  <2>9. HydratedIsAnswered'
    BY <2>6, <2>2, <2>3, DownGrown, DownStays, <2>5 DEF HydratedIsAnswered, At
  <2>10. (entry # 0 => entry = asked)'
    BY <2>6
  <2> QED BY <2>7, <2>8, <2>9, <2>10 DEF RequestInv
<1>2. CASE OtherSubscribes
  BY <1>2, RequestFrame DEF OtherSubscribes, hostVars, clientVars
<1>3. CASE OtherRestores
  BY <1>3, RequestFrame DEF OtherRestores, hostVars, clientVars
<1>4. CASE OtherLeaves
  BY <1>4, RequestFrame DEF OtherLeaves, Evicts, hostVars, clientVars
<1>5. ASSUME NEW r \in Subs, ReceivesSubscribe(r) PROVE RequestInv'
  <2>1. down' = down
    BY <1>5 DEF ReceivesSubscribe, HandlesSubscribe, hostVars, clientVars
  <2>2. Dropped(up, up') /\ Head(up) = up[1]
    BY <1>5, HandleEffect DEF ReceivesSubscribe
  <2>3. \E s \in {"answering", "restoring"} : Moves(r, s)
    BY <1>5, HandlerMoves
  <2>4. hydrated' = hydrated /\ entry' = entry /\ asked' = asked
    BY <1>5 DEF ReceivesSubscribe, HandlesSubscribe, hostVars, clientVars
  <2>5. IsRequest(1) /\ up[1].req = r
    BY <1>5, <2>2, UpDropped DEF ReceivesSubscribe, IsRequest
  <2>6. At(r, "none") /\ r <= asked /\ \A k \in Nat : IsRequest(k)' => up'[k].req # r
    BY <2>5, <2>2, UpDropped, RequestsDrop, 1 \in Nat DEF RequestsAreNew
  <2>7. RequestsAreNew'
    <3>1. /\ \A k \in Nat : IsRequest(k)' => up'[k].req <= asked' /\ At(up'[k].req, "none") /\ up'[k].req \in Subs /\ up'[k].req # r
         /\ \A j, k \in Nat : IsRequest(j)' /\ IsRequest(k)' /\ up'[j].req = up'[k].req => j = k
      BY <2>4, <2>5, <2>6, <2>2, UpDropped, RequestsDrop
    <3>2. \A q \in Subs : q # r /\ At(q, "none") => At(q, "none")'
      BY <2>3 DEF Moves, IsAnswering, At
    <3>3. \A q \in Subs : q > asked' => q # r /\ At(q, "none")
      BY <2>4, <2>6 DEF RequestsAreNew, Subs, CountersTyped
    <3> QED BY <3>1, <3>2, <3>3 DEF RequestsAreNew
  <2>8. AnswersAreDone'
    BY <2>6, <2>1, DownStays, <2>3, DownTyped DEF AnswersAreDone, Moves, IsAnswering, At
  <2>9. HydratedIsAnswered'
    BY <2>4, <2>6, <2>1, DownStays, <2>3 DEF HydratedIsAnswered, Moves, IsAnswering, At
  <2>10. (entry # 0 => entry = asked)'
    BY <2>4
  <2> QED BY <2>7, <2>8, <2>9, <2>10 DEF RequestInv
<1>6. CASE ReceivesUnsubscribe
  <2>1. down' = down
    BY <1>6 DEF ReceivesUnsubscribe, HandlesUnsubscribe, Evicts, hostVars, clientVars
  <2>2. Dropped(up, up') /\ Head(up) = up[1]
    BY <1>6, HandleEffect DEF ReceivesUnsubscribe
  <2>3. handler' = handler
    BY <1>6 DEF ReceivesUnsubscribe, HandlesUnsubscribe, Evicts, hostVars, clientVars
  <2>4. hydrated' = hydrated /\ entry' = entry /\ asked' = asked
    BY <1>6 DEF ReceivesUnsubscribe, HandlesUnsubscribe, Evicts, hostVars, clientVars
  <2>5. RequestsAreNew'
    BY <2>4, <2>2, UpDropped, <2>3, RequestsDrop DEF RequestsAreNew, At
  <2>6. AnswersAreDone'
    BY <2>1, DownStays, <2>3, DownTyped DEF AnswersAreDone, At
  <2>7. HydratedIsAnswered'
    BY <2>4, <2>1, DownStays, <2>3 DEF HydratedIsAnswered, At
  <2>8. (entry # 0 => entry = asked)'
    BY <2>4
  <2> QED BY <2>5, <2>6, <2>7, <2>8 DEF RequestInv
<1>7. ASSUME NEW n \in Acts, ReceivesAction(n) PROVE RequestInv'
  <2>1. ApplyAndEmit(n)
    BY <1>7 DEF ReceivesAction, HandlesAction, hostVars, clientVars
  <2>2. IF Reaches THEN Grown(down, down', Envelope(Len(log) + 1)) ELSE down' = down
    BY <2>1, EmitEffect, 0 \in 0..MaxActs, n \in 0..MaxActs DEF Acts
  <2>3. Envelope(Len(log) + 1).kind = "envelope" /\ Envelope(Len(log) + 1).seq = Len(log) + 1
    BY DEF Envelope
  <2>4. Dropped(up, up') /\ Head(up) = up[1]
    BY <1>7, HandleEffect DEF ReceivesAction
  <2>5. handler' = handler
    BY <1>7 DEF ReceivesAction, HandlesAction, hostVars, clientVars
  <2>6. hydrated' = hydrated /\ entry' = entry /\ asked' = asked
    BY <1>7 DEF ReceivesAction, HandlesAction, hostVars, clientVars
  <2>7. RequestsAreNew'
    BY <2>6, <2>4, UpDropped, <2>5, RequestsDrop DEF RequestsAreNew, At
  <2>8. AnswersAreDone'
    BY <2>2, <2>3, DownGrown, DownStays, <2>5, DownTyped DEF AnswersAreDone, At
  <2>9. HydratedIsAnswered'
    BY <2>6, <2>2, <2>3, DownGrown, DownStays, <2>5 DEF HydratedIsAnswered, At
  <2>10. (entry # 0 => entry = asked)'
    BY <2>6
  <2> QED BY <2>7, <2>8, <2>9, <2>10 DEF RequestInv
<1>8. ASSUME NEW r \in Subs, Restores(r) PROVE RequestInv'
  <2>1. down' = down
    BY <1>8 DEF Restores, At, hostVars, clientVars
  <2>2. up' = up
    BY <1>8 DEF Restores, At, hostVars, clientVars
  <2>3. Moves(r, "configuring") /\ At(r, "restoring")
    BY <1>8, HandlerMoves
  <2>4. hydrated' = hydrated /\ entry' = entry /\ asked' = asked
    BY <1>8 DEF Restores, At, hostVars, clientVars
  <2>5. RequestsAreNew'
    BY <2>4, <2>2, UpStays, <2>3, UpTyped DEF RequestsAreNew, Moves, IsAnswering, At
  <2>6. AnswersAreDone'
    BY <2>1, DownStays, <2>3, DownTyped DEF AnswersAreDone, Moves, IsAnswering, At
  <2>7. HydratedIsAnswered'
    BY <2>4, <2>1, DownStays, <2>3 DEF HydratedIsAnswered, Moves, IsAnswering, At
  <2>8. (entry # 0 => entry = asked)'
    BY <2>4
  <2> QED BY <2>5, <2>6, <2>7, <2>8 DEF RequestInv
<1>9. ASSUME NEW r \in Subs, TakesSnapshot(r) PROVE RequestInv'
  <2>1. down' = down
    BY <1>9 DEF TakesSnapshot, At, hostVars, clientVars
  <2>2. up' = up
    BY <1>9 DEF TakesSnapshot, At, hostVars, clientVars
  <2>3. Moves(r, "answering") /\ At(r, "configuring")
    BY <1>9, HandlerMoves
  <2>4. hydrated' = hydrated /\ entry' = entry /\ asked' = asked
    BY <1>9 DEF TakesSnapshot, At, hostVars, clientVars
  <2>5. RequestsAreNew'
    BY <2>4, <2>2, UpStays, <2>3, UpTyped DEF RequestsAreNew, Moves, IsAnswering, At
  <2>6. AnswersAreDone'
    BY <2>1, DownStays, <2>3, DownTyped DEF AnswersAreDone, Moves, IsAnswering, At
  <2>7. HydratedIsAnswered'
    BY <2>4, <2>1, DownStays, <2>3 DEF HydratedIsAnswered, Moves, IsAnswering, At
  <2>8. (entry # 0 => entry = asked)'
    BY <2>4
  <2> QED BY <2>5, <2>6, <2>7, <2>8 DEF RequestInv
<1>10. ASSUME NEW r \in Subs, RestoreFails(r) PROVE RequestInv'
  <2>1. Failure(r) \in Message
    BY DEF Message, Failure, Snapshot
  <2>2. Grown(down, down', Failure(r))
    BY <1>10, <2>1, SendEffect DEF RestoreFails
  <2>3. Failure(r).kind = "failure" /\ Failure(r).req = r
    BY DEF Failure, Snapshot
  <2>4. up' = up
    BY <1>10 DEF RestoreFails, At, Evicts, Failure, hostVars, clientVars
  <2>5. Moves(r, "done") /\ (At(r, "restoring") \/ At(r, "configuring"))
    BY <1>10, HandlerMoves
  <2>6. hydrated' = hydrated /\ entry' = entry /\ asked' = asked
    BY <1>10 DEF RestoreFails, At, Evicts, Failure, hostVars, clientVars
  <2>7. RequestsAreNew'
    BY <2>6, <2>4, UpStays, <2>5, UpTyped DEF RequestsAreNew, Moves, IsAnswering, At
  <2>8. AnswersAreDone'
    BY <2>2, <2>3, DownGrown, <2>5, DownTyped DEF AnswersAreDone, Moves, IsAnswering, At
  <2>9. HydratedIsAnswered'
    BY <2>6, <2>2, <2>3, DownGrown, <2>5 DEF HydratedIsAnswered, Moves, IsAnswering, At
  <2>10. (entry # 0 => entry = asked)'
    BY <2>6
  <2> QED BY <2>7, <2>8, <2>9, <2>10 DEF RequestInv
<1>11. ASSUME NEW r \in Subs, Joins(r) PROVE RequestInv'
  <2>1. down' = down
    BY <1>11 DEF Joins, At, hostVars, clientVars
  <2>2. up' = up
    BY <1>11 DEF Joins, At, hostVars, clientVars
  <2>3. Moves(r, "replying") /\ At(r, "answering")
    BY <1>11, HandlerMoves
  <2>4. hydrated' = hydrated /\ entry' = entry /\ asked' = asked
    BY <1>11 DEF Joins, At, hostVars, clientVars
  <2>5. RequestsAreNew'
    BY <2>4, <2>2, UpStays, <2>3, UpTyped DEF RequestsAreNew, Moves, IsAnswering, At
  <2>6. AnswersAreDone'
    BY <2>1, DownStays, <2>3, DownTyped DEF AnswersAreDone, Moves, IsAnswering, At
  <2>7. HydratedIsAnswered'
    BY <2>4, <2>1, DownStays, <2>3 DEF HydratedIsAnswered, Moves, IsAnswering, At
  <2>8. (entry # 0 => entry = asked)'
    BY <2>4
  <2> QED BY <2>5, <2>6, <2>7, <2>8 DEF RequestInv
<1>12. ASSUME NEW r \in Subs, Replies(r) PROVE RequestInv'
  <2>1. Snapshot(r, handler[r]) \in Message
    BY DEF HandlerTyped, Handler, Message, Failure, Snapshot
  <2>2. Grown(down, down', Snapshot(r, handler[r]))
    BY <1>12, <2>1, SendEffect DEF Replies
  <2>3. /\ Snapshot(r, handler[r]).kind = "snapshot" /\ Snapshot(r, handler[r]).req = r
        /\ Snapshot(r, handler[r]).seqs = handler[r].seqs /\ Snapshot(r, handler[r]).from = handler[r].from
    BY DEF Failure, Snapshot
  <2>4. up' = up
    BY <1>12 DEF Replies, At, Snapshot, hostVars, clientVars
  <2>5. Moves(r, "done") /\ IsAnswering(r)
    BY <1>12, HandlerMoves
  <2>6. hydrated' = hydrated /\ entry' = entry /\ asked' = asked
    BY <1>12 DEF Replies, At, Snapshot, hostVars, clientVars
  <2>7. RequestsAreNew'
    BY <2>6, <2>4, UpStays, <2>5, UpTyped DEF RequestsAreNew, Moves, IsAnswering, At
  <2>8. AnswersAreDone'
    BY <2>2, <2>3, DownGrown, <2>5, DownTyped DEF AnswersAreDone, Moves, IsAnswering, At
  <2>9. HydratedIsAnswered'
    BY <2>6, <2>2, <2>3, DownGrown, <2>5 DEF HydratedIsAnswered, Moves, IsAnswering, At
  <2>10. (entry # 0 => entry = asked)'
    BY <2>6
  <2> QED BY <2>7, <2>8, <2>9, <2>10 DEF RequestInv
<1>13. CASE Acquires
  <2>1. down' = down
    BY <1>13 DEF Acquires, hostVars, clientVars
  <2>2. [kind |-> "subscribe", req |-> asked + 1] \in Request
    BY <1>13 DEF Acquires, Request, Subs, Acts, CountersTyped
  <2>3. Grown(up, up', [kind |-> "subscribe", req |-> asked + 1])
    BY <1>13, <2>2, AskEffect DEF Acquires
  <2>4. /\ [kind |-> "subscribe", req |-> asked + 1].kind = "subscribe"
        /\ [kind |-> "subscribe", req |-> asked + 1].req = asked + 1
    OBVIOUS
  <2>5. handler' = handler
    BY <1>13 DEF Acquires, hostVars, clientVars
  <2>6. /\ ~hydrated /\ hydrated' = hydrated /\ asked \in Nat
        /\ asked' = asked + 1 /\ entry' = asked + 1 /\ asked + 1 \in Subs
    BY <1>13 DEF Acquires, HydratedIsAnswered, Subs, CountersTyped
  <2>7. At(asked + 1, "none")
    BY <2>6 DEF RequestsAreNew
  <2>8. \A k \in Nat : IsRequest(k) => up[k].req \in Nat /\ up[k].req <= asked /\ At(up[k].req, "none")
    BY UpTyped DEF RequestsAreNew
  <2>9. \A k \in Nat : IsRequest(k)' => (up[k].req <= asked /\ At(up[k].req, "none"))'
    <3>1. ASSUME NEW k \in Nat, IsRequest(k) PROVE (up[k].req <= asked /\ At(up[k].req, "none"))'
      BY <3>1, <2>6, <2>8, <2>3, <2>4, UpGrown, <2>5 DEF At
    <3>2. up'[Len(up) + 1].req <= asked' /\ handler'[up'[Len(up) + 1].req].stage = "none"
      BY <2>6, <2>7, <2>3, <2>4, UpGrown, <2>5 DEF At
    <3>3. (up[Len(up)].req <= asked /\ At(up[Len(up)].req, "none"))'
      BY <3>2, <2>3, <2>4, UpGrown, <2>6 DEF At
    <3> QED BY <3>1, <3>3, <2>3, <2>4, UpGrown
  <2>10. \A j, k \in Nat : IsRequest(j)' /\ IsRequest(k)' /\ up'[j].req = up'[k].req => j = k
    BY <2>6, <2>3, <2>4, UpGrown, UpTyped DEF RequestsAreNew
  <2>11. RequestsAreNew'
    <3>1. \A q \in Subs : q > asked' => At(q, "none")'
      BY <2>6, <2>5 DEF RequestsAreNew, At, Subs
    <3> QED BY <3>1, <2>9, <2>10 DEF RequestsAreNew
  <2>12. AnswersAreDone'
    BY <2>1, DownStays, <2>5, DownTyped DEF AnswersAreDone, At
  <2>13. HydratedIsAnswered'
    BY <2>6, <2>1, DownStays, <2>5 DEF HydratedIsAnswered, At
  <2>14. (entry # 0 => entry = asked)'
    BY <2>6
  <2> QED BY <2>11, <2>12, <2>13, <2>14 DEF RequestInv
<1>14. CASE Releases
  <2>1. down' = down
    BY <1>14 DEF Releases, Empty, hostVars, clientVars
  <2>2. [kind |-> "unsubscribe"] \in Request
    BY <1>14 DEF Releases, Request, Subs, Acts, CountersTyped
  <2>3. Grown(up, up', [kind |-> "unsubscribe"])
    BY <1>14, <2>2, AskEffect DEF Releases
  <2>4. [kind |-> "unsubscribe"].kind = "unsubscribe"
    OBVIOUS
  <2>5. handler' = handler
    BY <1>14 DEF Releases, Empty, hostVars, clientVars
  <2>6. ~hydrated' /\ entry' = 0 /\ asked' = asked
    BY <1>14 DEF Releases, Empty, hostVars, clientVars
  <2>7. RequestsAreNew'
    BY <2>6, <2>3, <2>4, UpGrown, <2>5, UpTyped DEF RequestsAreNew, At
  <2>8. AnswersAreDone'
    BY <2>1, DownStays, <2>5, DownTyped DEF AnswersAreDone, At
  <2>9. HydratedIsAnswered'
    BY <2>6, <2>1, DownStays, <2>5 DEF HydratedIsAnswered, At
  <2>10. (entry # 0 => entry = asked)'
    BY <2>6
  <2> QED BY <2>7, <2>8, <2>9, <2>10 DEF RequestInv
<1>15. CASE Dispatches
  <2>1. down' = down
    BY <1>15 DEF Dispatches, hostVars, clientVars
  <2>2. [kind |-> "action", seq |-> acted + 1] \in Request
    BY <1>15 DEF Dispatches, Request, Subs, Acts, CountersTyped
  <2>3. Grown(up, up', [kind |-> "action", seq |-> acted + 1])
    BY <1>15, <2>2, AskEffect DEF Dispatches
  <2>4. /\ [kind |-> "action", seq |-> acted + 1].kind = "action"
        /\ [kind |-> "action", seq |-> acted + 1].seq = acted + 1
    OBVIOUS
  <2>5. handler' = handler
    BY <1>15 DEF Dispatches, hostVars, clientVars
  <2>6. hydrated' = hydrated /\ entry' = entry /\ asked' = asked
    BY <1>15 DEF Dispatches, hostVars, clientVars
  <2>7. RequestsAreNew'
    BY <2>6, <2>3, <2>4, UpGrown, <2>5, UpTyped DEF RequestsAreNew, At
  <2>8. AnswersAreDone'
    BY <2>1, DownStays, <2>5, DownTyped DEF AnswersAreDone, At
  <2>9. HydratedIsAnswered'
    BY <2>6, <2>1, DownStays, <2>5 DEF HydratedIsAnswered, At
  <2>10. (entry # 0 => entry = asked)'
    BY <2>6
  <2> QED BY <2>7, <2>8, <2>9, <2>10 DEF RequestInv
<1>16. ASSUME NEW i \in Emitted, GetsEnvelope(i) PROVE RequestInv'
  <2>1. Dropped(down, down') /\ Head(down) = down[1] /\ Head(down) \in Message
    BY <1>16, ReceiveEffect DEF GetsEnvelope
  <2>2. up' = up
    BY <1>16 DEF GetsEnvelope, ReceivesEnvelope, Reduce, Unechoed, hostVars, clientVars
  <2>3. handler' = handler
    BY <1>16 DEF GetsEnvelope, ReceivesEnvelope, Reduce, Unechoed, hostVars, clientVars
  <2>4. entry' = entry /\ asked' = asked
    BY <1>16 DEF GetsEnvelope, ReceivesEnvelope, Reduce, Unechoed, hostVars, clientVars
  <2>5. RequestsAreNew'
    BY <2>4, <2>2, UpStays, <2>3 DEF RequestsAreNew, At
  <2>6. AnswersAreDone'
    BY <2>1, DownDropped, <2>3, AnswersDrop DEF AnswersAreDone, At
  <2>7. hydrated' = hydrated
    BY <1>16 DEF GetsEnvelope, ReceivesEnvelope, Reduce, Unechoed, hostVars, clientVars
  <2>8. HydratedIsAnswered'
    BY <2>4, <2>7, <2>1, DownDropped, <2>3 DEF HydratedIsAnswered, At
  <2>9. (entry # 0 => entry = asked)'
    BY <2>4
  <2> QED BY <2>5, <2>6, <2>8, <2>9 DEF RequestInv
<1>17. ASSUME NEW m \in Message, GetsSnapshot(m) PROVE RequestInv'
  <2>1. Dropped(down, down') /\ Head(down) = down[1] /\ Head(down) \in Message
    BY <1>17, ReceiveEffect DEF GetsSnapshot
  <2>2. up' = up
    BY <1>17 DEF GetsSnapshot, HandlesSnapshot, Reduce, Unechoed, IsCurrent, hostVars, clientVars
  <2>3. handler' = handler
    BY <1>17 DEF GetsSnapshot, HandlesSnapshot, Reduce, Unechoed, IsCurrent, hostVars, clientVars
  <2>4. entry' = entry /\ asked' = asked
    BY <1>17 DEF GetsSnapshot, HandlesSnapshot, Reduce, Unechoed, IsCurrent, hostVars, clientVars
  <2>5. RequestsAreNew'
    BY <2>4, <2>2, UpStays, <2>3 DEF RequestsAreNew, At
  <2>6. AnswersAreDone'
    BY <2>1, DownDropped, <2>3, AnswersDrop DEF AnswersAreDone, At
  <2>7. IsAnswer(1) /\ down[1] = m
    BY <1>17, <2>1, DownDropped DEF GetsSnapshot, IsAnswer
  <2>8. At(m.req, "done") /\ m.req \in Subs /\ \A k \in Nat : IsAnswer(k)' => down'[k].req # m.req
    BY <2>7, <2>1, DownDropped, DownTyped, 1 \in Nat DEF AnswersAreDone
  <2>9. hydrated' => hydrated \/ entry = m.req
    BY <1>17 DEF GetsSnapshot, HandlesSnapshot, IsCurrent
  <2>10. HydratedIsAnswered'
    BY <2>4, <2>8, <2>9, <2>1, DownDropped, <2>3 DEF HydratedIsAnswered, At
  <2>11. (entry # 0 => entry = asked)'
    BY <2>4
  <2> QED BY <2>5, <2>6, <2>10, <2>11 DEF RequestInv
<1>18. ASSUME NEW m \in Message, GetsFailure(m) PROVE RequestInv'
  <2>1. Dropped(down, down') /\ Head(down) = down[1] /\ Head(down) \in Message
    BY <1>18, ReceiveEffect DEF GetsFailure
  <2>2. up' = up
    BY <1>18 DEF GetsFailure, HandlesFailure, IsCurrent, hostVars, clientVars
  <2>3. handler' = handler
    BY <1>18 DEF GetsFailure, HandlesFailure, IsCurrent, hostVars, clientVars
  <2>4. entry' = entry /\ asked' = asked
    BY <1>18 DEF GetsFailure, HandlesFailure, IsCurrent, hostVars, clientVars
  <2>5. RequestsAreNew'
    BY <2>4, <2>2, UpStays, <2>3 DEF RequestsAreNew, At
  <2>6. AnswersAreDone'
    BY <2>1, DownDropped, <2>3, AnswersDrop DEF AnswersAreDone, At
  <2>7. hydrated' = hydrated
    BY <1>18 DEF GetsFailure, HandlesFailure, IsCurrent, hostVars, clientVars
  <2>8. HydratedIsAnswered'
    BY <2>4, <2>7, <2>1, DownDropped, <2>3 DEF HydratedIsAnswered, At
  <2>9. (entry # 0 => entry = asked)'
    BY <2>4
  <2> QED BY <2>5, <2>6, <2>8, <2>9 DEF RequestInv
<1>19. CASE UNCHANGED vars
  BY <1>19, RequestFrame DEF vars, hostVars, clientVars
<1> QED
  BY Steps, <1>1, <1>2, <1>3, <1>4, <1>5, <1>6, <1>7, <1>8, <1>9, <1>10, <1>11, <1>12, <1>13, <1>14, <1>15, <1>16, <1>17, <1>18, <1>19

-----------------------------------------------------------------------------
(* Own actions *)

\* Other steps leave all that it speaks of.
LEMMA PendingFrame ==
  ASSUME PendingInv, UNCHANGED <<log, up, hydrated, confirmed, pending, early, acted>>
  PROVE  PendingInv'
BY DEF PendingInv, ActionsWereSent, ReplayedOnce

\* A pending action that is not early is echoed by an envelope the client has yet to get.
LEMMA PendingStep ==
  ASSUME TypeOK, RequestInv, PendingInv, [Next]_vars
  PROVE  PendingInv'
<1> USE SyncAssumption
<1>0. FlagsTyped /\ HostTyped /\ HandlerTyped /\ MessagesTyped /\ CountersTyped /\ ClientTyped
  BY TypeParts
<1> USE <1>0 DEF PendingInv
<1>1. CASE HostActs
  <2>1. up' = up
    BY <1>1 DEF HostActs, hostVars, clientVars
  <2>2. ApplyAndEmit(0)
    BY <1>1 DEF HostActs, hostVars, clientVars
  <2>3. /\ Len(log) \in Nat /\ Len(log') = Len(log) + 1 /\ log'[Len(log) + 1] = 0
        /\ \A k \in 1..Len(log) : log'[k] = log[k]
    BY <2>2, EmitEffect, 0 \in 0..MaxActs DEF Acts
  <2>4. /\ pending' = pending /\ acted' = acted /\ early' = early
        /\ hydrated' = hydrated /\ confirmed' = confirmed
    BY <1>1 DEF HostActs, hostVars, clientVars
  <2>5. 0 <= acted
    BY DEF CountersTyped
  <2>6. \A k \in 1..Len(up') : up'[k].kind = "action" => up'[k].seq <= acted
    BY <2>1, UpStays DEF ActionsWereSent
  <2>7. \A i \in 1..Len(log') : log'[i] <= acted
    BY <2>3, <2>5 DEF ActionsWereSent
  <2>8. ActionsWereSent'
    BY <2>4, <2>6, <2>7 DEF ActionsWereSent
  <2>9. (~hydrated => pending \subseteq early)'
    BY <2>4
  <2>10. ReplayedOnce'
    BY <2>4, <2>3 DEF ReplayedOnce, ClientTyped, Emitted
  <2> QED BY <2>8, <2>9, <2>10 DEF PendingInv
<1>2. CASE OtherSubscribes
  BY <1>2, PendingFrame DEF OtherSubscribes, hostVars, clientVars
<1>3. CASE OtherRestores
  BY <1>3, PendingFrame DEF OtherRestores, hostVars, clientVars
<1>4. CASE OtherLeaves
  BY <1>4, PendingFrame DEF OtherLeaves, Evicts, hostVars, clientVars
<1>5. ASSUME NEW r \in Subs, ReceivesSubscribe(r) PROVE PendingInv'
  <2>1. Dropped(up, up') /\ Head(up) = up[1]
    BY <1>5, HandleEffect DEF ReceivesSubscribe
  <2>2. log' = log
    BY <1>5 DEF ReceivesSubscribe, HandlesSubscribe, hostVars, clientVars
  <2>3. acted' = acted /\ pending' \subseteq pending
    BY <1>5 DEF ReceivesSubscribe, HandlesSubscribe, hostVars, clientVars
  <2>4. \A k \in 1..Len(up') : up'[k].kind = "action" => up'[k].seq <= acted
    BY <2>1, UpDropped DEF ActionsWereSent
  <2>5. ActionsWereSent'
    BY <2>3, <2>2, <2>4 DEF ActionsWereSent
  <2>6. hydrated' = hydrated /\ early' = early /\ confirmed' = confirmed
    BY <1>5 DEF ReceivesSubscribe, HandlesSubscribe, hostVars, clientVars
  <2>7. (~hydrated => pending \subseteq early)'
    BY <2>6, <2>3
  <2>8. ReplayedOnce'
    BY <2>6, <2>3, <2>2 DEF ReplayedOnce
  <2> QED BY <2>5, <2>7, <2>8 DEF PendingInv
<1>6. CASE ReceivesUnsubscribe
  <2>1. Dropped(up, up') /\ Head(up) = up[1]
    BY <1>6, HandleEffect DEF ReceivesUnsubscribe
  <2>2. log' = log
    BY <1>6 DEF ReceivesUnsubscribe, HandlesUnsubscribe, Evicts, hostVars, clientVars
  <2>3. acted' = acted /\ pending' \subseteq pending
    BY <1>6 DEF ReceivesUnsubscribe, HandlesUnsubscribe, Evicts, hostVars, clientVars
  <2>4. \A k \in 1..Len(up') : up'[k].kind = "action" => up'[k].seq <= acted
    BY <2>1, UpDropped DEF ActionsWereSent
  <2>5. ActionsWereSent'
    BY <2>3, <2>2, <2>4 DEF ActionsWereSent
  <2>6. hydrated' = hydrated /\ early' = early /\ confirmed' = confirmed
    BY <1>6 DEF ReceivesUnsubscribe, HandlesUnsubscribe, Evicts, hostVars, clientVars
  <2>7. (~hydrated => pending \subseteq early)'
    BY <2>6, <2>3
  <2>8. ReplayedOnce'
    BY <2>6, <2>3, <2>2 DEF ReplayedOnce
  <2> QED BY <2>5, <2>7, <2>8 DEF PendingInv
<1>7. ASSUME NEW n \in Acts, ReceivesAction(n) PROVE PendingInv'
  <2>1. Dropped(up, up') /\ Head(up) = up[1]
    BY <1>7, HandleEffect DEF ReceivesAction
  <2>2. ApplyAndEmit(n)
    BY <1>7 DEF ReceivesAction, HandlesAction, hostVars, clientVars
  <2>3. /\ Len(log) \in Nat /\ Len(log') = Len(log) + 1 /\ log'[Len(log) + 1] = n
        /\ \A k \in 1..Len(log) : log'[k] = log[k]
    BY <2>2, EmitEffect, n \in 0..MaxActs DEF Acts
  <2>4. /\ pending' = pending /\ acted' = acted /\ early' = early
        /\ hydrated' = hydrated /\ confirmed' = confirmed
    BY <1>7 DEF ReceivesAction, HandlesAction, hostVars, clientVars
  <2>5. n <= acted
    BY <1>7, <2>1, UpDropped DEF ReceivesAction, ActionsWereSent
  <2>6. \A k \in 1..Len(up') : up'[k].kind = "action" => up'[k].seq <= acted
    BY <2>1, UpDropped DEF ActionsWereSent
  <2>7. \A i \in 1..Len(log') : log'[i] <= acted
    BY <2>3, <2>5 DEF ActionsWereSent
  <2>8. ActionsWereSent'
    BY <2>4, <2>6, <2>7 DEF ActionsWereSent
  <2>9. (~hydrated => pending \subseteq early)'
    BY <2>4
  <2>10. ReplayedOnce'
    BY <2>4, <2>3 DEF ReplayedOnce, ClientTyped, Emitted
  <2> QED BY <2>8, <2>9, <2>10 DEF PendingInv
<1>8. ASSUME NEW r \in Subs, Restores(r) PROVE PendingInv'
  BY <1>8, PendingFrame DEF Restores, At, hostVars, clientVars
<1>9. ASSUME NEW r \in Subs, TakesSnapshot(r) PROVE PendingInv'
  BY <1>9, PendingFrame DEF TakesSnapshot, At, hostVars, clientVars
<1>10. ASSUME NEW r \in Subs, RestoreFails(r) PROVE PendingInv'
  BY <1>10, PendingFrame DEF RestoreFails, At, Evicts, Failure, hostVars, clientVars
<1>11. ASSUME NEW r \in Subs, Joins(r) PROVE PendingInv'
  BY <1>11, PendingFrame DEF Joins, At, hostVars, clientVars
<1>12. ASSUME NEW r \in Subs, Replies(r) PROVE PendingInv'
  BY <1>12, PendingFrame DEF Replies, At, Snapshot, hostVars, clientVars
<1>13. CASE Acquires
  <2>1. [kind |-> "subscribe", req |-> asked + 1] \in Request
    BY <1>13 DEF Acquires, Request, Subs, Acts, CountersTyped
  <2>2. Grown(up, up', [kind |-> "subscribe", req |-> asked + 1])
    BY <1>13, <2>1, AskEffect DEF Acquires
  <2>3. /\ [kind |-> "subscribe", req |-> asked + 1].kind = "subscribe"
        /\ [kind |-> "subscribe", req |-> asked + 1].req = asked + 1
    OBVIOUS
  <2>4. log' = log
    BY <1>13 DEF Acquires, hostVars, clientVars
  <2>5. acted' = acted /\ pending' \subseteq pending
    BY <1>13 DEF Acquires, hostVars, clientVars
  <2>6. ActionsWereSent'
    BY <2>5, <2>4, <2>2, <2>3, UpGrown DEF ActionsWereSent
  <2>7. hydrated' = hydrated /\ early' = early /\ confirmed' = confirmed
    BY <1>13 DEF Acquires, hostVars, clientVars
  <2>8. (~hydrated => pending \subseteq early)'
    BY <2>7, <2>5
  <2>9. ReplayedOnce'
    BY <2>7, <2>5, <2>4 DEF ReplayedOnce
  <2> QED BY <2>6, <2>8, <2>9 DEF PendingInv
<1>14. CASE Releases
  <2>1. [kind |-> "unsubscribe"] \in Request
    BY <1>14 DEF Releases, Request, Subs, Acts, CountersTyped
  <2>2. Grown(up, up', [kind |-> "unsubscribe"])
    BY <1>14, <2>1, AskEffect DEF Releases
  <2>3. [kind |-> "unsubscribe"].kind = "unsubscribe"
    OBVIOUS
  <2>4. log' = log
    BY <1>14 DEF Releases, Empty, hostVars, clientVars
  <2>5. acted' = acted /\ pending' \subseteq pending
    BY <1>14 DEF Releases, Empty, hostVars, clientVars
  <2>6. ActionsWereSent'
    BY <2>5, <2>4, <2>2, <2>3, UpGrown DEF ActionsWereSent
  <2>7. pending' = {}
    BY <1>14 DEF Releases, Empty, hostVars, clientVars
  <2>8. (~hydrated => pending \subseteq early)'
    BY <2>7
  <2>9. ReplayedOnce'
    BY <2>7 DEF ReplayedOnce
  <2> QED BY <2>6, <2>8, <2>9 DEF PendingInv
<1>15. CASE Dispatches
  <2>1. [kind |-> "action", seq |-> acted + 1] \in Request
    BY <1>15 DEF Dispatches, Request, Subs, Acts, CountersTyped
  <2>2. Grown(up, up', [kind |-> "action", seq |-> acted + 1])
    BY <1>15, <2>1, AskEffect DEF Dispatches
  <2>3. /\ [kind |-> "action", seq |-> acted + 1].kind = "action"
        /\ [kind |-> "action", seq |-> acted + 1].seq = acted + 1
    OBVIOUS
  <2>4. log' = log
    BY <1>15 DEF Dispatches, hostVars, clientVars
  <2>5. /\ acted' = acted + 1 /\ acted \in Nat /\ hydrated' = hydrated /\ confirmed' = confirmed
        /\ pending' \subseteq pending \cup {acted + 1} /\ early \subseteq early'
        /\ entry # 0 /\ ~hydrated => acted + 1 \in early'
        /\ entry = 0 => pending' = pending
    BY <1>15 DEF Dispatches, CountersTyped
  <2>6. /\ \A n \in pending : n \in Nat /\ n <= acted
        /\ \A k \in 1..Len(log) : log[k] \in Nat /\ log[k] <= acted
    BY DEF ActionsWereSent, ClientTyped, Acts, HostTyped
  <2>7. \A k \in 1..Len(up') : up'[k].kind = "action" => up'[k].seq <= acted'
    <3>1. ASSUME NEW k \in 1..Len(up), up[k].kind = "action" PROVE up'[k].seq <= acted'
      <4>1. up[k] \in Request /\ up[k].seq <= acted
        BY <3>1 DEF ActionsWereSent, MessagesTyped
      <4>2. up[k].seq \in Nat
        BY <3>1, <4>1, RequestFields DEF Acts
      <4> QED BY <4>1, <4>2, <2>5, <2>2, <2>3, UpGrown
    <3> QED BY <3>1, <2>5, <2>2, <2>3, UpGrown
  <2>8. ActionsWereSent'
    BY <2>5, <2>6, <2>7, <2>4 DEF ActionsWereSent
  <2>9. (~hydrated => pending \subseteq early)'
    BY <2>5
  <2>10. confirmed.seqs \subseteq 1..Len(log)
    BY DEF ClientTyped, Emitted
  <2>11. ReplayedOnce'
    BY <2>5, <2>6, <2>10, <2>4 DEF ReplayedOnce
  <2> QED BY <2>8, <2>9, <2>11 DEF PendingInv
<1>16. ASSUME NEW i \in Emitted, GetsEnvelope(i) PROVE PendingInv'
  <2>1. up' = up
    BY <1>16 DEF GetsEnvelope, ReceivesEnvelope, Reduce, Unechoed, hostVars, clientVars
  <2>2. log' = log
    BY <1>16 DEF GetsEnvelope, ReceivesEnvelope, Reduce, Unechoed, hostVars, clientVars
  <2>3. acted' = acted /\ pending' \subseteq pending
    BY <1>16 DEF GetsEnvelope, ReceivesEnvelope, Reduce, Unechoed, hostVars, clientVars
  <2>4. ActionsWereSent'
    BY <2>3, <2>2, <2>1, UpStays DEF ActionsWereSent
  <2>5. /\ early' = early /\ hydrated' = hydrated
        /\ ~hydrated => confirmed' = confirmed /\ pending' = pending
        /\ hydrated => pending' = pending \ {log[i]} /\ confirmed'.seqs = confirmed.seqs \cup {i}
    BY <1>16 DEF GetsEnvelope, ReceivesEnvelope, Reduce, Unechoed, hostVars, clientVars
  <2>6. (~hydrated => pending \subseteq early)'
    BY <2>5
  <2>7. ReplayedOnce'
    BY <2>5, <2>2 DEF ReplayedOnce
  <2> QED BY <2>4, <2>6, <2>7 DEF PendingInv
<1>17. ASSUME NEW m \in Message, GetsSnapshot(m) PROVE PendingInv'
  <2>1. up' = up
    BY <1>17 DEF GetsSnapshot, HandlesSnapshot, Reduce, Unechoed, IsCurrent, hostVars, clientVars
  <2>2. log' = log
    BY <1>17 DEF GetsSnapshot, HandlesSnapshot, Reduce, Unechoed, IsCurrent, hostVars, clientVars
  <2>3. acted' = acted /\ pending' \subseteq pending
    BY <1>17 DEF GetsSnapshot, HandlesSnapshot, Reduce, Unechoed, IsCurrent, hostVars, clientVars
  <2>4. ActionsWereSent'
    BY <2>3, <2>2, <2>1, UpStays DEF ActionsWereSent
  <2>5. IsAnswer(1) /\ down[1] = m
    <3>1. Dropped(down, down') /\ Head(down) = down[1]
      BY <1>17, ReceiveEffect DEF GetsSnapshot
    <3> QED BY <1>17, <3>1, DownDropped DEF GetsSnapshot, IsAnswer
  <2>6. IsCurrent(m.req) => ~hydrated
    BY <2>5, 1 \in Nat DEF IsCurrent, RequestInv, HydratedIsAnswered
  <2>7. /\ early' = early
        /\ ~IsCurrent(m.req) => confirmed' = confirmed /\ hydrated' = hydrated /\ pending' = pending
        /\ IsCurrent(m.req) => hydrated'
    BY <1>17 DEF GetsSnapshot, HandlesSnapshot, Reduce, Unechoed, IsCurrent, hostVars, clientVars
  <2>8. (~hydrated => pending \subseteq early)'
    BY <2>7, <2>3
  <2>9. ReplayedOnce'
    BY <2>7, <2>6, <2>3, <2>2 DEF ReplayedOnce
  <2> QED BY <2>4, <2>8, <2>9 DEF PendingInv
<1>18. ASSUME NEW m \in Message, GetsFailure(m) PROVE PendingInv'
  BY <1>18, PendingFrame DEF GetsFailure, HandlesFailure, IsCurrent, hostVars, clientVars
<1>19. CASE UNCHANGED vars
  BY <1>19, PendingFrame DEF vars, hostVars, clientVars
<1> QED
  BY Steps, <1>1, <1>2, <1>3, <1>4, <1>5, <1>6, <1>7, <1>8, <1>9, <1>10, <1>11, <1>12, <1>13, <1>14, <1>15, <1>16, <1>17, <1>18, <1>19

-----------------------------------------------------------------------------
(* Counting *)

\* A served request has left the queue of requests, ...
LEMMA ServedHasStarted ==
  ASSUME TypeOK, RequestInv, entry # 0, IsServed(entry)
  PROVE  entry \in Subs /\ ~At(entry, "none")
<1>1. entry \in Subs
  BY TypeParts, SyncAssumption DEF CountersTyped, Subs
<1> QED BY <1>1, DownTyped DEF IsServed, IsAnswering, IsAnswered, At, RequestInv, HydratedIsAnswered, AnswersAreDone

\* ... and so have the unsubscribes before it.
LEMMA NoUnsubscribe ==
  ASSUME TypeOK, RequestInv, UnsubscribesAreOld, entry # 0, IsServed(entry)
  PROVE  \A j \in 1..Len(up) : up[j].kind # "unsubscribe"
BY ServedHasStarted DEF UnsubscribesAreOld, RequestInv, RequestsAreNew, At

\* A request that is not with its handler any more is answered once.
LEMMA UnansweredYet ==
  ASSUME TypeOK, RequestInv, NEW r \in Subs, ~At(r, "done")
  PROVE  ~IsAnswered(r)
BY DownTyped DEF IsAnswered, RequestInv, HydratedIsAnswered, AnswersAreDone

\* Other steps leave all that it speaks of.
LEMMA CountFrame ==
  ASSUME CountInv, UNCHANGED <<up, down, entry, hydrated, handler, counted, miscounted>>,
         loaded => loaded'
  PROVE  CountInv'
BY UpStays, DownStays
   DEF CountInv, UnsubscribesAreOld, ServedIsCounted, IsServed, IsAnswering, IsAnswered, At

\* The current subscription is counted until its unsubscribe is handled, or its registration taken back.
LEMMA CountStep ==
  ASSUME TypeOK, RequestInv, CountInv, [Next]_vars
  PROVE  CountInv'
<1> USE SyncAssumption
<1>0. FlagsTyped /\ HostTyped /\ HandlerTyped /\ MessagesTyped /\ CountersTyped /\ ClientTyped
  BY TypeParts
<1> USE <1>0
<1>1. CASE HostActs
  <2>1. ApplyAndEmit(0)
    BY <1>1 DEF HostActs, hostVars, clientVars
  <2>2. IF Reaches THEN Grown(down, down', Envelope(Len(log) + 1)) ELSE down' = down
    BY <2>1, EmitEffect, 0 \in 0..MaxActs DEF Acts
  <2>3. Envelope(Len(log) + 1).kind = "envelope" /\ Envelope(Len(log) + 1).seq = Len(log) + 1
    BY DEF Envelope
  <2>4. up' = up
    BY <1>1 DEF HostActs, hostVars, clientVars
  <2>5. handler' = handler
    BY <1>1 DEF HostActs, hostVars, clientVars
  <2>6. entry' = entry
    BY <1>1 DEF HostActs, hostVars, clientVars
  <2>7. UnsubscribesAreOld'
    BY <2>6, <2>4, UpStays DEF UnsubscribesAreOld, CountInv
  <2>8. entry # 0 => entry \in Subs
    BY DEF CountersTyped, Subs
  <2>9. counted' = counted /\ miscounted' = miscounted /\ loaded' = loaded
    BY <1>1 DEF HostActs, hostVars, clientVars
  <2>10. hydrated' = hydrated
    BY <1>1 DEF HostActs, hostVars, clientVars
  <2>11. IsAnswered(entry)' => IsAnswered(entry)
    BY <2>6, <2>10, <2>2, <2>3, DownGrown, DownStays DEF IsAnswered
  <2>12. ASSUME entry # 0
         PROVE  /\ IsServed(entry)' => IsServed(entry)
                /\ (IsAnswering(entry) \/ IsAnswered(entry))' => IsAnswering(entry) \/ IsAnswered(entry)
    BY <2>6, <2>8, <2>11, <2>5 DEF IsServed, At, IsAnswering
  <2>13. ServedIsCounted'
    BY <2>6, <2>9, <2>12 DEF ServedIsCounted, CountInv
  <2> QED BY <2>7, <2>13 DEF CountInv
<1>2. CASE OtherSubscribes
  BY <1>2, CountFrame DEF OtherSubscribes, hostVars, clientVars
<1>3. CASE OtherRestores
  BY <1>3, CountFrame DEF OtherRestores, hostVars, clientVars
<1>4. CASE OtherLeaves
  <2>1. down' = down
    BY <1>4 DEF OtherLeaves, Evicts, hostVars, clientVars
  <2>2. up' = up
    BY <1>4 DEF OtherLeaves, Evicts, hostVars, clientVars
  <2>3. handler' = handler
    BY <1>4 DEF OtherLeaves, Evicts, hostVars, clientVars
  <2>4. entry' = entry
    BY <1>4 DEF OtherLeaves, Evicts, hostVars, clientVars
  <2>5. UnsubscribesAreOld'
    BY <2>4, <2>2, UpStays DEF UnsubscribesAreOld, CountInv
  <2>6. entry # 0 => entry \in Subs
    BY DEF CountersTyped, Subs
  <2>7. counted' = counted /\ miscounted' = miscounted /\ (counted => loaded' = loaded)
    BY <1>4 DEF OtherLeaves, Evicts, hostVars, clientVars
  <2>8. hydrated' = hydrated
    BY <1>4 DEF OtherLeaves, Evicts, hostVars, clientVars
  <2>9. IsAnswered(entry)' => IsAnswered(entry)
    BY <2>4, <2>8, <2>1, DownStays DEF IsAnswered
  <2>10. ASSUME entry # 0
         PROVE  /\ IsServed(entry)' => IsServed(entry)
                /\ (IsAnswering(entry) \/ IsAnswered(entry))' => IsAnswering(entry) \/ IsAnswered(entry)
    BY <2>4, <2>6, <2>9, <2>3 DEF IsServed, At, IsAnswering
  <2>11. IsAnswering(entry) \/ IsAnswered(entry) => IsServed(entry)
    BY DEF IsServed
  <2>12. ServedIsCounted'
    BY <2>4, <2>7, <2>10, <2>11 DEF ServedIsCounted, CountInv
  <2> QED BY <2>5, <2>12 DEF CountInv
<1>5. ASSUME NEW r \in Subs, ReceivesSubscribe(r) PROVE CountInv'
  <2>1. down' = down
    BY <1>5 DEF ReceivesSubscribe, HandlesSubscribe, hostVars, clientVars
  <2>2. Dropped(up, up') /\ Head(up) = up[1]
    BY <1>5, HandleEffect DEF ReceivesSubscribe
  <2>3. \E s \in {"answering", "restoring"} : Moves(r, s)
    BY <1>5, HandlerMoves
  <2>4. entry' = entry
    BY <1>5 DEF ReceivesSubscribe, HandlesSubscribe, hostVars, clientVars
  <2>5. UnsubscribesAreOld'
    <3> SUFFICES ASSUME entry # 0, NEW j \in 1..Len(up'), up'[j].kind = "unsubscribe"
                 PROVE  \E k \in Nat : IsRequest(k)' /\ up'[k].req = entry /\ j < k
      BY <2>4 DEF UnsubscribesAreOld
    <3>1. j + 1 \in 1..Len(up) /\ up[j + 1].kind = "unsubscribe"
      BY <2>2, UpDropped
    <3>2. PICK k \in Nat : IsRequest(k) /\ up[k].req = entry /\ j + 1 < k
      BY <3>1 DEF CountInv, UnsubscribesAreOld
    <3>3. k - 1 \in Nat /\ k - 1 # 0 /\ (k - 1) + 1 = k /\ j < k - 1
      BY <3>2
    <3> QED BY <3>2, <3>3, <2>2, UpDropped
  <2>6. entry # 0 => entry \in Subs
    BY DEF CountersTyped, Subs
  <2>7. /\ counted' /\ loaded' = loaded /\ hydrated' = hydrated /\ miscounted' = miscounted
        /\ handler' = [handler EXCEPT ![r] = IF loaded THEN Taken ELSE Waiting("restoring")]
    BY <1>5 DEF ReceivesSubscribe, HandlesSubscribe, hostVars, clientVars
  <2>8. At(r, "answering")' => loaded
    BY <2>7, TakenTyped DEF At, Stage, HandlerTyped
  <2>9. \A q \in Subs : q # r => (IsAnswering(q)' <=> IsAnswering(q))
    BY <2>3 DEF Moves, IsAnswering, At
  <2>10. ~At(r, "replying")'
    BY <2>3 DEF Moves, At
  <2>11. IsAnswered(entry)' <=> IsAnswered(entry)
    BY <2>4, <2>7, <2>1, DownStays DEF IsAnswered
  <2>12. ASSUME entry # 0, ~miscounted, IsAnswering(entry)' \/ IsAnswered(entry)'
         PROVE  loaded'
    <3>1. CASE entry = r /\ IsAnswering(entry)'
      BY <3>1, <2>4, <2>7, <2>8, <2>10 DEF IsAnswering
    <3>2. CASE entry # r \/ ~IsAnswering(entry)'
      BY <3>2, <2>12, <2>4, <2>6, <2>7, <2>9, <2>11 DEF CountInv, ServedIsCounted
    <3> QED BY <3>1, <3>2
  <2>13. ServedIsCounted'
    BY <2>4, <2>7, <2>12 DEF ServedIsCounted
  <2> QED BY <2>5, <2>13 DEF CountInv
<1>6. CASE ReceivesUnsubscribe
  <2>1. down' = down
    BY <1>6 DEF ReceivesUnsubscribe, HandlesUnsubscribe, Evicts, hostVars, clientVars
  <2>2. Dropped(up, up') /\ Head(up) = up[1]
    BY <1>6, HandleEffect DEF ReceivesUnsubscribe
  <2>3. handler' = handler
    BY <1>6 DEF ReceivesUnsubscribe, HandlesUnsubscribe, Evicts, hostVars, clientVars
  <2>4. entry' = entry
    BY <1>6 DEF ReceivesUnsubscribe, HandlesUnsubscribe, Evicts, hostVars, clientVars
  <2>5. UnsubscribesAreOld'
    <3> SUFFICES ASSUME entry # 0, NEW j \in 1..Len(up'), up'[j].kind = "unsubscribe"
                 PROVE  \E k \in Nat : IsRequest(k)' /\ up'[k].req = entry /\ j < k
      BY <2>4 DEF UnsubscribesAreOld
    <3>1. j + 1 \in 1..Len(up) /\ up[j + 1].kind = "unsubscribe"
      BY <2>2, UpDropped
    <3>2. PICK k \in Nat : IsRequest(k) /\ up[k].req = entry /\ j + 1 < k
      BY <3>1 DEF CountInv, UnsubscribesAreOld
    <3>3. k - 1 \in Nat /\ k - 1 # 0 /\ (k - 1) + 1 = k /\ j < k - 1
      BY <3>2
    <3> QED BY <3>2, <3>3, <2>2, UpDropped
  <2>6. IsServed(entry)' \/ IsAnswering(entry)' \/ IsAnswered(entry)' => IsServed(entry)
    <3>1. hydrated' = hydrated
      BY <1>6 DEF ReceivesUnsubscribe, HandlesUnsubscribe, Evicts, hostVars, clientVars
    <3> QED BY <3>1, <2>4, <2>1, DownStays, <2>3 DEF IsServed, IsAnswered, IsAnswering, At
  <2>7. 1 \in 1..Len(up) /\ up[1].kind = "unsubscribe"
    BY <1>6, <2>2, UpDropped DEF ReceivesUnsubscribe
  <2>8. ServedIsCounted'
    BY <2>4, <2>6, <2>7, NoUnsubscribe DEF ServedIsCounted, CountInv
  <2> QED BY <2>5, <2>8 DEF CountInv
<1>7. ASSUME NEW n \in Acts, ReceivesAction(n) PROVE CountInv'
  <2>1. ApplyAndEmit(n)
    BY <1>7 DEF ReceivesAction, HandlesAction, hostVars, clientVars
  <2>2. IF Reaches THEN Grown(down, down', Envelope(Len(log) + 1)) ELSE down' = down
    BY <2>1, EmitEffect, 0 \in 0..MaxActs, n \in 0..MaxActs DEF Acts
  <2>3. Envelope(Len(log) + 1).kind = "envelope" /\ Envelope(Len(log) + 1).seq = Len(log) + 1
    BY DEF Envelope
  <2>4. Dropped(up, up') /\ Head(up) = up[1]
    BY <1>7, HandleEffect DEF ReceivesAction
  <2>5. handler' = handler
    BY <1>7 DEF ReceivesAction, HandlesAction, hostVars, clientVars
  <2>6. entry' = entry
    BY <1>7 DEF ReceivesAction, HandlesAction, hostVars, clientVars
  <2>7. UnsubscribesAreOld'
    <3> SUFFICES ASSUME entry # 0, NEW j \in 1..Len(up'), up'[j].kind = "unsubscribe"
                 PROVE  \E k \in Nat : IsRequest(k)' /\ up'[k].req = entry /\ j < k
      BY <2>6 DEF UnsubscribesAreOld
    <3>1. j + 1 \in 1..Len(up) /\ up[j + 1].kind = "unsubscribe"
      BY <2>4, UpDropped
    <3>2. PICK k \in Nat : IsRequest(k) /\ up[k].req = entry /\ j + 1 < k
      BY <3>1 DEF CountInv, UnsubscribesAreOld
    <3>3. k - 1 \in Nat /\ k - 1 # 0 /\ (k - 1) + 1 = k /\ j < k - 1
      BY <3>2
    <3> QED BY <3>2, <3>3, <2>4, UpDropped
  <2>8. entry # 0 => entry \in Subs
    BY DEF CountersTyped, Subs
  <2>9. counted' = counted /\ miscounted' = miscounted /\ loaded' = loaded
    BY <1>7 DEF ReceivesAction, HandlesAction, hostVars, clientVars
  <2>10. hydrated' = hydrated
    BY <1>7 DEF ReceivesAction, HandlesAction, hostVars, clientVars
  <2>11. IsAnswered(entry)' => IsAnswered(entry)
    BY <2>6, <2>10, <2>2, <2>3, DownGrown, DownStays DEF IsAnswered
  <2>12. ASSUME entry # 0
         PROVE  /\ IsServed(entry)' => IsServed(entry)
                /\ (IsAnswering(entry) \/ IsAnswered(entry))' => IsAnswering(entry) \/ IsAnswered(entry)
    BY <2>6, <2>8, <2>11, <2>5 DEF IsServed, At, IsAnswering
  <2>13. ServedIsCounted'
    BY <2>6, <2>9, <2>12 DEF ServedIsCounted, CountInv
  <2> QED BY <2>7, <2>13 DEF CountInv
<1>8. ASSUME NEW r \in Subs, Restores(r) PROVE CountInv'
  <2>1. down' = down
    BY <1>8 DEF Restores, At, hostVars, clientVars
  <2>2. up' = up
    BY <1>8 DEF Restores, At, hostVars, clientVars
  <2>3. Moves(r, "configuring") /\ At(r, "restoring")
    BY <1>8, HandlerMoves
  <2>4. entry' = entry
    BY <1>8 DEF Restores, At, hostVars, clientVars
  <2>5. UnsubscribesAreOld'
    BY <2>4, <2>2, UpStays DEF UnsubscribesAreOld, CountInv
  <2>6. entry # 0 => entry \in Subs
    BY DEF CountersTyped, Subs
  <2>7. counted' = counted /\ miscounted' = miscounted /\ loaded'
    BY <1>8 DEF Restores, At, hostVars, clientVars
  <2>8. hydrated' = hydrated
    BY <1>8 DEF Restores, At, hostVars, clientVars
  <2>9. IsAnswered(entry)' => IsAnswered(entry)
    BY <2>4, <2>8, <2>1, DownStays DEF IsAnswered
  <2>10. ASSUME entry # 0
         PROVE  /\ IsServed(entry)' => IsServed(entry)
                /\ (IsAnswering(entry) \/ IsAnswered(entry))' =>
                     (IsAnswering(entry) \/ IsAnswered(entry))
    BY <2>10, <2>4, <2>6, <2>9, <2>3, <2>7 DEF IsServed, Moves, IsAnswering, At
  <2>11. ServedIsCounted'
    BY <2>4, <2>7, <2>10 DEF ServedIsCounted, CountInv
  <2> QED BY <2>5, <2>11 DEF CountInv
<1>9. ASSUME NEW r \in Subs, TakesSnapshot(r) PROVE CountInv'
  <2>1. down' = down
    BY <1>9 DEF TakesSnapshot, At, hostVars, clientVars
  <2>2. up' = up
    BY <1>9 DEF TakesSnapshot, At, hostVars, clientVars
  <2>3. Moves(r, "answering") /\ At(r, "configuring")
    BY <1>9, HandlerMoves
  <2>4. entry' = entry
    BY <1>9 DEF TakesSnapshot, At, hostVars, clientVars
  <2>5. UnsubscribesAreOld'
    BY <2>4, <2>2, UpStays DEF UnsubscribesAreOld, CountInv
  <2>6. entry # 0 => entry \in Subs
    BY DEF CountersTyped, Subs
  <2>7. counted' = counted /\ miscounted' = miscounted /\ loaded' = loaded /\ loaded
    BY <1>9 DEF TakesSnapshot, At, hostVars, clientVars
  <2>8. hydrated' = hydrated
    BY <1>9 DEF TakesSnapshot, At, hostVars, clientVars
  <2>9. IsAnswered(entry)' => IsAnswered(entry)
    BY <2>4, <2>8, <2>1, DownStays DEF IsAnswered
  <2>10. ASSUME entry # 0
         PROVE  /\ IsServed(entry)' => IsServed(entry)
                /\ (IsAnswering(entry) \/ IsAnswered(entry))' =>
                     loaded \/ (IsAnswering(entry) \/ IsAnswered(entry))
    BY <2>10, <2>4, <2>6, <2>9, <2>3, <2>7 DEF IsServed, Moves, IsAnswering, At
  <2>11. ServedIsCounted'
    BY <2>4, <2>7, <2>10 DEF ServedIsCounted, CountInv
  <2> QED BY <2>5, <2>11 DEF CountInv
<1>10. ASSUME NEW r \in Subs, RestoreFails(r) PROVE CountInv'
  <2>1. Failure(r) \in Message
    BY DEF Message, Failure, Snapshot
  <2>2. Grown(down, down', Failure(r))
    BY <1>10, <2>1, SendEffect DEF RestoreFails
  <2>3. Failure(r).kind = "failure" /\ Failure(r).req = r
    BY DEF Failure, Snapshot
  <2>4. up' = up
    BY <1>10 DEF RestoreFails, At, Evicts, Failure, hostVars, clientVars
  <2>5. Moves(r, "done") /\ (At(r, "restoring") \/ At(r, "configuring"))
    BY <1>10, HandlerMoves
  <2>6. entry' = entry
    BY <1>10 DEF RestoreFails, At, Evicts, Failure, hostVars, clientVars
  <2>7. UnsubscribesAreOld'
    BY <2>6, <2>4, UpStays DEF UnsubscribesAreOld, CountInv
  <2>8. entry # 0 => entry \in Subs
    BY DEF CountersTyped, Subs
  <2>9. /\ hydrated' = hydrated /\ (miscounted' <=> miscounted \/ \E q \in Subs : q > r /\ ~At(q, "none"))
    BY <1>10 DEF RestoreFails, clientVars
  <2>10. ASSUME entry # 0, ~miscounted'
         PROVE  ~IsServed(entry)' /\ ~IsAnswering(entry)' /\ ~IsAnswered(entry)'
    <3>1. entry \in Subs /\ entry = asked /\ r \in Nat /\ entry \in Nat
      BY <2>10, <2>8 DEF RequestInv, Subs
    <3>2. r <= asked
      BY <2>5 DEF RequestInv, RequestsAreNew, At, Subs, CountersTyped
    <3>3. CASE entry = r
      <4>1. ~IsAnswered(entry)
        BY <3>3, <2>5, UnansweredYet DEF At
      <4>2. ~IsAnswered(entry)'
        BY <4>1, <2>6, <2>9, <2>2, <2>3, DownGrown DEF IsAnswered
      <4> QED BY <3>1, <3>3, <4>2, <2>6, <2>5 DEF IsServed, IsAnswering, At, Moves
    <3>4. CASE entry # r
      <4>1. At(entry, "none")
        BY <2>10, <3>1, <3>2, <3>4, <2>9
      <4>2. ~IsAnswered(entry)
        BY <3>1, <4>1, UnansweredYet DEF At
      <4>3. ~IsAnswered(entry)'
        BY <3>4, <4>2, <2>6, <2>9, <2>2, <2>3, DownGrown DEF IsAnswered
      <4> QED BY <3>1, <3>4, <4>1, <4>3, <2>6, <2>5 DEF IsServed, IsAnswering, At, Moves
    <3> QED BY <3>3, <3>4
  <2>11. ServedIsCounted'
    BY <2>6, <2>10 DEF ServedIsCounted
  <2> QED BY <2>7, <2>11 DEF CountInv
<1>11. ASSUME NEW r \in Subs, Joins(r) PROVE CountInv'
  <2>1. down' = down
    BY <1>11 DEF Joins, At, hostVars, clientVars
  <2>2. up' = up
    BY <1>11 DEF Joins, At, hostVars, clientVars
  <2>3. Moves(r, "replying") /\ At(r, "answering")
    BY <1>11, HandlerMoves
  <2>4. entry' = entry
    BY <1>11 DEF Joins, At, hostVars, clientVars
  <2>5. UnsubscribesAreOld'
    BY <2>4, <2>2, UpStays DEF UnsubscribesAreOld, CountInv
  <2>6. entry # 0 => entry \in Subs
    BY DEF CountersTyped, Subs
  <2>7. counted' = counted /\ miscounted' = miscounted /\ loaded' = loaded
    BY <1>11 DEF Joins, At, hostVars, clientVars
  <2>8. hydrated' = hydrated
    BY <1>11 DEF Joins, At, hostVars, clientVars
  <2>9. IsAnswered(entry)' => IsAnswered(entry)
    BY <2>4, <2>8, <2>1, DownStays DEF IsAnswered
  <2>10. ASSUME entry # 0
         PROVE  /\ IsServed(entry)' => IsServed(entry)
                /\ (IsAnswering(entry) \/ IsAnswered(entry))' =>
                     (IsAnswering(entry) \/ IsAnswered(entry))
    BY <2>10, <2>4, <2>6, <2>9, <2>3, <2>7 DEF IsServed, Moves, IsAnswering, At
  <2>11. ServedIsCounted'
    BY <2>4, <2>7, <2>10 DEF ServedIsCounted, CountInv
  <2> QED BY <2>5, <2>11 DEF CountInv
<1>12. ASSUME NEW r \in Subs, Replies(r) PROVE CountInv'
  <2>1. Snapshot(r, handler[r]) \in Message
    BY DEF HandlerTyped, Handler, Message, Failure, Snapshot
  <2>2. Grown(down, down', Snapshot(r, handler[r]))
    BY <1>12, <2>1, SendEffect DEF Replies
  <2>3. /\ Snapshot(r, handler[r]).kind = "snapshot" /\ Snapshot(r, handler[r]).req = r
        /\ Snapshot(r, handler[r]).seqs = handler[r].seqs /\ Snapshot(r, handler[r]).from = handler[r].from
    BY DEF Failure, Snapshot
  <2>4. up' = up
    BY <1>12 DEF Replies, At, Snapshot, hostVars, clientVars
  <2>5. Moves(r, "done") /\ IsAnswering(r)
    BY <1>12, HandlerMoves
  <2>6. entry' = entry
    BY <1>12 DEF Replies, At, Snapshot, hostVars, clientVars
  <2>7. UnsubscribesAreOld'
    BY <2>6, <2>4, UpStays DEF UnsubscribesAreOld, CountInv
  <2>8. entry # 0 => entry \in Subs
    BY DEF CountersTyped, Subs
  <2>9. counted' = counted /\ miscounted' = miscounted /\ loaded' = loaded
    BY <1>12 DEF Replies, At, Snapshot, hostVars, clientVars
  <2>10. hydrated' = hydrated
    BY <1>12 DEF Replies, At, Snapshot, hostVars, clientVars
  <2>11. IsAnswered(entry)' => IsAnswered(entry) \/ entry = r
    BY <2>6, <2>10, <2>2, <2>3, DownGrown DEF IsAnswered
  <2>12. ASSUME entry # 0
         PROVE  /\ IsServed(entry)' => IsServed(entry)
                /\ (IsAnswering(entry) \/ IsAnswered(entry))' =>
                     (IsAnswering(entry) \/ IsAnswered(entry))
    BY <2>12, <2>6, <2>8, <2>11, <2>5, <2>9 DEF IsServed, Moves, IsAnswering, At
  <2>13. ServedIsCounted'
    BY <2>6, <2>9, <2>12 DEF ServedIsCounted, CountInv
  <2> QED BY <2>7, <2>13 DEF CountInv
<1>13. CASE Acquires
  <2>1. down' = down
    BY <1>13 DEF Acquires, hostVars, clientVars
  <2>2. [kind |-> "subscribe", req |-> asked + 1] \in Request
    BY <1>13 DEF Acquires, Request, Subs, Acts, CountersTyped
  <2>3. Grown(up, up', [kind |-> "subscribe", req |-> asked + 1])
    BY <1>13, <2>2, AskEffect DEF Acquires
  <2>4. /\ [kind |-> "subscribe", req |-> asked + 1].kind = "subscribe"
        /\ [kind |-> "subscribe", req |-> asked + 1].req = asked + 1
    OBVIOUS
  <2>5. handler' = handler
    BY <1>13 DEF Acquires, hostVars, clientVars
  <2>6. ~hydrated /\ ~hydrated' /\ entry' = asked + 1 /\ asked + 1 \in Subs /\ asked + 1 > asked
    BY <1>13 DEF Acquires, RequestInv, HydratedIsAnswered, Subs, CountersTyped
  <2>7. UnsubscribesAreOld'
    <3>1. PICK k \in Nat : k = Len(up) + 1
      BY <2>3, <2>4, UpGrown
    <3>2. IsRequest(k)' /\ up'[k].req = entry'
      BY <3>1, <2>6, <2>3, <2>4, UpGrown
    <3>3. \A j \in 1..Len(up') : up'[j].kind = "unsubscribe" => j < k
      BY <3>1, <2>3, <2>4, UpGrown
    <3> QED BY <3>2, <3>3 DEF UnsubscribesAreOld
  <2>8. At(asked + 1, "none") /\ ~IsAnswered(asked + 1)
    BY <2>6, UnansweredYet DEF RequestInv, RequestsAreNew, At
  <2>9. ~IsServed(entry)' /\ ~IsAnswered(entry)' /\ ~IsAnswering(entry)'
    BY <2>6, <2>8, <2>1, DownStays, <2>5 DEF IsServed, IsAnswered, IsAnswering, At
  <2>10. ServedIsCounted'
    BY <2>9 DEF ServedIsCounted
  <2> QED BY <2>7, <2>10 DEF CountInv
<1>14. CASE Releases
  <2>1. down' = down
    BY <1>14 DEF Releases, Empty, hostVars, clientVars
  <2>2. [kind |-> "unsubscribe"] \in Request
    BY <1>14 DEF Releases, Request, Subs, Acts, CountersTyped
  <2>3. Grown(up, up', [kind |-> "unsubscribe"])
    BY <1>14, <2>2, AskEffect DEF Releases
  <2>4. [kind |-> "unsubscribe"].kind = "unsubscribe"
    OBVIOUS
  <2>5. handler' = handler
    BY <1>14 DEF Releases, Empty, hostVars, clientVars
  <2>6. entry' = 0
    BY <1>14 DEF Releases
  <2> QED BY <2>6 DEF CountInv, UnsubscribesAreOld, ServedIsCounted
<1>15. CASE Dispatches
  <2>1. down' = down
    BY <1>15 DEF Dispatches, hostVars, clientVars
  <2>2. [kind |-> "action", seq |-> acted + 1] \in Request
    BY <1>15 DEF Dispatches, Request, Subs, Acts, CountersTyped
  <2>3. Grown(up, up', [kind |-> "action", seq |-> acted + 1])
    BY <1>15, <2>2, AskEffect DEF Dispatches
  <2>4. /\ [kind |-> "action", seq |-> acted + 1].kind = "action"
        /\ [kind |-> "action", seq |-> acted + 1].seq = acted + 1
    OBVIOUS
  <2>5. handler' = handler
    BY <1>15 DEF Dispatches, hostVars, clientVars
  <2>6. entry' = entry
    BY <1>15 DEF Dispatches, hostVars, clientVars
  <2>7. UnsubscribesAreOld'
    <3> SUFFICES ASSUME entry # 0, NEW j \in 1..Len(up'), up'[j].kind = "unsubscribe"
                 PROVE  \E k \in Nat : IsRequest(k)' /\ up'[k].req = entry /\ j < k
      BY <2>6 DEF UnsubscribesAreOld
    <3>1. j \in 1..Len(up) /\ up[j].kind = "unsubscribe"
      BY <2>3, <2>4, UpGrown
    <3>2. PICK k \in Nat : IsRequest(k) /\ up[k].req = entry /\ j < k
      BY <3>1 DEF CountInv, UnsubscribesAreOld
    <3> QED BY <3>2, <2>3, <2>4, UpGrown
  <2>8. entry # 0 => entry \in Subs
    BY DEF CountersTyped, Subs
  <2>9. counted' = counted /\ miscounted' = miscounted /\ loaded' = loaded
    BY <1>15 DEF Dispatches, hostVars, clientVars
  <2>10. hydrated' = hydrated
    BY <1>15 DEF Dispatches, hostVars, clientVars
  <2>11. IsAnswered(entry)' => IsAnswered(entry)
    BY <2>6, <2>10, <2>1, DownStays DEF IsAnswered
  <2>12. ASSUME entry # 0
         PROVE  /\ IsServed(entry)' => IsServed(entry)
                /\ (IsAnswering(entry) \/ IsAnswered(entry))' => IsAnswering(entry) \/ IsAnswered(entry)
    BY <2>6, <2>8, <2>11, <2>5 DEF IsServed, At, IsAnswering
  <2>13. ServedIsCounted'
    BY <2>6, <2>9, <2>12 DEF ServedIsCounted, CountInv
  <2> QED BY <2>7, <2>13 DEF CountInv
<1>16. ASSUME NEW i \in Emitted, GetsEnvelope(i) PROVE CountInv'
  <2>1. Dropped(down, down') /\ Head(down) = down[1] /\ Head(down) \in Message
    BY <1>16, ReceiveEffect DEF GetsEnvelope
  <2>2. up' = up
    BY <1>16 DEF GetsEnvelope, ReceivesEnvelope, Reduce, Unechoed, hostVars, clientVars
  <2>3. handler' = handler
    BY <1>16 DEF GetsEnvelope, ReceivesEnvelope, Reduce, Unechoed, hostVars, clientVars
  <2>4. entry' = entry
    BY <1>16 DEF GetsEnvelope, ReceivesEnvelope, Reduce, Unechoed, hostVars, clientVars
  <2>5. UnsubscribesAreOld'
    BY <2>4, <2>2, UpStays DEF UnsubscribesAreOld, CountInv
  <2>6. entry # 0 => entry \in Subs
    BY DEF CountersTyped, Subs
  <2>7. counted' = counted /\ miscounted' = miscounted /\ loaded' = loaded
    BY <1>16 DEF GetsEnvelope, ReceivesEnvelope, Reduce, Unechoed, hostVars, clientVars
  <2>8. hydrated' = hydrated
    BY <1>16 DEF GetsEnvelope, ReceivesEnvelope, Reduce, Unechoed, hostVars, clientVars
  <2>9. IsAnswered(entry)' => IsAnswered(entry)
    BY <2>4, <2>8, <2>1, DownDropped DEF IsAnswered
  <2>10. ASSUME entry # 0
         PROVE  /\ IsServed(entry)' => IsServed(entry)
                /\ (IsAnswering(entry) \/ IsAnswered(entry))' => IsAnswering(entry) \/ IsAnswered(entry)
    BY <2>4, <2>6, <2>9, <2>3 DEF IsServed, At, IsAnswering
  <2>11. ServedIsCounted'
    BY <2>4, <2>7, <2>10 DEF ServedIsCounted, CountInv
  <2> QED BY <2>5, <2>11 DEF CountInv
<1>17. ASSUME NEW m \in Message, GetsSnapshot(m) PROVE CountInv'
  <2>1. Dropped(down, down') /\ Head(down) = down[1] /\ Head(down) \in Message
    BY <1>17, ReceiveEffect DEF GetsSnapshot
  <2>2. up' = up
    BY <1>17 DEF GetsSnapshot, HandlesSnapshot, Reduce, Unechoed, IsCurrent, hostVars, clientVars
  <2>3. handler' = handler
    BY <1>17 DEF GetsSnapshot, HandlesSnapshot, Reduce, Unechoed, IsCurrent, hostVars, clientVars
  <2>4. entry' = entry
    BY <1>17 DEF GetsSnapshot, HandlesSnapshot, Reduce, Unechoed, IsCurrent, hostVars, clientVars
  <2>5. UnsubscribesAreOld'
    BY <2>4, <2>2, UpStays DEF UnsubscribesAreOld, CountInv
  <2>6. entry # 0 => entry \in Subs
    BY DEF CountersTyped, Subs
  <2>7. counted' = counted /\ miscounted' = miscounted /\ loaded' = loaded
    BY <1>17 DEF GetsSnapshot, HandlesSnapshot, Reduce, Unechoed, IsCurrent, hostVars, clientVars
  <2>8. IsSnapshot(1) /\ down[1] = m
    BY <1>17, <2>1, DownDropped DEF GetsSnapshot, IsSnapshot
  <2>9. hydrated' => hydrated \/ entry = m.req
    BY <1>17 DEF GetsSnapshot, HandlesSnapshot, IsCurrent
  <2>10. IsAnswered(entry)' => IsAnswered(entry)
    BY <2>4, <2>8, <2>9, <2>1, DownDropped, 1 \in Nat DEF IsAnswered
  <2>11. ASSUME entry # 0
         PROVE  /\ IsServed(entry)' => IsServed(entry)
                /\ (IsAnswering(entry) \/ IsAnswered(entry))' => IsAnswering(entry) \/ IsAnswered(entry)
    BY <2>4, <2>6, <2>10, <2>3 DEF IsServed, At, IsAnswering
  <2>12. ServedIsCounted'
    BY <2>4, <2>7, <2>11 DEF ServedIsCounted, CountInv
  <2> QED BY <2>5, <2>12 DEF CountInv
<1>18. ASSUME NEW m \in Message, GetsFailure(m) PROVE CountInv'
  <2>1. Dropped(down, down') /\ Head(down) = down[1] /\ Head(down) \in Message
    BY <1>18, ReceiveEffect DEF GetsFailure
  <2>2. up' = up
    BY <1>18 DEF GetsFailure, HandlesFailure, IsCurrent, hostVars, clientVars
  <2>3. handler' = handler
    BY <1>18 DEF GetsFailure, HandlesFailure, IsCurrent, hostVars, clientVars
  <2>4. entry' = entry
    BY <1>18 DEF GetsFailure, HandlesFailure, IsCurrent, hostVars, clientVars
  <2>5. UnsubscribesAreOld'
    BY <2>4, <2>2, UpStays DEF UnsubscribesAreOld, CountInv
  <2>6. entry # 0 => entry \in Subs
    BY DEF CountersTyped, Subs
  <2>7. counted' = counted /\ miscounted' = miscounted /\ loaded' = loaded
    BY <1>18 DEF GetsFailure, HandlesFailure, IsCurrent, hostVars, clientVars
  <2>8. hydrated' = hydrated
    BY <1>18 DEF GetsFailure, HandlesFailure, IsCurrent, hostVars, clientVars
  <2>9. IsAnswered(entry)' => IsAnswered(entry)
    BY <2>4, <2>8, <2>1, DownDropped DEF IsAnswered
  <2>10. ASSUME entry # 0
         PROVE  /\ IsServed(entry)' => IsServed(entry)
                /\ (IsAnswering(entry) \/ IsAnswered(entry))' => IsAnswering(entry) \/ IsAnswered(entry)
    BY <2>4, <2>6, <2>9, <2>3 DEF IsServed, At, IsAnswering
  <2>11. ServedIsCounted'
    BY <2>4, <2>7, <2>10 DEF ServedIsCounted, CountInv
  <2> QED BY <2>5, <2>11 DEF CountInv
<1>19. CASE UNCHANGED vars
  BY <1>19, CountFrame DEF vars, hostVars, clientVars
<1> QED
  BY Steps, <1>1, <1>2, <1>3, <1>4, <1>5, <1>6, <1>7, <1>8, <1>9, <1>10, <1>11, <1>12, <1>13, <1>14, <1>15, <1>16, <1>17, <1>18, <1>19

-----------------------------------------------------------------------------
(* What the client gets, and what the host has *)

LEMMA SentGrows ==
  ASSUME TypeOK, NEW m, Grown(down, down', m)
  PROVE  \A i : IsSent(i) => IsSent(i)'
BY DownGrown DEF IsSent

LEMMA SentDrops ==
  ASSUME TypeOK, Dropped(down, down')
  PROVE  \A i : IsSent(i) => IsSent(i)' \/ (IsEnvelope(1) /\ down[1].seq = i)
<1> SUFFICES ASSUME NEW i, IsSent(i)
             PROVE  IsSent(i)' \/ (IsEnvelope(1) /\ down[1].seq = i)
  OBVIOUS
<1>1. PICK k \in Nat : IsEnvelope(k) /\ down[k].seq = i
  BY DEF IsSent
<1>2. CASE k # 1
  <2>1. PICK j \in Nat : j = k - 1 /\ j # 0 /\ j + 1 = k
    BY <1>1, <1>2, DownDropped
  <2>2. IsEnvelope(j)' /\ down'[j].seq = i
    BY <1>1, <2>1, DownDropped
  <2> QED BY <2>2 DEF IsSent
<1> QED BY <1>1, <1>2

\* An envelope sent by the host is under way.
LEMMA SentNow ==
  ASSUME TypeOK, NEW i \in Nat, Grown(down, down', Envelope(i))
  PROVE  IsSent(i)'
<1>1. Envelope(i).kind = "envelope" /\ Envelope(i).seq = i
  BY DEF Envelope
<1>2. PICK k \in Nat : k = Len(down) + 1
  BY DownGrown
<1>3. IsEnvelope(k)' /\ down'[k].seq = i
  BY <1>1, <1>2, DownGrown
<1> QED BY <1>3 DEF IsSent

\* Other steps leave all that it speaks of.
LEMMA StateFrame ==
  ASSUME StateInv,
         UNCHANGED <<remote, host, down, entry, miscounted, hydrated, confirmed, buffered, handler>>
  PROVE  StateInv'
BY DownStays
   DEF StateInv, SnapshotsAreStates, FollowersAreReduced, NothingIsSkipped, IsAnswering, At,
       IsStateAt, Reduced, NoGapAfter, IsSent

\* The host reduces what follows the snapshot of a client that is counted, and sends a local one all of it.
LEMMA StateStep ==
  ASSUME TypeOK, OrderInv, RequestInv, CountInv, StateInv, [Next]_vars
  PROVE  StateInv'
<1> USE SyncAssumption
<1>0. FlagsTyped /\ HostTyped /\ HandlerTyped /\ MessagesTyped /\ CountersTyped /\ ClientTyped
  BY TypeParts
<1> USE <1>0 DEF StateInv
<1>1. CASE HostActs
  <2>1. entry # 0 => entry \in Subs
    BY DEF CountersTyped, Subs
  <2>2. ApplyAndEmit(0)
    BY <1>1 DEF HostActs, hostVars, clientVars
  <2>3. IF Reaches THEN Grown(down, down', Envelope(Len(log) + 1)) ELSE down' = down
    BY <2>2, EmitEffect, 0 \in 0..MaxActs DEF Acts
  <2>4. Envelope(Len(log) + 1).kind = "envelope" /\ Envelope(Len(log) + 1).seq = Len(log) + 1
    BY DEF Envelope
  <2>5. handler' = handler
    BY <1>1 DEF HostActs, hostVars, clientVars
  <2>6. /\ Len(log) \in Nat /\ host' = (IF loaded THEN host \cup {Len(log) + 1} ELSE host)
        /\ IF Reaches THEN Grown(down, down', Envelope(Len(log) + 1)) ELSE down' = down
    BY <1>1, EmitEffect, 0 \in 0..MaxActs DEF HostActs, hostVars, clientVars, Acts
  <2>7. /\ entry' = entry /\ miscounted' = miscounted /\ hydrated' = hydrated /\ remote' = remote
        /\ confirmed' = confirmed /\ buffered' = buffered
    BY <1>1 DEF HostActs, hostVars, clientVars
  <2>8. /\ host \subseteq host' /\ \A i \in host' : i \in host \/ i = Len(log) + 1
        /\ host \subseteq 1..Len(log)
    BY <2>6 DEF HostTyped, Emitted
  <2>9. \A S, from : from \in 0..Len(log) /\ IsStateAt(S, from) => IsStateAt(S, from)'
    BY <2>8, <2>6 DEF IsStateAt
  <2>10. \A r \in Subs : handler[r].from \in 0..Len(log)
    BY DEF HandlerTyped, Handler
  <2>11. SnapshotsAreStates'
    <3>1. \A r \in Subs : IsAnswering(r)' => IsStateAt(handler[r].seqs, handler[r].from)'
      BY <2>9, <2>10, <2>5 DEF SnapshotsAreStates, IsAnswering, At
    <3>2. \A k \in Nat : IsSnapshot(k)' => IsSnapshot(k) /\ down'[k] = down[k]
      BY <2>3, <2>4, DownGrown, DownStays
    <3>3. \A k \in Nat : IsSnapshot(k) => IsStateAt(down[k].seqs, down[k].from)'
      BY <2>9, <2>6, DownTyped, <2>3, <2>4, DownGrown, DownStays DEF SnapshotsAreStates
    <3> QED BY <3>1, <3>2, <3>3, <2>5 DEF SnapshotsAreStates, IsStateAt
  <2>12. ASSUME entry # 0, ~miscounted, IsAnswering(entry) \/ IsAnswered(entry)
         PROVE  /\ \A from : Reduced(from) => Reduced(from)'
                /\ (\A k \in Nat : IsEnvelope(k) => down[k].seq \in host) =>
                     \A k \in Nat : IsEnvelope(k)' => down'[k].seq \in host'
    <3>1. loaded
      BY <2>12 DEF CountInv, ServedIsCounted
    <3>2. Len(log) + 1 \in host'
      BY <3>1, <2>6
    <3>3. \A k \in Nat : IsEnvelope(k)' => (IsEnvelope(k) /\ down'[k] = down[k]) \/ down'[k].seq = Len(log) + 1
      BY <2>3, <2>4, DownGrown, DownStays
    <3> QED BY <3>2, <3>3, <2>8, <2>7 DEF Reduced
  <2>13. /\ IsAnswering(entry)' <=> IsAnswering(entry)
         /\ \A k \in Nat : IsSnapshot(k)' => IsSnapshot(k) /\ down'[k] = down[k]
    BY <2>7, <2>3, <2>4, DownGrown, DownStays, <2>5 DEF IsAnswering, At
  <2>14. FollowersAreReduced'
    <3> SUFFICES ASSUME entry # 0, ~miscounted
                 PROVE  /\ IsAnswering(entry) => Reduced(handler[entry].from)'
                        /\ \A k \in Nat : IsSnapshot(k) /\ down[k].req = entry => Reduced(down[k].from)'
                        /\ hydrated => /\ confirmed.seqs \subseteq host'
                                       /\ \A k \in Nat : IsEnvelope(k)' => down'[k].seq \in host'
      BY <2>7, <2>13, <2>5 DEF FollowersAreReduced, Reduced
    <3>1. ASSUME IsAnswering(entry) PROVE Reduced(handler[entry].from)'
      <4>1. \A from : Reduced(from) => Reduced(from)'
        BY <2>12, <3>1
      <4>2. Reduced(handler[entry].from)
        BY <3>1 DEF FollowersAreReduced
      <4> QED BY <4>1, <4>2, <2>5, <2>7
    <3>2. ASSUME NEW k \in Nat, IsSnapshot(k), down[k].req = entry PROVE Reduced(down[k].from)'
      <4>1. IsAnswered(entry)
        BY <3>2 DEF IsAnswered
      <4>2. PICK from : from = down[k].from
        OBVIOUS
      <4>3. Reduced(from)'
        BY <4>1, <4>2, <2>12, <3>2 DEF FollowersAreReduced
      <4> QED BY <4>2, <4>3, <3>2, <2>3, <2>4, DownGrown, DownStays
    <3>3. ASSUME hydrated PROVE confirmed.seqs \subseteq host' /\ \A k \in Nat : IsEnvelope(k)' => down'[k].seq \in host'
      <4>1. IsAnswered(entry)
        BY <3>3 DEF IsAnswered
      <4> QED BY <4>1, <3>3, <2>12, <2>8 DEF FollowersAreReduced
    <3> QED BY <3>1, <3>2, <3>3
  <2>15. ~remote => /\ \A i : IsSent(i) => IsSent(i)'
                    /\ \A i \in host' : i \in host \/ IsSent(i)'
    BY <2>6, <2>8, SentGrows, SentNow DEF Reaches
  <2>16. NothingIsSkipped'
    <3>1. ~remote => \A from : NoGapAfter(from) => NoGapAfter(from)'
      BY <2>15, <2>7 DEF NoGapAfter
    <3> SUFFICES ASSUME entry # 0, ~remote
                 PROVE  /\ IsAnswering(entry) => NoGapAfter(handler[entry].from)'
                        /\ \A k \in Nat : IsSnapshot(k) /\ down[k].req = entry => NoGapAfter(down[k].from)'
                        /\ hydrated => \A i \in host' : i \in confirmed.seqs \/ IsSent(i)'
      BY <2>7, <2>13, <2>5 DEF NothingIsSkipped, NoGapAfter
    <3>2. ASSUME IsAnswering(entry) PROVE NoGapAfter(handler[entry].from)'
      BY <3>1, <3>2, <2>5, <2>7 DEF NothingIsSkipped
    <3>3. ASSUME NEW k \in Nat, IsSnapshot(k), down[k].req = entry PROVE NoGapAfter(down[k].from)'
      <4>1. PICK from : from = down[k].from
        OBVIOUS
      <4>2. NoGapAfter(from)'
        BY <3>1, <3>3, <4>1 DEF NothingIsSkipped
      <4> QED BY <4>1, <4>2, <3>3, <2>3, <2>4, DownGrown, DownStays
    <3>4. hydrated => \A i \in host' : i \in confirmed.seqs \/ IsSent(i)'
      BY <2>15 DEF NothingIsSkipped
    <3> QED BY <3>2, <3>3, <3>4
  <2> QED BY <2>11, <2>14, <2>16 DEF StateInv
<1>2. CASE OtherSubscribes
  BY <1>2, StateFrame DEF OtherSubscribes, hostVars, clientVars
<1>3. CASE OtherRestores
  BY <1>3, StateFrame DEF OtherRestores, hostVars, clientVars
<1>4. CASE OtherLeaves
  BY <1>4, StateFrame DEF OtherLeaves, Evicts, hostVars, clientVars
<1>5. ASSUME NEW r \in Subs, ReceivesSubscribe(r) PROVE StateInv'
  <2>1. entry # 0 => entry \in Subs
    BY DEF CountersTyped, Subs
  <2>2. down' = down
    BY <1>5 DEF ReceivesSubscribe, HandlesSubscribe, hostVars, clientVars
  <2>3. \E s \in {"answering", "restoring"} : Moves(r, s)
    BY <1>5, HandlerMoves
  <2>4. handler' = [handler EXCEPT ![r] = IF loaded THEN Taken ELSE Waiting("restoring")]
    BY <1>5 DEF ReceivesSubscribe, HandlesSubscribe, hostVars, clientVars
  <2>5. /\ host' = host /\ log' = log /\ entry' = entry /\ miscounted' = miscounted
        /\ hydrated' = hydrated /\ remote' = remote /\ confirmed' = confirmed /\ buffered' = buffered
    BY <1>5 DEF ReceivesSubscribe, HandlesSubscribe, hostVars, clientVars
  <2>6. host \subseteq 1..Len(log) /\ buffered \subseteq 1..Len(log) /\ Len(log) \in Nat
    BY DEF HostTyped, ClientTyped, Emitted
  <2>7. IsAnswering(r)' => handler'[r].seqs = host /\ handler'[r].from = Len(log)
    BY <2>4, TakenTyped DEF IsAnswering, At, HandlerTyped, Stage
  <2>8. \A q \in Subs : q # r => handler'[q] = handler[q]
    BY <2>4 DEF HandlerTyped
  <2>9. /\ IsStateAt(host, Len(log)) /\ Reduced(Len(log)) /\ NoGapAfter(Len(log))
    BY <2>6, DownTyped DEF IsStateAt, Reduced, NoGapAfter
  <2>10. /\ \A S, from : IsStateAt(S, from)' <=> IsStateAt(S, from)
         /\ \A from : Reduced(from)' <=> Reduced(from)
         /\ \A i : IsSent(i)' <=> IsSent(i)
         /\ \A from : NoGapAfter(from)' <=> NoGapAfter(from)
    BY <2>5, <2>2, DownStays DEF IsStateAt, Reduced, NoGapAfter, IsSent
  <2>11. \A q \in Subs : q # r => (IsAnswering(q)' <=> IsAnswering(q))
    BY <2>8 DEF IsAnswering, At
  <2>12. SnapshotsAreStates'
    <3>1. ASSUME NEW q \in Subs, IsAnswering(q)' PROVE IsStateAt(handler[q].seqs, handler[q].from)'
      <4>1. CASE q = r
        BY <3>1, <4>1, <2>7, <2>9, <2>5 DEF IsStateAt
      <4>2. CASE q # r
        BY <3>1, <4>2, <2>8, <2>11, <2>5 DEF SnapshotsAreStates, IsStateAt
      <4> QED BY <4>1, <4>2
    <3>2. ASSUME NEW k \in Nat, IsSnapshot(k)' PROVE IsStateAt(down[k].seqs, down[k].from)'
      BY <3>2, <2>2, DownStays, <2>5 DEF SnapshotsAreStates, IsStateAt
    <3> QED BY <3>1, <3>2 DEF SnapshotsAreStates
  <2>13. ASSUME entry # 0, ~miscounted, IsAnswering(entry)' PROVE Reduced(handler[entry].from)'
    <3>1. CASE entry = r
      BY <2>13, <3>1, <2>7, <2>9, <2>5, <2>2, DownStays, <2>10 DEF Reduced
    <3>2. CASE entry # r
      BY <2>13, <3>2, <2>1, <2>8, <2>11, <2>5, <2>2, DownStays, <2>10 DEF FollowersAreReduced, Reduced
    <3> QED BY <3>1, <3>2
  <2>14. ASSUME entry # 0, ~miscounted, NEW k \in Nat, IsSnapshot(k)', down'[k].req = entry PROVE Reduced(down[k].from)'
    BY <2>14, <2>5, <2>2, DownStays, <2>10 DEF FollowersAreReduced, Reduced
  <2>15. FollowersAreReduced'
    BY <2>13, <2>14, <2>5, <2>2, DownStays, <2>10 DEF FollowersAreReduced
  <2>16. ASSUME entry # 0, ~remote, IsAnswering(entry)' PROVE NoGapAfter(handler[entry].from)'
    <3>1. CASE entry = r
      BY <2>16, <3>1, <2>7, <2>9, <2>5, <2>2, DownStays, <2>10 DEF NoGapAfter
    <3>2. CASE entry # r
      BY <2>16, <3>2, <2>1, <2>8, <2>11, <2>5, <2>2, DownStays, <2>10 DEF NothingIsSkipped, NoGapAfter
    <3> QED BY <3>1, <3>2
  <2>17. ASSUME entry # 0, ~remote, NEW k \in Nat, IsSnapshot(k)', down'[k].req = entry PROVE NoGapAfter(down[k].from)'
    BY <2>17, <2>5, <2>2, DownStays, <2>10 DEF NothingIsSkipped, NoGapAfter
  <2>18. NothingIsSkipped'
    BY <2>16, <2>17, <2>5, <2>2, DownStays, <2>10 DEF NothingIsSkipped
  <2> QED BY <2>12, <2>15, <2>18 DEF StateInv
<1>6. CASE ReceivesUnsubscribe
  BY <1>6, StateFrame DEF ReceivesUnsubscribe, HandlesUnsubscribe, Evicts, hostVars, clientVars
<1>7. ASSUME NEW n \in Acts, ReceivesAction(n) PROVE StateInv'
  <2>1. entry # 0 => entry \in Subs
    BY DEF CountersTyped, Subs
  <2>2. ApplyAndEmit(n)
    BY <1>7 DEF ReceivesAction, HandlesAction, hostVars, clientVars
  <2>3. IF Reaches THEN Grown(down, down', Envelope(Len(log) + 1)) ELSE down' = down
    BY <2>2, EmitEffect, 0 \in 0..MaxActs, n \in 0..MaxActs DEF Acts
  <2>4. Envelope(Len(log) + 1).kind = "envelope" /\ Envelope(Len(log) + 1).seq = Len(log) + 1
    BY DEF Envelope
  <2>5. handler' = handler
    BY <1>7 DEF ReceivesAction, HandlesAction, hostVars, clientVars
  <2>6. /\ Len(log) \in Nat /\ host' = (IF loaded THEN host \cup {Len(log) + 1} ELSE host)
        /\ IF Reaches THEN Grown(down, down', Envelope(Len(log) + 1)) ELSE down' = down
    BY <1>7, EmitEffect, n \in 0..MaxActs DEF ReceivesAction, HandlesAction, hostVars, clientVars, Acts
  <2>7. /\ entry' = entry /\ miscounted' = miscounted /\ hydrated' = hydrated /\ remote' = remote
        /\ confirmed' = confirmed /\ buffered' = buffered
    BY <1>7 DEF ReceivesAction, HandlesAction, hostVars, clientVars
  <2>8. /\ host \subseteq host' /\ \A i \in host' : i \in host \/ i = Len(log) + 1
        /\ host \subseteq 1..Len(log)
    BY <2>6 DEF HostTyped, Emitted
  <2>9. \A S, from : from \in 0..Len(log) /\ IsStateAt(S, from) => IsStateAt(S, from)'
    BY <2>8, <2>6 DEF IsStateAt
  <2>10. \A r \in Subs : handler[r].from \in 0..Len(log)
    BY DEF HandlerTyped, Handler
  <2>11. SnapshotsAreStates'
    <3>1. \A r \in Subs : IsAnswering(r)' => IsStateAt(handler[r].seqs, handler[r].from)'
      BY <2>9, <2>10, <2>5 DEF SnapshotsAreStates, IsAnswering, At
    <3>2. \A k \in Nat : IsSnapshot(k)' => IsSnapshot(k) /\ down'[k] = down[k]
      BY <2>3, <2>4, DownGrown, DownStays
    <3>3. \A k \in Nat : IsSnapshot(k) => IsStateAt(down[k].seqs, down[k].from)'
      BY <2>9, <2>6, DownTyped, <2>3, <2>4, DownGrown, DownStays DEF SnapshotsAreStates
    <3> QED BY <3>1, <3>2, <3>3, <2>5 DEF SnapshotsAreStates, IsStateAt
  <2>12. ASSUME entry # 0, ~miscounted, IsAnswering(entry) \/ IsAnswered(entry)
         PROVE  /\ \A from : Reduced(from) => Reduced(from)'
                /\ (\A k \in Nat : IsEnvelope(k) => down[k].seq \in host) =>
                     \A k \in Nat : IsEnvelope(k)' => down'[k].seq \in host'
    <3>1. loaded
      BY <2>12 DEF CountInv, ServedIsCounted
    <3>2. Len(log) + 1 \in host'
      BY <3>1, <2>6
    <3>3. \A k \in Nat : IsEnvelope(k)' => (IsEnvelope(k) /\ down'[k] = down[k]) \/ down'[k].seq = Len(log) + 1
      BY <2>3, <2>4, DownGrown, DownStays
    <3> QED BY <3>2, <3>3, <2>8, <2>7 DEF Reduced
  <2>13. /\ IsAnswering(entry)' <=> IsAnswering(entry)
         /\ \A k \in Nat : IsSnapshot(k)' => IsSnapshot(k) /\ down'[k] = down[k]
    BY <2>7, <2>3, <2>4, DownGrown, DownStays, <2>5 DEF IsAnswering, At
  <2>14. FollowersAreReduced'
    <3> SUFFICES ASSUME entry # 0, ~miscounted
                 PROVE  /\ IsAnswering(entry) => Reduced(handler[entry].from)'
                        /\ \A k \in Nat : IsSnapshot(k) /\ down[k].req = entry => Reduced(down[k].from)'
                        /\ hydrated => /\ confirmed.seqs \subseteq host'
                                       /\ \A k \in Nat : IsEnvelope(k)' => down'[k].seq \in host'
      BY <2>7, <2>13, <2>5 DEF FollowersAreReduced, Reduced
    <3>1. ASSUME IsAnswering(entry) PROVE Reduced(handler[entry].from)'
      <4>1. \A from : Reduced(from) => Reduced(from)'
        BY <2>12, <3>1
      <4>2. Reduced(handler[entry].from)
        BY <3>1 DEF FollowersAreReduced
      <4> QED BY <4>1, <4>2, <2>5, <2>7
    <3>2. ASSUME NEW k \in Nat, IsSnapshot(k), down[k].req = entry PROVE Reduced(down[k].from)'
      <4>1. IsAnswered(entry)
        BY <3>2 DEF IsAnswered
      <4>2. PICK from : from = down[k].from
        OBVIOUS
      <4>3. Reduced(from)'
        BY <4>1, <4>2, <2>12, <3>2 DEF FollowersAreReduced
      <4> QED BY <4>2, <4>3, <3>2, <2>3, <2>4, DownGrown, DownStays
    <3>3. ASSUME hydrated PROVE confirmed.seqs \subseteq host' /\ \A k \in Nat : IsEnvelope(k)' => down'[k].seq \in host'
      <4>1. IsAnswered(entry)
        BY <3>3 DEF IsAnswered
      <4> QED BY <4>1, <3>3, <2>12, <2>8 DEF FollowersAreReduced
    <3> QED BY <3>1, <3>2, <3>3
  <2>15. ~remote => /\ \A i : IsSent(i) => IsSent(i)'
                    /\ \A i \in host' : i \in host \/ IsSent(i)'
    BY <2>6, <2>8, SentGrows, SentNow DEF Reaches
  <2>16. NothingIsSkipped'
    <3>1. ~remote => \A from : NoGapAfter(from) => NoGapAfter(from)'
      BY <2>15, <2>7 DEF NoGapAfter
    <3> SUFFICES ASSUME entry # 0, ~remote
                 PROVE  /\ IsAnswering(entry) => NoGapAfter(handler[entry].from)'
                        /\ \A k \in Nat : IsSnapshot(k) /\ down[k].req = entry => NoGapAfter(down[k].from)'
                        /\ hydrated => \A i \in host' : i \in confirmed.seqs \/ IsSent(i)'
      BY <2>7, <2>13, <2>5 DEF NothingIsSkipped, NoGapAfter
    <3>2. ASSUME IsAnswering(entry) PROVE NoGapAfter(handler[entry].from)'
      BY <3>1, <3>2, <2>5, <2>7 DEF NothingIsSkipped
    <3>3. ASSUME NEW k \in Nat, IsSnapshot(k), down[k].req = entry PROVE NoGapAfter(down[k].from)'
      <4>1. PICK from : from = down[k].from
        OBVIOUS
      <4>2. NoGapAfter(from)'
        BY <3>1, <3>3, <4>1 DEF NothingIsSkipped
      <4> QED BY <4>1, <4>2, <3>3, <2>3, <2>4, DownGrown, DownStays
    <3>4. hydrated => \A i \in host' : i \in confirmed.seqs \/ IsSent(i)'
      BY <2>15 DEF NothingIsSkipped
    <3> QED BY <3>2, <3>3, <3>4
  <2> QED BY <2>11, <2>14, <2>16 DEF StateInv
<1>8. ASSUME NEW r \in Subs, Restores(r) PROVE StateInv'
  <2>1. entry # 0 => entry \in Subs
    BY DEF CountersTyped, Subs
  <2>2. down' = down
    BY <1>8 DEF Restores, At, hostVars, clientVars
  <2>3. Moves(r, "configuring") /\ At(r, "restoring")
    BY <1>8, HandlerMoves
  <2>4. /\ host' = host /\ entry' = entry /\ miscounted' = miscounted /\ remote' = remote
        /\ hydrated' = hydrated /\ confirmed' = confirmed /\ buffered' = buffered
    BY <1>8 DEF Restores, At, hostVars, clientVars
  <2>5. \A k \in Nat : IsEnvelope(k)' <=> IsEnvelope(k) /\ down'[k] = down[k]
    BY <2>2, DownStays
  <2>6. \A k \in Nat : IsEnvelope(k) => down'[k] = down[k]
    BY <2>2, DownStays
  <2>7. \A k \in Nat : IsSnapshot(k)' => IsSnapshot(k) /\ down'[k] = down[k]
    BY <2>2, DownStays
  <2>8. \A q \in Subs : IsAnswering(q)' =>
          IsAnswering(q) /\ handler'[q].seqs = handler[q].seqs /\ handler'[q].from = handler[q].from
    BY <1>8, <2>3 DEF Restores, IsAnswering, At, Moves, HandlerTyped, Handler
  <2>9. /\ \A T, from : IsStateAt(T, from)' <=> IsStateAt(T, from)
        /\ \A from : Reduced(from) => Reduced(from)'
        /\ \A i : IsSent(i) => IsSent(i)'
        /\ \A from : NoGapAfter(from) => NoGapAfter(from)'
    <3>1. \A i : IsSent(i) => IsSent(i)'
      BY <2>5, <2>6 DEF IsSent
    <3> QED BY <3>1, <2>4, <2>5 DEF IsStateAt, Reduced, NoGapAfter
  <2>10. SnapshotsAreStates'
    <3>1. ASSUME NEW q \in Subs, IsAnswering(q)' PROVE IsStateAt(handler[q].seqs, handler[q].from)'
      BY <3>1, <2>8, <2>4 DEF SnapshotsAreStates, IsStateAt
    <3>2. ASSUME NEW k \in Nat, IsSnapshot(k)' PROVE IsStateAt(down[k].seqs, down[k].from)'
      BY <3>2, <2>7, <2>4 DEF SnapshotsAreStates, IsStateAt
    <3> QED BY <3>1, <3>2 DEF SnapshotsAreStates
  <2>11. ASSUME entry # 0, ~miscounted', IsAnswering(entry)' PROVE Reduced(handler[entry].from)'
    <3>1. PICK from : from = handler[entry].from
      OBVIOUS
    <3>2. Reduced(from)'
      BY <2>11, <3>1, <2>1, <2>8, <2>4, <2>9 DEF FollowersAreReduced
    <3> QED BY <2>11, <3>1, <3>2, <2>1, <2>8, <2>4
  <2>12. ASSUME entry # 0, ~miscounted', NEW k \in Nat, IsSnapshot(k)', down'[k].req = entry PROVE Reduced(down[k].from)'
    <3>1. PICK from : from = down'[k].from
      OBVIOUS
    <3>2. Reduced(from)'
      BY <2>12, <3>1, <2>7, <2>4, <2>9 DEF FollowersAreReduced
    <3> QED BY <3>1, <3>2
  <2>13. FollowersAreReduced'
    BY <2>11, <2>12, <2>4, <2>5, <2>9 DEF FollowersAreReduced
  <2>14. ASSUME entry # 0, ~remote, IsAnswering(entry)' PROVE NoGapAfter(handler[entry].from)'
    <3>1. PICK from : from = handler[entry].from
      OBVIOUS
    <3>2. NoGapAfter(from)'
      BY <2>14, <3>1, <2>1, <2>8, <2>4, <2>9 DEF NothingIsSkipped
    <3> QED BY <2>14, <3>1, <3>2, <2>1, <2>8, <2>4
  <2>15. ASSUME entry # 0, ~remote, NEW k \in Nat, IsSnapshot(k)', down'[k].req = entry PROVE NoGapAfter(down[k].from)'
    <3>1. PICK from : from = down'[k].from
      OBVIOUS
    <3>2. NoGapAfter(from)'
      BY <2>15, <3>1, <2>7, <2>4, <2>9 DEF NothingIsSkipped
    <3> QED BY <3>1, <3>2
  <2>16. NothingIsSkipped'
    BY <2>14, <2>15, <2>4, <2>5, <2>9 DEF NothingIsSkipped
  <2> QED BY <2>10, <2>13, <2>16 DEF StateInv
<1>9. ASSUME NEW r \in Subs, TakesSnapshot(r) PROVE StateInv'
  <2>1. entry # 0 => entry \in Subs
    BY DEF CountersTyped, Subs
  <2>2. down' = down
    BY <1>9 DEF TakesSnapshot, At, hostVars, clientVars
  <2>3. Moves(r, "answering") /\ At(r, "configuring")
    BY <1>9, HandlerMoves
  <2>4. handler' = [handler EXCEPT ![r] = Taken]
    BY <1>9 DEF TakesSnapshot, At, hostVars, clientVars
  <2>5. /\ host' = host /\ log' = log /\ entry' = entry /\ miscounted' = miscounted
        /\ hydrated' = hydrated /\ remote' = remote /\ confirmed' = confirmed /\ buffered' = buffered
    BY <1>9 DEF TakesSnapshot, At, hostVars, clientVars
  <2>6. host \subseteq 1..Len(log) /\ buffered \subseteq 1..Len(log) /\ Len(log) \in Nat
    BY DEF HostTyped, ClientTyped, Emitted
  <2>7. IsAnswering(r)' => handler'[r].seqs = host /\ handler'[r].from = Len(log)
    BY <2>4, TakenTyped DEF IsAnswering, At, HandlerTyped, Stage
  <2>8. \A q \in Subs : q # r => handler'[q] = handler[q]
    BY <2>4 DEF HandlerTyped
  <2>9. /\ IsStateAt(host, Len(log)) /\ Reduced(Len(log)) /\ NoGapAfter(Len(log))
    BY <2>6, DownTyped DEF IsStateAt, Reduced, NoGapAfter
  <2>10. /\ \A S, from : IsStateAt(S, from)' <=> IsStateAt(S, from)
         /\ \A from : Reduced(from)' <=> Reduced(from)
         /\ \A i : IsSent(i)' <=> IsSent(i)
         /\ \A from : NoGapAfter(from)' <=> NoGapAfter(from)
    BY <2>5, <2>2, DownStays DEF IsStateAt, Reduced, NoGapAfter, IsSent
  <2>11. \A q \in Subs : q # r => (IsAnswering(q)' <=> IsAnswering(q))
    BY <2>8 DEF IsAnswering, At
  <2>12. SnapshotsAreStates'
    <3>1. ASSUME NEW q \in Subs, IsAnswering(q)' PROVE IsStateAt(handler[q].seqs, handler[q].from)'
      <4>1. CASE q = r
        BY <3>1, <4>1, <2>7, <2>9, <2>5 DEF IsStateAt
      <4>2. CASE q # r
        BY <3>1, <4>2, <2>8, <2>11, <2>5 DEF SnapshotsAreStates, IsStateAt
      <4> QED BY <4>1, <4>2
    <3>2. ASSUME NEW k \in Nat, IsSnapshot(k)' PROVE IsStateAt(down[k].seqs, down[k].from)'
      BY <3>2, <2>2, DownStays, <2>5 DEF SnapshotsAreStates, IsStateAt
    <3> QED BY <3>1, <3>2 DEF SnapshotsAreStates
  <2>13. ASSUME entry # 0, ~miscounted, IsAnswering(entry)' PROVE Reduced(handler[entry].from)'
    <3>1. CASE entry = r
      BY <2>13, <3>1, <2>7, <2>9, <2>5, <2>2, DownStays, <2>10 DEF Reduced
    <3>2. CASE entry # r
      BY <2>13, <3>2, <2>1, <2>8, <2>11, <2>5, <2>2, DownStays, <2>10 DEF FollowersAreReduced, Reduced
    <3> QED BY <3>1, <3>2
  <2>14. ASSUME entry # 0, ~miscounted, NEW k \in Nat, IsSnapshot(k)', down'[k].req = entry PROVE Reduced(down[k].from)'
    BY <2>14, <2>5, <2>2, DownStays, <2>10 DEF FollowersAreReduced, Reduced
  <2>15. FollowersAreReduced'
    BY <2>13, <2>14, <2>5, <2>2, DownStays, <2>10 DEF FollowersAreReduced
  <2>16. ASSUME entry # 0, ~remote, IsAnswering(entry)' PROVE NoGapAfter(handler[entry].from)'
    <3>1. CASE entry = r
      BY <2>16, <3>1, <2>7, <2>9, <2>5, <2>2, DownStays, <2>10 DEF NoGapAfter
    <3>2. CASE entry # r
      BY <2>16, <3>2, <2>1, <2>8, <2>11, <2>5, <2>2, DownStays, <2>10 DEF NothingIsSkipped, NoGapAfter
    <3> QED BY <3>1, <3>2
  <2>17. ASSUME entry # 0, ~remote, NEW k \in Nat, IsSnapshot(k)', down'[k].req = entry PROVE NoGapAfter(down[k].from)'
    BY <2>17, <2>5, <2>2, DownStays, <2>10 DEF NothingIsSkipped, NoGapAfter
  <2>18. NothingIsSkipped'
    BY <2>16, <2>17, <2>5, <2>2, DownStays, <2>10 DEF NothingIsSkipped
  <2> QED BY <2>12, <2>15, <2>18 DEF StateInv
<1>10. ASSUME NEW r \in Subs, RestoreFails(r) PROVE StateInv'
  <2>1. entry # 0 => entry \in Subs
    BY DEF CountersTyped, Subs
  <2>2. Failure(r) \in Message
    BY DEF Message, Failure, Snapshot
  <2>3. Grown(down, down', Failure(r))
    BY <1>10, <2>2, SendEffect DEF RestoreFails
  <2>4. Failure(r).kind = "failure" /\ Failure(r).req = r
    BY DEF Failure, Snapshot
  <2>5. Moves(r, "done") /\ (At(r, "restoring") \/ At(r, "configuring"))
    BY <1>10, HandlerMoves
  <2>6. /\ host' = host /\ entry' = entry /\ (miscounted => miscounted') /\ remote' = remote
        /\ hydrated' = hydrated /\ confirmed' = confirmed /\ buffered' = buffered
    BY <1>10 DEF RestoreFails, At, Evicts, Failure, hostVars, clientVars
  <2>7. \A k \in Nat : IsEnvelope(k)' <=> IsEnvelope(k) /\ down'[k] = down[k]
    BY <2>3, <2>4, DownGrown
  <2>8. \A k \in Nat : IsEnvelope(k) => down'[k] = down[k]
    BY <2>3, <2>4, DownGrown
  <2>9. \A k \in Nat : IsSnapshot(k)' => IsSnapshot(k) /\ down'[k] = down[k]
    BY <2>3, <2>4, DownGrown
  <2>10. \A q \in Subs : IsAnswering(q)' => IsAnswering(q) /\ handler'[q] = handler[q]
    BY <1>10, <2>5, TakenTyped DEF RestoreFails, IsAnswering, At, Moves, HandlerTyped, Stage
  <2>11. /\ \A T, from : IsStateAt(T, from)' <=> IsStateAt(T, from)
         /\ \A from : Reduced(from) => Reduced(from)'
         /\ \A i : IsSent(i) => IsSent(i)'
         /\ \A from : NoGapAfter(from) => NoGapAfter(from)'
    <3>1. \A i : IsSent(i) => IsSent(i)'
      BY <2>7, <2>8 DEF IsSent
    <3> QED BY <3>1, <2>6, <2>7 DEF IsStateAt, Reduced, NoGapAfter
  <2>12. SnapshotsAreStates'
    <3>1. ASSUME NEW q \in Subs, IsAnswering(q)' PROVE IsStateAt(handler[q].seqs, handler[q].from)'
      BY <3>1, <2>10, <2>6 DEF SnapshotsAreStates, IsStateAt
    <3>2. ASSUME NEW k \in Nat, IsSnapshot(k)' PROVE IsStateAt(down[k].seqs, down[k].from)'
      BY <3>2, <2>9, <2>6 DEF SnapshotsAreStates, IsStateAt
    <3> QED BY <3>1, <3>2 DEF SnapshotsAreStates
  <2>13. ASSUME entry # 0, ~miscounted', IsAnswering(entry)' PROVE Reduced(handler[entry].from)'
    <3>1. PICK from : from = handler[entry].from
      OBVIOUS
    <3>2. Reduced(from)'
      BY <2>13, <3>1, <2>1, <2>10, <2>6, <2>11 DEF FollowersAreReduced
    <3> QED BY <2>13, <3>1, <3>2, <2>1, <2>10, <2>6
  <2>14. ASSUME entry # 0, ~miscounted', NEW k \in Nat, IsSnapshot(k)', down'[k].req = entry PROVE Reduced(down[k].from)'
    <3>1. PICK from : from = down'[k].from
      OBVIOUS
    <3>2. Reduced(from)'
      BY <2>14, <3>1, <2>9, <2>6, <2>11 DEF FollowersAreReduced
    <3> QED BY <3>1, <3>2
  <2>15. FollowersAreReduced'
    BY <2>13, <2>14, <2>6, <2>7, <2>11 DEF FollowersAreReduced
  <2>16. ASSUME entry # 0, ~remote, IsAnswering(entry)' PROVE NoGapAfter(handler[entry].from)'
    <3>1. PICK from : from = handler[entry].from
      OBVIOUS
    <3>2. NoGapAfter(from)'
      BY <2>16, <3>1, <2>1, <2>10, <2>6, <2>11 DEF NothingIsSkipped
    <3> QED BY <2>16, <3>1, <3>2, <2>1, <2>10, <2>6
  <2>17. ASSUME entry # 0, ~remote, NEW k \in Nat, IsSnapshot(k)', down'[k].req = entry PROVE NoGapAfter(down[k].from)'
    <3>1. PICK from : from = down'[k].from
      OBVIOUS
    <3>2. NoGapAfter(from)'
      BY <2>17, <3>1, <2>9, <2>6, <2>11 DEF NothingIsSkipped
    <3> QED BY <3>1, <3>2
  <2>18. NothingIsSkipped'
    BY <2>16, <2>17, <2>6, <2>7, <2>11 DEF NothingIsSkipped
  <2> QED BY <2>12, <2>15, <2>18 DEF StateInv
<1>11. ASSUME NEW r \in Subs, Joins(r) PROVE StateInv'
  <2>1. entry # 0 => entry \in Subs
    BY DEF CountersTyped, Subs
  <2>2. down' = down
    BY <1>11 DEF Joins, At, hostVars, clientVars
  <2>3. Moves(r, "replying") /\ At(r, "answering")
    BY <1>11, HandlerMoves
  <2>4. /\ host' = host /\ entry' = entry /\ miscounted' = miscounted /\ remote' = remote
        /\ hydrated' = hydrated /\ confirmed' = confirmed /\ buffered' = buffered
    BY <1>11 DEF Joins, At, hostVars, clientVars
  <2>5. \A k \in Nat : IsEnvelope(k)' <=> IsEnvelope(k) /\ down'[k] = down[k]
    BY <2>2, DownStays
  <2>6. \A k \in Nat : IsEnvelope(k) => down'[k] = down[k]
    BY <2>2, DownStays
  <2>7. \A k \in Nat : IsSnapshot(k)' => IsSnapshot(k) /\ down'[k] = down[k]
    BY <2>2, DownStays
  <2>8. \A q \in Subs : IsAnswering(q)' =>
          IsAnswering(q) /\ handler'[q].seqs = handler[q].seqs /\ handler'[q].from = handler[q].from
    BY <1>11, <2>3 DEF Joins, IsAnswering, At, Moves, HandlerTyped, Handler
  <2>9. /\ \A T, from : IsStateAt(T, from)' <=> IsStateAt(T, from)
        /\ \A from : Reduced(from) => Reduced(from)'
        /\ \A i : IsSent(i) => IsSent(i)'
        /\ \A from : NoGapAfter(from) => NoGapAfter(from)'
    <3>1. \A i : IsSent(i) => IsSent(i)'
      BY <2>5, <2>6 DEF IsSent
    <3> QED BY <3>1, <2>4, <2>5 DEF IsStateAt, Reduced, NoGapAfter
  <2>10. SnapshotsAreStates'
    <3>1. ASSUME NEW q \in Subs, IsAnswering(q)' PROVE IsStateAt(handler[q].seqs, handler[q].from)'
      BY <3>1, <2>8, <2>4 DEF SnapshotsAreStates, IsStateAt
    <3>2. ASSUME NEW k \in Nat, IsSnapshot(k)' PROVE IsStateAt(down[k].seqs, down[k].from)'
      BY <3>2, <2>7, <2>4 DEF SnapshotsAreStates, IsStateAt
    <3> QED BY <3>1, <3>2 DEF SnapshotsAreStates
  <2>11. ASSUME entry # 0, ~miscounted', IsAnswering(entry)' PROVE Reduced(handler[entry].from)'
    <3>1. PICK from : from = handler[entry].from
      OBVIOUS
    <3>2. Reduced(from)'
      BY <2>11, <3>1, <2>1, <2>8, <2>4, <2>9 DEF FollowersAreReduced
    <3> QED BY <2>11, <3>1, <3>2, <2>1, <2>8, <2>4
  <2>12. ASSUME entry # 0, ~miscounted', NEW k \in Nat, IsSnapshot(k)', down'[k].req = entry PROVE Reduced(down[k].from)'
    <3>1. PICK from : from = down'[k].from
      OBVIOUS
    <3>2. Reduced(from)'
      BY <2>12, <3>1, <2>7, <2>4, <2>9 DEF FollowersAreReduced
    <3> QED BY <3>1, <3>2
  <2>13. FollowersAreReduced'
    BY <2>11, <2>12, <2>4, <2>5, <2>9 DEF FollowersAreReduced
  <2>14. ASSUME entry # 0, ~remote, IsAnswering(entry)' PROVE NoGapAfter(handler[entry].from)'
    <3>1. PICK from : from = handler[entry].from
      OBVIOUS
    <3>2. NoGapAfter(from)'
      BY <2>14, <3>1, <2>1, <2>8, <2>4, <2>9 DEF NothingIsSkipped
    <3> QED BY <2>14, <3>1, <3>2, <2>1, <2>8, <2>4
  <2>15. ASSUME entry # 0, ~remote, NEW k \in Nat, IsSnapshot(k)', down'[k].req = entry PROVE NoGapAfter(down[k].from)'
    <3>1. PICK from : from = down'[k].from
      OBVIOUS
    <3>2. NoGapAfter(from)'
      BY <2>15, <3>1, <2>7, <2>4, <2>9 DEF NothingIsSkipped
    <3> QED BY <3>1, <3>2
  <2>16. NothingIsSkipped'
    BY <2>14, <2>15, <2>4, <2>5, <2>9 DEF NothingIsSkipped
  <2> QED BY <2>10, <2>13, <2>16 DEF StateInv
<1>12. ASSUME NEW r \in Subs, Replies(r) PROVE StateInv'
  <2>1. entry # 0 => entry \in Subs
    BY DEF CountersTyped, Subs
  <2>2. Snapshot(r, handler[r]) \in Message
    BY DEF HandlerTyped, Handler, Message, Failure, Snapshot
  <2>3. Grown(down, down', Snapshot(r, handler[r]))
    BY <1>12, <2>2, SendEffect DEF Replies
  <2>4. /\ Snapshot(r, handler[r]).kind = "snapshot" /\ Snapshot(r, handler[r]).req = r
        /\ Snapshot(r, handler[r]).seqs = handler[r].seqs /\ Snapshot(r, handler[r]).from = handler[r].from
    BY DEF Failure, Snapshot
  <2>5. Moves(r, "done") /\ IsAnswering(r)
    BY <1>12, HandlerMoves
  <2>6. /\ host' = host /\ entry' = entry /\ (miscounted => miscounted') /\ remote' = remote
        /\ hydrated' = hydrated /\ confirmed' = confirmed /\ buffered' = buffered
    BY <1>12 DEF Replies, At, Snapshot, hostVars, clientVars
  <2>7. \A k \in Nat : IsEnvelope(k)' <=> IsEnvelope(k) /\ down'[k] = down[k]
    BY <2>3, <2>4, DownGrown
  <2>8. \A k \in Nat : IsEnvelope(k) => down'[k] = down[k]
    BY <2>3, <2>4, DownGrown
  <2>9. \A k \in Nat : IsSnapshot(k)' =>
          \/ IsSnapshot(k) /\ down'[k] = down[k]
          \/ down'[k].req = r /\ down'[k].seqs = handler[r].seqs /\ down'[k].from = handler[r].from
    BY <2>3, <2>4, DownGrown
  <2>10. \A q \in Subs : IsAnswering(q)' => IsAnswering(q) /\ handler'[q] = handler[q]
    BY <1>12, <2>5, TakenTyped DEF Replies, IsAnswering, At, Moves, HandlerTyped, Stage
  <2>11. /\ \A T, from : IsStateAt(T, from)' <=> IsStateAt(T, from)
         /\ \A from : Reduced(from) => Reduced(from)'
         /\ \A i : IsSent(i) => IsSent(i)'
         /\ \A from : NoGapAfter(from) => NoGapAfter(from)'
    <3>1. \A i : IsSent(i) => IsSent(i)'
      BY <2>7, <2>8 DEF IsSent
    <3> QED BY <3>1, <2>6, <2>7 DEF IsStateAt, Reduced, NoGapAfter
  <2>12. SnapshotsAreStates'
    <3>1. ASSUME NEW q \in Subs, IsAnswering(q)' PROVE IsStateAt(handler[q].seqs, handler[q].from)'
      BY <3>1, <2>10, <2>6 DEF SnapshotsAreStates, IsStateAt
    <3>2. ASSUME NEW k \in Nat, IsSnapshot(k)' PROVE IsStateAt(down[k].seqs, down[k].from)'
      BY <3>2, <2>9, <2>6, <2>5 DEF SnapshotsAreStates, IsStateAt
    <3> QED BY <3>1, <3>2 DEF SnapshotsAreStates
  <2>13. ASSUME entry # 0, ~miscounted', IsAnswering(entry)' PROVE Reduced(handler[entry].from)'
    <3>1. PICK from : from = handler[entry].from
      OBVIOUS
    <3>2. Reduced(from)'
      BY <2>13, <3>1, <2>1, <2>10, <2>6, <2>11 DEF FollowersAreReduced
    <3> QED BY <2>13, <3>1, <3>2, <2>1, <2>10, <2>6
  <2>14. ASSUME entry # 0, ~miscounted', NEW k \in Nat, IsSnapshot(k)', down'[k].req = entry PROVE Reduced(down[k].from)'
    <3>1. PICK from : from = down'[k].from
      OBVIOUS
    <3>2. Reduced(from)'
      BY <2>14, <3>1, <2>9, <2>6, <2>11, <2>5 DEF FollowersAreReduced
    <3> QED BY <3>1, <3>2
  <2>15. FollowersAreReduced'
    BY <2>13, <2>14, <2>6, <2>7, <2>11 DEF FollowersAreReduced
  <2>16. ASSUME entry # 0, ~remote, IsAnswering(entry)' PROVE NoGapAfter(handler[entry].from)'
    <3>1. PICK from : from = handler[entry].from
      OBVIOUS
    <3>2. NoGapAfter(from)'
      BY <2>16, <3>1, <2>1, <2>10, <2>6, <2>11 DEF NothingIsSkipped
    <3> QED BY <2>16, <3>1, <3>2, <2>1, <2>10, <2>6
  <2>17. ASSUME entry # 0, ~remote, NEW k \in Nat, IsSnapshot(k)', down'[k].req = entry PROVE NoGapAfter(down[k].from)'
    <3>1. PICK from : from = down'[k].from
      OBVIOUS
    <3>2. NoGapAfter(from)'
      BY <2>17, <3>1, <2>9, <2>6, <2>11, <2>5 DEF NothingIsSkipped
    <3> QED BY <3>1, <3>2
  <2>18. NothingIsSkipped'
    BY <2>16, <2>17, <2>6, <2>7, <2>11 DEF NothingIsSkipped
  <2> QED BY <2>12, <2>15, <2>18 DEF StateInv
<1>13. CASE Acquires
  <2>1. entry # 0 => entry \in Subs
    BY DEF CountersTyped, Subs
  <2>2. down' = down
    BY <1>13 DEF Acquires, hostVars, clientVars
  <2>3. handler' = handler
    BY <1>13 DEF Acquires, hostVars, clientVars
  <2>4. /\ ~hydrated /\ ~hydrated' /\ entry' = asked + 1 /\ asked + 1 \in Subs /\ asked + 1 > asked
        /\ host' = host
    BY <1>13 DEF Acquires, RequestInv, HydratedIsAnswered, Subs, CountersTyped, hostVars
  <2>5. At(asked + 1, "none") /\ ~IsAnswered(asked + 1)
    BY <2>4, UnansweredYet DEF RequestInv, RequestsAreNew, At
  <2>6. ~IsAnswering(entry)' /\ \A k \in Nat : ~(IsSnapshot(k)' /\ down'[k].req = entry')
    BY <2>4, <2>5, <2>2, DownStays, <2>3 DEF IsAnswered, IsAnswering, At
  <2>7. SnapshotsAreStates'
    BY <2>4, <2>2, DownStays, <2>3 DEF SnapshotsAreStates, IsAnswering, At, IsStateAt
  <2> QED BY <2>7, <2>4, <2>6 DEF StateInv, FollowersAreReduced, NothingIsSkipped
<1>14. CASE Releases
  <2>1. entry # 0 => entry \in Subs
    BY DEF CountersTyped, Subs
  <2>2. down' = down
    BY <1>14 DEF Releases, Empty, hostVars, clientVars
  <2>3. handler' = handler
    BY <1>14 DEF Releases, Empty, hostVars, clientVars
  <2>4. entry' = 0 /\ host' = host
    BY <1>14 DEF Releases, hostVars
  <2>5. SnapshotsAreStates'
    BY <2>4, <2>2, DownStays, <2>3 DEF SnapshotsAreStates, IsAnswering, At, IsStateAt
  <2> QED BY <2>5, <2>4 DEF StateInv, FollowersAreReduced, NothingIsSkipped
<1>15. CASE Dispatches
  BY <1>15, StateFrame DEF Dispatches, hostVars, clientVars
<1>16. ASSUME NEW i \in Emitted, GetsEnvelope(i) PROVE StateInv'
  <2>1. entry # 0 => entry \in Subs
    BY DEF CountersTyped, Subs
  <2>2. Dropped(down, down') /\ Head(down) = down[1] /\ Head(down) \in Message
    BY <1>16, ReceiveEffect DEF GetsEnvelope
  <2>3. handler' = handler
    BY <1>16 DEF GetsEnvelope, ReceivesEnvelope, Reduce, Unechoed, hostVars, clientVars
  <2>4. entry' = entry /\ host' = host /\ miscounted' = miscounted /\ remote' = remote
    BY <1>16 DEF GetsEnvelope, ReceivesEnvelope, Reduce, Unechoed, hostVars, clientVars
  <2>5. \A k \in Nat : IsSnapshot(k)' => k + 1 \in Nat /\ IsSnapshot(k + 1) /\ down'[k] = down[k + 1]
    BY <2>2, DownDropped
  <2>6. \A k \in Nat : IsEnvelope(k)' => k + 1 \in Nat /\ k + 1 # 1 /\ IsEnvelope(k + 1) /\ down'[k] = down[k + 1]
    BY <2>2, DownDropped
  <2>7. IsAnswering(entry)' <=> IsAnswering(entry)
    BY <2>4, <2>3 DEF IsAnswering, At
  <2>8. SnapshotsAreStates'
    BY <2>4, <2>5, <2>3 DEF SnapshotsAreStates, IsAnswering, At, IsStateAt
  <2>9. \A j : IsSent(j) => IsSent(j)' \/ (IsEnvelope(1) /\ down[1].seq = j)
    BY <2>2, SentDrops
  <2>10. IsEnvelope(1) /\ down[1].seq = i
    BY <1>16, <2>2, DownDropped DEF GetsEnvelope, IsEnvelope
  <2>11. /\ hydrated' = hydrated
         /\ hydrated => confirmed'.seqs = confirmed.seqs \cup {i}
         /\ ~hydrated /\ entry # 0 => buffered' = buffered \cup {i}
         /\ buffered \subseteq buffered' /\ buffered' \subseteq buffered \cup {i}
    BY <1>16 DEF GetsEnvelope, ReceivesEnvelope, Reduce, Unechoed, hostVars, clientVars
  <2>12. \A from : Reduced(from) => Reduced(from)'
    BY <2>4, <2>10, <2>11, <2>6, 1 \in Nat DEF Reduced
  <2>13. hydrated => ~IsAnswering(entry) /\ \A k \in Nat : ~(IsSnapshot(k) /\ down[k].req = entry)
    BY DownTyped DEF RequestInv, HydratedIsAnswered, IsAnswering, At
  <2>14. FollowersAreReduced'
    BY <2>4, <2>10, <2>11, <2>12, <2>5, <2>6, <2>7, <2>3, 1 \in Nat DEF FollowersAreReduced
  <2>15. entry # 0 /\ ~hydrated => \A from : NoGapAfter(from) => NoGapAfter(from)'
    BY <2>4, <2>10, <2>11, <2>9 DEF NoGapAfter
  <2>16. NothingIsSkipped'
    BY <2>4, <2>10, <2>11, <2>15, <2>5, <2>9, <2>13, <2>7, <2>3 DEF NothingIsSkipped
  <2> QED BY <2>8, <2>14, <2>16 DEF StateInv
<1>17. ASSUME NEW m \in Message, GetsSnapshot(m) PROVE StateInv'
  <2>1. entry # 0 => entry \in Subs
    BY DEF CountersTyped, Subs
  <2>2. Dropped(down, down') /\ Head(down) = down[1] /\ Head(down) \in Message
    BY <1>17, ReceiveEffect DEF GetsSnapshot
  <2>3. handler' = handler
    BY <1>17 DEF GetsSnapshot, HandlesSnapshot, Reduce, Unechoed, IsCurrent, hostVars, clientVars
  <2>4. entry' = entry /\ host' = host /\ miscounted' = miscounted /\ remote' = remote
    BY <1>17 DEF GetsSnapshot, HandlesSnapshot, Reduce, Unechoed, IsCurrent, hostVars, clientVars
  <2>5. \A k \in Nat : IsSnapshot(k)' => k + 1 \in Nat /\ IsSnapshot(k + 1) /\ down'[k] = down[k + 1]
    BY <2>2, DownDropped
  <2>6. \A k \in Nat : IsEnvelope(k)' => k + 1 \in Nat /\ k + 1 # 1 /\ IsEnvelope(k + 1) /\ down'[k] = down[k + 1]
    BY <2>2, DownDropped
  <2>7. IsAnswering(entry)' <=> IsAnswering(entry)
    BY <2>4, <2>3 DEF IsAnswering, At
  <2>8. SnapshotsAreStates'
    BY <2>4, <2>5, <2>3 DEF SnapshotsAreStates, IsAnswering, At, IsStateAt
  <2>9. \A i : IsSent(i) => IsSent(i)' \/ (IsEnvelope(1) /\ down[1].seq = i)
    BY <2>2, SentDrops
  <2>10. IsSnapshot(1) /\ ~IsEnvelope(1) /\ down[1] = m
    BY <1>17, <2>2, DownDropped DEF GetsSnapshot, IsSnapshot, IsEnvelope
  <2>11. ~IsCurrent(m.req) => buffered' = buffered /\ confirmed' = confirmed /\ hydrated' = hydrated
    BY <1>17 DEF GetsSnapshot, HandlesSnapshot, Reduce, Unechoed, IsCurrent, hostVars, clientVars
  <2>12. IsCurrent(m.req) => /\ buffered' = {} /\ hydrated'
                             /\ confirmed'.seqs = m.seqs \cup {j \in buffered : j > m.from}
    BY <1>17 DEF GetsSnapshot, HandlesSnapshot, Reduce, Unechoed, IsCurrent, hostVars, clientVars
  <2>13. /\ IsStateAt(m.seqs, m.from)
         /\ \A k \in Nat : IsEnvelope(k) /\ 1 < k => m.from < down[k].seq
         /\ m.from \in Nat
    BY <2>10, DownTyped, 1 \in Nat DEF SnapshotsAreStates, OrderInv, SnapshotsCover
  <2>14. IsCurrent(m.req) => ~IsAnswering(entry) /\ \A k \in Nat : ~(IsSnapshot(k)' /\ down'[k].req = entry)
    <3>1. ASSUME IsCurrent(m.req) PROVE IsAnswer(1) /\ At(entry, "done") /\ down[1].req = entry
      BY <3>1, <2>10, DownTyped, 1 \in Nat DEF IsCurrent, RequestInv, AnswersAreDone
    <3>2. ASSUME IsCurrent(m.req), NEW k \in Nat, IsSnapshot(k)' PROVE down'[k].req # entry
      <4>1. k + 1 \in Nat /\ IsAnswer(k + 1) /\ down'[k] = down[k + 1] /\ k + 1 # 1
        BY <3>2, <2>5, <2>2, DownDropped, DownTyped
      <4> QED BY <3>1, <3>2, <4>1, 1 \in Nat DEF RequestInv, AnswersAreDone
    <3> QED BY <3>1, <3>2 DEF IsAnswering, At
  <2>15. ASSUME ~IsCurrent(m.req) PROVE /\ \A from : Reduced(from) => Reduced(from)'
                                        /\ \A from : NoGapAfter(from) => NoGapAfter(from)'
    BY <2>15, <2>4, <2>10, <2>11, <2>6, <2>9 DEF Reduced, NoGapAfter
  <2>16. FollowersAreReduced'
    <3>1. CASE ~IsCurrent(m.req)
      BY <3>1, <2>4, <2>11, <2>15, <2>5, <2>6, <2>7, <2>3 DEF FollowersAreReduced
    <3>2. ASSUME IsCurrent(m.req), entry # 0, ~miscounted
          PROVE  /\ confirmed'.seqs \subseteq host
                 /\ \A k \in Nat : IsEnvelope(k)' => down'[k].seq \in host
      <4>1. Reduced(m.from)
        BY <3>2, <2>10, 1 \in Nat DEF FollowersAreReduced, IsCurrent
      <4>2. confirmed'.seqs \subseteq host
        BY <3>2, <4>1, <2>12, <2>13 DEF Reduced, IsStateAt
      <4>3. ASSUME NEW k \in Nat, IsEnvelope(k)' PROVE down'[k].seq \in host
        <5>1. k + 1 \in Nat /\ 1 < k + 1 /\ IsEnvelope(k + 1) /\ down'[k] = down[k + 1]
          BY <4>3, <2>6
        <5>2. down[k + 1].seq > m.from
          BY <5>1, <2>13, DownTyped
        <5> QED BY <4>1, <5>1, <5>2 DEF Reduced
      <4> QED BY <4>2, <4>3
    <3>3. CASE IsCurrent(m.req)
      BY <3>2, <3>3, <2>4, <2>14, <2>7 DEF FollowersAreReduced
    <3> QED BY <3>1, <3>3
  <2>17. NothingIsSkipped'
    <3>1. CASE ~IsCurrent(m.req)
      BY <3>1, <2>4, <2>10, <2>11, <2>15, <2>5, <2>9, <2>7, <2>3 DEF NothingIsSkipped
    <3>2. ASSUME IsCurrent(m.req), entry # 0, ~remote, NEW j \in host
          PROVE  j \in confirmed'.seqs \/ IsSent(j)'
      <4>1. NoGapAfter(m.from)
        BY <3>2, <2>10, 1 \in Nat DEF NothingIsSkipped, IsCurrent
      <4>2. j \in Nat
        BY DEF HostTyped, Emitted
      <4>3. CASE j <= m.from
        BY <3>2, <4>3, <2>12, <2>13 DEF IsStateAt
      <4>4. CASE j > m.from
        BY <3>2, <4>1, <4>4, <2>12, <2>10, <2>9 DEF NoGapAfter
      <4> QED BY <4>2, <4>3, <4>4, <2>13
    <3>3. CASE IsCurrent(m.req)
      BY <3>2, <3>3, <2>4, <2>14, <2>7 DEF NothingIsSkipped
    <3> QED BY <3>1, <3>3
  <2> QED BY <2>8, <2>16, <2>17 DEF StateInv
<1>18. ASSUME NEW m \in Message, GetsFailure(m) PROVE StateInv'
  <2>1. entry # 0 => entry \in Subs
    BY DEF CountersTyped, Subs
  <2>2. Dropped(down, down') /\ Head(down) = down[1] /\ Head(down) \in Message
    BY <1>18, ReceiveEffect DEF GetsFailure
  <2>3. handler' = handler
    BY <1>18 DEF GetsFailure, HandlesFailure, IsCurrent, hostVars, clientVars
  <2>4. entry' = entry /\ host' = host /\ miscounted' = miscounted /\ remote' = remote
    BY <1>18 DEF GetsFailure, HandlesFailure, IsCurrent, hostVars, clientVars
  <2>5. \A k \in Nat : IsSnapshot(k)' => k + 1 \in Nat /\ IsSnapshot(k + 1) /\ down'[k] = down[k + 1]
    BY <2>2, DownDropped
  <2>6. \A k \in Nat : IsEnvelope(k)' => k + 1 \in Nat /\ k + 1 # 1 /\ IsEnvelope(k + 1) /\ down'[k] = down[k + 1]
    BY <2>2, DownDropped
  <2>7. IsAnswering(entry)' <=> IsAnswering(entry)
    BY <2>4, <2>3 DEF IsAnswering, At
  <2>8. SnapshotsAreStates'
    BY <2>4, <2>5, <2>3 DEF SnapshotsAreStates, IsAnswering, At, IsStateAt
  <2>9. \A i : IsSent(i) => IsSent(i)' \/ (IsEnvelope(1) /\ down[1].seq = i)
    BY <2>2, SentDrops
  <2>10. buffered' = buffered /\ confirmed' = confirmed /\ hydrated' = hydrated
    BY <1>18 DEF GetsFailure, HandlesFailure, IsCurrent, hostVars, clientVars
  <2>11. ~IsEnvelope(1)
    BY <1>18, <2>2, DownDropped DEF GetsFailure, IsEnvelope
  <2>12. \A from : Reduced(from) => Reduced(from)'
    BY <2>4, <2>10, <2>6 DEF Reduced
  <2>13. \A from : NoGapAfter(from) => NoGapAfter(from)'
    BY <2>4, <2>11, <2>10, <2>9 DEF NoGapAfter
  <2>14. FollowersAreReduced'
    BY <2>4, <2>10, <2>12, <2>5, <2>6, <2>7, <2>3 DEF FollowersAreReduced
  <2>15. NothingIsSkipped'
    BY <2>4, <2>11, <2>10, <2>13, <2>5, <2>9, <2>7, <2>3 DEF NothingIsSkipped
  <2> QED BY <2>8, <2>14, <2>15 DEF StateInv
<1>19. CASE UNCHANGED vars
  BY <1>19, StateFrame DEF vars, hostVars, clientVars
<1> QED
  BY Steps, <1>1, <1>2, <1>3, <1>4, <1>5, <1>6, <1>7, <1>8, <1>9, <1>10, <1>11, <1>12, <1>13, <1>14, <1>15, <1>16, <1>17, <1>18, <1>19

-----------------------------------------------------------------------------
(* Client and host implement ReplicaView *)

Inv == TypeOK /\ OrderInv /\ RequestInv /\ CountInv /\ StateInv

\* What a hydrated client shows, before the miscount, is a state of the host.
LEMMA ShownIsFaithful ==
  ASSUME Inv', hydrated', ~miscounted'
  PROVE  /\ confirmed'.seqs \subseteq host'
         /\ ~remote' => \A i \in host', j \in confirmed'.seqs : i < j => i \in confirmed'.seqs
<1>1. entry' # 0
  BY DEF Inv, RequestInv, HydratedIsAnswered, Subs
<1>2. confirmed'.seqs \subseteq host'
  BY <1>1 DEF Inv, StateInv, FollowersAreReduced
<1>3. ASSUME ~remote', NEW i \in host', NEW j \in confirmed'.seqs, i < j
      PROVE  i \in confirmed'.seqs
  <2>1. i \in confirmed'.seqs \/ IsSent(i)'
    BY <1>1, <1>3 DEF Inv, StateInv, NothingIsSkipped
  <2>2. i \in Nat /\ j \in Nat
    BY <1>2 DEF Inv, TypeOK, Emitted
  <2>3. ~IsSent(i)'
    BY <1>3, <2>2 DEF IsSent, Inv, OrderInv, AheadOfClient
  <2> QED BY <2>1, <2>3
<1> QED BY <1>2, <1>3

\* A client refreshes what it shows.
LEMMA Refreshing ==
  ASSUME Inv', hydrated', ~miscounted', host' = host, remote' = remote,
         hydrated /\ ~miscounted =>
           /\ confirmed.seqs \subseteq confirmed'.seqs
           /\ \A i \in confirmed.seqs, j \in confirmed'.seqs \ confirmed.seqs : i < j
  PROVE  View!Refreshes
BY ShownIsFaithful DEF View!Refreshes, View!Faithful

LEMMA Shows ==
  ASSUME Inv, Inv', [Next]_vars
  PROVE  [View!Next]_(View!vars)
<1> USE SyncAssumption
<1>0. TypeOK /\ FlagsTyped /\ HostTyped /\ HandlerTyped /\ MessagesTyped /\ CountersTyped /\ ClientTyped
  BY TypeParts DEF Inv
<1> USE <1>0
<1>1. CASE HostActs
  <2>1. /\ Len(log) \in Nat /\ host' = (IF loaded THEN host \cup {Len(log) + 1} ELSE host)
    BY <1>1, EmitEffect, 0 \in 0..MaxActs DEF HostActs, hostVars, clientVars, Acts
  <2>2. UNCHANGED <<remote, hydrated, miscounted, confirmed>>
    BY <1>1 DEF HostActs, hostVars, clientVars
  <2>3. \A j \in host : j < Len(log) + 1
    BY <2>1 DEF HostTyped, Emitted
  <2>4. loaded => View!Reduces
    BY <2>1, <2>2, <2>3 DEF View!Reduces
  <2> QED BY <2>1, <2>2, <2>4 DEF View!Next, View!vars
<1>2. CASE OtherSubscribes
  BY <1>2 DEF OtherSubscribes, hostVars, clientVars, View!vars
<1>3. CASE OtherRestores
  BY <1>3 DEF OtherRestores, hostVars, clientVars, View!vars
<1>4. CASE OtherLeaves
  BY <1>4 DEF OtherLeaves, Evicts, hostVars, clientVars, View!vars
<1>5. ASSUME NEW r \in Subs, ReceivesSubscribe(r) PROVE [View!Next]_(View!vars)
  BY <1>5 DEF ReceivesSubscribe, HandlesSubscribe, hostVars, clientVars, View!vars
<1>6. CASE ReceivesUnsubscribe
  BY <1>6 DEF ReceivesUnsubscribe, HandlesUnsubscribe, Evicts, hostVars, clientVars, View!vars
<1>7. ASSUME NEW n \in Acts, ReceivesAction(n) PROVE [View!Next]_(View!vars)
  <2>1. /\ Len(log) \in Nat /\ host' = (IF loaded THEN host \cup {Len(log) + 1} ELSE host)
    BY <1>7, EmitEffect, n \in 0..MaxActs DEF ReceivesAction, HandlesAction, hostVars, clientVars, Acts
  <2>2. UNCHANGED <<remote, hydrated, miscounted, confirmed>>
    BY <1>7 DEF ReceivesAction, HandlesAction, hostVars, clientVars
  <2>3. \A j \in host : j < Len(log) + 1
    BY <2>1 DEF HostTyped, Emitted
  <2>4. loaded => View!Reduces
    BY <2>1, <2>2, <2>3 DEF View!Reduces
  <2> QED BY <2>1, <2>2, <2>4 DEF View!Next, View!vars
<1>8. ASSUME NEW r \in Subs, Restores(r) PROVE [View!Next]_(View!vars)
  BY <1>8 DEF Restores, At, hostVars, clientVars, View!vars
<1>9. ASSUME NEW r \in Subs, TakesSnapshot(r) PROVE [View!Next]_(View!vars)
  BY <1>9 DEF TakesSnapshot, At, hostVars, clientVars, View!vars
<1>10. ASSUME NEW r \in Subs, RestoreFails(r) PROVE [View!Next]_(View!vars)
  <2>1. UNCHANGED <<remote, host, hydrated, confirmed>> /\ miscounted' \in {miscounted, TRUE}
    BY <1>10 DEF RestoreFails, At, Evicts, Failure, hostVars, clientVars, FlagsTyped
  <2>2. miscounted' = TRUE => View!Forgets
    BY <2>1 DEF View!Forgets
  <2>3. miscounted' = miscounted => UNCHANGED View!vars
    BY <2>1 DEF View!vars
  <2> QED BY <2>1, <2>2, <2>3 DEF View!Next
<1>11. ASSUME NEW r \in Subs, Joins(r) PROVE [View!Next]_(View!vars)
  BY <1>11 DEF Joins, At, hostVars, clientVars, View!vars
<1>12. ASSUME NEW r \in Subs, Replies(r) PROVE [View!Next]_(View!vars)
  BY <1>12 DEF Replies, At, Snapshot, hostVars, clientVars, View!vars
<1>13. CASE Acquires
  BY <1>13 DEF Acquires, hostVars, clientVars, View!vars
<1>14. CASE Releases
  <2>1. UNCHANGED <<remote, host, miscounted>> /\ ~hydrated' /\ confirmed'.seqs = {}
    BY <1>14 DEF Releases, Empty, hostVars, clientVars
  <2> QED BY <2>1 DEF View!Next, View!Forgets, View!vars
<1>15. CASE Dispatches
  BY <1>15 DEF Dispatches, hostVars, clientVars, View!vars
<1>16. ASSUME NEW i \in Emitted, GetsEnvelope(i) PROVE [View!Next]_(View!vars)
  <2>1. UNCHANGED <<remote, host, miscounted, hydrated>>
    BY <1>16 DEF GetsEnvelope, ReceivesEnvelope, Reduce, Unechoed, hostVars, clientVars
  <2>2. /\ ~hydrated => confirmed' = confirmed
        /\ hydrated => confirmed'.seqs = confirmed.seqs \cup {i}
    BY <1>16 DEF GetsEnvelope, ReceivesEnvelope, Reduce, Unechoed, hostVars, clientVars
  <2>3. \A j \in confirmed.seqs : j < i
    <3>1. Dropped(down, down') /\ Head(down) = down[1]
      BY <1>16, ReceiveEffect DEF GetsEnvelope
    <3>2. IsEnvelope(1) /\ down[1].seq = i
      BY <1>16, <3>1, DownDropped DEF GetsEnvelope, IsEnvelope
    <3> QED BY <3>2, 1 \in Nat DEF Inv, OrderInv, AheadOfClient
  <2>4. hydrated /\ ~miscounted => View!Refreshes
    BY <2>1, <2>2, <2>3, Refreshing
  <2> QED BY <2>1, <2>2, <2>4 DEF View!Next, View!vars
<1>17. ASSUME NEW m \in Message, GetsSnapshot(m) PROVE [View!Next]_(View!vars)
  <2>1. UNCHANGED <<remote, host, miscounted>>
    BY <1>17 DEF GetsSnapshot, HandlesSnapshot, Reduce, Unechoed, IsCurrent, hostVars, clientVars
  <2>2. /\ ~IsCurrent(m.req) => UNCHANGED <<confirmed, hydrated>>
        /\ IsCurrent(m.req) => hydrated'
    BY <1>17 DEF GetsSnapshot, HandlesSnapshot, Reduce, Unechoed, IsCurrent, hostVars, clientVars
  <2>3. IsCurrent(m.req) => ~hydrated
    <3>1. Dropped(down, down') /\ Head(down) = down[1]
      BY <1>17, ReceiveEffect DEF GetsSnapshot
    <3>2. IsAnswer(1) /\ down[1] = m
      BY <1>17, <3>1, DownDropped DEF GetsSnapshot, IsAnswer
    <3> QED BY <3>2, 1 \in Nat DEF IsCurrent, Inv, RequestInv, HydratedIsAnswered
  <2>4. IsCurrent(m.req) /\ ~miscounted => View!Refreshes
    BY <2>1, <2>2, <2>3, Refreshing
  <2>5. IsCurrent(m.req) /\ miscounted => UNCHANGED View!vars
    BY <2>1 DEF View!vars
  <2> QED BY <2>1, <2>2, <2>4, <2>5 DEF View!Next, View!vars
<1>18. ASSUME NEW m \in Message, GetsFailure(m) PROVE [View!Next]_(View!vars)
  BY <1>18 DEF GetsFailure, HandlesFailure, IsCurrent, hostVars, clientVars, View!vars
<1>19. CASE UNCHANGED vars
  BY <1>19 DEF vars, hostVars, clientVars, View!vars
<1> QED
  BY Steps, <1>1, <1>2, <1>3, <1>4, <1>5, <1>6, <1>7, <1>8, <1>9, <1>10, <1>11, <1>12, <1>13, <1>14, <1>15, <1>16, <1>17, <1>18, <1>19

-----------------------------------------------------------------------------
(* Theorems *)

LEMMA Starts ==
  ASSUME Init
  PROVE  Inv /\ PendingInv
<1> USE SyncAssumption DEF Init
<1>1. FlagsTyped /\ HostTyped /\ CountersTyped /\ ClientTyped
  <2>1. FlagsTyped /\ HostTyped /\ CountersTyped
    <3>1. FlagsTyped
      BY DEF FlagsTyped
    <3>2. HostTyped
      BY DEF HostTyped
    <3>3. CountersTyped
      BY DEF CountersTyped
    <3> QED BY <3>1, <3>2, <3>3
  <2>2. confirmed \in [seqs : SUBSET Emitted, sound : BOOLEAN]
    BY Zenon DEF Empty
  <2> QED BY <2>1, <2>2 DEF ClientTyped
<1>2. Waiting("none") \in Handler
  BY DEF Waiting, Handler, Stage, Emitted
<1>3. HandlerTyped /\ MessagesTyped
  BY <1>2 DEF HandlerTyped, MessagesTyped
<1>4. TypeOK
  BY <1>1, <1>3, TypeParts
<1>5. Len(up) = 0 /\ Len(down) = 0 /\ Len(log) = 0
  OBVIOUS
<1>6. \A k \in Nat : ~IsEnvelope(k) /\ ~IsSnapshot(k) /\ ~IsAnswer(k) /\ ~IsRequest(k)
  BY <1>5 DEF IsEnvelope, IsSnapshot, IsAnswer, IsRequest
<1>7. \A r \in Subs : At(r, "none") /\ handler[r].seqs = {}
  BY DEF At, Waiting
<1>8. OrderInv
  BY <1>6, <1>7 DEF OrderInv, EnvelopesAscend, AheadOfClient, SnapshotsCover, TakenCovers, AppliedInOrderOnce, Empty
<1>9. RequestInv
  BY <1>6, <1>7 DEF RequestInv, RequestsAreNew, AnswersAreDone, HydratedIsAnswered
<1>10. CountInv
  BY DEF CountInv, UnsubscribesAreOld, ServedIsCounted
<1>11. StateInv
  BY <1>6, <1>7 DEF StateInv, SnapshotsAreStates, FollowersAreReduced, NothingIsSkipped, IsAnswering, At
<1>12. PendingInv
  BY <1>5 DEF PendingInv, ActionsWereSent, ReplayedOnce
<1> QED BY <1>4, <1>8, <1>9, <1>10, <1>11, <1>12 DEF Inv

LEMMA InvHolds == Spec => [](Inv /\ PendingInv)
<1>1. Inv /\ PendingInv /\ [Next]_vars => (Inv /\ PendingInv)'
  BY TypeStep, OrderStep, RequestStep, CountStep, StateStep, PendingStep DEF Inv
<1> QED BY <1>1, Starts, PTL DEF Spec

\* TypeOK: messages, handlers and subscriptions speak of emitted envelopes only.
THEOREM SyncTyped == Spec => []TypeOK
BY InvHolds, PTL DEF Inv

\* AppliedInOrderOnce: the confirmed state of a client takes every envelope once
\* and in order, though nothing compares serverSeqs on the way.
THEOREM EnvelopesInOrder == Spec => []AppliedInOrderOnce
BY InvHolds, PTL DEF Inv, OrderInv

\* ReplayedOnce: what a client replays is not in its confirmed state already.
THEOREM NothingReplayedTwice == Spec => []ReplayedOnce
BY InvHolds, PTL DEF PendingInv

\* ShowsHostState: what clients show are states of the host: the subscriptions
\* implement ReplicaView.
THEOREM ImplementsReplicaView == Spec => ShowsHostState
<1>1. Init => View!Init
  BY DEF Init, View!Init, Empty
<1>2. Inv /\ Inv' /\ [Next]_vars => [View!Next]_(View!vars)
  BY Shows
<1> QED BY <1>1, <1>2, InvHolds, PTL DEF Spec, View!Spec, ShowsHostState

==============================================================================
