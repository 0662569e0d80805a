-------------------------- MODULE SessionLifeProofs --------------------------
(***************************************************************************)
(* The invariants of SessionLife for any sets of turns, calls, messages    *)
(* and requests.                                                           *)
(*                                                                         *)
(* A truthful status is not inductive: session/ready sets Idle without     *)
(* looking, so it takes that a session being created has nothing open yet. *)
(* That a turn is recorded once takes that every turn on record or active  *)
(* was started, and a new one was not.                                     *)
(***************************************************************************)
EXTENDS SessionLife, SessionStateProofs

\* Before session/ready nothing was asked and no tool was started.
CreatingIsEmpty ==
  session.lifecycle = "Creating" => session.inputs = {} /\ Len(session.parts) = 0

\* Parts belong to the active turn.
PartsHaveTurn == session.turn = NoTurn => Len(session.parts) = 0

\* Turns come from StartTurn and ConsumeQueued alone.
TurnsWereStarted ==
  /\ session.turn # NoTurn => session.turn \in started
  /\ \A i \in 1..Len(session.turns) : session.turns[i].id \in started

\* PendingMessageSet is an upsert by id: no interleaving of sets, removals,
\* reorders and consumption queues one message twice.
QueueDistinct ==
  \A i, j \in 1..Len(session.queue) :
     i # j => session.queue[i] # session.queue[j]

IInv ==
  /\ TypeOK /\ CreatingIsEmpty /\ PartsHaveTurn /\ TurnsWereStarted
  /\ Settled(session) /\ StatusTrue(session)
  /\ QueueDistinct /\ TurnRecordedOnce

LEMMA InitEstablishes == Init => IInv
<1> SUFFICES ASSUME Init PROVE IInv
  OBVIOUS
<1>1. TypeOK /\ Settled(session) /\ StatusTrue(session)
  BY CreatedTyped DEF Init, TypeOK
<1>2. CreatingIsEmpty /\ PartsHaveTurn /\ TurnsWereStarted /\ QueueDistinct /\ TurnRecordedOnce
  BY DEF Init, CreatedSession, CreatingIsEmpty, PartsHaveTurn, TurnsWereStarted,
         QueueDistinct, TurnRecordedOnce
<1> QED BY <1>1, <1>2 DEF IInv

\* A step that leaves turn, history and queue alone.
LEMMA FrameKeeps ==
  ASSUME IInv, session' \in SessionType, started' = started,
         session'.turn = session.turn, session'.turns = session.turns,
         \A i, j \in 1..Len(session'.queue) : i # j => session'.queue[i] # session'.queue[j],
         CreatingIsEmpty', PartsHaveTurn', StatusTrue(session')
  PROVE  IInv'
<1>1. TypeOK' /\ TurnsWereStarted' /\ TurnRecordedOnce'
  BY DEF IInv, TypeOK, TurnsWereStarted, TurnRecordedOnce
<1>2. Settled(session') /\ QueueDistinct'
  BY DEF IInv, Settled, QueueDistinct
<1> QED BY <1>1, <1>2 DEF IInv

\* An action on the tool calls with some id, by anyone, for any turn.
LEMMA ToolStepKeeps ==
  ASSUME IInv, NEW t, NEW c, NEW step \in Step, started' = started,
         session' = RefreshStatus(UpdateToolCalls(session, t, {c}, step))
  PROVE  IInv'
<1>1. session \in SessionType /\ session.parts \in Seq(Part)
  BY DEF IInv, TypeOK, SessionType
<1>2. /\ session' \in SessionType /\ StatusTrue(session') /\ SameButParts(session', session)
      /\ \/ session'.parts = session.parts
         \/ session.turn # NoTurn /\ session'.parts = MapParts(session.parts, {c}, step)
  BY <1>1, ToolCallActions
<1>3. Len(session'.parts) = Len(session.parts)
  BY <1>1, <1>2, MapPartsTyped
<1>4. CreatingIsEmpty' /\ PartsHaveTurn'
  BY <1>2, <1>3 DEF IInv, CreatingIsEmpty, PartsHaveTurn, SameButParts
<1>5. /\ session'.turn = session.turn /\ session'.turns = session.turns
      /\ session'.queue = session.queue
  BY <1>2 DEF SameButParts
<1>6. \A i, j \in 1..Len(session'.queue) : i # j => session'.queue[i] # session'.queue[j]
  BY <1>5 DEF IInv, QueueDistinct
<1> QED BY <1>2, <1>4, <1>5, <1>6, FrameKeeps

LEMMA StartToolKeeps ==
  ASSUME IInv, NEW c \in Call, AgentStartsTool(c) PROVE IInv'
<1>1. session \in SessionType /\ Acting
  BY DEF IInv, TypeOK, AgentStartsTool
<1>2. /\ session' \in SessionType /\ StatusTrue(session') /\ SameButParts(session', session)
      /\ started' = started
  BY <1>1, ToolCallStartKeeps DEF AgentStartsTool, IInv
<1>3. CreatingIsEmpty' /\ PartsHaveTurn'
  BY <1>1, <1>2 DEF CreatingIsEmpty, PartsHaveTurn, SameButParts, Acting
<1> QED BY <1>2, <1>3, FrameKeeps DEF SameButParts, IInv, QueueDistinct

\* An end action, for the active turn or one that is over.
LEMMA EndKeeps ==
  ASSUME IInv, NEW t \in Turn \cup {NoTurn}, NEW end \in TurnEnd,
         session' = EndTurn(session, t, end), started' = started
  PROVE  IInv'
<1>1. /\ session \in SessionType /\ session.turns \in Seq(FinishedTurn)
      /\ Len(session.turns) \in Nat
  BY LenProperties DEF IInv, TypeOK, SessionType
<1>2. CASE ~IsActive(session, t)
  <2>1. session' = session
    BY <1>1, <1>2, EndTurnKeeps
  <2> QED BY <2>1 DEF IInv, TypeOK, CreatingIsEmpty, PartsHaveTurn, TurnsWereStarted,
                      QueueDistinct, TurnRecordedOnce
<1>3. CASE IsActive(session, t)
  <2>1. /\ session' \in SessionType /\ session'.queue = session.queue
        /\ session'.turn = NoTurn /\ session'.parts = <<>> /\ session'.inputs = {}
        /\ Len(session'.turns) = Len(session.turns) + 1
        /\ \A i \in 1..Len(session.turns) : session'.turns[i] = session.turns[i]
        /\ session'.turns[Len(session.turns) + 1].id = t
        /\ StatusTrue(session') /\ Settled(session')
    BY <1>1, <1>3, EndTurnKeeps DEF IInv
  <2>2. t = session.turn /\ t # NoTurn /\ t \in started
    BY <1>3 DEF IsActive, IInv, TurnsWereStarted
  <2>3. CreatingIsEmpty' /\ PartsHaveTurn' /\ QueueDistinct'
    BY <2>1, EmptySeq DEF CreatingIsEmpty, PartsHaveTurn, QueueDistinct, IInv
  <2>4. \A i \in 1..Len(session'.turns) :
           i \in 1..Len(session.turns) \/ i = Len(session.turns) + 1
    BY <1>1, <2>1
  <2>5. TurnsWereStarted'
    <3> SUFFICES ASSUME NEW i \in 1..Len(session'.turns)
                 PROVE  session'.turns[i].id \in started
      BY <2>1 DEF TurnsWereStarted
    <3>1. CASE i \in 1..Len(session.turns)
      BY <2>1, <3>1 DEF IInv, TurnsWereStarted
    <3>2. CASE i = Len(session.turns) + 1
      BY <2>1, <2>2, <3>2
    <3> QED BY <2>4, <3>1, <3>2
  <2>6. \A i, j \in 1..Len(session'.turns) :
           i # j => session'.turns[i].id # session'.turns[j].id
    <3>1. \A i \in 1..Len(session.turns) : session.turns[i].id # t
      BY <2>2 DEF IInv, TurnRecordedOnce
    <3>2. \A i, j \in 1..Len(session.turns) :
             i # j => session.turns[i].id # session.turns[j].id
      BY DEF IInv, TurnRecordedOnce
    <3> SUFFICES ASSUME NEW i \in 1..Len(session'.turns), NEW j \in 1..Len(session'.turns),
                        i # j
                 PROVE  session'.turns[i].id # session'.turns[j].id
      OBVIOUS
    <3> DEFINE old == 1..Len(session.turns)
    <3>3. /\ \A k \in old : session'.turns[k].id = session.turns[k].id
          /\ \A k \in 1..Len(session'.turns) : k \notin old => session'.turns[k].id = t
          /\ \A k, l \in 1..Len(session'.turns) : k \notin old /\ l \notin old => k = l
      BY <2>1, <2>4
    <3> HIDE DEF old
    <3> QED BY <3>1, <3>2, <3>3 DEF old
  <2>7. \A i \in 1..Len(session'.turns) : session'.turns[i].id # NoTurn
    <3>1. NoTurn \notin started
      BY AbsentValues DEF IInv, TypeOK
    <3> QED BY <2>5, <3>1 DEF TurnsWereStarted
  <2> QED BY <2>1, <2>3, <2>5, <2>6, <2>7 DEF IInv, TypeOK, TurnRecordedOnce
<1> QED BY <1>2, <1>3

\* A turn that was never started starts, with or without a queued message.
LEMMA StartKeeps ==
  ASSUME IInv, NEW t \in Turn, t \notin started, NEW m \in Message \cup {NoMessage},
         session' = TurnStarted(session, t, m), started' = started \cup {t},
         session.lifecycle = "Ready" \/ m = NoMessage
  PROVE  IInv'
<1>1. session \in SessionType /\ session.queue \in Seq(Message) /\ started \subseteq Turn
  BY DEF IInv, TypeOK, SessionType
<1>2. /\ session' \in SessionType /\ session'.turn = t /\ session'.parts = <<>>
      /\ session'.turns = session.turns /\ session'.inputs = session.inputs
      /\ session'.lifecycle = session.lifecycle
      /\ session'.queue = IF m = NoMessage THEN session.queue ELSE Without(session.queue, m)
      /\ StatusTrue(session')
  BY <1>1, TurnStartedKeeps
<1>3. TypeOK' /\ Settled(session')
  BY <1>1, <1>2 DEF IInv, TypeOK, Settled
<1>4. CreatingIsEmpty' /\ PartsHaveTurn'
  BY <1>2, EmptySeq, AbsentValues DEF IInv, CreatingIsEmpty, PartsHaveTurn
<1>5. TurnsWereStarted' /\ TurnRecordedOnce'
  BY <1>2 DEF IInv, TurnsWereStarted, TurnRecordedOnce
<1>6. QueueDistinct'
  BY <1>1, <1>2, WithoutKeepsDistinct DEF IInv, QueueDistinct
<1> QED BY <1>2, <1>3, <1>4, <1>5, <1>6 DEF IInv

LEMMA TruncateKeeps ==
  ASSUME IInv, NEW n \in 0..Len(session.turns), Truncate(n) PROVE IInv'
<1>1. /\ session \in SessionType /\ session.turns \in Seq(FinishedTurn)
      /\ Len(session.turns) \in Nat /\ n \in Nat /\ n <= Len(session.turns)
  BY LenProperties DEF IInv, TypeOK, SessionType
<1>2. /\ session' \in SessionType /\ StatusTrue(session')
      /\ session'.turn = NoTurn /\ session'.parts = <<>> /\ session'.inputs = {}
      /\ session'.queue = session.queue /\ Len(session'.turns) = n
      /\ \A i \in 1..n : session'.turns[i] = session.turns[i]
      /\ started' = started
  BY <1>1, TruncatedKeeps DEF Truncate
<1>3. TypeOK' /\ CreatingIsEmpty' /\ PartsHaveTurn' /\ QueueDistinct'
  BY <1>2, EmptySeq DEF IInv, TypeOK, CreatingIsEmpty, PartsHaveTurn, QueueDistinct
<1>4. \A i \in 1..Len(session'.turns) :
         i \in 1..Len(session.turns) /\ session'.turns[i] = session.turns[i]
  BY <1>1, <1>2
<1>5. Settled(session')
  BY <1>4 DEF IInv, Settled
<1>6. TurnsWereStarted'
  BY <1>2, <1>4 DEF IInv, TurnsWereStarted
<1>7. TurnRecordedOnce'
  <2>1. NoTurn \notin started
    BY AbsentValues DEF IInv, TypeOK
  <2> QED BY <1>2, <1>4, <2>1 DEF IInv, TurnsWereStarted, TurnRecordedOnce
<1> QED BY <1>2, <1>3, <1>5, <1>6, <1>7 DEF IInv

\* Pending messages change in one of three ways.
LEMMA PendingKeeps ==
  ASSUME IInv, started' = started, session' \in SessionType,
         SameButPending(session', session),
         \A i, j \in 1..Len(session'.queue) : i # j => session'.queue[i] # session'.queue[j]
  PROVE  IInv'
<1>1. StatusTrue(session')
  BY DEF IInv, StatusTrue, HasPendingConfirmation, SameButPending
<1>2. CreatingIsEmpty' /\ PartsHaveTurn'
  BY DEF IInv, CreatingIsEmpty, PartsHaveTurn, SameButPending
<1> QED BY <1>1, <1>2, FrameKeeps DEF SameButPending

LEMMA SetPendingKeeps ==
  ASSUME IInv, NEW kind \in {"Steering", "Queued"}, NEW m \in Message,
         SetPending(kind, m)
  PROVE  IInv'
<1>1. session \in SessionType /\ session.queue \in Seq(Message)
  BY DEF IInv, TypeOK, SessionType
<1>2. /\ session' \in SessionType /\ SameButPending(session', session)
      /\ session'.queue = IF kind = "Steering" \/ Queued(session, m) THEN session.queue
                          ELSE Append(session.queue, m)
      /\ started' = started
  BY <1>1, PendingMessageSetKeeps DEF SetPending
<1>3. CASE session'.queue = session.queue
  BY <1>2, <1>3, PendingKeeps DEF IInv, QueueDistinct
<1>4. CASE session'.queue = Append(session.queue, m) /\ ~Queued(session, m)
  <2> DEFINE q == session.queue
             r == Append(q, m)
  <2>1. /\ Len(q) \in Nat /\ Len(r) = Len(q) + 1
        /\ \A i \in 1..Len(q) : r[i] = q[i] /\ q[i] # m
        /\ r[Len(q) + 1] = m
    BY <1>1, <1>4, AppendProperties, LenProperties DEF Queued
  <2>2. \A i \in 1..Len(r) : i \in 1..Len(q) \/ i = Len(q) + 1
    BY <2>1
  <2>3. \A i, j \in 1..Len(q) : i # j => q[i] # q[j]
    BY DEF IInv, QueueDistinct
  <2>4. \A i, j \in 1..Len(r) : i # j => r[i] # r[j]
    <3> TAKE i, j \in 1..Len(r)
    <3> HIDE DEF q, r
    <3> QED BY <2>1, <2>2, <2>3
  <2> QED BY <1>2, <1>4, <2>4, PendingKeeps
<1> QED BY <1>2, <1>3, <1>4

LEMMA RemovePendingKeeps ==
  ASSUME IInv, NEW kind \in {"Steering", "Queued"}, NEW m \in Message,
         RemovePending(kind, m)
  PROVE  IInv'
<1>1. session \in SessionType /\ session.queue \in Seq(Message)
  BY DEF IInv, TypeOK, SessionType
<1>2. /\ session' \in SessionType /\ SameButPending(session', session)
      /\ session'.queue = IF kind = "Steering" THEN session.queue
                          ELSE Without(session.queue, m)
      /\ started' = started
  BY <1>1, PendingMessageRemovedKeeps DEF RemovePending
<1>3. QueueDistinct'
  BY <1>1, <1>2, WithoutKeepsDistinct DEF IInv, QueueDistinct
<1> QED BY <1>2, <1>3, PendingKeeps DEF IInv, QueueDistinct

LEMMA ReorderStepKeeps ==
  ASSUME IInv, Reorder PROVE IInv'
<1>1. session \in SessionType
  BY DEF IInv, TypeOK
<1>2. PICK pi \in Permutation(Len(session.queue)) :
         session' = QueuedMessagesReordered(session, pi) /\ started' = started
  BY DEF Reorder
<1>3. /\ pi \in [1..Len(session.queue) -> 1..Len(session.queue)]
      /\ \A i, j \in 1..Len(session.queue) : i # j => pi[i] # pi[j]
  BY DEF Permutation
<1>4. /\ session' \in SessionType /\ SameButPending(session', session)
      /\ Len(session'.queue) = Len(session.queue)
      /\ \A i \in 1..Len(session.queue) : session'.queue[i] = session.queue[pi[i]]
  BY <1>1, <1>2, <1>3, ReorderedKeeps
<1>5. ASSUME NEW i \in 1..Len(session'.queue), NEW j \in 1..Len(session'.queue), i # j
      PROVE  session'.queue[i] # session'.queue[j]
  BY <1>3, <1>4, <1>5 DEF IInv, QueueDistinct
<1> QED BY <1>2, <1>4, <1>5, PendingKeeps

\* Input requests and the read flag.
LEMMA InputsKeep ==
  ASSUME IInv, started' = started, session' \in SessionType,
         SameButInputs(session', session), StatusTrue(session'),
         session.lifecycle = "Creating" => session'.inputs = {}
  PROVE  IInv'
<1>1. CreatingIsEmpty' /\ PartsHaveTurn'
  BY DEF IInv, CreatingIsEmpty, PartsHaveTurn, SameButInputs
<1> QED BY <1>1, FrameKeeps DEF SameButInputs, IInv, QueueDistinct

LEMMA ReadyStepKeeps ==
  ASSUME IInv, Ready PROVE IInv'
<1>1. session \in SessionType /\ session.lifecycle = "Creating" /\ started' = started
  BY DEF IInv, TypeOK, Ready
<1>2. /\ session' \in SessionType /\ session'.lifecycle = "Ready" /\ session'.status = "Idle"
      /\ session'.turn = session.turn /\ session'.parts = session.parts
      /\ session'.turns = session.turns /\ session'.queue = session.queue
      /\ session'.inputs = session.inputs
  BY <1>1, ReadyKeeps DEF Ready
<1>3. session.inputs = {} /\ Len(session.parts) = 0
  BY <1>1 DEF IInv, CreatingIsEmpty
<1>4. StatusTrue(session')
  BY <1>2, <1>3 DEF StatusTrue, HasPendingConfirmation
<1>5. CreatingIsEmpty' /\ PartsHaveTurn'
  BY <1>2 DEF IInv, CreatingIsEmpty, PartsHaveTurn
<1> QED BY <1>1, <1>2, <1>4, <1>5, FrameKeeps DEF IInv, QueueDistinct

LEMMA StepKeeps == IInv /\ [Next]_vars => IInv'
<1> SUFFICES ASSUME IInv, [Next]_vars PROVE IInv'
  OBVIOUS
<1>0. session \in SessionType /\ started \subseteq Turn
  BY DEF IInv, TypeOK
<1>1. CASE Ready
  BY <1>1, ReadyStepKeeps
<1>2. ASSUME NEW c \in Call, AgentStartsTool(c) PROVE IInv'
  BY <1>2, StartToolKeeps
<1>3. ASSUME NEW c \in Call, NEW b \in BOOLEAN, AgentReadiesTool(c, b) PROVE IInv'
  BY <1>3, ToolStepKeeps, StepsTyped DEF AgentReadiesTool, ToolCallReady
<1>4. ASSUME NEW c \in Call, NEW b \in BOOLEAN, AgentCompletesTool(c, b) PROVE IInv'
  BY <1>4, ToolStepKeeps, StepsTyped DEF AgentCompletesTool, ToolCallsComplete
<1>5. ASSUME NEW end \in TurnEnd, AgentEndsTurn(end) PROVE IInv'
  <2>1. session.turn \in Turn \cup {NoTurn}
    BY <1>0 DEF SessionType
  <2> QED BY <1>5, <2>1, EndKeeps DEF AgentEndsTurn
<1>6. ASSUME NEW t \in Turn, SendFails(t) PROVE IInv'
  BY <1>6, EndKeeps DEF SendFails, TurnEnd
<1>7. ASSUME NEW t \in Turn, ConsumeQueued(t) PROVE IInv'
  <2>1. session.queue[1] \in Message
    <3>1. session.queue \in Seq(Message) /\ Len(session.queue) \in Nat
      BY <1>0, LenProperties DEF SessionType
    <3>2. Len(session.queue) # 0
      BY <1>7, <3>1, EmptySeq DEF ConsumeQueued
    <3>3. 1 \in 1..Len(session.queue)
      BY <3>1, <3>2
    <3> QED BY <3>1, <3>3, ElementOfSeq
  <2> QED BY <1>7, <2>1, StartKeeps DEF ConsumeQueued
<1>8. ASSUME NEW r \in Request, AgentAsks(r) PROVE IInv'
  <2>1. session' \in SessionType /\ StatusTrue(session') /\ SameButInputs(session', session)
    BY <1>0, <1>8, InputRequestedKeeps DEF AgentAsks
  <2> QED BY <1>8, <2>1, InputsKeep DEF AgentAsks, Acting
<1>9. ASSUME NEW t \in Turn, StartTurn(t) PROVE IInv'
  BY <1>9, StartKeeps DEF StartTurn
<1>10. ASSUME NEW t \in Turn, CancelTurn(t) PROVE IInv'
  BY <1>10, EndKeeps DEF CancelTurn, TurnEnd
<1>11. ASSUME NEW t \in Turn, NEW c \in Call, NEW b \in BOOLEAN, Confirm(t, c, b) PROVE IInv'
  BY <1>11, ToolStepKeeps, StepsTyped DEF Confirm, ToolCallConfirmed
<1>12. ASSUME NEW t \in Turn, NEW c \in Call, ClientCompletesTool(t, c) PROVE IInv'
  BY <1>12, ToolStepKeeps, StepsTyped DEF ClientCompletesTool, ToolCallsComplete
<1>13. ASSUME NEW t \in Turn, NEW c \in Call, NEW b \in BOOLEAN, ConfirmResult(t, c, b)
       PROVE  IInv'
  BY <1>13, ToolStepKeeps, StepsTyped DEF ConfirmResult, ToolCallResultConfirmed
<1>14. ASSUME NEW n \in 0..Len(session.turns), Truncate(n) PROVE IInv'
  BY <1>14, TruncateKeeps
<1>15. ASSUME NEW r \in Request, Answer(r) PROVE IInv'
  <2>1. /\ session' \in SessionType /\ SameButInputs(session', session)
        /\ session'.inputs \subseteq session.inputs /\ StatusTrue(session')
    BY <1>0, <1>15, InputCompletedKeeps DEF Answer, IInv
  <2>2. session.lifecycle = "Creating" => session'.inputs = {}
    BY <2>1 DEF IInv, CreatingIsEmpty
  <2> QED BY <1>15, <2>1, <2>2, InputsKeep DEF Answer
<1>16. ASSUME NEW k \in {"Steering", "Queued"}, NEW m \in Message,
              SetPending(k, m) \/ RemovePending(k, m)
       PROVE  IInv'
  BY <1>16, SetPendingKeeps, RemovePendingKeeps
<1>17. CASE Reorder
  BY <1>17, ReorderStepKeeps
<1>18. ASSUME NEW b \in BOOLEAN, MarkRead(b) PROVE IInv'
  <2>1. /\ session' \in SessionType /\ SameButInputs(session', session)
        /\ session'.inputs = session.inputs /\ StatusTrue(session')
    <3>1. "none" \in Label
      BY DEF Label
    <3> QED BY <1>0, <1>18, <3>1, FlagsKeep DEF MarkRead, IInv
  <2> QED BY <1>18, <2>1, InputsKeep DEF MarkRead, IInv, CreatingIsEmpty
<1>19. CASE UNCHANGED vars
  BY <1>19 DEF vars, IInv, TypeOK, CreatingIsEmpty, PartsHaveTurn, TurnsWereStarted,
               QueueDistinct, TurnRecordedOnce
<1> QED BY <1>1, <1>2, <1>3, <1>4, <1>5, <1>6, <1>7, <1>8, <1>9, <1>10, <1>11, <1>12,
           <1>13, <1>14, <1>15, <1>16, <1>17, <1>18, <1>19
        DEF Next, HostOrAgent, Client

LEMMA Inductive == Spec => []IInv
<1> QED BY InitEstablishes, StepKeeps, PTL DEF Spec

\* The session keeps the shape of the protocol's SessionState.
THEOREM SessionTyped == Spec => []TypeOK
<1>1. IInv => TypeOK
  BY DEF IInv
<1> QED BY <1>1, Inductive, PTL

\* A turn on record holds no tool call that still runs or waits, whatever the
\* order in which tools, confirmations and the end of the turn came.
THEOREM HistoryIsSettled == Spec => []SettledHistory
<1>1. IInv => SettledHistory
  BY DEF IInv, Settled, SettledHistory
<1> QED BY <1>1, Inductive, PTL

\* StatusIsTruthful: the summary shows "input needed" exactly while something
\* is open, and "in progress" only with a turn.
THEOREM StatusStaysTruthful == Spec => []StatusIsTruthful
<1>1. IInv => StatusIsTruthful
  BY DEF IInv, StatusTrue, StatusIsTruthful
<1> QED BY <1>1, Inductive, PTL

\* No message is queued twice.
THEOREM QueueStaysDistinct == Spec => []QueueDistinct
<1>1. IInv => QueueDistinct
  BY DEF IInv
<1> QED BY <1>1, Inductive, PTL

\* No turn is recorded twice, nor while it is active.
THEOREM RecordedOnce == Spec => []TurnRecordedOnce
<1>1. IInv => TurnRecordedOnce
  BY DEF IInv
<1> QED BY <1>1, Inductive, PTL

-----------------------------------------------------------------------------
(* A settled tool call stays settled while its turn lasts. *)

\* One conjunct of TerminalIsFinal, for a step.
KeepsTerminal ==
  session'.turn = session.turn =>
    \A i \in 1..Len(session.parts) :
      session.parts[i].st \in Terminal => session'.parts[i] = session.parts[i]

LEMMA StepsKeepTerminal ==
  ASSUME NEW b \in BOOLEAN, NEW st \in Terminal
  PROVE  /\ ReadyStep(b)[st] = st /\ ConfirmedStep(b)[st] = st
         /\ CompleteStep(b)[st] = st /\ ResultConfirmedStep(b)[st] = st
BY DEF ReadyStep, ConfirmedStep, CompleteStep, ResultConfirmedStep, ToolStatus, Terminal

LEMMA ToolStepKeepsTerminal ==
  ASSUME IInv, NEW t, NEW c, NEW step \in Step, \A st \in Terminal : step[st] = st,
         session' = RefreshStatus(UpdateToolCalls(session, t, {c}, step))
  PROVE  KeepsTerminal
<1>1. session \in SessionType /\ session.parts \in Seq(Part)
  BY DEF IInv, TypeOK, SessionType
<1>2. \/ session'.parts = session.parts
      \/ session'.parts = MapParts(session.parts, {c}, step)
  BY <1>1, ToolCallActions
<1> SUFFICES ASSUME NEW i \in 1..Len(session.parts), session.parts[i].st \in Terminal
             PROVE  session'.parts[i] = session.parts[i]
  BY DEF KeepsTerminal
<1>3. CASE session'.parts = session.parts
  BY <1>3
<1>4. CASE session'.parts = MapParts(session.parts, {c}, step)
  <2>1. session.parts[i] \in Part
    BY <1>1, ElementOfSeq
  <2>2. session.parts[i] = [call |-> session.parts[i].call, st |-> session.parts[i].st]
    BY <2>1 DEF Part
  <2>3. session'.parts[i] = IF session.parts[i].call \in {c}
                            THEN [call |-> session.parts[i].call, st |-> step[session.parts[i].st]]
                            ELSE session.parts[i]
    BY <1>1, <1>4, MapPartsTyped
  <2> QED BY <2>2, <2>3
<1> QED BY <1>2, <1>3, <1>4

LEMMA StepKeepsTerminal == IInv /\ [Next]_vars => KeepsTerminal
<1> SUFFICES ASSUME IInv, [Next]_vars PROVE KeepsTerminal
  OBVIOUS
<1>0. /\ session \in SessionType /\ started \subseteq Turn
      /\ session.parts \in Seq(Part) /\ Len(session.parts) \in Nat
      /\ session.turn \in Turn \cup {NoTurn}
  BY LenProperties DEF IInv, TypeOK, SessionType
<1>1. ASSUME session'.parts = session.parts PROVE KeepsTerminal
  BY <1>1 DEF KeepsTerminal
<1>2. ASSUME NEW t \in Turn \cup {NoTurn}, NEW end \in TurnEnd, session' = EndTurn(session, t, end)
      PROVE  KeepsTerminal
  <2>1. CASE ~IsActive(session, t)
    <3>1. session' = session
      BY <1>0, <1>2, <2>1, EndTurnKeeps
    <3> QED BY <1>1, <3>1
  <2>2. CASE IsActive(session, t)
    <3>1. session'.turn = NoTurn
      BY <1>0, <1>2, <2>2, EndTurnKeeps
    <3> QED BY <2>2, <3>1 DEF IsActive, KeepsTerminal
  <2> QED BY <2>1, <2>2
<1>3. ASSUME NEW t \in Turn, t \notin started, NEW m \in Message \cup {NoMessage},
             session' = TurnStarted(session, t, m)
      PROVE  KeepsTerminal
  <2>1. session'.turn = t
    BY <1>0, <1>3, TurnStartedKeeps
  <2>2. session.turn # t
    BY <1>3, AbsentValues DEF IInv, TurnsWereStarted
  <2> QED BY <2>1, <2>2 DEF KeepsTerminal
<1>4. ASSUME NEW c \in Call, AgentStartsTool(c) PROVE KeepsTerminal
  <2>1. \/ session'.parts = session.parts
        \/ session'.parts = Append(session.parts, [call |-> c, st |-> "Streaming"])
    BY <1>0, <1>4, ToolCallStartKeeps DEF AgentStartsTool
  <2>2. [call |-> c, st |-> "Streaming"] \in Part
    BY DEF Part, ToolStatus
  <2>3. \A i \in 1..Len(session.parts) : session'.parts[i] = session.parts[i]
    BY <1>0, <2>1, <2>2, AppendProperties
  <2> QED BY <2>3 DEF KeepsTerminal
<1>5. ASSUME NEW n \in 0..Len(session.turns), Truncate(n) PROVE KeepsTerminal
  <2>1. session'.turn = NoTurn
    BY <1>0, <1>5, TruncatedKeeps DEF Truncate
  <2>2. session.turn = NoTurn => 1..Len(session.parts) = {}
    BY <1>0 DEF IInv, PartsHaveTurn
  <2> QED BY <2>1, <2>2 DEF KeepsTerminal
<1>6. ASSUME NEW c \in Call, NEW b \in BOOLEAN,
             AgentReadiesTool(c, b) \/ AgentCompletesTool(c, b)
      PROVE  KeepsTerminal
  BY <1>6, ToolStepKeepsTerminal, StepsTyped, StepsKeepTerminal
     DEF AgentReadiesTool, AgentCompletesTool, ToolCallReady, ToolCallsComplete
<1>7. ASSUME NEW t \in Turn, NEW c \in Call, NEW b \in BOOLEAN,
             Confirm(t, c, b) \/ ConfirmResult(t, c, b)
      PROVE  KeepsTerminal
  BY <1>7, ToolStepKeepsTerminal, StepsTyped, StepsKeepTerminal
     DEF Confirm, ConfirmResult, ToolCallConfirmed, ToolCallResultConfirmed
<1>8. ASSUME NEW t \in Turn, NEW c \in Call, ClientCompletesTool(t, c) PROVE KeepsTerminal
  BY <1>8, ToolStepKeepsTerminal, StepsTyped, StepsKeepTerminal
     DEF ClientCompletesTool, ToolCallsComplete
<1>9. CASE Ready
  BY <1>0, <1>1, <1>9, ReadyKeeps DEF Ready
<1>10. ASSUME NEW r \in Request, AgentAsks(r) \/ Answer(r) PROVE KeepsTerminal
  BY <1>0, <1>1, <1>10, InputRequestedKeeps, InputCompletedKeeps
     DEF AgentAsks, Answer, SameButInputs
<1>11. ASSUME NEW k \in {"Steering", "Queued"}, NEW m \in Message,
              SetPending(k, m) \/ RemovePending(k, m)
       PROVE  KeepsTerminal
  BY <1>0, <1>1, <1>11, PendingMessageSetKeeps, PendingMessageRemovedKeeps
     DEF SetPending, RemovePending, SameButPending
<1>12. CASE Reorder
  <2>1. PICK pi \in Permutation(Len(session.queue)) :
          session' = QueuedMessagesReordered(session, pi)
    BY <1>12 DEF Reorder
  <2>2. pi \in [1..Len(session.queue) -> 1..Len(session.queue)]
    BY DEF Permutation
  <2> QED BY <1>0, <1>1, <2>1, <2>2, ReorderedKeeps DEF SameButPending
<1>13. ASSUME NEW b \in BOOLEAN, MarkRead(b) PROVE KeepsTerminal
  <2>1. "none" \in Label
    BY DEF Label
  <2> QED BY <1>0, <1>1, <1>13, <2>1, FlagsKeep DEF MarkRead, SameButInputs
<1>14. ASSUME NEW t \in Turn, ConsumeQueued(t) PROVE KeepsTerminal
  <2>1. session.queue[1] \in Message
    <3>1. session.queue \in Seq(Message) /\ Len(session.queue) \in Nat
      BY <1>0, LenProperties DEF SessionType
    <3>2. Len(session.queue) # 0
      BY <1>14, <3>1, EmptySeq DEF ConsumeQueued
    <3>3. 1 \in 1..Len(session.queue)
      BY <3>1, <3>2
    <3> QED BY <3>1, <3>3, ElementOfSeq
  <2> QED BY <1>3, <1>14, <2>1 DEF ConsumeQueued
<1>15. CASE UNCHANGED vars
  BY <1>1, <1>15 DEF vars
<1>16. ASSUME NEW t \in Turn, StartTurn(t) PROVE KeepsTerminal
  BY <1>3, <1>16 DEF StartTurn
<1>17. ASSUME NEW t \in Turn, CancelTurn(t) \/ SendFails(t) PROVE KeepsTerminal
  BY <1>2, <1>17 DEF CancelTurn, SendFails, TurnEnd
<1>18. ASSUME NEW end \in TurnEnd, AgentEndsTurn(end) PROVE KeepsTerminal
  BY <1>0, <1>2, <1>18 DEF AgentEndsTurn
<1> QED BY <1>4, <1>5, <1>6, <1>7, <1>8, <1>9, <1>10, <1>11, <1>12, <1>13, <1>14,
           <1>15, <1>16, <1>17, <1>18
        DEF Next, HostOrAgent, Client

\* Within a turn, a tool call that is completed or cancelled stays so, whatever
\* arrives later for its id.
THEOREM TerminalStaysFinal == Spec => TerminalIsFinal
<1>1. IInv /\ [Next]_vars =>
        [session'.turn = session.turn =>
           \A i \in 1..Len(session.parts) :
             session.parts[i].st \in Terminal => session'.parts[i] = session.parts[i]]_vars
  BY StepKeepsTerminal DEF KeepsTerminal
<1> QED BY <1>1, Inductive, PTL DEF Spec, TerminalIsFinal
=============================================================================
