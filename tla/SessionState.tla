---------------------------- MODULE SessionState ----------------------------
(***************************************************************************)
(* The session reducer of the agent host protocol: sessionReducer in       *)
(* common/state/protocol/reducers.ts, one operator per action type, each   *)
(* returning the state the reducer returns.  The server and every client   *)
(* run the same function, so it is a module of pure operators.             *)
(*                                                                         *)
(* Kept: the active turn, its tool calls and their states, the finished    *)
(* turns, the pending messages, the input requests, the summary's activity *)
(* bits, read flag and activity text, the lifecycle.  Left out: markdown,  *)
(* reasoning and usage of a turn, title, model, config, customizations and *)
(* the archived flag, which no guard here reads.                           *)
(***************************************************************************)
EXTENDS Naturals, Sequences

CONSTANTS Turn,      \* turn identifiers
          Call,      \* tool call identifiers
          Message,   \* identifiers of pending messages
          Request,   \* identifiers of input requests
          NoTurn,    \* "activeTurn is undefined"
          NoMessage  \* "steeringMessage is undefined" / "no queuedMessageId"

ASSUME AbsentValues == NoTurn \notin Turn /\ NoMessage \notin Message

ToolStatus == {"Streaming", "PendingConfirmation", "Running",
               "PendingResultConfirmation", "Completed", "Cancelled"}
Terminal == {"Completed", "Cancelled"}
AwaitingUser == {"PendingConfirmation", "PendingResultConfirmation"}
TurnEnd == {"Complete", "Cancelled", "Error"}
Status == {"Idle", "InProgress", "InputNeeded", "Error"}
\* The activity text: none, the status labels, any label of a tool.
Label == {"none", "thinking", "reasoning", "tool"}

Part == [call : Call, st : ToolStatus]
FinishedTurn == [id : Turn, end : TurnEnd, parts : Seq(Part)]

SessionType ==
  [ lifecycle : {"Creating", "Ready"},
    turn      : Turn \cup {NoTurn},
    parts     : Seq(Part),
    turns     : Seq(FinishedTurn),
    queue     : Seq(Message),
    steering  : Message \cup {NoMessage},
    inputs    : SUBSET Request,
    status    : Status,
    read      : BOOLEAN,
    activity  : Label ]

CreatedSession ==
  [ lifecycle |-> "Creating", turn |-> NoTurn, parts |-> <<>>, turns |-> <<>>,
    queue |-> <<>>, steering |-> NoMessage, inputs |-> {}, status |-> "Idle",
    read |-> FALSE, activity |-> "none" ]

-----------------------------------------------------------------------------
(* Summary status *)

HasPendingConfirmation(s) ==
  /\ s.turn # NoTurn
  /\ \E i \in 1..Len(s.parts) : s.parts[i].st \in AwaitingUser

SummaryStatus(s) ==
  IF s.inputs # {} \/ HasPendingConfirmation(s) THEN "InputNeeded"
  ELSE IF s.turn # NoTurn THEN "InProgress"
  ELSE "Idle"

RefreshStatus(s) == [s EXCEPT !.status = SummaryStatus(s)]

Touched(s) == [RefreshStatus(s) EXCEPT !.read = FALSE]

-----------------------------------------------------------------------------
(* Tool calls of the active turn *)

\* Mutant of IsActive: the turn id is not compared.
IsActiveIgnoresId(s, t) == t # NoTurn

IsActive(s, t) == t # NoTurn /\ s.turn = t

MapParts(parts, calls, step) ==
  [i \in 1..Len(parts) |->
     IF parts[i].call \in calls
     THEN [call |-> parts[i].call, st |-> step[parts[i].st]]
     ELSE parts[i]]

UpdateToolCalls(s, t, calls, step) ==
  IF IsActive(s, t) THEN [s EXCEPT !.parts = MapParts(s.parts, calls, step)]
  ELSE s

\* Mutants of the steps below: a running call is not asked about again; a
\* confirmation needs no pending call; a streaming call is not settled.
ReadyStepFromStreamingOnly(confirmed) ==
  [st \in ToolStatus |->
     IF st = "Streaming"
     THEN IF confirmed THEN "Running" ELSE "PendingConfirmation"
     ELSE st]

ConfirmedStepFromAny(approved) ==
  [st \in ToolStatus |-> IF approved THEN "Running" ELSE "Cancelled"]

SettleStepSkipsStreaming ==
  [st \in ToolStatus |-> IF st \in Terminal \cup {"Streaming"} THEN st ELSE "Cancelled"]

\* What each action does to a tool call, by the state it finds the call in.
ReadyStep(confirmed) ==
  [st \in ToolStatus |->
     IF st \in {"Streaming", "Running"}
     THEN IF confirmed THEN "Running" ELSE "PendingConfirmation"
     ELSE st]

ConfirmedStep(approved) ==
  [st \in ToolStatus |->
     IF st = "PendingConfirmation"
     THEN IF approved THEN "Running" ELSE "Cancelled"
     ELSE st]

CompleteStep(review) ==
  [st \in ToolStatus |->
     IF st \in {"Running", "PendingConfirmation"}
     THEN IF review THEN "PendingResultConfirmation" ELSE "Completed"
     ELSE st]

ResultConfirmedStep(approved) ==
  [st \in ToolStatus |->
     IF st = "PendingResultConfirmation"
     THEN IF approved THEN "Completed" ELSE "Cancelled"
     ELSE st]

SettleStep ==
  [st \in ToolStatus |-> IF st \in Terminal THEN st ELSE "Cancelled"]

ToolCallStart(s, t, c) ==
  IF IsActive(s, t)
  THEN [s EXCEPT !.parts = Append(s.parts, [call |-> c, st |-> "Streaming"])]
  ELSE s

\* Mutant of ToolCallConfirmed: the summary status is not refreshed.
ToolCallConfirmedKeepsStatus(s, t, c, approved) ==
  UpdateToolCalls(s, t, {c}, ConfirmedStep(approved))

\* The three reducers below refresh the status even when no call matched.
ToolCallReady(s, t, c, confirmed) ==
  RefreshStatus(UpdateToolCalls(s, t, {c}, ReadyStep(confirmed)))

ToolCallConfirmed(s, t, c, approved) ==
  RefreshStatus(UpdateToolCalls(s, t, {c}, ConfirmedStep(approved)))

ToolCallsComplete(s, t, calls, review) ==
  RefreshStatus(UpdateToolCalls(s, t, calls, CompleteStep(review)))

ToolCallResultConfirmed(s, t, c, approved) ==
  RefreshStatus(UpdateToolCalls(s, t, {c}, ResultConfirmedStep(approved)))

-----------------------------------------------------------------------------
(* Pending messages.  The identifiers of a queue are distinct (an upsert by *)
(* id), so filtering one out removes at most one position.                  *)

Queued(s, m) == \E i \in 1..Len(s.queue) : s.queue[i] = m

Without(q, m) ==
  IF \E i \in 1..Len(q) : q[i] = m
  THEN LET i == CHOOSE i \in 1..Len(q) : q[i] = m
       IN  SubSeq(q, 1, i - 1) \o SubSeq(q, i + 1, Len(q))
  ELSE q

PendingMessageSet(s, kind, m) ==
  IF kind = "Steering" THEN [s EXCEPT !.steering = m]
  ELSE IF Queued(s, m) THEN s
  ELSE [s EXCEPT !.queue = Append(s.queue, m)]

PendingMessageRemoved(s, kind, m) ==
  IF kind = "Steering"
  THEN [s EXCEPT !.steering = IF s.steering = m THEN NoMessage ELSE s.steering]
  ELSE [s EXCEPT !.queue = Without(s.queue, m)]

Permutation(n) ==
  {pi \in [1..n -> 1..n] : \A i, j \in 1..n : i # j => pi[i] # pi[j]}

\* Whatever ids a client lists, the result is the queue in another order:
\* listed ids first, the others after them.  pi is that permutation.
QueuedMessagesReordered(s, pi) ==
  [s EXCEPT !.queue = [i \in 1..Len(s.queue) |-> s.queue[pi[i]]]]

-----------------------------------------------------------------------------
(* Turn lifecycle *)

SessionReady(s) == [s EXCEPT !.lifecycle = "Ready", !.status = "Idle", !.read = FALSE]

\* Mutant of TurnStarted: the message it consumes stays queued.
TurnStartedKeepsMessage(s, t, m) == Touched([s EXCEPT !.turn = t, !.parts = <<>>])

\* Starting a turn overwrites the active one; the message it consumes leaves
\* the queue (or the steering slot) in the same step.
TurnStarted(s, t, m) ==
  LET begun == Touched([s EXCEPT !.turn = t, !.parts = <<>>])
  IN  IF m = NoMessage THEN begun
      ELSE [begun EXCEPT
              !.steering = IF s.steering = m THEN NoMessage ELSE s.steering,
              !.queue = Without(s.queue, m)]

\* Mutant of EndTurn: the record takes the id of the turn already cleared.
EndTurnRecordsClearedId(s, t, end) ==
  IF ~IsActive(s, t) THEN s
  ELSE LET cleared == [s EXCEPT !.turn = NoTurn, !.parts = <<>>, !.inputs = {}]
           done == [cleared EXCEPT !.turns = Append(s.turns,
                      [id |-> cleared.turn, end |-> end, parts |-> cleared.parts])]
       IN  [done EXCEPT !.status = SummaryStatus(done)]

EndTurn(s, t, end) ==
  IF ~IsActive(s, t) THEN s
  ELSE LET done == [s EXCEPT
             !.turns = Append(s.turns,
                [id |-> t, end |-> end,
                 parts |-> [i \in 1..Len(s.parts) |->
                              [call |-> s.parts[i].call,
                               st |-> SettleStep[s.parts[i].st]]]]),
             !.turn = NoTurn, !.parts = <<>>, !.inputs = {}]
       IN  [done EXCEPT !.status =
              IF end = "Error" THEN "Error" ELSE SummaryStatus(done)]

\* Keep the first n finished turns; an active turn is dropped unrecorded.
Truncated(s, n) ==
  RefreshStatus([s EXCEPT !.turns = SubSeq(s.turns, 1, n), !.turn = NoTurn,
                          !.parts = <<>>, !.inputs = {}])

-----------------------------------------------------------------------------
(* Input requests, read flag, activity text *)

InputRequested(s, r) == Touched([s EXCEPT !.inputs = s.inputs \cup {r}])

InputCompleted(s, r) ==
  IF r \in s.inputs THEN RefreshStatus([s EXCEPT !.inputs = s.inputs \ {r}])
  ELSE s

IsReadChanged(s, read) == [s EXCEPT !.read = read]

ActivityChanged(s, label) == [s EXCEPT !.activity = label]

=============================================================================
