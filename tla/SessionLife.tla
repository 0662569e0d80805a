----------------------------- MODULE SessionLife -----------------------------
(***************************************************************************)
(* One session under every order of protocol actions the host applies to   *)
(* it (AgentHostStateManager._applyAndEmit runs the reducer on each).      *)
(*                                                                         *)
(* The host rewrites the turn id of an agent's action to the active turn   *)
(* (agentSideEffects.ts), so agent actions carry session.turn.  A client   *)
(* names the turn it last saw, which may have ended meanwhile, so client   *)
(* actions range over every turn started so far.  An agent acts once it is *)
(* materialized, and materializing is what sends session/ready.            *)
(***************************************************************************)
EXTENDS SessionState

CONSTANTS MaxParts,    \* bound: tool call parts of the active turn
          Provisional  \* BOOLEAN: may turns start before session/ready

ASSUME LifeAssumption == MaxParts \in Nat /\ Provisional \in BOOLEAN

VARIABLES session,  \* _sessionStates.get(key)
          started   \* turn ids used so far

vars == <<session, started>>

Init == session = CreatedSession /\ started = {}

-----------------------------------------------------------------------------
(* Host and agent *)

Ready ==
  /\ session.lifecycle = "Creating"
  /\ session' = SessionReady(session)
  /\ UNCHANGED started

Acting == session.lifecycle = "Ready" /\ session.turn # NoTurn

InParts(c) == \E i \in 1..Len(session.parts) : session.parts[i].call = c

AgentStartsTool(c) ==
  /\ Acting
  /\ Len(session.parts) < MaxParts
  /\ session' = ToolCallStart(session, session.turn, c)
  /\ UNCHANGED started

AgentReadiesTool(c, confirmed) ==
  /\ Acting /\ InParts(c)
  /\ session' = ToolCallReady(session, session.turn, c, confirmed)
  /\ UNCHANGED started

AgentCompletesTool(c, review) ==
  /\ Acting /\ InParts(c)
  /\ session' = ToolCallsComplete(session, session.turn, {c}, review)
  /\ UNCHANGED started

AgentEndsTurn(end) ==
  /\ Acting
  /\ session' = EndTurn(session, session.turn, end)
  /\ UNCHANGED started

\* sendMessage rejected: the error names the turn it was called for.
SendFails(t) ==
  /\ t \in started
  /\ session' = EndTurn(session, t, "Error")
  /\ UNCHANGED started

AgentAsks(r) ==
  /\ Acting
  /\ session' = InputRequested(session, r)
  /\ UNCHANGED started

ConsumeQueued(t) ==
  /\ session.turn = NoTurn /\ session.queue # <<>>
  /\ session.lifecycle = "Ready"
  /\ t \notin started
  /\ session' = TurnStarted(session, t, session.queue[1])
  /\ started' = started \cup {t}

-----------------------------------------------------------------------------
(* Clients *)

StartTurn(t) ==
  /\ session.lifecycle = "Ready" \/ Provisional
  /\ t \notin started
  /\ session' = TurnStarted(session, t, NoMessage)
  /\ started' = started \cup {t}

CancelTurn(t) ==
  /\ t \in started
  /\ session' = EndTurn(session, t, "Cancelled")
  /\ UNCHANGED started

Confirm(t, c, approved) ==
  /\ t \in started
  /\ session' = ToolCallConfirmed(session, t, c, approved)
  /\ UNCHANGED started

ClientCompletesTool(t, c) ==
  /\ t \in started
  /\ session' = ToolCallsComplete(session, t, {c}, FALSE)
  /\ UNCHANGED started

ConfirmResult(t, c, approved) ==
  /\ t \in started
  /\ session' = ToolCallResultConfirmed(session, t, c, approved)
  /\ UNCHANGED started

Truncate(n) ==
  /\ session' = Truncated(session, n)
  /\ UNCHANGED started

Answer(r) ==
  /\ session' = InputCompleted(session, r)
  /\ UNCHANGED started

SetPending(kind, m) ==
  /\ session' = PendingMessageSet(session, kind, m)
  /\ UNCHANGED started

RemovePending(kind, m) ==
  /\ session' = PendingMessageRemoved(session, kind, m)
  /\ UNCHANGED started

Reorder ==
  /\ \E pi \in Permutation(Len(session.queue)) :
       session' = QueuedMessagesReordered(session, pi)
  /\ UNCHANGED started

MarkRead(read) ==
  /\ session' = IsReadChanged(session, read)
  /\ UNCHANGED started

-----------------------------------------------------------------------------
HostOrAgent ==
  \/ Ready
  \/ \E c \in Call : \/ AgentStartsTool(c)
                     \/ \E b \in BOOLEAN : \/ AgentReadiesTool(c, b)
                                           \/ AgentCompletesTool(c, b)
  \/ \E end \in TurnEnd : AgentEndsTurn(end)
  \/ \E t \in Turn : SendFails(t) \/ ConsumeQueued(t)
  \/ \E r \in Request : AgentAsks(r)

Client ==
  \/ \E t \in Turn : \/ StartTurn(t) \/ CancelTurn(t)
                     \/ \E c \in Call : \/ ClientCompletesTool(t, c)
                                        \/ \E b \in BOOLEAN : \/ Confirm(t, c, b)
                                                              \/ ConfirmResult(t, c, b)
  \/ \E n \in 0..Len(session.turns) : Truncate(n)
  \/ \E r \in Request : Answer(r)
  \/ \E k \in {"Steering", "Queued"}, m \in Message : SetPending(k, m) \/ RemovePending(k, m)
  \/ Reorder
  \/ \E b \in BOOLEAN : MarkRead(b)

Next == HostOrAgent \/ Client

Spec == Init /\ [][Next]_vars

-----------------------------------------------------------------------------
(* Properties *)

\* Every variable has the shape of the protocol's SessionState.
TypeOK == session \in SessionType /\ started \subseteq Turn

\* endTurn: whatever order tools, confirmations and the end of the turn came
\* in, a turn on record holds no tool call that still runs or waits.
SettledHistory ==
  \A i \in 1..Len(session.turns) : \A j \in 1..Len(session.turns[i].parts) :
     session.turns[i].parts[j].st \in Terminal

\* summaryStatus: "input needed" is shown exactly while an input request or a
\* tool confirmation is open, even when the last action was about something
\* else, or ended the turn the confirmation belonged to; and the session is
\* never shown in progress without a turn.
StatusIsTruthful ==
  /\ session.status = "InputNeeded"
       <=> session.inputs # {} \/ HasPendingConfirmation(session)
  /\ session.status = "InProgress" => session.turn # NoTurn

\* A turn is on record at most once, and never while it is still active:
\* a late end action for it is ignored.
TurnRecordedOnce ==
  /\ \A i, j \in 1..Len(session.turns) :
        i # j => session.turns[i].id # session.turns[j].id
  /\ \A i \in 1..Len(session.turns) : session.turns[i].id # session.turn

\* The tool call state machine: within a turn, a completed or cancelled call
\* (a denied edit, say) stays so whatever arrives later for its id.
TerminalIsFinal ==
  [][session'.turn = session.turn =>
       \A i \in 1..Len(session.parts) :
          session.parts[i].st \in Terminal => session'.parts[i] = session.parts[i]]_vars

=============================================================================
