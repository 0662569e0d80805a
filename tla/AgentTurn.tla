----------------------------- MODULE AgentTurn -----------------------------
(***************************************************************************)
(* One session driven by the OpenAI agent: clients, the host that reduces  *)
(* their actions and routes the agent's signals, and the agent's runs of   *)
(* sendMessage.                                                            *)
(*                                                                         *)
(* Clients act on the host (AgentService._dispatchActionNow: reduce, then  *)
(* AgentSideEffects.handleAction).  The agent answers with signals, which  *)
(* _handleAgentSignal applies synchronously: a signal is dropped when the  *)
(* session has no active turn, and its turn id is rewritten to the active  *)
(* turn otherwise.  A run of sendMessage is a process of its own: it goes  *)
(* on after the turn it was started for is over, and several runs of one   *)
(* session can be alive.  An action here is the code between two awaits.   *)
(***************************************************************************)
EXTENDS SessionState, Integers, FiniteSets

CONSTANTS MaxCalls,   \* bound: tool calls of one run, over all its rounds
          Kinds,      \* kinds of tool the model may call in this instance
          AutoApply,  \* setting AgentAutoApplyEdits
          Streaming,  \* setting: stream chat completions
          Limited,    \* BOOLEAN: the activity step limit may be reached
          Overlap     \* BOOLEAN: a client may start a turn during a turn

\* "read": read-only host tool, run in parallel with its neighbours.
\* "host": any other host tool.  "client": a tool the active client runs.
\* "edit": propose_file_edit, applied after approval.
ToolKind == {"read", "host", "client", "edit"}

\* The id of the preview of a streamed call whose chunk has none: every run
\* uses the same "stream-tool-<index>".
Preview == <<NoTurn, 0>>

\* Call <<t, n>> is the n-th call the model makes in run t.
ASSUME TurnAssumption ==
  /\ MaxCalls \in Nat
  /\ Kinds \subseteq ToolKind
  /\ Call = (Turn \X (1 .. MaxCalls)) \cup {Preview}
  /\ AutoApply \in BOOLEAN /\ Streaming \in BOOLEAN /\ Limited \in BOOLEAN /\ Overlap \in BOOLEAN

VARIABLES
  session,      \* host: the reduced session state
  toolAgents,   \* host: keys of _toolCallAgents
  active,       \* agent: record.active.turnId
  aborted,      \* agent: runs whose AbortController is aborted
  activity,     \* agent: record.currentActivity
  tracked,      \* agent: keys of record.activeTurnToolCalls
  approvals,    \* agent: keys of _pendingToolApprovals
  clientWaits,  \* agent: keys of _pendingClientToolResults
  pc,           \* where each run of sendMessage awaits
  calls,        \* the tool calls each run got from the model so far
  announced,    \* runs that announced a streamed tool call
  streamed,     \* runs with streamedText # ''
  origin,       \* the queued message each turn was started from
  sent,        \* how often clients put each message into the queue, less
                \* the times they took it back
  applied,      \* calls whose proposed edit was written to the workspace
  consented     \* calls the user, a setting or a permission rule approved

hostVars == <<session, toolAgents>>
agentVars == <<active, aborted, activity, tracked, approvals, clientWaits>>
runVars == <<pc, calls, announced, streamed>>
recordVars == <<origin, sent, applied, consented>>
vars == <<session, toolAgents, active, aborted, activity, tracked, approvals,
          clientWaits, pc, calls, announced, streamed, origin, sent, applied,
          consented>>

\* What a run awaits: caches and transcript; the fast lane's saves; the
\* response headers; its body; its tools; the hand-off records; the session
\* record; the save of a cancelled run's partial answer.
RunState == {"idle", "prepare", "fastlane", "chat", "body", "tools", "handoff",
             "persist", "retain", "done"}

\* What a tool call awaits: its turn; the pause gate; the tool's context; the
\* tool; a tool not shown; the client; nothing; the user; the workspace write.
CallState == {"queued", "gated", "opened", "running", "silent", "client",
              "answered", "approval", "approved", "denied", "done"}
InFlight == CallState \ {"queued", "done"}

Started == {t \in Turn : pc[t] # "idle"}
Live(t) == pc[t] \notin {"idle", "done"}

\* Each queued message will need a turn id: the bound on turns covers them.
TurnsLeft == Cardinality(Turn \ Started) > Len(session.queue)

Init ==
  /\ session = [CreatedSession EXCEPT !.lifecycle = "Ready"]
  /\ toolAgents = {} /\ active = NoTurn /\ aborted = {} /\ activity = "none"
  /\ tracked = {} /\ approvals = {} /\ clientWaits = {}
  /\ pc = [t \in Turn |-> "idle"] /\ calls = [t \in Turn |-> <<>>]
  /\ announced = {} /\ streamed = {}
  /\ origin = [t \in Turn |-> NoMessage] /\ sent = [m \in Message |-> 0]
  /\ applied = {} /\ consented = {}

-----------------------------------------------------------------------------
(* Signals: how the host applies what the agent fires *)

Routed(s) == s.turn # NoTurn

SigActivity(s, label) ==
  IF Routed(s) /\ activity # label THEN ActivityChanged(s, label) ELSE s

SigStart(s, c) == ToolCallStart(s, s.turn, c)

SigReady(s, c, confirmed) ==
  IF Routed(s) THEN ToolCallReady(s, s.turn, c, confirmed) ELSE s

SigComplete(s, cs) ==
  IF Routed(s) THEN ToolCallsComplete(s, s.turn, cs, FALSE) ELSE s

SigEnd(s, end) == EndTurn(s, s.turn, end)

\* The host's own listener forwards a completion it emitted to the agent,
\* which resolves a client tool waiting under that id.
AnsweredBy(s, cs) == IF Routed(s) THEN clientWaits \cap cs ELSE {}

SetCalls(cs, ids, st) ==
  [t \in Turn |-> [n \in 1..Len(cs[t]) |->
     IF <<t, n>> \in ids THEN [kind |-> cs[t][n].kind, st |-> st] ELSE cs[t][n]]]

-----------------------------------------------------------------------------
(* Starting a run: the synchronous prefix of sendMessage *)

\* Mutant of BeginTurn: the label goes out only when none was recorded.
BeginTurnKeepsLabel(s, t, m, label) ==
  LET begun == TurnStarted(s, t, m)
      shown == IF label = "none" THEN ActivityChanged(begun, "thinking") ELSE begun
  IN  TurnStarted(shown, shown.turn, NoMessage)

\* The host (or a client through it) starts turn t; the agent sets its
\* activity (label is the recorded one) and echoes turnStarted, which the host
\* reduces again.
BeginTurn(s, t, m, label) ==
  LET begun == TurnStarted(s, t, m)
      shown == IF label # "thinking" THEN ActivityChanged(begun, "thinking") ELSE begun
  IN  TurnStarted(shown, shown.turn, NoMessage)

\* Mutant of Consumes: the last queued message is left behind.
ConsumesAllButLast(s) == s.turn = NoTurn /\ Len(s.queue) > 1

\* Mutant of Consumes: it does not look whether a turn is active.
ConsumesDuringTurn(s) == s.queue # <<>>

\* _tryConsumeNextQueuedMessage: nothing to do, or the next message starts
\* turn t.
Consumes(s) == s.turn = NoTurn /\ s.queue # <<>>

ConsumeNext(s, t, label) ==
  /\ t \notin Started
  /\ session' = BeginTurn(s, t, s.queue[1], label)
  /\ origin' = [origin EXCEPT ![t] = s.queue[1]]

-----------------------------------------------------------------------------
(* Clients *)

ClientStartTurn(t) ==
  /\ t \notin Started /\ TurnsLeft
  /\ Overlap \/ session.turn = NoTurn
  /\ session' = BeginTurn(session, t, NoMessage, activity)
  /\ active' = t /\ activity' = "thinking" /\ tracked' = {}
  /\ pc' = [pc EXCEPT ![t] = "prepare"]
  /\ UNCHANGED <<toolAgents, aborted, approvals, clientWaits, calls, announced,
                 streamed, recordVars>>

\* After a change of the pending messages an idle session takes the next one.
SyncPending(s) ==
  \/ /\ ~Consumes(s)
     /\ session' = s
     /\ UNCHANGED <<active, activity, tracked, pc, origin>>
  \/ /\ Consumes(s)
     /\ \E t \in Turn :
          /\ ConsumeNext(s, t, activity)
          /\ active' = t /\ activity' = "thinking" /\ tracked' = {}
          /\ pc' = [pc EXCEPT ![t] = "prepare"]

\* A client sends any message: one that waits already is only rewritten, one
\* that a turn has consumed (the client re-sends what it finds missing from the
\* host's queue) is appended again.
ClientQueues(m) ==
  /\ Queued(session, m) \/ TurnsLeft
  /\ SyncPending(PendingMessageSet(session, "Queued", m))
  /\ sent' = IF Queued(session, m) THEN sent ELSE [sent EXCEPT ![m] = @ + 1]
  /\ UNCHANGED <<toolAgents, aborted, approvals, clientWaits, calls, announced,
                 streamed, applied, consented>>

ClientUnqueues(m) ==
  /\ Queued(session, m)
  /\ SyncPending(PendingMessageRemoved(session, "Queued", m))
  /\ sent' = [sent EXCEPT ![m] = @ - 1]
  /\ UNCHANGED <<toolAgents, aborted, approvals, clientWaits, calls, announced,
                 streamed, applied, consented>>

\* Whatever order a client lists, the queue is the same messages in another one.
ClientReorders(pi) ==
  /\ SyncPending(QueuedMessagesReordered(session, pi))
  /\ UNCHANGED <<toolAgents, aborted, approvals, clientWaits, calls, announced,
                 streamed, sent, applied, consented>>

\* Mutants of DenyPending: the abort approves; the abort forgets to resolve.
DenyPendingApproves(cs) == SetCalls(cs, approvals, "approved")
DenyPendingDropsResolver(cs) == cs

\* Every approval the session waits for is resolved as denied.
DenyPending(cs) == SetCalls(cs, approvals, "denied")

\* The client names the turn it saw; abortSession aborts whichever run is
\* active, denies every pending approval of the session, completes the
\* tracked calls as cancelled, and fires turnCancelled.
ClientCancels(t) ==
  LET ended == EndTurn(session, t, "Cancelled")
      swept == IF tracked # {} THEN SigComplete(ended, tracked) ELSE ended
      quiet == SigActivity(swept, "none")
  IN  /\ t \in Started
      /\ approvals' = {}
      /\ IF active # NoTurn
         THEN /\ aborted' = aborted \cup {active}
              /\ session' = SigEnd(quiet, "Cancelled")
              /\ activity' = "none" /\ tracked' = {}
              /\ clientWaits' = clientWaits \ AnsweredBy(ended, tracked)
              /\ calls' = SetCalls(DenyPending(calls),
                                   AnsweredBy(ended, tracked), "answered")
         ELSE /\ session' = ended
              /\ calls' = DenyPending(calls)
              /\ UNCHANGED <<aborted, activity, tracked, clientWaits>>
      /\ UNCHANGED <<toolAgents, active, pc, announced, streamed, recordVars>>

\* A user can answer a confirmation shown now, or one shown by a turn that
\* has ended since.
InParts(c) == \E i \in 1..Len(session.parts) : session.parts[i].call = c

Shown(c) ==
  \/ \E i \in 1..Len(session.parts) : session.parts[i] = [call |-> c, st |-> "PendingConfirmation"]
  \/ \E i \in 1..Len(session.turns) : \E j \in 1..Len(session.turns[i].parts) :
        session.turns[i].parts[j].call = c

IsKind(c, k) == c[2] \in 1..Len(calls[c[1]]) /\ calls[c[1]][c[2]].kind = k

ClientConfirms(c, ok) ==
  LET resolves == c \in toolAgents /\ c \in approvals IN
  /\ IsKind(c, "edit") /\ Shown(c)
  /\ session' = ToolCallConfirmed(session, session.turn, c, ok)
  /\ toolAgents' = toolAgents \ {c}
  /\ approvals' = IF resolves THEN approvals \ {c} ELSE approvals
  /\ calls' = IF resolves
              THEN SetCalls(calls, {c}, IF ok THEN "approved" ELSE "denied")
              ELSE calls
  /\ consented' = IF resolves /\ ok THEN consented \cup {c} ELSE consented
  /\ UNCHANGED <<active, aborted, activity, tracked, clientWaits, pc, announced,
                 streamed, origin, sent, applied>>

\* The active client reports its tool's result; so does the server when that
\* client stays disconnected.  The agent resolves the waiter by id alone.
ClientAnswers(c) ==
  /\ IsKind(c, "client")
  /\ calls[c[1]][c[2]].st \in {"client", "answered", "done"}
  /\ session' = ToolCallsComplete(session, session.turn, {c}, FALSE)
  /\ clientWaits' = clientWaits \ {c}
  /\ calls' = SetCalls(calls, clientWaits \cap {c}, "answered")
  /\ UNCHANGED <<toolAgents, active, aborted, activity, tracked, approvals, pc,
                 announced, streamed, recordVars>>

-----------------------------------------------------------------------------
(* Runs: leaving sendMessage *)

\* Mutant of Finally: it forgets the active run of whoever owns it.
FinallyForgetsAnyRun(t, activeNow) == NoTurn

\* The finally block: it forgets the tracked calls of the record, whichever
\* run they belong to, and the active run only if it is this one.
Finally(t, activeNow) == IF activeNow = t THEN NoTurn ELSE activeNow

\* The catch block.  s is the session when the error is caught.
Unwind(t, s, cancelled) ==
  LET quiet == SigActivity(s, "none")
      swept == IF cancelled /\ tracked # {} THEN SigComplete(quiet, tracked) ELSE quiet
      hits  == IF cancelled THEN AnsweredBy(quiet, tracked) ELSE {}
      keeps == cancelled /\ t \in streamed
  IN  /\ activity' = "none" /\ tracked' = {}
      /\ clientWaits' = clientWaits \ hits
      /\ session' = IF keeps THEN swept
                    ELSE SigEnd(swept, IF cancelled THEN "Cancelled" ELSE "Error")
      /\ pc' = [pc EXCEPT ![t] = IF keeps THEN "retain" ELSE "done"]
      /\ active' = IF keeps THEN active ELSE Finally(t, active)

\* An await fails: the request was aborted, or an error of its own, whose text
\* decides whether it counts as a cancellation.
Cancels(t) == IF t \in aborted THEN {TRUE} ELSE BOOLEAN

Fails(t) ==
  /\ pc[t] \in {"prepare", "fastlane", "chat", "body", "handoff", "persist"}
  /\ \E cancelled \in Cancels(t) :
       LET hits == IF cancelled THEN AnsweredBy(session, tracked) ELSE {} IN
       /\ Unwind(t, session, cancelled)
       /\ calls' = SetCalls(calls, hits, "answered")
  /\ UNCHANGED <<toolAgents, aborted, approvals, announced, streamed, recordVars>>

\* The partial answer is on disk; report the cancellation.
Retained(t) ==
  /\ pc[t] = "retain"
  /\ session' = SigEnd(session, "Cancelled")
  /\ pc' = [pc EXCEPT ![t] = "done"]
  /\ tracked' = {} /\ active' = Finally(t, active)
  /\ UNCHANGED <<toolAgents, aborted, activity, approvals, clientWaits, calls,
                 announced, streamed, recordVars>>

\* The turn's records are saved: fire turnComplete, whose side effects start
\* the next queued message, and leave.
Finishes(t) ==
  LET label == IF pc[t] = "fastlane" THEN "none" ELSE activity
      quiet == SigActivity(session, label)
      ended == SigEnd(quiet, "Complete")
  IN  /\ pc[t] \in {"persist", "fastlane"}
      /\ tracked' = {}
      /\ \/ /\ ~Consumes(ended)
            /\ session' = ended
            /\ activity' = label
            /\ active' = Finally(t, active)
            /\ pc' = [pc EXCEPT ![t] = "done"]
            /\ UNCHANGED origin
         \/ /\ Consumes(ended)
            /\ \E u \in Turn :
                 /\ ConsumeNext(ended, u, label)
                 /\ active' = Finally(t, u) /\ activity' = "thinking"
                 /\ pc' = [pc EXCEPT ![t] = "done", ![u] = "prepare"]
      /\ UNCHANGED <<toolAgents, aborted, approvals, clientWaits, calls, announced,
                     streamed, sent, applied, consented>>

-----------------------------------------------------------------------------
(* Runs: the turn loop *)

Prepares(t) ==
  /\ pc[t] = "prepare"
  /\ \/ pc' = [pc EXCEPT ![t] = "chat"] /\ UNCHANGED streamed
     \/ pc' = [pc EXCEPT ![t] = "fastlane"] /\ streamed' = streamed \cup {t}
  /\ UNCHANGED <<hostVars, agentVars, calls, announced, recordVars>>

\* fetch resolves.  From here on neither the abort signal nor the timeout is
\* attached to the request: only the stream reader looks at the signal, and
\* only between two reads, so an aborted body may still be read to its end.
Responds(t) ==
  /\ pc[t] = "chat" /\ t \notin aborted
  /\ pc' = [pc EXCEPT ![t] = "body"]
  /\ UNCHANGED <<hostVars, agentVars, calls, announced, streamed, recordVars>>

\* First text of the answer: the activity line goes away.
StreamsText(t) ==
  /\ pc[t] = "body" /\ t \notin streamed
  /\ streamed' = streamed \cup {t}
  /\ session' = SigActivity(session, "none") /\ activity' = "none"
  /\ UNCHANGED <<toolAgents, active, aborted, tracked, approvals, clientWaits, pc,
                 calls, announced, recordVars>>

StreamsReasoning(t) ==
  /\ Streaming /\ pc[t] = "body" /\ activity # "reasoning"
  /\ session' = SigActivity(session, "reasoning") /\ activity' = "reasoning"
  /\ UNCHANGED <<toolAgents, active, aborted, tracked, approvals, clientWaits,
                 runVars, recordVars>>

\* A tool name streams in before the call is complete: a preview of the call,
\* under the call's id when the chunk has one.
AnnouncesTool(t) ==
  /\ Streaming /\ pc[t] = "body" /\ t \notin announced
  /\ Len(calls[t]) < MaxCalls
  /\ announced' = announced \cup {t}
  /\ \E c \in {Preview, <<t, Len(calls[t]) + 1>>} :
       /\ session' = SigStart(SigActivity(session, "tool"), c)
       /\ tracked' = tracked \cup {c}
       /\ toolAgents' = toolAgents \cup {c}
  /\ activity' = "tool"
  /\ UNCHANGED <<active, aborted, approvals, clientWaits, pc, calls, streamed, recordVars>>

\* The body is complete and holds tool calls.
AsksForTools(t) ==
  /\ pc[t] = "body"
  /\ \E n \in 1 .. MaxCalls - Len(calls[t]) : \E kinds \in [1..n -> Kinds] :
       calls' = [calls EXCEPT ![t] =
                   calls[t] \o [i \in 1..n |-> [kind |-> kinds[i], st |-> "queued"]]]
  /\ pc' = [pc EXCEPT ![t] = "tools"]
  /\ UNCHANGED <<hostVars, agentVars, announced, streamed, recordVars>>

\* It holds none (or the round limit is reached), and the task looks
\* unfinished: another request, after a prompt added to the answer.
Continues(t) ==
  /\ pc[t] = "body"
  /\ pc' = [pc EXCEPT ![t] = "chat"]
  /\ streamed' = streamed \cup {t}
  /\ UNCHANGED <<hostVars, agentVars, calls, announced, recordVars>>

Concludes(t) ==
  /\ pc[t] = "body"
  /\ pc' = [pc EXCEPT ![t] = "handoff"]
  /\ UNCHANGED <<hostVars, agentVars, calls, announced, streamed, recordVars>>

HandsOff(t) ==
  /\ pc[t] = "handoff"
  /\ pc' = [pc EXCEPT ![t] = "persist"]
  /\ session' = SigActivity(session, "none") /\ activity' = "none"
  /\ UNCHANGED <<toolAgents, active, aborted, tracked, approvals, clientWaits,
                 calls, announced, streamed, recordVars>>

CallIs(t, n, st) == n \in 1..Len(calls[t]) /\ calls[t][n].st = st

Idle(t) == \A n \in 1..Len(calls[t]) : calls[t][n].st \notin InFlight

\* Mutant of NextBatch: the call after a row of read-only calls joins it.
NextBatchOneTooMany(t) ==
  LET waiting == {n \in 1..Len(calls[t]) : calls[t][n].st = "queued"}
      first   == CHOOSE n \in waiting : \A m \in waiting : n <= m
  IN  {n \in waiting : \A m \in first..(n - 1) : calls[t][m].kind = "read"}

\* The next tool call, or the whole row of read-only calls it starts.
NextBatch(t) ==
  LET waiting == {n \in 1..Len(calls[t]) : calls[t][n].st = "queued"}
      first   == CHOOSE n \in waiting : \A m \in waiting : n <= m
  IN  {n \in waiting : n = first \/ \A m \in first..n : calls[t][m].kind = "read"}

AdmitsTools(t) ==
  /\ pc[t] = "tools" /\ Idle(t)
  /\ \E n \in 1..Len(calls[t]) : calls[t][n].st = "queued"
  /\ calls' = SetCalls(calls, {<<t, n>> : n \in NextBatch(t)}, "gated")
  /\ UNCHANGED <<hostVars, agentVars, pc, announced, streamed, recordVars>>

RoundEnds(t) ==
  /\ pc[t] = "tools"
  /\ \A n \in 1..Len(calls[t]) : calls[t][n].st = "done"
  /\ pc' = [pc EXCEPT ![t] = "chat"]
  /\ UNCHANGED <<hostVars, agentVars, calls, announced, streamed, recordVars>>

-----------------------------------------------------------------------------
(* Runs: one tool call.  It goes on even when its run has left (a sibling   *)
(* of a parallel batch failed).  Limited: at the activity step limit a call *)
(* shows no line, and only host tools still run.                            *)

\* Read-only mode refuses a writing tool before the gate.
RefusesTool(t, n) ==
  /\ CallIs(t, n, "gated") /\ calls[t][n].kind \in {"host", "edit"}
  /\ calls' = SetCalls(calls, {<<t, n>>}, "done")
  /\ UNCHANGED <<hostVars, agentVars, pc, announced, streamed, recordVars>>

Began(t, n) ==
  /\ tracked' = tracked \cup {<<t, n>>}
  /\ toolAgents' = toolAgents \cup {<<t, n>>}

\* The activity line of a call past the gate.
ShowsLine(line) == line = "tool" \/ (Limited /\ line = activity)

OpensGate(t, n) ==
  /\ CallIs(t, n, "gated") /\ calls[t][n].kind \in {"host", "read"}
  /\ \E line \in Label : /\ ShowsLine(line)
                         /\ session' = SigActivity(session, line)
                         /\ activity' = line
  /\ calls' = SetCalls(calls, {<<t, n>>}, "opened")
  /\ UNCHANGED <<toolAgents, active, aborted, tracked, approvals, clientWaits, pc,
                 announced, streamed, recordVars>>

StartsHostTool(t, n) ==
  LET c == <<t, n>> IN
  /\ CallIs(t, n, "opened")
  /\ session' = SigReady(SigStart(session, c), c, TRUE)
  /\ Began(t, n)
  /\ calls' = SetCalls(calls, {c}, "running")
  /\ UNCHANGED <<active, aborted, activity, approvals, clientWaits, pc, announced,
                 streamed, recordVars>>

RunsSilently(t, n) ==
  /\ Limited /\ CallIs(t, n, "opened")
  /\ calls' = SetCalls(calls, {<<t, n>>}, "silent")
  /\ UNCHANGED <<hostVars, agentVars, pc, announced, streamed, recordVars>>

EndsSilently(t, n) ==
  /\ CallIs(t, n, "silent")
  /\ calls' = SetCalls(calls, {<<t, n>>}, "done")
  /\ UNCHANGED <<hostVars, agentVars, pc, announced, streamed, recordVars>>

StartsClientTool(t, n) ==
  LET c == <<t, n>> IN
  /\ CallIs(t, n, "gated") /\ calls[t][n].kind = "client"
  /\ session' = SigReady(SigStart(SigActivity(session, "tool"), c), c, TRUE)
  /\ Began(t, n) /\ activity' = "tool"
  /\ clientWaits' = clientWaits \cup {c}
  /\ calls' = SetCalls(calls, {c}, "client")
  /\ UNCHANGED <<active, aborted, approvals, pc, announced, streamed, recordVars>>

\* No client is active, or the step limit is reached: the call is reported
\* complete though it was never started.
SkipsClientTool(t, n) ==
  LET c == <<t, n>> IN
  /\ CallIs(t, n, "gated") /\ calls[t][n].kind = "client"
  /\ \E line \in Label : /\ ShowsLine(line)
                         /\ session' = SigComplete(SigActivity(session, line), {c})
                         /\ activity' = line
  /\ tracked' = tracked \ {c}
  /\ calls' = SetCalls(calls, {c}, "done")
  /\ UNCHANGED <<toolAgents, active, aborted, approvals, clientWaits, pc, announced,
                 streamed, recordVars>>

SkipsEdit(t, n) ==
  /\ Limited /\ CallIs(t, n, "gated") /\ calls[t][n].kind = "edit"
  /\ \E line \in Label : /\ ShowsLine(line)
                         /\ session' = SigActivity(session, line)
                         /\ activity' = line
  /\ calls' = SetCalls(calls, {<<t, n>>}, "done")
  /\ UNCHANGED <<toolAgents, active, aborted, tracked, approvals, clientWaits, pc,
                 announced, streamed, recordVars>>

\* An edit is proposed.  The setting applies it at once; otherwise the agent
\* registers an approval and asks, and the host's permission rules (auto)
\* answer for the user or show the confirmation.  A terminal command on the
\* block list is denied without asking.
ProposesEdit(t, n) ==
  LET c == <<t, n>>
      begun == SigStart(SigActivity(session, "tool"), c)
      asked == SigReady(begun, c, TRUE)
  IN
  /\ CallIs(t, n, "gated") /\ calls[t][n].kind = "edit"
  /\ tracked' = tracked \cup {c} /\ activity' = "tool"
  /\ \/ /\ AutoApply
        /\ session' = begun
        /\ toolAgents' = toolAgents \cup {c}
        /\ calls' = SetCalls(calls, {c}, "approved")
        /\ consented' = consented \cup {c}
        /\ UNCHANGED approvals
     \/ /\ ~AutoApply /\ Routed(asked)
        /\ session' = SigReady(asked, c, TRUE)
        /\ toolAgents' = toolAgents \ {c}
        /\ calls' = SetCalls(calls, {c}, "approved")
        /\ consented' = consented \cup {c}
        /\ UNCHANGED approvals
     \/ /\ ~AutoApply
        /\ session' = SigReady(asked, c, FALSE)
        /\ toolAgents' = toolAgents \cup {c}
        /\ calls' = SetCalls(calls, {c}, "approval")
        /\ approvals' = approvals \cup {c}
        /\ UNCHANGED consented
     \/ /\ ~AutoApply
        /\ session' = begun
        /\ toolAgents' = toolAgents \cup {c}
        /\ calls' = SetCalls(calls, {c}, "denied")
        /\ UNCHANGED <<approvals, consented>>
  /\ UNCHANGED <<active, aborted, clientWaits, pc, announced, streamed, origin, sent,
                 applied>>

\* The tool is over: report it, untrack it.  An approved edit is written
\* before that, a denied one is not.
CompletesTool(t, n) ==
  LET c == <<t, n>> IN
  /\ n \in 1..Len(calls[t])
  /\ calls[t][n].st \in {"running", "answered", "approved", "denied"}
  /\ session' = SigComplete(session, {c})
  /\ tracked' = tracked \ {c}
  /\ calls' = SetCalls(calls, {c}, "done")
  /\ applied' = IF calls[t][n].st = "approved" THEN applied \cup {c} ELSE applied
  /\ UNCHANGED <<toolAgents, active, aborted, activity, approvals, clientWaits, pc,
                 announced, streamed, origin, sent, consented>>

\* A tool throws: the first failure of a batch ends the run.
ToolThrows(t, n) ==
  LET c == <<t, n>> IN
  /\ n \in 1..Len(calls[t])
  /\ calls[t][n].st \in {"gated", "opened", "running", "silent", "approved"}
  /\ \/ /\ pc[t] = "tools"
        /\ \E cancelled \in Cancels(t) :
             LET hits == IF cancelled THEN AnsweredBy(session, tracked) ELSE {} IN
             /\ Unwind(t, session, cancelled)
             /\ calls' = SetCalls(SetCalls(calls, hits, "answered"), {c}, "done")
     \/ /\ pc[t] # "tools"
        /\ calls' = SetCalls(calls, {c}, "done")
        /\ UNCHANGED <<session, active, activity, tracked, clientWaits, pc>>
  /\ UNCHANGED <<toolAgents, aborted, approvals, announced, streamed, recordVars>>

-----------------------------------------------------------------------------
Run(t) ==
  \/ Prepares(t) \/ Responds(t)
  \/ StreamsText(t) \/ StreamsReasoning(t) \/ AnnouncesTool(t)
  \/ AsksForTools(t) \/ Continues(t) \/ Concludes(t)
  \/ AdmitsTools(t) \/ RoundEnds(t)
  \/ HandsOff(t) \/ Finishes(t) \/ Fails(t) \/ Retained(t)

Tool(t, n) ==
  \/ RefusesTool(t, n)
  \/ OpensGate(t, n) \/ StartsHostTool(t, n)
  \/ RunsSilently(t, n) \/ EndsSilently(t, n)
  \/ StartsClientTool(t, n) \/ SkipsClientTool(t, n)
  \/ ProposesEdit(t, n) \/ SkipsEdit(t, n)
  \/ CompletesTool(t, n) \/ ToolThrows(t, n)

ClientStep ==
  \/ \E t \in Turn : ClientStartTurn(t) \/ ClientCancels(t)
  \/ \E m \in Message : ClientQueues(m) \/ ClientUnqueues(m)
  \/ \E pi \in Permutation(Len(session.queue)) : ClientReorders(pi)
  \/ \E c \in Call \ {Preview} : \/ \E ok \in BOOLEAN : ClientConfirms(c, ok)
                                 \/ ClientAnswers(c)

Next ==
  \/ \E t \in Turn : Run(t) \/ \E n \in 1..MaxCalls : Tool(t, n)
  \/ ClientStep

Spec == Init /\ [][Next]_vars

\* Every await of a run is answered in the end: files are saved, the request
\* times out, the body ends, a tool returns or throws, the pause gate opens.
\* A user answers the confirmations on screen and an active client reports the
\* tools it runs (the host does it for one that disconnected).  The number of
\* rounds is limited, so a run that may conclude again and again does.
Fairness ==
  /\ \A t \in Turn : /\ WF_vars(Run(t)) /\ SF_vars(Concludes(t))
                     /\ \A n \in 1..MaxCalls : WF_vars(Tool(t, n))
  /\ \A c \in Call \ {Preview} :
        /\ WF_vars(c \in approvals /\ \E ok \in BOOLEAN : ClientConfirms(c, ok))
        /\ WF_vars(c \in clientWaits /\ InParts(c) /\ ClientAnswers(c))

FairSpec == Spec /\ Fairness

-----------------------------------------------------------------------------
(* Properties *)

\* Every variable has the shape of the field it stands for.
TypeOK ==
  /\ session \in SessionType
  /\ toolAgents \subseteq Call /\ tracked \subseteq Call
  /\ active \in Turn \cup {NoTurn} /\ aborted \subseteq Turn
  /\ activity \in Label
  /\ approvals \subseteq Call \ {Preview} /\ clientWaits \subseteq Call \ {Preview}
  /\ pc \in [Turn -> RunState]
  /\ calls \in [Turn -> Seq([kind : ToolKind, st : CallState])]
  /\ announced \subseteq Turn /\ streamed \subseteq Turn
  /\ origin \in [Turn -> Message \cup {NoMessage}] /\ sent \in [Message -> Int]
  /\ applied \subseteq Call /\ consented \subseteq Call

\* sendMessage / _dispatchActionForSession: the turn the clients see as active
\* has a run working on it, and that run is the one "stop" would abort.  It
\* survives stale runs, whose signals are rewritten to the active turn.
ActiveTurnHasLiveRun ==
  session.turn # NoTurn => Live(session.turn) /\ active = session.turn

\* A turn is recorded at most once and never while active, although several
\* runs and a client may each report the end of whatever turn is active.
TurnRecordedOnce ==
  /\ \A i, j \in 1..Len(session.turns) :
        i # j => session.turns[i].id # session.turns[j].id
  /\ \A i \in 1..Len(session.turns) : session.turns[i].id # session.turn

\* propose_file_edit: an edit reaches the workspace only when the user, the
\* auto-apply setting or a permission rule allowed that very call.
EditsOnlyWithConsent == applied \subseteq consented

\* The maps of resolvers and the awaiting calls agree: a call that waits for
\* the user or a client can still be resumed, and no resolver outlives its call.
WaitersHaveResolvers ==
  \A t \in Turn : \A n \in 1..Len(calls[t]) :
     /\ <<t, n>> \in approvals <=> calls[t][n].st = "approval"
     /\ <<t, n>> \in clientWaits <=> calls[t][n].st = "client"

\* _executeToolCalls: whatever order the model mixes them in, only read-only
\* tools of a run are ever at work side by side; a tool that writes or waits for
\* someone runs alone, after the calls the model listed before it.
OnlyReadsInParallel ==
  \A t \in Turn : \A m, n \in 1..Len(calls[t]) :
     m < n /\ calls[t][n].st # "queued" /\ calls[t][m].st # "done" =>
       calls[t][m].kind = "read" /\ calls[t][n].kind = "read"

\* _setSessionActivity: the agent sends a label only when it differs from the
\* one it recorded, although the host drops labels sent between turns.  While a
\* turn is active the label clients see is still the recorded one.
ShownActivityIsRecorded == session.turn # NoTurn => session.activity = activity

\* _requestToolApproval: while no other run is alive, an approval the active
\* turn waits for is on screen and the answer would be routed to the agent.
AnswerableApproval ==
  \A c \in approvals :
     c[1] = session.turn /\ (\A u \in Turn \ {c[1]} : ~Live(u)) =>
       /\ [call |-> c, st |-> "PendingConfirmation"] \in
             {session.parts[i] : i \in 1..Len(session.parts)}
       /\ c \in toolAgents

\* _tryConsumeNextQueuedMessage: each time a client puts a message into the
\* queue, and does not take it back, it starts one turn: it has, or it still
\* waits.  None is lost, and none starts twice without being sent twice.
MessageStartsOnce ==
  \A m \in Message :
     sent[m] = Cardinality({t \in Turn : origin[t] = m})
                  + (IF Queued(session, m) THEN 1 ELSE 0)

\* state.ts, PendingMessage: queued messages start "after the current turn
\* naturally finishes": the queue of an idle session waits only behind a turn
\* that was cancelled or failed.
QueueWaitsOnlyAfterFailure ==
  session.turn = NoTurn /\ session.queue # <<>> =>
    /\ session.turns # <<>>
    /\ session.turns[Len(session.turns)].end # "Complete"

\* Turns leave for the record, where they stay, whichever of the runs and clients
\* report an end; only a turn that a client starts itself replaces one that is
\* active (TurnStarted assigns activeTurn), a queued message never does.
TurnsLeaveToRecord ==
  [][LET n == Len(session.turns) IN
     /\ Len(session'.turns) \in n..(n + 1)
     /\ \A i \in 1..n : session'.turns[i] = session.turns[i]
     /\ session.turn \notin {NoTurn, session'.turn} =>
          \/ Len(session'.turns) = n + 1 /\ session'.turns[n + 1].id = session.turn
          \/ Overlap /\ session'.turn # NoTurn /\ origin'[session'.turn] = NoMessage]_vars

\* Every turn ends, however its tools and the user behave and whatever is swept
\* or orphaned on the way, as long as the bodies of the model's responses end.
TurnEnds == \A t \in Turn : session.turn = t ~> session.turn # t

=============================================================================
