------------------------------ MODULE Subagents ------------------------------
(***************************************************************************)
(* Subagents of one session: an SDK that runs them; the agent, which turns *)
(* its events into signals that name the tool call that spawned the        *)
(* subagent; and AgentSideEffects, which keeps a child session per         *)
(* subagent, routes signals to it and buffers those that come before it    *)
(* exists.  CopilotAgentSession learns the tool call of an agentId from     *)
(* subagent.started; IAgentActionSignal leaves an agent free to name it    *)
(* from the start.  An event, its signal and what the host does with it    *)
(* are one step, except where the agent awaits between them.               *)
(***************************************************************************)
EXTENDS Naturals, Sequences

CONSTANTS Task,      \* tool calls that spawn a subagent: they name it, too
          MaxCalls,  \* bound: tool calls of a subagent
          MaxTurns   \* bound: turns of the session

ASSUME SubagentAssumption == MaxCalls \in Nat /\ MaxTurns \in Nat

Call == Task \X (1..MaxCalls)
Of(a) == {c \in Call : c[1] = a}

VARIABLES
  byAgentId,   \* CopilotAgentSession, or an agent that always knows the tool call?
  working,     \* is the SDK in a turn?
  aborting,    \* is it being aborted?
  task, sub,   \* tool calls that spawn, and subagents, as the SDK has them
  stage,       \* where each call of a subagent is, with _pendingPermissions
  mapped,      \* _parentToolCallIdsByAgentId
  named,       \* calls that _activeToolCalls has, or had, with their parent
  jobs,        \* _sessionSequencer
  turn, used,  \* is a turn active in the session?  turns so far
  part, link,  \* the part of each spawning call in that turn; has it the child's URI?
  child,       \* the child sessions: no, or no more; with and without a turn
  shown,       \* status of each call in its child session
  registered,  \* calls _toolCallAgents has under their child session
  tracked,     \* _subagentSessions
  buffer       \* _pendingSubagentSignals

sdkVars == <<byAgentId, working, aborting, task, sub, stage>>
agentVars == <<mapped, named, jobs>>
sessionVars == <<turn, used, part, link>>
childVars == <<child, shown, registered, tracked, buffer>>
vars == <<sdkVars, agentVars, sessionVars, childVars>>

NoParts == [a \in Task |-> "none"]

Init ==
  /\ byAgentId \in BOOLEAN /\ working = FALSE /\ aborting = FALSE
  /\ task = NoParts /\ sub = NoParts /\ stage = [c \in Call |-> "none"]
  /\ mapped = {} /\ named = {} /\ jobs = <<>>
  /\ turn = FALSE /\ used = 0
  /\ part = NoParts /\ link = [a \in Task |-> FALSE]
  /\ child = [a \in Task |-> "absent"] /\ shown = [c \in Call |-> "none"]
  /\ registered = {} /\ tracked = {} /\ buffer = [a \in Task |-> <<>>]

-----------------------------------------------------------------------------
(* What signals do to child sessions *)

\* Mutant of Deliver: the call is registered under the id of the spawning one.
DeliverRegistersTask(h, s, autos) ==
  CASE s.kind = "start" ->
         [h EXCEPT !.shown[s.call] = "running", !.registered = @ \cup {s.call[1]}]
    [] s.kind = "ready" /\ s.call \in autos -> [h EXCEPT !.answered = @ \cup {s.call}]
    [] s.kind = "ready" /\ s.call \notin autos ->
         [h EXCEPT !.shown[s.call] = IF @ = "running" THEN "pending" ELSE @]
    [] s.kind = "complete" ->
         [h EXCEPT !.shown[s.call] = IF @ \in {"running", "pending"} THEN "completed" ELSE @]

\* Mutant of Deliver: a completion counts whatever became of the call.
DeliverCompletesAny(h, s, autos) ==
  CASE s.kind = "start" ->
         [h EXCEPT !.shown[s.call] = "running", !.registered = @ \cup {s.call}]
    [] s.kind = "ready" /\ s.call \in autos ->
         [h EXCEPT !.registered = @ \ {s.call}, !.answered = @ \cup {s.call}]
    [] s.kind = "ready" /\ s.call \notin autos ->
         [h EXCEPT !.shown[s.call] = IF @ = "running" THEN "pending" ELSE @]
    [] s.kind = "complete" -> [h EXCEPT !.shown[s.call] = "completed"]

\* A child session's calls, the registrations, and the prompts answered by a
\* rule: h, after signal s.  autos are the calls the rules let run.
Deliver(h, s, autos) ==
  CASE s.kind = "start" ->
         [h EXCEPT !.shown[s.call] = "running", !.registered = @ \cup {s.call}]
    [] s.kind = "ready" /\ s.call \in autos ->
         [h EXCEPT !.registered = @ \ {s.call}, !.answered = @ \cup {s.call}]
    [] s.kind = "ready" /\ s.call \notin autos ->
         [h EXCEPT !.shown[s.call] = IF @ = "running" THEN "pending" ELSE @]
    [] s.kind = "complete" ->
         [h EXCEPT !.shown[s.call] = IF @ \in {"running", "pending"} THEN "completed" ELSE @]

Now == [shown |-> shown, registered |-> registered, answered |-> {}]

Becomes(h) == shown' = h.shown /\ registered' = h.registered

\* respondToPermissionRequest: calls without a pending request are left alone.
Answered(st, cs, to) ==
  [c \in Call |-> IF c \in cs /\ st[c] \in {"preview", "asking"} THEN to ELSE st[c]]

\* The turns of these children are over: what was open in them is cancelled.
Settled(as) ==
  [c \in Call |-> IF c[1] \in as /\ shown[c] \in {"running", "pending"}
                  THEN "cancelled" ELSE shown[c]]

Idle(as) == [a \in Task |-> IF a \in as /\ child[a] = "active" THEN "idle" ELSE child[a]]

\* A signal.  One that names the spawning call goes to the child, if that has
\* a turn, or is kept until there is a child; any other is the session's own.
\* st: the stages before a rule answers.
Routes(s, inner, autos, st) ==
  LET a == s.call[1]
      toChild == inner /\ a \in tracked /\ child[a] = "active"
      h == Deliver(Now, s, autos) IN
  /\ shown' = IF toChild THEN h.shown ELSE shown
  /\ registered' = CASE toChild -> h.registered
                   [] inner /\ ~toChild /\ a \in tracked /\ s.kind = "start" -> registered \cup {s.call}
                   [] OTHER -> registered
  /\ stage' = IF toChild \/ (~inner /\ turn) THEN Answered(st, h.answered, "granted") ELSE st
  /\ buffer' = IF inner /\ a \notin tracked THEN [buffer EXCEPT ![a] = Append(@, s)] ELSE buffer

-----------------------------------------------------------------------------
(* Clients *)

ClientStartsTurn ==
  /\ ~turn /\ used < MaxTurns
  /\ turn' = TRUE /\ used' = used + 1
  /\ part' = NoParts /\ link' = [a \in Task |-> FALSE]
  /\ jobs' = Append(jobs, "send")
  /\ UNCHANGED <<sdkVars, mapped, named, childVars>>

\* Mutant of CancelSubagentSessions: children are let go of, not cancelled.
CancelSubagentSessionsSilently ==
  /\ tracked' = {} /\ buffer' = [a \in Task |-> <<>>]
  /\ UNCHANGED <<child, shown>>

\* cancelSubagentSessions
CancelSubagentSessions ==
  /\ child' = Idle(tracked) /\ shown' = Settled({a \in tracked : child[a] = "active"})
  /\ tracked' = {} /\ buffer' = [a \in Task |-> <<>>]

\* The turn is over, with its parts.
TurnIsOver == turn' = FALSE /\ part' = NoParts /\ link' = [a \in Task |-> FALSE]

\* The abort waits for what the agent does with the session.
ClientCancels ==
  /\ turn /\ TurnIsOver
  /\ CancelSubagentSessions
  /\ jobs' = Append(jobs, "abort")
  /\ UNCHANGED <<sdkVars, mapped, named, used, registered>>

\* SessionToolCallConfirmed of a child session.
ClientAnswers(c) ==
  /\ child[c[1]] = "active" /\ shown[c] = "pending"
  /\ \E approved \in BOOLEAN :
       /\ shown' = [shown EXCEPT ![c] = IF approved THEN "running" ELSE "cancelled"]
       /\ stage' = IF c \in registered
                   THEN Answered(stage, {c}, IF approved THEN "granted" ELSE "refused")
                   ELSE stage
  /\ registered' = registered \ {c}
  /\ UNCHANGED <<byAgentId, working, aborting, task, sub, agentVars, sessionVars, child, tracked, buffer>>

\* _maybeEvictIdleSession, of the session and its children.
Evicts ==
  /\ ~turn /\ \E a \in Task : child[a] # "absent"
  /\ child' = [a \in Task |-> "absent"] /\ shown' = [c \in Call |-> "none"]
  /\ UNCHANGED <<sdkVars, agentVars, sessionVars, registered, tracked, buffer>>

\* _restoreSubagentSession: finished turns only.
Restores(a) ==
  /\ child[a] = "absent" /\ sub[a] # "none"
  /\ child' = [child EXCEPT ![a] = "idle"]
  /\ UNCHANGED <<sdkVars, agentVars, sessionVars, shown, registered, tracked, buffer>>

-----------------------------------------------------------------------------
(* The agent *)

\* sendMessage: resetTurnState, then the SDK's turn begins.
Sends ==
  /\ jobs # <<>> /\ Head(jobs) = "send" /\ jobs' = Tail(jobs)
  /\ mapped' = {} /\ working' = TRUE
  /\ UNCHANGED <<byAgentId, aborting, task, sub, stage, named, sessionVars, childVars>>

\* abort: pending requests are denied, the SDK is told.
Aborts ==
  /\ jobs # <<>> /\ Head(jobs) = "abort" /\ ~aborting /\ aborting' = TRUE
  /\ stage' = Answered(stage, Call, "refused")
  /\ UNCHANGED <<byAgentId, working, task, sub, agentVars, sessionVars, childVars>>

\* The SDK has stopped, with or without a session.idle, which is rewritten to
\* the turn that is active.  Completions the agent still prepares go on.
AbortReturns ==
  /\ aborting /\ aborting' = FALSE /\ working' = FALSE /\ jobs' = Tail(jobs)
  /\ task' = [a \in Task |-> IF task[a] = "running" THEN "gone" ELSE task[a]]
  /\ sub' = [a \in Task |-> IF sub[a] = "running" THEN "gone" ELSE sub[a]]
  /\ stage' = [c \in Call |-> IF stage[c] \in {"none", "saving", "done"} THEN stage[c] ELSE "gone"]
  /\ TurnIsOver \/ UNCHANGED <<turn, part, link>>
  /\ UNCHANGED <<byAgentId, mapped, named, used, childVars>>

\* onIdle
GoesIdle ==
  /\ working /\ ~aborting /\ \A a \in Task : task[a] # "running"
  /\ working' = FALSE
  /\ IF turn THEN TurnIsOver ELSE UNCHANGED <<turn, part, link>>
  /\ UNCHANGED <<byAgentId, aborting, task, sub, stage, agentVars, used, childVars>>

TaskStarts(a) ==
  /\ working /\ ~aborting /\ task[a] = "none"
  /\ task' = [task EXCEPT ![a] = "running"]
  /\ part' = IF turn THEN [part EXCEPT ![a] = "running"] ELSE part
  /\ UNCHANGED <<byAgentId, working, aborting, sub, stage, agentVars, turn, used, link, childVars>>

\* Calls of a subagent that are not over.
Open(a) == {c \in Of(a) : stage[c] \notin {"none", "saving", "done", "gone"}}

\* Mutant of TaskReturns: the result of the call replaces its content.
TaskReturnsBare(a) ==
  /\ task[a] = "running" /\ (sub[a] = "none" => Open(a) = {})
  /\ task' = [task EXCEPT ![a] = "done"]
  /\ IF turn /\ part[a] = "running"
     THEN part' = [part EXCEPT ![a] = "done"] /\ link' = [link EXCEPT ![a] = FALSE]
     ELSE UNCHANGED <<part, link>>
  /\ buffer' = IF turn THEN [buffer EXCEPT ![a] = <<>>] ELSE buffer
  /\ UNCHANGED <<byAgentId, working, aborting, sub, stage, agentVars, turn, used, child, shown, registered, tracked>>

\* The spawning call completes: its result replaces the content, but for the
\* link to a child that is tracked.  Buffered signals are dropped.
TaskReturns(a) ==
  /\ task[a] = "running" /\ (sub[a] = "none" => Open(a) = {})
  /\ task' = [task EXCEPT ![a] = "done"]
  /\ IF turn /\ part[a] = "running"
     THEN /\ part' = [part EXCEPT ![a] = "done"]
          /\ link' = [link EXCEPT ![a] = @ /\ a \in tracked]
     ELSE UNCHANGED <<part, link>>
  /\ buffer' = IF turn THEN [buffer EXCEPT ![a] = <<>>] ELSE buffer
  /\ UNCHANGED <<byAgentId, working, aborting, sub, stage, agentVars, turn, used, child, shown, registered, tracked>>

\* What is there after each of the signals in b.
Deliveries(b, autos) ==
  LET run[i \in 0..Len(b)] == IF i = 0 THEN Now ELSE Deliver(run[i - 1], b[i], autos)
  IN  run

\* _drainPendingSubagentSignals
Replayed(a, autos) == Deliveries(buffer[a], autos)[Len(buffer[a])]

\* Mutant of SubagentStarts: the buffer is forgotten.
SubagentStartsEmpty(a) ==
  /\ task[a] = "running" /\ sub[a] = "none"
  /\ sub' = [sub EXCEPT ![a] = "running"]
  /\ mapped' = IF byAgentId THEN mapped \cup {a} ELSE mapped
  /\ child' = [child EXCEPT ![a] = "active"]
  /\ tracked' = tracked \cup {a}
  /\ link' = IF turn /\ part[a] = "running" THEN [link EXCEPT ![a] = TRUE] ELSE link
  /\ buffer' = [buffer EXCEPT ![a] = <<>>]
  /\ UNCHANGED <<byAgentId, working, aborting, task, stage, named, jobs, turn, used, part, shown, registered>>

\* subagent_started: the child gets a turn, the spawning call its link, and
\* the buffered signals are routed again.
SubagentStarts(a) ==
  /\ task[a] = "running" /\ sub[a] = "none"
  /\ sub' = [sub EXCEPT ![a] = "running"]
  /\ mapped' = IF byAgentId THEN mapped \cup {a} ELSE mapped
  /\ child' = [child EXCEPT ![a] = "active"]
  /\ tracked' = tracked \cup {a}
  /\ link' = IF turn /\ part[a] = "running" THEN [link EXCEPT ![a] = TRUE] ELSE link
  /\ \E autos \in SUBSET Of(a) :
       LET h == Replayed(a, autos) IN
       Becomes(h) /\ stage' = Answered(stage, h.answered, "granted")
  /\ buffer' = [buffer EXCEPT ![a] = <<>>]
  /\ UNCHANGED <<byAgentId, working, aborting, task, named, jobs, turn, used, part>>

\* subagent.completed or subagent.failed: completeSubagentSession.
SubagentEnds(a) ==
  /\ sub[a] = "running" /\ Open(a) = {}
  /\ sub' = [sub EXCEPT ![a] = "over"]
  /\ mapped' = mapped \ {a}
  /\ child' = Idle({a} \cap tracked)
  /\ shown' = Settled({b \in {a} \cap tracked : child[b] = "active"})
  /\ tracked' = tracked \ {a} /\ buffer' = [buffer EXCEPT ![a] = <<>>]
  /\ UNCHANGED <<byAgentId, working, aborting, task, stage, named, jobs, sessionVars, registered>>

-----------------------------------------------------------------------------
(* The calls of a subagent *)

To(c, st) == [stage EXCEPT ![c] = st]
Signal(kind, c) == [kind |-> kind, call |-> c]

\* _parentToolCallIdForSubagentEvent: can the agent name the spawning call?
Knows(a) == byAgentId => a \in mapped

\* tool.execution_start, in the order of the calls; it may come before
\* subagent.started.  With an agentId that is not known it is dropped.
CallStarts(c) ==
  LET a == c[1] IN
  /\ sub[a] = "running" \/ (sub[a] = "none" /\ task[a] = "running")
  /\ stage[c] = "none" /\ \A d \in Of(a) : d[2] < c[2] => stage[d] # "none"
  /\ IF Knows(a)
     THEN named' = named \cup {c} /\ Routes(Signal("start", c), TRUE, {}, To(c, "work"))
     ELSE stage' = To(c, "work") /\ UNCHANGED <<named, shown, registered, buffer>>
  /\ UNCHANGED <<byAgentId, working, aborting, task, sub, mapped, jobs, turn, used, part, link, child, tracked>>

\* handlePermissionRequest, up to the preview of the edit.
CallAsks(c) ==
  /\ stage[c] = "work" /\ ~aborting /\ stage' = To(c, "preview")
  /\ UNCHANGED <<byAgentId, working, aborting, task, sub, agentVars, sessionVars, childVars>>

\* Mutant of PromptFires: the prompt does not name the spawning call.
PromptFiresUnnamed(c) ==
  /\ stage[c] = "preview"
  /\ \E autos \in SUBSET {c} : Routes(Signal("ready", c), FALSE, autos, To(c, "asking"))
  /\ UNCHANGED <<byAgentId, working, aborting, task, sub, agentVars, turn, used, part, link, child, tracked>>

\* pending_confirmation.  The prompt of a call that was dropped names no
\* spawning call: the session has no such call, so nobody sees it, but a rule
\* may answer it.
PromptFires(c) ==
  /\ stage[c] = "preview"
  /\ \E autos \in SUBSET {c} : Routes(Signal("ready", c), c \in named, autos, To(c, "asking"))
  /\ UNCHANGED <<byAgentId, working, aborting, task, sub, agentVars, turn, used, part, link, child, tracked>>

\* tool.execution_complete; the agent still takes the edits it has recorded.
CallEnds(c) ==
  /\ stage[c] \in {"work", "granted", "refused"}
  /\ stage' = To(c, IF c \in named THEN "saving" ELSE "done")
  /\ UNCHANGED <<byAgentId, working, aborting, task, sub, agentVars, sessionVars, childVars>>

CompletionFires(c) ==
  /\ stage[c] = "saving"
  /\ Routes(Signal("complete", c), TRUE, {}, To(c, "done"))
  /\ UNCHANGED <<byAgentId, working, aborting, task, sub, agentVars, turn, used, part, link, child, tracked>>

-----------------------------------------------------------------------------

Next ==
  \/ ClientStartsTurn \/ ClientCancels \/ Evicts
  \/ Sends \/ Aborts \/ AbortReturns \/ GoesIdle
  \/ \E a \in Task : Restores(a) \/ TaskStarts(a) \/ TaskReturns(a)
                       \/ SubagentStarts(a) \/ SubagentEnds(a)
  \/ \E c \in Call : ClientAnswers(c) \/ CallStarts(c) \/ CallAsks(c)
                       \/ PromptFires(c) \/ CallEnds(c) \/ CompletionFires(c)

Spec == Init /\ [][Next]_vars

\* Awaits of the agent and the SDK are answered; users answer what a child
\* session shows them.
FairSpec ==
  /\ Spec
  /\ WF_vars(Sends) /\ WF_vars(Aborts) /\ WF_vars(AbortReturns)
  /\ \A a \in Task : WF_vars(SubagentEnds(a))
  /\ \A c \in Call : /\ WF_vars(ClientAnswers(c)) /\ WF_vars(PromptFires(c))
                     /\ WF_vars(CallEnds(c)) /\ WF_vars(CompletionFires(c))

-----------------------------------------------------------------------------
(* Properties *)

\* Every variable has the shape of the field it stands for.
TypeOK ==
  /\ {byAgentId, working, aborting, turn} \subseteq BOOLEAN
  /\ used \in 0..MaxTurns /\ jobs \in Seq({"send", "abort"})
  /\ task \in [Task -> {"none", "running", "done", "gone"}]
  /\ sub \in [Task -> {"none", "running", "over", "gone"}]
  /\ stage \in [Call -> {"none", "work", "preview", "asking", "granted", "refused",
                         "saving", "done", "gone"}]
  /\ mapped \subseteq Task /\ tracked \subseteq Task
  /\ {named, registered} \subseteq SUBSET Call
  /\ part \in [Task -> {"none", "running", "done"}] /\ link \in [Task -> BOOLEAN]
  /\ child \in [Task -> {"absent", "active", "idle"}]
  /\ shown \in [Call -> {"none", "running", "pending", "completed", "cancelled"}]
  /\ buffer \in [Task -> Seq([kind : {"start", "ready", "complete"}, call : Call])]

\* While a subagent is at work its child session shows what each call does,
\* whatever came before subagent_started: a prompt is on screen exactly while
\* the agent waits for an answer, and the answer is registered; a call that was
\* refused is never shown as done.  Until an abort that is under way returns,
\* signals may have been dropped.
ShownAsSignalled ==
  \A a \in tracked :
    child[a] = "active" /\ sub[a] = "running" /\ (\A i \in 1..Len(jobs) : jobs[i] # "abort") =>
    \A c \in Of(a) \cap named :
      /\ stage[c] \in {"work", "preview", "granted"} => shown[c] = "running"
      /\ stage[c] = "asking" <=> shown[c] = "pending"
      /\ stage[c] = "asking" => c \in registered
      /\ stage[c] = "refused" => shown[c] = "cancelled"
      /\ stage[c] = "done" => shown[c] \in {"completed", "cancelled"}

\* A child session in a turn is tracked: its completion and a cancellation of
\* the session reach it, also when its task has returned or the turn is over.
\* And its subagent is at work, unless the SDK has stopped it silently.
TurnMeansTracked ==
  \A a \in Task : child[a] = "active" => a \in tracked /\ sub[a] \in {"running", "gone"}

\* What a child session shows as completed or cancelled stays so until it is
\* evicted: no replay starts a call again, and a late completion or prompt does
\* not undo a refusal or a cancellation.
SettledStays ==
  [][\A c \in Call : shown[c] \in {"completed", "cancelled"} =>
       shown'[c] = shown[c] \/ child'[c[1]] = "absent"]_vars

\* Clients of a turn find the child of every subagent at work, also when the
\* call that spawned it has returned.
TrackedIsFound == \A a \in tracked : part[a] # "none" => link[a]

\* The turn of a child session ends, unless the SDK stopped it silently, or a
\* call that the agent has dropped asks: every other prompt is answered.
ChildTurnEnds ==
  \A a \in Task : child[a] = "active" ~>
    child[a] # "active" \/ sub[a] = "gone" \/ \E c \in Of(a) \ named : stage[c] = "asking"

\* agentSideEffects.ts, _dispatchActionForSession: "preserve the subagent
\* content metadata in the completion result": within its turn a call that has
\* the link keeps it.
LinkIsPreserved == [][\A a \in Task : link[a] /\ part'[a] # "none" => link'[a]]_vars

=============================================================================
