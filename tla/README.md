# A TLA+ model of the QuantumIDE agent host

QuantumIDE is a fork of Visual Studio Code whose own logic is an *agent host*: a
process that keeps sessions of coding agents, lets several clients watch and
steer them, and runs the tools the model asks for. This directory models that
host and its built-in agent. Paths below are relative to
`src/quantumide/src/vs/`; `AH` is `platform/agentHost/`.

## 1. The system

| Part | State | Operations | Talks to |
|---|---|---|---|
| Session reducer, `AH/common/state/protocol/reducers.ts` | one `SessionState`: active turn with its tool calls, finished turns, pending messages, input requests, summary | one pure case per action type; the host and every client run the same function | applied by the state manager and by client subscriptions |
| State manager, `AH/node/agentHostStateManager.ts` | table of session states, count of active turns, `serverSeq`, pending summary changes | create / restore / remove a session, apply and emit an action, debounce summaries | agent service, protocol server |
| Agent service, `AH/node/agentService.ts` | per-client promise chains, subscribers, garbage-collection timers | dispatch, subscribe, evict, create and list sessions | clients, side effects |
| Side effects, `AH/node/agentSideEffects.ts` | which agent serves which tool call, buffered subagent signals | after the reducer: start, cancel, confirm, consume the queue; route the agent's signals | agents |
| OpenAI agent, `AH/node/openai/openAiAgent.ts`, `openAiClient.ts` | per session: active run, recorded activity, tracked calls; maps of pending approvals and client tools | `sendMessage` (request, stream, tools, hand-off, save), abort, approvals, client tools | signals to the host; model provider, workspace, transcripts |
| Protocol server, `AH/node/protocolServerHandler.ts` | replay buffer, subscriptions and grace timers of clients | handshake, reconnect, subscribe, broadcast, disconnect | clients over WebSocket or IPC |
| Client side, `AH/common/state/agentSubscription.ts`, `AH/browser/remoteAgentHostProtocolClient.ts` | confirmed and optimistic state, pending actions | optimistic apply, rebase, reconcile, reconnect | protocol server |
| Session data, `AH/node/sessionDatabase.ts`, `sessionDataService.ts`, transcripts | files and a database per session | read, change and write back, across awaits | agents, side effects |
| Permissions, `AH/node/sessionPermissions.ts`, `commandAutoApprover.ts` | rules | may a tool run without asking? | side effects |
| Copilot agent, `AH/node/copilot/` | an SDK session; active calls, pending permissions, tool calls by agentId | maps SDK events to signals; send, abort | as the OpenAI agent; external SDK |
| Claude agent, `AH/node/claude/` | an SDK session | adapter to an external SDK | as the OpenAI agent |
| Terminals and remote hosts | ptys, ssh, tunnels | process I/O | outside world |
| Stores, `platform/quantumide/common` | ~100 helpers over workspace files: pause gate, execution graph, index chunks, ... | read, write, compute | agents and workbench |
| Workbench services, `workbench/services/quantumide/browser` | ~70 services: collaboration, live edit, indexing, inline diff, ... | UI features | stores, agent host |
| Editor, extensions, CLI | | code of the upstream editor | |

**How they interact.** A client dispatches an action. The agent service reduces
it (after the client's earlier ones, if one of those waits for its attachments),
broadcasts it, and hands it to the side effects, which call the agent. The agent
answers with *signals*; the side effects turn each into an action of the host.
Two rules carry most of the weight: a signal of a session **without an active
turn is dropped**, and the turn id of any other signal is **rewritten to the
turn that is active now**. A run of `sendMessage` is asynchronous, so it can
outlive its turn; runs of one session overlap, and their signals meet the turn
of another.

**What is hard.** Interleavings of several runs, several clients and the host at
every `await`; cancelling while a request streams, a tool runs, or a user is
about to answer; promises kept in maps by tool call id (approvals, client tools)
that must be resolved by somebody; one call of a parallel batch failing; a queue
of messages consumed from three places; state (`record.active`, the recorded
activity, tracked calls) shared by runs of one session. `PROJECT.json` lists
these hazards at their lines with the properties that cover them.

**What makes each part correct.**

* *Reducer*: the history holds only settled tool calls; the summary says "input
  needed" exactly while something waits for the user; no turn recorded twice; no
  message queued twice; a settled call stays settled.
* *Agent and side effects*: the active turn has a run, which "stop" reaches; no
  edit without consent; nobody waits on a promise that is gone; only read-only
  tools overlap; a message starts one turn each time it is queued; every turn
  ends, and leaves for the record unless a client starts another one over it.
* *Subagents*: a subagent's calls are shown in its child session as far as they
  have got, whatever came before the child and whatever comes late;
  its prompts are answered, clients find the child, and the child turn ends.
* *Dispatch*: actions of one client are reduced in order, each at most once, and
  a failed one does not hold up the others.
* *Protocol and client*: the state a client shows is one the host has had,
  refreshed forward only; no envelope is reduced twice or late; an own action is
  echoed, and not replayed on a state that has it; a subscribe is answered.
* *State manager and service*: what is watched stays in memory, what is left
  empty is collected, and never while a client is registered; restores that
  overlap do not put an old state in place of a newer one; the active count
  and the announced summaries follow creation, eviction and disposal.

## 2. Modules

| Module | Models | Kind |
|---|---|---|
| `SessionState` | `sessionReducer`, one operator per action type | operators |
| `SessionLife` | one session under every order of host, agent and client actions | state machine |
| `AgentTurn` | one session driven by the OpenAI agent: clients, host, runs and tools | state machine, composes `SessionState` |
| `ClientOrder` | what the host promises a client about its actions | abstract specification |
| `DispatchQueue` | `AgentService.dispatchAction` and its promise chains | state machine, implements `ClientOrder` |
| `ReplicaView` | what a client that watches a session is promised about the state it shows | abstract specification |
| `ClientSync` | one client's subscriptions, the messages both ways, the host's subscribe handlers and broadcast | state machine, implements `ReplicaView` |
| `SessionWatch` | one session in the host's memory: creation, subscribers, eviction, collection, disposal, summaries, connections | state machine |
| `Subagents` | the subagents of one session: the agent's events, `AgentSideEffects` and its child sessions | state machine |
| `MC*` | instances for TLC | |
| `*Proofs` | theorems (section 4) | |

**SessionState.** A session is a record with the fields the guards read. Each
operator returns the state its `case` returns, including the refresh of the
summary status (`summaryStatus`) and the clearing of the read flag where the
code does them. Markdown, reasoning, usage, title, model, config,
customizations, diffs and the archived flag are left out; no modelled guard
reads them.

**SessionLife.** `_applyAndEmit` seen from one session. Agent actions carry the
active turn (the rewrite); client actions name any turn started so far, so a
late confirmation, cancellation or completion is always possible.
`Provisional` says whether turns may start before `session/ready`.

**AgentTurn.** An action is the code between two awaits. The variables are the
host's reduced session and `_toolCallAgents`; the agent's `record.active`,
aborted controllers, `record.currentActivity`, `record.activeTurnToolCalls`,
`_pendingToolApprovals` and `_pendingClientToolResults`; and where each run and
each tool call awaits.

| Action | Code |
|---|---|
| `ClientStartTurn`, `ClientQueues`, `ClientUnqueues`, `ClientReorders`, `ClientCancels`, `ClientConfirms`, `ClientAnswers` | reducer, then `AgentSideEffects.handleAction`, then the agent's method (`sendMessage` up to its first await, `abortSession`, `respondToPermissionRequest`, `onClientToolCallComplete`) |
| `Prepares`, `Responds`, `StreamsText`, `StreamsReasoning`, `AnnouncesTool`, `AsksForTools`, `Continues`, `Concludes`, `HandsOff` | `sendMessage`, `_runAgentTurnLoop` and the client's request and body |
| `AdmitsTools`, `RoundEnds` | `_executeToolCalls`: one call, or a row of read-only calls in parallel |
| `RefusesTool` ... `ToolThrows` | `_executeSingleToolCall` and the tools, by kind |
| `Finishes`, `Fails`, `Retained` | the end of `sendMessage`, its catch and its finally; with the consumption of the next queued message, which happens inside the signal |

`SigActivity`, `SigStart`, `SigReady`, `SigComplete`, `SigEnd` are
`_handleAgentSignal`: dropped without an active turn, applied to the active turn
otherwise.

Abstractions: labels of the activity are *none*, *thinking*, *reasoning* and
*tool*; permission rules answer either way; the preview of a streamed call has
index 0; read-only tools run in parallel (the setting's default); the pause gate
is an await; the text of a non-abort error, which decides whether it counts as a
cancellation, is a choice. Turn ids are a finite set, and a queued message keeps
one in reserve (`TurnsLeft`); apart from that bound any message is sent at any
time, also one that waits already (the reducer rewrites it in its place) and one
a turn has consumed (it is appended again: the workbench re-sends what it does
not find in the host's queue, `agentHostSessionHandler.ts:948`, so a message that
is consumed meanwhile can run twice, which no document rules out). `sent` counts
how often a message was put into the queue and not taken back.
`MaxCalls` bounds the calls of one run over all
its rounds. Subagents (`Subagents`), truncation and steering are not in this module.

**DispatchQueue.** A chain of promises is a queue whose head runs. An action
that needs no rewrite is reduced at once if the client has no entry. The clean-up
after the chain never finds its own promise (section 5), so an entry stays.

**ClientSync.** One client and one session, over a connection that keeps the
order of messages both ways; `remote` chooses between a client behind the
protocol server (it is sent what `client.subscriptions` holds) and a local one
(sent everything). The reducer is applied to envelopes one at a time, so a
session state is the *set of serverSeqs* reduced into it, and `sound` records
whether each was new and later than those before. A restored session is taken to
be the one that was evicted.

| Action | Code |
|---|---|
| `Acquires`, `Releases`, `Dispatches` | `AgentSubscriptionManager`: `getSubscription`, release of the last reference, `dispatch` with its optimistic state |
| `ClientReceives` | `receiveEnvelope` (reduce and reconcile, or buffer), `handleSnapshot` (replay of the newer part of the buffer), `setError`; answers of an earlier subscription object are ignored |
| `HostReceives` | `AgentService.subscribe` up to its first await, `unsubscribe` with eviction, a dispatched action |
| `Restores`, `TakesSnapshot`, `RestoreFails`, `Joins`, `Replies` | the rest of a subscribe, one action per await |
| `HostActs`, `OtherSubscribes`, `OtherRestores`, `OtherLeaves` | the agent, and another client that restores and evicts the session |

`miscounted` becomes true when a failed request takes back the registration a
later one has made; the view is promised until then (section 5).

**SessionWatch.** The same host seen from the session: `known`, `saved` are the
provider's; `present`, `turns`, `active` the state in memory; `watchers`,
`armed` are `_resourceSubscribers` and `_pendingSessionGc`; `notified`, `dirty`
the state manager's tables; `shown` what clients list. `Creates`, `Provides`,
`Configures` are `createSession` between its awaits; `AsksToDispose`,
`TimerFires`, `DisposeEnds`, `DisposeFails` are `disposeSession` and
`_runSessionGc`; `Subscribes`, `Reads`, `Restores`, `Answers`, `RestoreFails` are
`subscribe` with `restoreSession`; `Unsubscribe` evicts or arms the timer;
`Closes` is `onClose`. Abstractions: a connection opens once and has one
subscribe under way (`ClientSync` has several); of the turns it matters whether
there are any, of the summary its status, which is what flags, title, activity and
times are not: set by turns, creation, `session/ready` and restore alike; only an empty session is
created again; a turn starts after `createSession` was answered; a subscribe to
a session in memory is answered in one step, as nothing but microtasks lies
between.

**Subagents.** The SDK: `working`, `aborting`, `task`, `sub`, `stage` (of each
call a subagent makes; *preview* and *asking* are in `_pendingPermissions`). The
agent: `mapped`, `named`, `jobs`. The session: `turn`, and per spawning call
`part` and `link` (its result holds the child's URI). The host: `child`, `shown`,
`registered` (`_toolCallAgents`), `tracked`, `buffer`.

| Action | Code |
|---|---|
| `CallStarts`, `CallAsks`, `PromptFires`, `CallEnds`, `CompletionFires` | `onToolStart`, `handlePermissionRequest` and `onToolComplete` of `copilotAgentSession.ts`, each split at its await, then `_handleAgentSignal` (`Routes`) |
| `TaskStarts`, `TaskReturns`, `SubagentStarts`, `SubagentEnds` | the spawning call; `_handleSubagentStarted` with the replay of the buffer; `completeSubagentSession` |
| `ClientStartsTurn`, `Sends`, `ClientCancels`, `Aborts`, `AbortReturns`, `GoesIdle` | `handleAction`, then the agent's queue of session operations: `resetTurnState`, `abort` |
| `ClientAnswers`, `Evicts`, `Restores` | a confirmation in a child session; eviction and restore of children |

`byAgentId` chooses the agent. `CopilotAgentSession` learns the spawning call of
an agentId from `subagent.started`, forgets it at the next turn, and drops events
of agentIds it does not know. `IAgentActionSignal` also admits an agent that
always names the call, as the scripted agent of the tests does. Only with such a
one does the host's buffer fill up before `subagent_started`; the Copilot agent
drops what comes early. Abstractions: a
subagent starts while the call that spawned it runs; it completes when its calls
are over; an abort stops all the SDK does, silently; permission rules answer
either way; clients do not cancel a child session directly; nested subagents,
disposal and text are left out. So are the calls `onSkillInvoked` makes up
(`copilotAgentSession.ts:1571`): it starts, readies and completes a call at once,
in the session itself, whoever invoked the skill, and no state stays open
(section 5).

## 3. Model-checking runs

| Run | Instance | Shows |
|---|---|---|
| `session_life` | 2 turns, 2 calls, 2 messages, 1 request, 2 parts (365k states) | `SettledHistory`, `StatusIsTruthful`, `TurnRecordedOnce`, `TerminalIsFinal` under every order |
| `agent_turn_edits` | 2 overlapping turns, 1 message, 1 call each, edit or client tool (1.1M) | `ActiveTurnHasLiveRun`, `EditsOnlyWithConsent`, `WaitersHaveResolvers`, `AnswerableApproval`, `ShownActivityIsRecorded` |
| `agent_turn_queue` | 3 turns, 2 messages, messages sent again and reordered, no tools (1.1M) | `MessageStartsOnce`, `QueueWaitsOnlyAfterFailure`, `TurnRecordedOnce`, `TurnsLeaveToRecord` |
| `agent_turn_tools` | 1 turn, 3 calls of three kinds, streaming, step limit, auto-apply (835k) | `OnlyReadsInParallel` |
| `agent_turn_live` | 2 turns, 1 call each, edit or client tool, fair (373k) | `TurnEnds` |
| `dispatch_queue` | 2 clients, 3 actions each, fair | `OrderPerClient`; `KeepsPromise`: implements `ClientOrder!FairSpec` |
| `client_sync` | local or remote, 2 subscribes, 1 own action, 2 of others, fair (432k) | `AppliedInOrderOnce`, `ReplayedOnce`, `SubscribeAnswered`, `EchoArrives`; `ShowsHostState`: implements `ReplicaView` |
| `session_watch` | 2 connections, fair (1.3M, no other bound) | `WatchedIsInMemory`, `ArmedMeansUnwatched`, `ActiveCountIsTrue`, `SummaryReachesClients`, `SavedIsShown`, `EmptyIsCollected` |
| `subagents` | 1 subagent, 2 calls, 2 turns, either agent, fair (232k) | `ShownAsSignalled`, `TurnMeansTracked`, `TrackedIsFound`, `SettledStays`, `ChildTurnEnds` |
| `pending_echo`, `leaked_subscription`, `subagent_link` | the smallest instance that shows it | three places where the code does not do what a document or comment says (section 5) |

*Why these bounds.* The hazards are races of two parties on one thing. Two turns
give a stale run and the run it disturbs; three are needed only where a message
starts a turn while a stale one ends, hence the queue run. One call per run is
enough for a race on a call, as runs meet only through the host and the agent's
maps, which are keyed by call. Three calls are the least that gives a read-only
row followed, or preceded, by a writing call. Two clients and three actions give
a plain action behind a rewrite behind another, with the other client in
between. Two subscribes of one client give a late answer to a subscription that
was released; one action gives each order of a dispatch, its echo and a
snapshot; two actions of others give one before and one after the snapshot. Two
connections are a watcher and one that comes or goes beside it, while the session
is created, used and disposed of as often as may be.
Subagents of one session share only its turn and its end, so one is enough; two
calls put one behind another in the buffer, and a second turn finds the subagent
in the background.
Every action and disjunct fires in some passing run. Symmetry is used
for ids in safety runs only.

*Deadlock* is checked in the runs of `SessionLife` and `AgentTurn`. The runs of
`DispatchQueue`, `ClientSync`, `SessionWatch` and `Subagents` stop when
everything the bounds allow was sent or has ended, or every connection has closed.

*Fairness.* `TurnEnds` assumes: every await of a run is answered (files are
saved, requests time out, tools return or throw, the gate opens); a user answers
a confirmation on the screen and an active client reports the tools it runs (for
a client that stays away, the server completes the call after its grace period,
`protocolServerHandler.ts`); and the agent's limit on rounds and continuations,
as strong fairness of `Concludes`. The end of a response *body* is an assumption
about the provider: the client's timeout and abort listener are removed when the
headers arrive (`openAiClient.ts`). Nobody is assumed to answer what is *not*
shown: that is what `TurnEnds` is about. `KeepsPromise` assumes that a rewrite
settles, which its own catch gives. In `ClientSync` messages arrive and the
awaits of a subscribe handler are answered: the transport is reliable as long as
the connection lives, and every await there ends in a result or an error that is
sent back. In `SessionWatch` timers fire and the provider answers a disposal, by
an error too. Clients are never assumed to do anything. In `Subagents` the
agent's awaits end (files, the SDK's abort), calls that are let run end, a
subagent without open calls completes, and users answer the prompts a child
session shows, but none that is not shown.

## 4. Proofs

Checked by TLAPS for all values of the constants, under the assumptions named in
the modules (`AbsentValues`, `LifeAssumption`, `TurnAssumption`,
`QueueAssumption`, `SyncAssumption`,
`SubagentAssumption`): absent values are not
ids, bounds are naturals, settings are Booleans, calls are pairs of a run and a
number. Every invariant and every safety action property of the passing runs is
a theorem.

* `SessionStateProofs`: lemmas, one per reducer operator: it keeps the type, and
  what becomes of the turn, the queue and the record. The other modules cite
  these and never open the reducer again, except for the terminal states.
* `SessionLifeProofs`: `SessionTyped`, `HistoryIsSettled`,
  `StatusStaysTruthful`, `QueueStaysDistinct` (no message is queued twice),
  `RecordedOnce`, `TerminalStaysFinal`. The truthful status is not inductive:
  `session/ready` sets *Idle* without looking, which is harmless only because
  nothing is open in a session that is being created (`CreatingIsEmpty`).
  `TurnRecordedOnce` needs that recorded and active turns were started
  (`TurnsWereStarted`).
* `AgentTurnProofs`: `AgentTyped`, `ActiveTurnIsServed`, `NoEditWithoutConsent`,
  for any number of overlapping runs and calls. `ActiveTurnHasLiveRun` is
  inductive with the types: whoever ends the active run's `sendMessage` has just
  ended the active turn, and `finally` forgets only its own run. Consent needs
  that every *approved* call is consented (`ApprovedHave`): the denials and
  sweeps of other runs never approve.
* `AgentTurnProofs`, second part: `WaitersCanResume`, `OnlyReadsRunTogether`. The invariant
  `ToolInv` says that the maps of approvals and client tools hold *exactly* the
  calls that wait (`Resolvers`), and that a call leaves the queue only when the
  earlier ones are over, or when all of them only read (`ReadsOnly`). Every
  action moves a set of calls to one state, so what a move does is said once.
* `AgentSessionProofs`: `TurnsRecordedOnce`, `TurnsLeaveForRecord`,
  `MessagesStartOnce`, `QueueWaitsOnly`, `ShownIsRecorded`, `ApprovalsAnswerable`. First what a signal,
  the end of a turn and the start of one do to a session, then one lemma per
  action. *Shown is recorded* is not inductive: the host drops labels between
  turns, so the invariant (`ShownOk`) adds that *thinking*, once recorded, is
  shown between turns too. *Once* needs that turns on record were started
  (`RecordOk`); that a message starts a turn for each time it was sent needs that
  no message is in the queue twice and that its turns are counted one by one
  (`QueueOk`). *Answerable* needs that calls are at work only in the tool phase,
  that only edits wait for approval, and that each is in `_toolCallAgents` and on
  screen unless another run is alive (`AskInv`). A step may do several things to
  a session (a run that ends completes the turn and starts the next message), so
  `TurnsLeaveForRecord` is said of what happens within a step: `Leaves` relates the session
  before it to each state on the way, and a turn that a message starts is a new
  one (`Unused`).
* `DispatchQueueProofs`: `QueuesTyped`, `ChainsHoldUnsettled`,
  `ClientsKeepOrder`, `ImplementsClientOrder` (the safety part of the
  refinement). The invariant adds that a chain is exactly what is not settled
  (`ChainIsUnsettled`), that a client with a chain has an entry
  (`ChainHasEntry`) and that what is reduced is settled (`LogIsSettled`): so an
  action that bypasses the chain has nothing before it.
* `SessionWatchProofs`: `WatchTyped`, `WatchedStays`, `TimerExcludesWatchers`,
  `CountStaysTrue`, `ListsShowSummary`, `SavedTurnsShown`, for any number of
  connections. A held session is registered, and so is the client of a request under way, which is
  not on a list yet (`HeldIsRegistered`, `AskerIsRegistered`): hence eviction
  never takes what is watched. A listed session in memory was announced
  (`ListedIsAnnounced`), or its changes would not be sent; with nothing pending,
  what counts as sent is the summary (`SentIsCurrent`), and it was sent
  (`SentIsShown`) but for the restore after an error; that there is no other such
  case needs that a session without a turn is *Idle* or in *Error*
  (`RestIsFinal`). A restore that read
  before a turn was saved finds the session in memory (`ReadingIsFresh`): its
  client was registered before it read, so nobody evicts the turn meanwhile.
* `ClientSyncProofs`: `SyncTyped`, `EnvelopesInOrder`, `NothingReplayedTwice`,
  `ImplementsReplicaView`, for any number of requests and envelopes. `OrderInv`:
  envelopes under way ascend, are ahead of what the client has, and a snapshot
  covers those before it and none after. `RequestInv`: a request is on its way,
  with its handler or answered, once. `CountInv`: an unsubscribe still under way
  is older than the current request, so a session that is served is counted and
  stays loaded. `StateInv`: a snapshot is a state of the host and what follows it
  reaches the client; from this and the order each refresh is a step of the view.
* `SubagentsProofs`: `SubagentsTyped`, `ActiveChildrenTracked`,
  `CallsShownAsSignalled`, `SettledCallsStay`, `WorkingChildrenFound`,
  for any number of subagents, calls and turns. Whoever
  takes a child off the table ends its turn first, so an active child is tracked.
  The link needs that a tracked subagent's task has started (`TrackedHasTask`) and
  that only a task that has returned has a finished part (`PartsBelong`): so the
  part of a subagent that starts is running, and takes the link. *Shown as
  signalled* rests on what the buffer may hold (`BufferFits`): of each call its
  start and at most one later signal, so that its replay yields the stage the
  call has got to. The replay is a recursive function on the buffer; what it does
  is proved without induction over data, by the least prefix that would be a
  counterexample. That a settled call stays settled needs that the signals of a
  call still in the buffer meet a child that shows nothing of it (`Untouched`).
  Between a cancellation and the end of its abort nothing of this is promised
  (`Quiet` is false); when the abort returns no subagent is at work, so both
  parts hold again.

*Only model-checked*: liveness (`TurnEnds`, `SubscribeAnswered`, `EchoArrives`,
`EmptyIsCollected`, `ChildTurnEnds`, the fairness in `KeepsPromise`), which the
prover does not handle.

## 5. Where the code and its documents disagree

| Run | The documents say | The code does |
|---|---|---|
| `pending_echo` | the clientSeq is sent "so it can echo back for reconciliation" (`agentSubscription.ts`) | an action sent while the session is restored is echoed in an envelope the snapshot covers; the replay of the buffer skips it, and the action stays pending |
| `leaked_subscription` | a disconnect is "an implicit unsubscribe of every resource" (`protocolServerHandler.ts`) | a subscribe that waits when its connection closes registers it for good |
| `subagent_link` | "preserve the subagent content metadata in the completion result" (`agentSideEffects.ts:380`) | the merge needs `_subagentSessions`, which `subagent.completed` has cleared by then: the result of every awaited subagent replaces the link, and clients of later turns do not find the child |

Further disagreements of the same kind, met while modelling and left without a
run:

* the completion of a run whose turn was cancelled is rewritten to the turn
  started after it, which is recorded complete while its run works
  (`agentSideEffects.ts:376`; `actions.ts:455` has "the assistant is idle");
* disposing of an evicted session sends no SessionRemoved
  (`agentHostStateManager.ts:300`; `notifications.ts:70` has "broadcast to all
  connected clients when a session is disposed");
* a restored session gets a new summary, with status *Idle*, which is recorded as
  announced and not sent (`agentService.ts:1060`, `agentHostStateManager.ts:227`:
  "already known to clients via `listSessions`"): clients that saw it evicted with
  an *Error* keep showing that. `SummaryReachesClients` has this one exception
  (`RestoredAfterError`);
* a skill that a subagent invokes is shown in the session that spawned it, not in
  the child (`copilotAgentSession.ts:1571` looks at no agentId), though inner calls
  are routed to the child session (`agentSideEffects.ts:292`);
* a new turn unmaps the agentIds of subagents in the background
  (`copilotAgentSession.ts:478`): their calls are dropped, and their prompts land
  on the session, where nobody can answer them, though background subagents
  "continue running" (`agentSideEffects.ts:407`). Calls that start before
  `subagent.started` fare the same (`copilotAgentSession.ts:1423`), though the
  host's buffer is there as "an inner `tool_start` can arrive before the
  `subagent_started`" (`agentSideEffects.ts:97`). `ChildTurnEnds` excludes both;
* a subagent that starts between a cancellation and its abort gets a child turn
  that stays open (`agentSideEffects.ts:461`), and eviction ends the turn of a
  background subagent's child (`agentService.ts:744`);
* materializing a provisional session sends `session/ready` in its first turn,
  and the reducer sets *Idle* (`AH/node/agentService.ts:448`), which `state.ts:292`
  defines as "no turn is active";
* after a cancellation the remaining tools of the round still start
  (`openAiAgent.ts:2062`; `actions.ts:469` has "server stops processing");
* the label of a cancelled turn stays on screen, as the turn ends before the
  signal that clears it (`agentSideEffects.ts:334`);
* an aborted run that waits for a client tool is left waiting
  (`openAiAgent.ts:862`);
* the clean-up of a dispatch chain compares `next.finally(...)` with `next`, so
  the entry stays (`agentService.ts:799`).

Also modelled, without a property of its own because no document settles it: a
streamed call can show two lines, a preview and the call; a turn started during
another overwrites it without a record; a late confirmation turns *Error* into
*Idle*.

## 6. Not modelled

Contents (markdown, diffs, prompts, transcripts), path and command matching of
the permission rules, routing of models, the Claude agent and the rest of the
Copilot agent (their behaviour is in external SDKs), terminals, ssh and tunnels (external processes). Reconnect: no
client in the repository sends it (only tests do), so what a client does with
the answer is not in the code. Forks, git state and customizations of the
service.

Nearly all of the repository's two million lines are the upstream editor, its
extensions and the CLI, which this project only builds upon. The map therefore
covers a small share of the whole: it is the logic of the agent host that is
modelled, not the editor.

## 7. Plan

In this order, each with its proofs:

1. `SessionIndex`: read-modify-write of the index and the transcript by runs
   that overlap; what is lost and what must not be.
2. The pause gate and its step mode, in the place of the await in `AgentTurn`.
3. Candidates after that: the prompt queue of the Claude agent, the execution
   graph, the indexing scheduler, the workspace edit and live edit services.
