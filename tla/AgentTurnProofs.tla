--------------------------- MODULE AgentTurnProofs ---------------------------
(***************************************************************************)
(* Safety of the session driven by the OpenAI agent, for any number of     *)
(* turns, tool calls per run, messages, and any settings.                  *)
(*                                                                         *)
(* First what the signals, the starts and ends of turns and the changes of *)
(* tool calls do, then one lemma per invariant with a step per action.     *)
(***************************************************************************)
EXTENDS AgentTurn, SessionStateProofs, WellFoundedInduction

CallRecord == [kind : ToolKind, st : CallState]

-----------------------------------------------------------------------------
(* Signals *)

LEMMA CallsTyped ==
  ASSUME NEW t \in Turn, NEW n \in 1..MaxCalls
  PROVE  <<t, n>> \in Call /\ <<t, n>> # Preview /\ Preview \in Call
<1>1. n # 0
  BY TurnAssumption
<1> QED BY <1>1, TurnAssumption DEF Preview

LEMMA CompleteKeeps ==
  ASSUME NEW s \in SessionType, NEW t, NEW cs
  PROVE  /\ ToolCallsComplete(s, t, cs, FALSE) \in SessionType
         /\ ToolCallsComplete(s, t, cs, FALSE).turn = s.turn
<1> DEFINE step == CompleteStep(FALSE)
<1>1. step \in Step
  BY StepsTyped
<1>2. ToolCallsComplete(s, t, cs, FALSE) = RefreshStatus(UpdateToolCalls(s, t, cs, step))
  BY DEF ToolCallsComplete
<1> HIDE DEF step
<1> DEFINE r == RefreshStatus(UpdateToolCalls(s, t, cs, step))
<1>3. r \in SessionType /\ SameButParts(r, s)
  BY <1>1, ToolCallActions
<1>4. r.turn = s.turn
  BY <1>3 DEF SameButParts
<1> QED BY <1>2, <1>3, <1>4

\* Whatever the agent signals, short of the end of a turn, the turn stays.
LEMMA SignalKeeps ==
  ASSUME NEW s \in SessionType
  PROVE  /\ \A label \in Label : /\ SigActivity(s, label) \in SessionType
                                 /\ SigActivity(s, label).turn = s.turn
                                 /\ SigActivity(s, label).queue = s.queue
         /\ \A c \in Call : /\ SigStart(s, c) \in SessionType
                            /\ SigStart(s, c).turn = s.turn
         /\ \A c, b : b \in BOOLEAN => /\ SigReady(s, c, b) \in SessionType
                                       /\ SigReady(s, c, b).turn = s.turn
         /\ \A cs : /\ SigComplete(s, cs) \in SessionType
                    /\ SigComplete(s, cs).turn = s.turn
<1>1. ASSUME NEW label \in Label
      PROVE  /\ SigActivity(s, label) \in SessionType
             /\ SigActivity(s, label).turn = s.turn /\ SigActivity(s, label).queue = s.queue
  BY FlagsKeep DEF SigActivity, SameButInputs
<1>2. ASSUME NEW c \in Call
      PROVE  SigStart(s, c) \in SessionType /\ SigStart(s, c).turn = s.turn
  BY ToolCallStartKeeps DEF SigStart, SameButParts
<1>3. ASSUME NEW c, NEW b \in BOOLEAN
      PROVE  SigReady(s, c, b) \in SessionType /\ SigReady(s, c, b).turn = s.turn
  BY ToolCallActions, StepsTyped DEF SigReady, ToolCallReady, SameButParts
<1>4. ASSUME NEW cs
      PROVE  SigComplete(s, cs) \in SessionType /\ SigComplete(s, cs).turn = s.turn
  BY CompleteKeeps DEF SigComplete
<1> QED BY <1>1, <1>2, <1>3, <1>4

\* The end an agent signals is always that of the active turn.
LEMMA EndKeeps ==
  ASSUME NEW s \in SessionType, NEW t \in Turn, NEW end \in TurnEnd
  PROVE  /\ EndTurn(s, t, end) \in SessionType
         /\ EndTurn(s, t, end).turn \in {s.turn, NoTurn}
         /\ SigEnd(s, end) \in SessionType /\ SigEnd(s, end).turn = NoTurn
<1>1. s.turn \in Turn \cup {NoTurn}
  BY DEF SessionType
<1>2. EndTurn(s, t, end) \in SessionType /\ EndTurn(s, t, end).turn \in {s.turn, NoTurn}
  BY EndTurnKeeps
<1>3. SigEnd(s, end) \in SessionType /\ SigEnd(s, end).turn = NoTurn
  BY <1>1, EndTurnKeeps DEF SigEnd, IsActive
<1> QED BY <1>2, <1>3

LEMMA BeginKeeps ==
  ASSUME NEW s \in SessionType, NEW t \in Turn, NEW m \in Message \cup {NoMessage},
         NEW label \in Label
  PROVE  BeginTurn(s, t, m, label) \in SessionType /\ BeginTurn(s, t, m, label).turn = t
<1> DEFINE begun == TurnStarted(s, t, m)
           shown == IF label # "thinking" THEN ActivityChanged(begun, "thinking") ELSE begun
<1>1. begun \in SessionType /\ begun.turn = t
  BY TurnStartedKeeps
<1> HIDE DEF begun
<1>2. shown \in SessionType /\ shown.turn = t
  BY <1>1, FlagsKeep DEF SameButInputs, Label
<1> HIDE DEF shown
<1>3. TurnStarted(shown, shown.turn, NoMessage) \in SessionType
      /\ TurnStarted(shown, shown.turn, NoMessage).turn = t
  BY <1>2, TurnStartedKeeps
<1> QED BY <1>3 DEF BeginTurn, begun, shown

LEMMA QueueHead ==
  ASSUME NEW s \in SessionType, s.queue # <<>>
  PROVE  s.queue[1] \in Message
<1>1. s.queue \in Seq(Message) /\ Len(s.queue) \in Nat
  BY LenProperties DEF SessionType
<1>2. Len(s.queue) # 0
  BY <1>1, EmptySeq
<1>3. 1 \in 1..Len(s.queue)
  BY <1>1, <1>2
<1> QED BY <1>1, <1>3, ElementOfSeq

-----------------------------------------------------------------------------
(* Tool calls of the runs *)

LEMMA SetCallsTyped ==
  ASSUME NEW cs \in [Turn -> Seq(CallRecord)], NEW ids, NEW st \in CallState
  PROVE  /\ SetCalls(cs, ids, st) \in [Turn -> Seq(CallRecord)]
         /\ \A t \in Turn :
              /\ Len(SetCalls(cs, ids, st)[t]) = Len(cs[t])
              /\ \A n \in 1..Len(cs[t]) :
                    SetCalls(cs, ids, st)[t][n] =
                      IF <<t, n>> \in ids THEN [kind |-> cs[t][n].kind, st |-> st] ELSE cs[t][n]
<1> DEFINE e(t, n) == IF <<t, n>> \in ids THEN [kind |-> cs[t][n].kind, st |-> st] ELSE cs[t][n]
           row(t) == [n \in 1..Len(cs[t]) |-> e(t, n)]
<1>1. ASSUME NEW t \in Turn
      PROVE  /\ row(t) \in Seq(CallRecord) /\ Len(row(t)) = Len(cs[t])
             /\ \A n \in 1..Len(cs[t]) : row(t)[n] = e(t, n)
  <2>1. cs[t] \in Seq(CallRecord) /\ Len(cs[t]) \in Nat
    BY LenProperties
  <2>2. ASSUME NEW n \in 1..Len(cs[t]) PROVE e(t, n) \in CallRecord
    <3>1. cs[t][n] \in CallRecord
      BY <2>1, ElementOfSeq
    <3> QED BY <3>1 DEF CallRecord
  <2> HIDE DEF e
  <2>3. row(t) \in Seq(CallRecord)
    BY <2>1, <2>2, IsASeq
  <2>4. Len(row(t)) = Len(cs[t])
    BY <2>1, <2>3, LenProperties
  <2> QED BY <2>3, <2>4
<1>2. SetCalls(cs, ids, st) = [t \in Turn |-> row(t)]
  BY DEF SetCalls
<1> HIDE DEF e, row
<1>3. SetCalls(cs, ids, st) \in [Turn -> Seq(CallRecord)]
  BY <1>1, <1>2
<1>4. \A t \in Turn : SetCalls(cs, ids, st)[t] = row(t)
  BY <1>2
<1> QED BY <1>1, <1>3, <1>4 DEF e

\* The calls a run appends when the model asks for tools.
Asked(n, kinds) == [i \in 1..n |-> [kind |-> kinds[i], st |-> "queued"]]

LEMMA AskedTyped ==
  ASSUME NEW cs \in [Turn -> Seq(CallRecord)], NEW t \in Turn,
         NEW n \in Nat, NEW kinds \in [1..n -> ToolKind]
  PROVE  /\ cs[t] \o Asked(n, kinds) \in Seq(CallRecord)
         /\ Len(cs[t] \o Asked(n, kinds)) = Len(cs[t]) + n
         /\ \A i \in 1..Len(cs[t]) : (cs[t] \o Asked(n, kinds))[i] = cs[t][i]
         /\ \A i \in 1..(Len(cs[t]) + n) : i \notin 1..Len(cs[t]) =>
               (cs[t] \o Asked(n, kinds))[i].st = "queued"
<1> DEFINE more == Asked(n, kinds)
<1>1. \A i \in 1..n : [kind |-> kinds[i], st |-> "queued"] \in CallRecord
  BY DEF CallRecord, CallState
<1>2. more \in Seq(CallRecord)
  BY <1>1, IsASeq DEF Asked
<1>3. Len(more) = n
  BY <1>2, LenProperties DEF Asked
<1>4. \A i \in 1..n : more[i].st = "queued"
  BY DEF Asked
<1> HIDE DEF more
<1>5. cs[t] \in Seq(CallRecord) /\ Len(cs[t]) \in Nat
  BY LenProperties
<1>6. /\ cs[t] \o more \in Seq(CallRecord) /\ Len(cs[t] \o more) = Len(cs[t]) + n
      /\ \A i \in 1..(Len(cs[t]) + n) :
            (cs[t] \o more)[i] = IF i <= Len(cs[t]) THEN cs[t][i] ELSE more[i - Len(cs[t])]
  BY <1>2, <1>3, <1>5, ConcatProperties
<1>7. \A i \in 1..Len(cs[t]) : (cs[t] \o more)[i] = cs[t][i]
  BY <1>5, <1>6
<1>8. ASSUME NEW i \in 1..(Len(cs[t]) + n), i \notin 1..Len(cs[t])
      PROVE  (cs[t] \o more)[i].st = "queued"
  <2>1. i - Len(cs[t]) \in 1..n /\ ~(i <= Len(cs[t]))
    BY <1>5, <1>8
  <2> QED BY <1>4, <1>6, <2>1
<1> QED BY <1>6, <1>7, <1>8 DEF more

-----------------------------------------------------------------------------
(* Type invariant, and: the active turn has the live run that "stop" would  *)
(* abort.  The two hold together: which turn a reducer leaves active is     *)
(* known for typed sessions only.                                           *)

Inv == TypeOK /\ ActiveTurnHasLiveRun

LEMMA Typed ==
  ASSUME Inv
  PROVE  /\ session \in SessionType /\ session.turn \in Turn \cup {NoTurn}
         /\ calls \in [Turn -> Seq(CallRecord)] /\ pc \in [Turn -> RunState]
         /\ active \in Turn \cup {NoTurn}
         /\ \A t \in Turn : calls[t] \in Seq(CallRecord) /\ Len(calls[t]) \in Nat
BY LenProperties DEF Inv, TypeOK, SessionType, CallRecord

\* A step that ends the active turn at most, and no run.
LEMMA ActiveFrame ==
  ASSUME Inv, session'.turn \in {session.turn, NoTurn}, active' = active,
         \A u \in Turn : Live(u) => Live(u)'
  PROVE  ActiveTurnHasLiveRun'
<1>1. session.turn \in Turn \cup {NoTurn}
  BY Typed
<1> QED BY <1>1 DEF Inv, ActiveTurnHasLiveRun

LEMMA InitTyped == Init => Inv
<1> SUFFICES ASSUME Init PROVE Inv
  OBVIOUS
<1> DEFINE s == CreatedSession
<1>1. s \in SessionType /\ s.turn = NoTurn
  BY CreatedTyped DEF CreatedSession
<1> HIDE DEF s
<1>2. session \in SessionType /\ session.turn = NoTurn
  <2>1. session = [s EXCEPT !.lifecycle = "Ready"]
    BY DEF Init, s
  <2> QED BY <1>1, <2>1 DEF SessionType
<1>3. calls \in [Turn -> Seq(CallRecord)]
  BY EmptySeq DEF Init
<1>4. TypeOK
  BY <1>2, <1>3 DEF Init, TypeOK, CallRecord, Label, RunState
<1> QED BY <1>2, <1>4 DEF Inv, ActiveTurnHasLiveRun

-----------------------------------------------------------------------------
(* Clients *)

LEMMA StartTyped ==
  ASSUME Inv, NEW t \in Turn, ClientStartTurn(t) PROVE Inv'
<1> DEFINE begun == BeginTurn(session, t, NoMessage, activity)
<1>0. begun \in SessionType /\ begun.turn = t
  <2>1. activity \in Label /\ NoMessage \in Message \cup {NoMessage}
    BY DEF Inv, TypeOK
  <2> QED BY <2>1, Typed, BeginKeeps
<1>1. session' \in SessionType /\ session'.turn = t
  BY <1>0 DEF ClientStartTurn
<1> HIDE DEF begun
<1>2. TypeOK'
  BY <1>1 DEF ClientStartTurn, Inv, TypeOK, Label, RunState, recordVars
<1>3. ActiveTurnHasLiveRun'
  BY <1>1, Typed DEF ClientStartTurn, ActiveTurnHasLiveRun, Live
<1> QED BY <1>2, <1>3 DEF Inv

LEMMA SyncTyped ==
  ASSUME Inv, NEW s \in SessionType, s.turn = session.turn, SyncPending(s),
         sent' \in [Message -> Int],
         UNCHANGED <<toolAgents, aborted, approvals, clientWaits, calls, announced,
                     streamed, applied, consented>>
  PROVE  Inv'
<1>1. CASE session' = s /\ UNCHANGED <<active, activity, tracked, pc, origin>>
  <2>1. TypeOK'
    BY <1>1 DEF Inv, TypeOK
  <2>2. ActiveTurnHasLiveRun'
    BY <1>1, ActiveFrame DEF Live
  <2> QED BY <2>1, <2>2 DEF Inv
<1>2. ASSUME NEW t \in Turn, Consumes(s), ConsumeNext(s, t, activity),
             active' = t, activity' = "thinking", tracked' = {},
             pc' = [pc EXCEPT ![t] = "prepare"]
      PROVE  Inv'
  <2>1. s.queue[1] \in Message /\ activity \in Label
    BY <1>2, QueueHead DEF Consumes, Inv, TypeOK
  <2>2. session' \in SessionType /\ session'.turn = t
    BY <1>2, <2>1, BeginKeeps DEF ConsumeNext
  <2>3. TypeOK'
    BY <1>2, <2>1, <2>2 DEF ConsumeNext, Inv, TypeOK, Label, RunState
  <2>4. ActiveTurnHasLiveRun'
    BY <1>2, <2>2, Typed DEF ActiveTurnHasLiveRun, Live
  <2> QED BY <2>3, <2>4 DEF Inv
<1> QED BY <1>1, <1>2 DEF SyncPending

LEMMA QueuesTyped ==
  ASSUME Inv, NEW m \in Message, ClientQueues(m) \/ ClientUnqueues(m) PROVE Inv'
<1>0. sent \in [Message -> Int]
  BY DEF Inv, TypeOK
<1>1. CASE ClientQueues(m)
  <2> DEFINE s == PendingMessageSet(session, "Queued", m)
  <2>1. s \in SessionType /\ s.turn = session.turn
    BY Typed, PendingMessageSetKeeps DEF SameButPending
  <2> HIDE DEF s
  <2>2. sent' \in [Message -> Int]
    BY <1>0, <1>1 DEF ClientQueues
  <2> QED BY <1>1, <2>1, <2>2, SyncTyped DEF ClientQueues, s
<1>2. CASE ClientUnqueues(m)
  <2> DEFINE s == PendingMessageRemoved(session, "Queued", m)
  <2>1. s \in SessionType /\ s.turn = session.turn
    BY Typed, PendingMessageRemovedKeeps DEF SameButPending
  <2> HIDE DEF s
  <2>2. sent' \in [Message -> Int]
    BY <1>0, <1>2 DEF ClientUnqueues
  <2> QED BY <1>2, <2>1, <2>2, SyncTyped DEF ClientUnqueues, s
<1> QED BY <1>1, <1>2

LEMMA ReordersTyped ==
  ASSUME Inv, NEW pi \in Permutation(Len(session.queue)), ClientReorders(pi) PROVE Inv'
<1> DEFINE s == QueuedMessagesReordered(session, pi)
<1>1. pi \in [1..Len(session.queue) -> 1..Len(session.queue)]
  BY DEF Permutation
<1>2. s \in SessionType /\ s.turn = session.turn
  BY <1>1, Typed, ReorderedKeeps DEF SameButPending
<1>3. sent' \in [Message -> Int]
  BY DEF ClientReorders, Inv, TypeOK
<1> HIDE DEF s
<1> QED BY <1>2, <1>3, SyncTyped DEF ClientReorders, s

LEMMA CancelsTyped ==
  ASSUME Inv, NEW t \in Turn, ClientCancels(t) PROVE Inv'
<1> DEFINE ended == EndTurn(session, t, "Cancelled")
           swept == IF tracked # {} THEN SigComplete(ended, tracked) ELSE ended
           quiet == SigActivity(swept, "none")
<1>1. ended \in SessionType /\ ended.turn \in {session.turn, NoTurn}
  BY Typed, EndKeeps DEF TurnEnd
<1>2. swept \in SessionType
  BY <1>1, SignalKeeps
<1>3. quiet \in SessionType
  BY <1>2, SignalKeeps DEF Label
<1>4. SigEnd(quiet, "Cancelled") \in SessionType /\ SigEnd(quiet, "Cancelled").turn = NoTurn
  BY <1>3, EndKeeps DEF TurnEnd
<1>5. session' = SigEnd(quiet, "Cancelled") \/ session' = ended
  BY DEF ClientCancels
<1>6. DenyPending(calls) \in [Turn -> Seq(CallRecord)]
  BY Typed, SetCallsTyped DEF DenyPending, CallState
<1>7. calls' \in [Turn -> Seq(CallRecord)]
  <2>1. "answered" \in CallState
    BY DEF CallState
  <2>2. \/ calls' = DenyPending(calls)
        \/ calls' = SetCalls(DenyPending(calls), AnsweredBy(ended, tracked), "answered")
    BY DEF ClientCancels
  <2> QED BY <1>6, <2>1, <2>2, SetCallsTyped
<1> HIDE DEF ended, swept, quiet
<1>8. session' \in SessionType /\ session'.turn \in {session.turn, NoTurn}
  BY <1>1, <1>4, <1>5
<1>9. /\ approvals' = {} /\ active' = active /\ pc' = pc
      /\ activity' \in {activity, "none"} /\ tracked' \subseteq tracked
      /\ clientWaits' \subseteq clientWaits
      /\ aborted' \subseteq aborted \cup ({active} \ {NoTurn})
      /\ UNCHANGED <<toolAgents, announced, streamed, origin, sent, applied, consented>>
  BY DEF ClientCancels, recordVars
<1>10. TypeOK'
  BY <1>7, <1>8, <1>9 DEF Inv, TypeOK, CallRecord, Label
<1>11. ActiveTurnHasLiveRun'
  BY <1>8, <1>9, ActiveFrame DEF Live
<1> QED BY <1>10, <1>11 DEF Inv

LEMMA ConfirmsTyped ==
  ASSUME Inv, NEW c \in Call \ {Preview}, NEW ok \in BOOLEAN, ClientConfirms(c, ok)
  PROVE  Inv'
<1>1. session' \in SessionType /\ session'.turn = session.turn
  BY Typed, ToolCallActions, StepsTyped DEF ClientConfirms, ToolCallConfirmed, SameButParts
<1>2. calls' \in [Turn -> Seq(CallRecord)]
  <2>1. "approved" \in CallState /\ "denied" \in CallState
    BY DEF CallState
  <2>2. \/ calls' = calls
        \/ calls' = SetCalls(calls, {c}, "approved")
        \/ calls' = SetCalls(calls, {c}, "denied")
    BY DEF ClientConfirms
  <2> QED BY <2>1, <2>2, Typed, SetCallsTyped
<1>3. TypeOK'
  BY <1>1, <1>2 DEF ClientConfirms, Inv, TypeOK, CallRecord
<1>4. ActiveTurnHasLiveRun'
  BY <1>1, ActiveFrame DEF ClientConfirms, Live
<1> QED BY <1>3, <1>4 DEF Inv

LEMMA AnswersTyped ==
  ASSUME Inv, NEW c \in Call \ {Preview}, ClientAnswers(c) PROVE Inv'
<1>1. session' \in SessionType /\ session'.turn = session.turn
  BY Typed, CompleteKeeps DEF ClientAnswers
<1>2. calls' \in [Turn -> Seq(CallRecord)]
  BY Typed, SetCallsTyped DEF ClientAnswers, CallState
<1>3. TypeOK'
  BY <1>1, <1>2 DEF ClientAnswers, Inv, TypeOK, CallRecord, recordVars
<1>4. ActiveTurnHasLiveRun'
  BY <1>1, ActiveFrame DEF ClientAnswers, Live
<1> QED BY <1>3, <1>4 DEF Inv

-----------------------------------------------------------------------------
(* Runs *)

LEMMA UnwindKeeps ==
  ASSUME Inv, NEW t \in Turn, NEW cancelled \in BOOLEAN, Unwind(t, session, cancelled)
  PROVE  /\ session' \in SessionType /\ pc' \in [Turn -> RunState]
         /\ active' \in Turn \cup {NoTurn} /\ activity' = "none" /\ tracked' = {}
         /\ clientWaits' \subseteq clientWaits
         /\ ActiveTurnHasLiveRun'
<1> DEFINE quiet == SigActivity(session, "none")
           swept == IF cancelled /\ tracked # {} THEN SigComplete(quiet, tracked) ELSE quiet
           keeps == cancelled /\ t \in streamed
           end == IF cancelled THEN "Cancelled" ELSE "Error"
<1>1. quiet \in SessionType /\ quiet.turn = session.turn
  BY Typed, SignalKeeps DEF Label
<1>2. swept \in SessionType /\ swept.turn = session.turn
  BY <1>1, SignalKeeps
<1>3. SigEnd(swept, end) \in SessionType /\ SigEnd(swept, end).turn = NoTurn
  BY <1>2, EndKeeps DEF TurnEnd
<1>4. /\ session' = IF keeps THEN swept ELSE SigEnd(swept, end)
      /\ pc' = [pc EXCEPT ![t] = IF keeps THEN "retain" ELSE "done"]
      /\ active' = IF keeps THEN active ELSE Finally(t, active)
      /\ activity' = "none" /\ tracked' = {} /\ clientWaits' \subseteq clientWaits
  BY DEF Unwind
<1> HIDE DEF quiet, swept, keeps, end
<1>5. /\ session' \in SessionType /\ pc' \in [Turn -> RunState]
      /\ active' \in Turn \cup {NoTurn}
  BY <1>2, <1>3, <1>4, Typed DEF RunState, Finally
<1>6. ActiveTurnHasLiveRun'
  <2>1. CASE keeps
    <3>1. session'.turn = session.turn /\ active' = active
      BY <1>2, <1>4, <2>1
    <3>2. \A u \in Turn : Live(u) => Live(u)'
      BY <1>4, <2>1, Typed DEF Live
    <3> QED BY <3>1, <3>2, ActiveFrame
  <2>2. CASE ~keeps
    BY <1>3, <1>4, <2>2 DEF ActiveTurnHasLiveRun
  <2> QED BY <2>1, <2>2
<1> QED BY <1>4, <1>5, <1>6

LEMMA FailsTyped ==
  ASSUME Inv, NEW t \in Turn, Fails(t) PROVE Inv'
<1>1. PICK cancelled \in BOOLEAN :
        /\ Unwind(t, session, cancelled)
        /\ \E hits : calls' = SetCalls(calls, hits, "answered")
  BY DEF Fails, Cancels
<1>2. calls' \in [Turn -> Seq(CallRecord)]
  BY <1>1, Typed, SetCallsTyped DEF CallState
<1>3. /\ session' \in SessionType /\ pc' \in [Turn -> RunState]
      /\ active' \in Turn \cup {NoTurn} /\ activity' = "none" /\ tracked' = {}
      /\ clientWaits' \subseteq clientWaits
      /\ ActiveTurnHasLiveRun'
  BY <1>1, UnwindKeeps
<1>4. TypeOK'
  BY <1>2, <1>3 DEF Fails, Inv, TypeOK, CallRecord, Label, recordVars
<1> QED BY <1>3, <1>4 DEF Inv

LEMMA RetainedTyped ==
  ASSUME Inv, NEW t \in Turn, Retained(t) PROVE Inv'
<1>1. session' \in SessionType /\ session'.turn = NoTurn
  BY Typed, EndKeeps DEF Retained, TurnEnd
<1>2. TypeOK'
  BY <1>1 DEF Retained, Finally, Inv, TypeOK, RunState, recordVars
<1> QED BY <1>1, <1>2 DEF Inv, ActiveTurnHasLiveRun

LEMMA FinishesTyped ==
  ASSUME Inv, NEW t \in Turn, Finishes(t) PROVE Inv'
<1> DEFINE label == IF pc[t] = "fastlane" THEN "none" ELSE activity
           quiet == SigActivity(session, label)
           ended == SigEnd(quiet, "Complete")
<1>0. label \in Label
  BY DEF Inv, TypeOK, Label
<1>1. quiet \in SessionType
  BY <1>0, Typed, SignalKeeps
<1>2. ended \in SessionType /\ ended.turn = NoTurn
  BY <1>1, EndKeeps DEF TurnEnd
<1> HIDE DEF quiet
<1>3. /\ pc[t] \in {"persist", "fastlane"} /\ tracked' = {}
      /\ UNCHANGED <<toolAgents, aborted, approvals, clientWaits, calls, announced,
                     streamed, sent, applied, consented>>
  BY DEF Finishes
<1> HIDE DEF label
<1>4. CASE /\ session' = ended /\ activity' = label
           /\ active' = Finally(t, active) /\ pc' = [pc EXCEPT ![t] = "done"]
           /\ UNCHANGED origin
  <2>1. TypeOK'
    BY <1>0, <1>2, <1>3, <1>4 DEF Inv, TypeOK, RunState, Finally
  <2> QED BY <1>2, <1>4, <2>1 DEF Inv, ActiveTurnHasLiveRun
<1>5. ASSUME NEW u \in Turn, Consumes(ended), ConsumeNext(ended, u, label),
             active' = Finally(t, u), activity' = "thinking",
             pc' = [pc EXCEPT ![t] = "done", ![u] = "prepare"]
      PROVE  Inv'
  <2>1. ended.queue[1] \in Message
    BY <1>2, <1>5, QueueHead DEF Consumes
  <2>2. session' \in SessionType /\ session'.turn = u
    BY <1>0, <1>2, <1>5, <2>1, BeginKeeps DEF ConsumeNext
  <2>3. u # t /\ active' = u
    BY <1>3, <1>5 DEF ConsumeNext, Started, Finally
  <2>4. TypeOK'
    BY <1>3, <1>5, <2>1, <2>2, <2>3 DEF ConsumeNext, Inv, TypeOK, RunState, Label
  <2>5. ActiveTurnHasLiveRun'
    BY <1>5, <2>2, <2>3, Typed DEF ActiveTurnHasLiveRun, Live
  <2> QED BY <2>4, <2>5 DEF Inv
<1> QED BY <1>4, <1>5 DEF Finishes, quiet, label

\* The steps of a run that move it from one await to the next.
LEMMA MovesTyped ==
  ASSUME Inv, NEW t \in Turn,
         \/ Prepares(t) \/ Responds(t) \/ Continues(t) \/ Concludes(t) \/ RoundEnds(t)
  PROVE  Inv'
<1>1. /\ pc[t] \notin {"idle", "done"}
      /\ \E next \in RunState \ {"idle", "done"} : pc' = [pc EXCEPT ![t] = next]
      /\ streamed' \in {streamed, streamed \cup {t}}
      /\ UNCHANGED <<hostVars, agentVars, calls, announced, recordVars>>
  BY DEF Prepares, Responds, Continues, Concludes, RoundEnds, RunState
<1>2. TypeOK'
  BY <1>1 DEF Inv, TypeOK, hostVars, agentVars, recordVars
<1>3. \A u \in Turn : Live(u) => Live(u)'
  BY <1>1, Typed DEF Live
<1>4. ActiveTurnHasLiveRun'
  BY <1>1, <1>3, ActiveFrame DEF hostVars, agentVars
<1> QED BY <1>2, <1>4 DEF Inv

LEMMA StreamsTyped ==
  ASSUME Inv, NEW t \in Turn, StreamsText(t) \/ StreamsReasoning(t) \/ HandsOff(t)
  PROVE  Inv'
<1>1. \E label \in {"none", "reasoning"} :
         session' = SigActivity(session, label) /\ activity' = label
  BY DEF StreamsText, StreamsReasoning, HandsOff
<1>2. session' \in SessionType /\ session'.turn = session.turn /\ activity' \in Label
  BY <1>1, Typed, SignalKeeps DEF Label
<1>3. /\ pc' = pc \/ (pc[t] = "handoff" /\ pc' = [pc EXCEPT ![t] = "persist"])
      /\ streamed' \in {streamed, streamed \cup {t}}
      /\ UNCHANGED <<toolAgents, active, aborted, tracked, approvals, clientWaits,
                     calls, announced, origin, sent, applied, consented>>
  BY DEF StreamsText, StreamsReasoning, HandsOff, recordVars, runVars
<1>4. TypeOK'
  BY <1>2, <1>3 DEF Inv, TypeOK, RunState
<1>5. \A u \in Turn : Live(u) => Live(u)'
  BY <1>3, Typed DEF Live
<1>6. ActiveTurnHasLiveRun'
  BY <1>2, <1>3, <1>5, ActiveFrame
<1> QED BY <1>4, <1>6 DEF Inv

LEMMA AnnouncesTyped ==
  ASSUME Inv, NEW t \in Turn, AnnouncesTool(t) PROVE Inv'
<1>1. Len(calls[t]) \in Nat /\ Len(calls[t]) < MaxCalls
  BY Typed DEF AnnouncesTool
<1>2. PICK c \in {Preview, <<t, Len(calls[t]) + 1>>} :
        /\ session' = SigStart(SigActivity(session, "tool"), c)
        /\ tracked' = tracked \cup {c}
        /\ toolAgents' = toolAgents \cup {c}
  BY DEF AnnouncesTool
<1>3. Len(calls[t]) + 1 \in 1..MaxCalls
  BY <1>1, TurnAssumption
<1>4. c \in Call
  BY <1>3, CallsTyped, TurnAssumption
<1>5. session' \in SessionType /\ session'.turn = session.turn
  <2>1. SigActivity(session, "tool") \in SessionType
        /\ SigActivity(session, "tool").turn = session.turn
    BY Typed, SignalKeeps DEF Label
  <2> QED BY <1>2, <1>4, <2>1, SignalKeeps
<1>6. TypeOK'
  BY <1>2, <1>4, <1>5 DEF AnnouncesTool, Inv, TypeOK, Label, recordVars
<1>7. ActiveTurnHasLiveRun'
  BY <1>5, ActiveFrame DEF AnnouncesTool, Live
<1> QED BY <1>6, <1>7 DEF Inv

LEMMA AsksTyped ==
  ASSUME Inv, NEW t \in Turn, AsksForTools(t) PROVE Inv'
<1>0. PICK n \in 1 .. MaxCalls - Len(calls[t]) : \E kinds \in [1..n -> Kinds] :
        calls' = [calls EXCEPT ![t] = calls[t] \o Asked(n, kinds)]
  BY DEF AsksForTools, Asked
<1>1. PICK kinds \in [1..n -> Kinds] :
        calls' = [calls EXCEPT ![t] = calls[t] \o Asked(n, kinds)]
  BY <1>0
<1>2. n \in Nat /\ kinds \in [1..n -> ToolKind]
  BY TurnAssumption
<1>3. calls' \in [Turn -> Seq(CallRecord)]
  <2> DEFINE row == calls[t] \o Asked(n, kinds)
  <2>0. calls \in [Turn -> Seq(CallRecord)]
    BY Typed
  <2>1. row \in Seq(CallRecord)
    BY <1>2, <2>0, AskedTyped
  <2>2. calls' = [calls EXCEPT ![t] = row]
    BY <1>1
  <2> HIDE DEF row
  <2> QED BY <2>1, <2>2, Typed
<1>4. TypeOK'
  BY <1>3 DEF AsksForTools, Inv, TypeOK, RunState, CallRecord, hostVars, agentVars, recordVars
<1>5. \A u \in Turn : Live(u) => Live(u)'
  BY Typed DEF AsksForTools, Live
<1>6. ActiveTurnHasLiveRun'
  BY <1>5, ActiveFrame DEF AsksForTools, hostVars, agentVars
<1> QED BY <1>4, <1>6 DEF Inv

LEMMA AdmitsTyped ==
  ASSUME Inv, NEW t \in Turn, AdmitsTools(t) PROVE Inv'
<1>1. calls' \in [Turn -> Seq(CallRecord)]
  BY Typed, SetCallsTyped DEF AdmitsTools, CallState
<1>2. TypeOK'
  BY <1>1 DEF AdmitsTools, Inv, TypeOK, CallRecord, hostVars, agentVars, recordVars
<1>3. ActiveTurnHasLiveRun'
  BY ActiveFrame DEF AdmitsTools, hostVars, agentVars, Live
<1> QED BY <1>2, <1>3 DEF Inv

-----------------------------------------------------------------------------
(* Tool calls *)

\* A tool step that changes the session by signals short of the turn's end,
\* and the runs not at all.
ToolFrame ==
  /\ session' \in SessionType /\ session'.turn = session.turn
  /\ calls' \in [Turn -> Seq(CallRecord)]
  /\ toolAgents' \subseteq Call /\ tracked' \subseteq Call /\ activity' \in Label
  /\ approvals' \subseteq Call \ {Preview} /\ clientWaits' \subseteq Call \ {Preview}
  /\ applied' \subseteq Call /\ consented' \subseteq Call
  /\ UNCHANGED <<active, aborted, pc, announced, streamed, origin, sent>>

LEMMA ToolFrameTyped ==
  ASSUME Inv, ToolFrame PROVE Inv'
<1>1. TypeOK'
  BY DEF ToolFrame, Inv, TypeOK, CallRecord
<1>2. ActiveTurnHasLiveRun'
  BY ActiveFrame DEF ToolFrame, Live
<1> QED BY <1>1, <1>2 DEF Inv

LEMMA ToolTyped ==
  ASSUME Inv, NEW t \in Turn, NEW n \in 1..MaxCalls,
         \/ RefusesTool(t, n) \/ OpensGate(t, n) \/ StartsHostTool(t, n)
         \/ RunsSilently(t, n) \/ EndsSilently(t, n)
         \/ StartsClientTool(t, n) \/ SkipsClientTool(t, n) \/ SkipsEdit(t, n)
         \/ CompletesTool(t, n)
  PROVE  Inv'
<1> DEFINE c == <<t, n>>
<1>0. /\ c \in Call /\ c # Preview /\ session \in SessionType /\ "tool" \in Label
      /\ TRUE \in BOOLEAN
  BY CallsTyped, Typed DEF Label
<1>1. ASSUME NEW ids, NEW st \in CallState, calls' = SetCalls(calls, ids, st)
      PROVE  calls' \in [Turn -> Seq(CallRecord)]
  BY <1>1, Typed, SetCallsTyped
<1>2. /\ {"queued", "gated", "opened", "running", "silent", "client", "answered",
          "approval", "approved", "denied", "done"} \subseteq CallState
  BY DEF CallState
<1> HIDE DEF c
<1>3. CASE RefusesTool(t, n) \/ RunsSilently(t, n) \/ EndsSilently(t, n)
  <2>1. calls' \in [Turn -> Seq(CallRecord)]
    BY <1>1, <1>2, <1>3 DEF RefusesTool, RunsSilently, EndsSilently
  <2>2. ToolFrame
    BY <1>3, <2>1 DEF RefusesTool, RunsSilently, EndsSilently, ToolFrame, Inv, TypeOK,
                      hostVars, agentVars, recordVars
  <2> QED BY <2>2, ToolFrameTyped
<1>4. CASE OpensGate(t, n) \/ SkipsEdit(t, n)
  <2>1. calls' \in [Turn -> Seq(CallRecord)]
    BY <1>1, <1>2, <1>4 DEF OpensGate, SkipsEdit
  <2>2. /\ session' \in SessionType /\ session'.turn = session.turn /\ activity' \in Label
        /\ UNCHANGED <<toolAgents, active, aborted, tracked, approvals, clientWaits, pc,
                       announced, streamed, origin, sent, applied, consented>>
    BY <1>0, <1>4, SignalKeeps DEF OpensGate, SkipsEdit, recordVars
  <2>3. ToolFrame
    BY <2>1, <2>2 DEF ToolFrame, Inv, TypeOK
  <2> QED BY <2>3, ToolFrameTyped
<1>5. CASE StartsHostTool(t, n)
  <2>1. calls' \in [Turn -> Seq(CallRecord)]
    BY <1>1, <1>2, <1>5 DEF StartsHostTool
  <2>2. SigStart(session, c) \in SessionType /\ SigStart(session, c).turn = session.turn
    BY <1>0, SignalKeeps
  <2>3. session' = SigReady(SigStart(session, c), c, TRUE)
    BY <1>5 DEF StartsHostTool, c
  <2>4. session' \in SessionType /\ session'.turn = session.turn
    BY <1>0, <2>2, <2>3, SignalKeeps
  <2>5. ToolFrame
    BY <1>0, <1>5, <2>1, <2>4
       DEF StartsHostTool, Began, ToolFrame, Inv, TypeOK, recordVars, c
  <2> QED BY <2>5, ToolFrameTyped
<1>6. CASE StartsClientTool(t, n)
  <2>1. calls' \in [Turn -> Seq(CallRecord)]
    BY <1>1, <1>2, <1>6 DEF StartsClientTool
  <2> DEFINE a == SigActivity(session, "tool")
             b == SigStart(a, c)
  <2>2. a \in SessionType /\ a.turn = session.turn
    BY <1>0, SignalKeeps
  <2>3. b \in SessionType /\ b.turn = session.turn
    BY <1>0, <2>2, SignalKeeps
  <2>4. session' = SigReady(b, c, TRUE)
    BY <1>6 DEF StartsClientTool, c
  <2> HIDE DEF a, b
  <2>5. session' \in SessionType /\ session'.turn = session.turn
    BY <1>0, <2>3, <2>4, SignalKeeps
  <2>6. ToolFrame
    BY <1>0, <1>6, <2>1, <2>5
       DEF StartsClientTool, Began, ToolFrame, Inv, TypeOK, recordVars, c
  <2> QED BY <2>6, ToolFrameTyped
<1>7. CASE SkipsClientTool(t, n)
  <2>1. calls' \in [Turn -> Seq(CallRecord)]
    BY <1>1, <1>2, <1>7 DEF SkipsClientTool
  <2>2. PICK line \in Label : /\ session' = SigComplete(SigActivity(session, line), {c})
                              /\ activity' = line
    BY <1>7 DEF SkipsClientTool, c
  <2>3. SigActivity(session, line) \in SessionType
        /\ SigActivity(session, line).turn = session.turn
    BY <1>0, SignalKeeps
  <2>4. session' \in SessionType /\ session'.turn = session.turn
    BY <2>2, <2>3, SignalKeeps
  <2>5. ToolFrame
    BY <1>0, <1>7, <2>1, <2>2, <2>4
       DEF SkipsClientTool, ToolFrame, Inv, TypeOK, recordVars
  <2> QED BY <2>5, ToolFrameTyped
<1>8. CASE CompletesTool(t, n)
  <2>1. calls' \in [Turn -> Seq(CallRecord)]
    BY <1>1, <1>2, <1>8 DEF CompletesTool
  <2>2. session' \in SessionType /\ session'.turn = session.turn
    BY <1>0, <1>8, SignalKeeps DEF CompletesTool
  <2>3. ToolFrame
    BY <1>0, <1>8, <2>1, <2>2 DEF CompletesTool, ToolFrame, Inv, TypeOK, c
  <2> QED BY <2>3, ToolFrameTyped
<1> QED BY <1>3, <1>4, <1>5, <1>6, <1>7, <1>8

LEMMA ProposesTyped ==
  ASSUME Inv, NEW t \in Turn, NEW n \in 1..MaxCalls, ProposesEdit(t, n) PROVE Inv'
<1> DEFINE c == <<t, n>>
           a == SigActivity(session, "tool")
           begun == SigStart(a, c)
           asked == SigReady(begun, c, TRUE)
<1>0. c \in Call /\ c # Preview /\ session \in SessionType /\ "tool" \in Label
  BY CallsTyped, Typed DEF Label
<1> HIDE DEF c
<1>1. a \in SessionType /\ a.turn = session.turn
  BY <1>0, SignalKeeps
<1> HIDE DEF a
<1>2. begun \in SessionType /\ begun.turn = session.turn
  BY <1>0, <1>1, SignalKeeps
<1> HIDE DEF begun
<1>3. asked \in SessionType /\ asked.turn = session.turn
  BY <1>2, SignalKeeps
<1> HIDE DEF asked
<1>4. session' \in {begun, SigReady(asked, c, TRUE), SigReady(asked, c, FALSE)}
  BY DEF ProposesEdit, c, a, begun, asked
<1>5. session' \in SessionType /\ session'.turn = session.turn
  <2>1. SigReady(asked, c, TRUE) \in SessionType /\ SigReady(asked, c, TRUE).turn = session.turn
    BY <1>3, SignalKeeps
  <2>2. SigReady(asked, c, FALSE) \in SessionType /\ SigReady(asked, c, FALSE).turn = session.turn
    BY <1>3, SignalKeeps
  <2> QED BY <1>2, <1>4, <2>1, <2>2
<1>6. \E st \in {"approved", "approval", "denied"} : calls' = SetCalls(calls, {c}, st)
  BY DEF ProposesEdit, c
<1>7. calls' \in [Turn -> Seq(CallRecord)]
  BY <1>6, Typed, SetCallsTyped DEF CallState
<1>8. /\ tracked' = tracked \cup {c} /\ activity' = "tool"
      /\ toolAgents' \in {toolAgents \cup {c}, toolAgents \ {c}}
      /\ approvals' \in {approvals, approvals \cup {c}}
      /\ consented' \in {consented, consented \cup {c}}
      /\ UNCHANGED <<active, aborted, clientWaits, pc, announced, streamed, origin, sent,
                     applied>>
  BY DEF ProposesEdit, c
<1>9. ToolFrame
  BY <1>0, <1>5, <1>7, <1>8 DEF ToolFrame, Inv, TypeOK
<1> QED BY <1>9, ToolFrameTyped

LEMMA ThrowsTyped ==
  ASSUME Inv, NEW t \in Turn, NEW n \in 1..MaxCalls, ToolThrows(t, n) PROVE Inv'
<1>0. {"answered", "done"} \subseteq CallState
  BY DEF CallState
<1>1. UNCHANGED <<toolAgents, aborted, approvals, announced, streamed, origin, sent,
                  applied, consented>>
  BY DEF ToolThrows, recordVars
<1>2. ASSUME NEW cancelled \in BOOLEAN, NEW hits, Unwind(t, session, cancelled),
             calls' = SetCalls(SetCalls(calls, hits, "answered"), {<<t, n>>}, "done")
      PROVE  Inv'
  <2>1. SetCalls(calls, hits, "answered") \in [Turn -> Seq(CallRecord)]
    BY <1>0, Typed, SetCallsTyped
  <2>2. calls' \in [Turn -> Seq(CallRecord)]
    BY <1>0, <1>2, <2>1, SetCallsTyped
  <2>3. /\ session' \in SessionType /\ pc' \in [Turn -> RunState]
        /\ active' \in Turn \cup {NoTurn} /\ activity' = "none" /\ tracked' = {}
        /\ clientWaits' \subseteq clientWaits
        /\ ActiveTurnHasLiveRun'
    BY <1>2, UnwindKeeps
  <2>4. TypeOK'
    BY <1>1, <2>2, <2>3 DEF Inv, TypeOK, CallRecord, Label
  <2> QED BY <2>3, <2>4 DEF Inv
<1>3. CASE /\ calls' = SetCalls(calls, {<<t, n>>}, "done")
           /\ UNCHANGED <<session, active, activity, tracked, clientWaits, pc>>
  <2>1. calls' \in [Turn -> Seq(CallRecord)]
    BY <1>0, <1>3, Typed, SetCallsTyped
  <2>2. ToolFrame
    BY <1>1, <1>3, <2>1 DEF ToolFrame, Inv, TypeOK
  <2> QED BY <2>2, ToolFrameTyped
<1> QED BY <1>2, <1>3 DEF ToolThrows, Cancels

-----------------------------------------------------------------------------
LEMMA StepTyped == Inv /\ [Next]_vars => Inv'
<1> SUFFICES ASSUME Inv, [Next]_vars PROVE Inv'
  OBVIOUS
<1>1. ASSUME NEW t \in Turn, Run(t) PROVE Inv'
  BY <1>1, FailsTyped, RetainedTyped, FinishesTyped, MovesTyped, StreamsTyped,
     AnnouncesTyped, AsksTyped, AdmitsTyped DEF Run
<1>2. ASSUME NEW t \in Turn, NEW n \in 1..MaxCalls, Tool(t, n) PROVE Inv'
  BY <1>2, ToolTyped, ProposesTyped, ThrowsTyped DEF Tool
<1>3. CASE ClientStep
  BY <1>3, StartTyped, CancelsTyped, QueuesTyped, ReordersTyped, ConfirmsTyped,
     AnswersTyped DEF ClientStep
<1>4. CASE UNCHANGED vars
  BY <1>4 DEF vars, Inv, TypeOK, ActiveTurnHasLiveRun, Live
<1> QED BY <1>1, <1>2, <1>3, <1>4 DEF Next

LEMMA Inductive == Spec => []Inv
<1> QED BY InitTyped, StepTyped, PTL DEF Spec

\* Host, agent and runs keep their shapes under every interleaving.
THEOREM AgentTyped == Spec => []TypeOK
<1>1. Inv => TypeOK
  BY DEF Inv
<1> QED BY <1>1, Inductive, PTL

\* The turn clients see as active always has a live run, and it is the run
\* that a cancellation would abort: no stale run, late end or consumed queue
\* leaves a session that looks busy with nobody working on it.
THEOREM ActiveTurnIsServed == Spec => []ActiveTurnHasLiveRun
<1>1. Inv => ActiveTurnHasLiveRun
  BY DEF Inv
<1> QED BY <1>1, Inductive, PTL

-----------------------------------------------------------------------------
(* Consent: an approved call has the consent of someone, from the moment it *)
(* is approved until its edit is written.                                   *)

ApprovedHave(cs, X) ==
  \A t \in Turn : \A n \in 1..Len(cs[t]) : cs[t][n].st = "approved" => <<t, n>> \in X

ConsentInv == EditsOnlyWithConsent /\ ApprovedHave(calls, consented)

LEMMA SetCallsConsent ==
  ASSUME NEW cs \in [Turn -> Seq(CallRecord)], NEW ids, NEW st \in CallState, NEW X, NEW Y,
         ApprovedHave(cs, X), X \subseteq Y, st = "approved" => ids \subseteq Y
  PROVE  ApprovedHave(SetCalls(cs, ids, st), Y)
<1> SUFFICES ASSUME NEW t \in Turn, NEW n \in 1..Len(SetCalls(cs, ids, st)[t]),
                    SetCalls(cs, ids, st)[t][n].st = "approved"
             PROVE  <<t, n>> \in Y
  BY DEF ApprovedHave
<1>1. n \in 1..Len(cs[t])
  BY SetCallsTyped
<1>2. SetCalls(cs, ids, st)[t][n] =
        IF <<t, n>> \in ids THEN [kind |-> cs[t][n].kind, st |-> st] ELSE cs[t][n]
  BY <1>1, SetCallsTyped
<1>3. CASE <<t, n>> \in ids
  BY <1>2, <1>3
<1>4. CASE <<t, n>> \notin ids
  BY <1>1, <1>2, <1>4 DEF ApprovedHave
<1> QED BY <1>3, <1>4

\* Steps that neither approve nor write.
LEMMA ConsentFrame ==
  ASSUME Inv, ConsentInv, NEW ids, NEW st \in CallState, st # "approved",
         calls' = SetCalls(calls, ids, st), applied' = applied, consented' = consented
  PROVE  ConsentInv'
<1>1. ApprovedHave(SetCalls(calls, ids, st), consented)
  BY Typed, SetCallsConsent DEF ConsentInv
<1> QED BY <1>1 DEF ConsentInv, EditsOnlyWithConsent, ApprovedHave

LEMMA ConsentSame ==
  ASSUME ConsentInv, UNCHANGED <<calls, applied, consented>> PROVE ConsentInv'
BY DEF ConsentInv, EditsOnlyWithConsent, ApprovedHave

LEMMA ConfirmsConsent ==
  ASSUME Inv, ConsentInv, NEW c \in Call \ {Preview}, NEW ok \in BOOLEAN, ClientConfirms(c, ok)
  PROVE  ConsentInv'
<1>1. applied' = applied /\ consented \subseteq consented'
  BY DEF ClientConfirms
<1>2. CASE calls' = calls
  BY <1>1, <1>2 DEF ConsentInv, EditsOnlyWithConsent, ApprovedHave
<1>3. CASE calls' = SetCalls(calls, {c}, "approved") /\ c \in consented'
  <2>1. "approved" \in CallState /\ {c} \subseteq consented'
    BY <1>3 DEF CallState
  <2>2. ApprovedHave(SetCalls(calls, {c}, "approved"), consented')
    BY <1>1, <2>1, Typed, SetCallsConsent DEF ConsentInv
  <2> QED BY <1>1, <1>3, <2>2 DEF ConsentInv, EditsOnlyWithConsent, ApprovedHave
<1>4. CASE calls' = SetCalls(calls, {c}, "denied") /\ consented' = consented
  BY <1>1, <1>4, ConsentFrame DEF CallState
<1> QED BY <1>2, <1>3, <1>4 DEF ClientConfirms

LEMMA ProposesConsent ==
  ASSUME Inv, ConsentInv, NEW t \in Turn, NEW n \in 1..MaxCalls, ProposesEdit(t, n)
  PROVE  ConsentInv'
<1> DEFINE c == <<t, n>>
<1>1. applied' = applied /\ consented \subseteq consented'
  BY DEF ProposesEdit
<1>2. CASE calls' = SetCalls(calls, {c}, "approved") /\ c \in consented'
  <2>1. "approved" \in CallState /\ {c} \subseteq consented'
    BY <1>2 DEF CallState
  <2>2. ApprovedHave(SetCalls(calls, {c}, "approved"), consented')
    BY <1>1, <2>1, Typed, SetCallsConsent DEF ConsentInv
  <2> QED BY <1>1, <1>2, <2>2 DEF ConsentInv, EditsOnlyWithConsent, ApprovedHave
<1>3. CASE calls' = SetCalls(calls, {c}, "approval") /\ consented' = consented
  BY <1>1, <1>3, ConsentFrame DEF CallState
<1>4. CASE calls' = SetCalls(calls, {c}, "denied") /\ consented' = consented
  BY <1>1, <1>4, ConsentFrame DEF CallState
<1> QED BY <1>2, <1>3, <1>4 DEF ProposesEdit

\* An edit is written while its call is approved.
LEMMA CompletesConsent ==
  ASSUME Inv, ConsentInv, NEW t \in Turn, NEW n \in 1..MaxCalls, CompletesTool(t, n)
  PROVE  ConsentInv'
<1>1. /\ calls' = SetCalls(calls, {<<t, n>>}, "done") /\ consented' = consented
      /\ applied' = IF calls[t][n].st = "approved" THEN applied \cup {<<t, n>>} ELSE applied
      /\ n \in 1..Len(calls[t])
  BY DEF CompletesTool
<1>2. applied' \subseteq consented
  BY <1>1 DEF ConsentInv, EditsOnlyWithConsent, ApprovedHave
<1>3. ApprovedHave(SetCalls(calls, {<<t, n>>}, "done"), consented)
  BY Typed, SetCallsConsent DEF ConsentInv, CallState
<1> QED BY <1>1, <1>2, <1>3 DEF ConsentInv, EditsOnlyWithConsent, ApprovedHave

LEMMA CancelsConsent ==
  ASSUME Inv, ConsentInv, NEW t \in Turn, ClientCancels(t) PROVE ConsentInv'
<1>1. applied' = applied /\ consented' = consented
  BY DEF ClientCancels, recordVars
<1>2. /\ DenyPending(calls) \in [Turn -> Seq(CallRecord)]
      /\ ApprovedHave(DenyPending(calls), consented)
  <2>1. "denied" \in CallState
    BY DEF CallState
  <2> QED BY <2>1, Typed, SetCallsTyped, SetCallsConsent DEF DenyPending, ConsentInv
<1>3. ApprovedHave(calls', consented)
  <2>1. CASE calls' = DenyPending(calls)
    BY <1>2, <2>1 DEF ApprovedHave
  <2>2. ASSUME NEW ids, calls' = SetCalls(DenyPending(calls), ids, "answered")
        PROVE  ApprovedHave(calls', consented)
    <3>1. "answered" \in CallState
      BY DEF CallState
    <3>2. ApprovedHave(SetCalls(DenyPending(calls), ids, "answered"), consented)
      BY <1>2, <3>1, SetCallsConsent
    <3> QED BY <2>2, <3>2
  <2> QED BY <2>1, <2>2 DEF ClientCancels
<1> QED BY <1>1, <1>3 DEF ConsentInv, EditsOnlyWithConsent, ApprovedHave

LEMMA ThrowsConsent ==
  ASSUME Inv, ConsentInv, NEW t \in Turn, NEW n \in 1..MaxCalls, ToolThrows(t, n)
  PROVE  ConsentInv'
<1>0. {"answered", "done"} \subseteq CallState
  BY DEF CallState
<1>1. applied' = applied /\ consented' = consented
  BY DEF ToolThrows, recordVars
<1>2. ASSUME NEW hits,
             calls' = SetCalls(SetCalls(calls, hits, "answered"), {<<t, n>>}, "done")
      PROVE  ConsentInv'
  <2> DEFINE cs == SetCalls(calls, hits, "answered")
  <2>1. cs \in [Turn -> Seq(CallRecord)] /\ ApprovedHave(cs, consented)
    BY <1>0, Typed, SetCallsTyped, SetCallsConsent DEF ConsentInv
  <2>2. calls' = SetCalls(cs, {<<t, n>>}, "done")
    BY <1>2
  <2> HIDE DEF cs
  <2>3. ApprovedHave(SetCalls(cs, {<<t, n>>}, "done"), consented)
    BY <1>0, <2>1, SetCallsConsent
  <2> QED BY <1>1, <2>2, <2>3 DEF ConsentInv, EditsOnlyWithConsent, ApprovedHave
<1>3. CASE calls' = SetCalls(calls, {<<t, n>>}, "done")
  BY <1>0, <1>1, <1>3, ConsentFrame
<1> QED BY <1>2, <1>3 DEF ToolThrows

LEMMA AsksConsent ==
  ASSUME Inv, ConsentInv, NEW t \in Turn, AsksForTools(t) PROVE ConsentInv'
<1>0. PICK n \in 1 .. MaxCalls - Len(calls[t]) : \E kinds \in [1..n -> Kinds] :
        calls' = [calls EXCEPT ![t] = calls[t] \o Asked(n, kinds)]
  BY DEF AsksForTools, Asked
<1>1. PICK kinds \in [1..n -> Kinds] :
        calls' = [calls EXCEPT ![t] = calls[t] \o Asked(n, kinds)]
  BY <1>0
<1>2. n \in Nat /\ kinds \in [1..n -> ToolKind] /\ calls \in [Turn -> Seq(CallRecord)]
  BY Typed, TurnAssumption
<1>3. /\ Len(calls[t] \o Asked(n, kinds)) = Len(calls[t]) + n
      /\ \A i \in 1..Len(calls[t]) : (calls[t] \o Asked(n, kinds))[i] = calls[t][i]
      /\ \A i \in 1..(Len(calls[t]) + n) : i \notin 1..Len(calls[t]) =>
            (calls[t] \o Asked(n, kinds))[i].st = "queued"
  BY <1>2, AskedTyped
<1>4. ApprovedHave(calls', consented)
  <2> SUFFICES ASSUME NEW u \in Turn, NEW i \in 1..Len(calls'[u]), calls'[u][i].st = "approved"
               PROVE  <<u, i>> \in consented
    BY DEF ApprovedHave
  <2>1. CASE u # t
    BY <1>1, <1>2, <2>1 DEF ConsentInv, ApprovedHave
  <2>2. CASE u = t
    <3>1. calls'[u] = calls[t] \o Asked(n, kinds)
      BY <1>1, <1>2, <2>2
    <3>2. i \in 1..Len(calls[t])
      BY <1>3, <3>1
    <3> QED BY <1>3, <2>2, <3>1, <3>2 DEF ConsentInv, ApprovedHave
  <2> QED BY <2>1, <2>2
<1> QED BY <1>4 DEF AsksForTools, recordVars, ConsentInv, EditsOnlyWithConsent, ApprovedHave

LEMMA StepConsent == Inv /\ ConsentInv /\ [Next]_vars => ConsentInv'
<1> SUFFICES ASSUME Inv, ConsentInv, [Next]_vars PROVE ConsentInv'
  OBVIOUS
<1>0. {"gated", "opened", "running", "silent", "client", "answered", "done"} \subseteq CallState
  BY DEF CallState
<1>1. ASSUME NEW t \in Turn, Run(t) PROVE ConsentInv'
  <2>1. CASE Fails(t)
    <3>1. PICK hits : calls' = SetCalls(calls, hits, "answered")
      BY <2>1 DEF Fails
    <3>2. applied' = applied /\ consented' = consented
      BY <2>1 DEF Fails, recordVars
    <3> QED BY <1>0, <3>1, <3>2, ConsentFrame
  <2>2. CASE AsksForTools(t)
    BY <2>2, AsksConsent
  <2>3. CASE AdmitsTools(t)
    <3>1. PICK ids : calls' = SetCalls(calls, ids, "gated")
      BY <2>3 DEF AdmitsTools
    <3>2. applied' = applied /\ consented' = consented
      BY <2>3 DEF AdmitsTools, recordVars
    <3> QED BY <1>0, <3>1, <3>2, ConsentFrame
  <2>4. CASE \/ Prepares(t) \/ Responds(t) \/ StreamsText(t) \/ StreamsReasoning(t)
             \/ AnnouncesTool(t) \/ Continues(t) \/ Concludes(t) \/ RoundEnds(t)
             \/ HandsOff(t) \/ Finishes(t) \/ Retained(t)
    <3>1. UNCHANGED <<calls, applied, consented>>
      BY <2>4 DEF Prepares, Responds, StreamsText, StreamsReasoning, AnnouncesTool,
                  Continues, Concludes, RoundEnds, HandsOff, Finishes, Retained,
                  recordVars, runVars
    <3> QED BY <3>1, ConsentSame
  <2> QED BY <1>1, <2>1, <2>2, <2>3, <2>4 DEF Run
<1>2. ASSUME NEW t \in Turn, NEW n \in 1..MaxCalls, Tool(t, n) PROVE ConsentInv'
  <2>1. CASE \/ RefusesTool(t, n) \/ OpensGate(t, n) \/ StartsHostTool(t, n)
             \/ RunsSilently(t, n) \/ EndsSilently(t, n)
             \/ StartsClientTool(t, n) \/ SkipsClientTool(t, n) \/ SkipsEdit(t, n)
    <3>1. /\ \E st \in {"opened", "running", "silent", "client", "done"} :
                calls' = SetCalls(calls, {<<t, n>>}, st)
          /\ applied' = applied /\ consented' = consented
      BY <2>1 DEF RefusesTool, OpensGate, StartsHostTool, RunsSilently, EndsSilently,
                  StartsClientTool, SkipsClientTool, SkipsEdit, recordVars
    <3> QED BY <1>0, <3>1, ConsentFrame
  <2> QED BY <1>2, <2>1, ProposesConsent, CompletesConsent, ThrowsConsent DEF Tool
<1>3. ASSUME NEW t \in Turn, ClientStartTurn(t) PROVE ConsentInv'
  BY <1>3, ConsentSame DEF ClientStartTurn, recordVars
<1>4. ASSUME NEW m \in Message, ClientQueues(m) \/ ClientUnqueues(m) PROVE ConsentInv'
  BY <1>4, ConsentSame DEF ClientQueues, ClientUnqueues
<1>8. ASSUME NEW pi, ClientReorders(pi) PROVE ConsentInv'
  BY <1>8, ConsentSame DEF ClientReorders
<1>5. ASSUME NEW c \in Call \ {Preview}, ClientAnswers(c) PROVE ConsentInv'
  <2>1. PICK ids : calls' = SetCalls(calls, ids, "answered")
    BY <1>5 DEF ClientAnswers
  <2>2. applied' = applied /\ consented' = consented
    BY <1>5 DEF ClientAnswers, recordVars
  <2> QED BY <1>0, <2>1, <2>2, ConsentFrame
<1>6. CASE ClientStep
  BY <1>3, <1>4, <1>5, <1>6, <1>8, CancelsConsent, ConfirmsConsent DEF ClientStep
<1>7. CASE UNCHANGED vars
  BY <1>7, ConsentSame DEF vars
<1> QED BY <1>1, <1>2, <1>6, <1>7 DEF Next

\* No edit is written to the workspace without the consent of the user, of the
\* setting or of a permission rule for that very call, whatever cancellations,
\* stale runs and late answers do.
THEOREM NoEditWithoutConsent == Spec => []EditsOnlyWithConsent
<1>1. Init => ConsentInv
  BY EmptySeq DEF Init, ConsentInv, EditsOnlyWithConsent, ApprovedHave
<1>2. ConsentInv => EditsOnlyWithConsent
  BY DEF ConsentInv
<1> QED BY <1>1, <1>2, Inductive, StepConsent, PTL DEF Spec
-----------------------------------------------------------------------------
(* The tool calls of the runs.  Every step that changes calls moves a set of   *)
(* them to one state; what such a move does to the two invariants is said      *)
(* once, for any table of calls, and the step lemmas name the moves each       *)
(* action is made of.                                                          *)

Calls == [Turn -> Seq(CallRecord)]

In(cs, t, n, st) == n \in 1..Len(cs[t]) /\ cs[t][n].st = st

\* W holds exactly the calls in state st.
Keys(cs, W, st) == \A t \in Turn : \A n \in Nat : <<t, n>> \in W <=> In(cs, t, n, st)

\* A: the approvals, W: the client tools.
Resolvers(cs, A, W) == Keys(cs, A, "approval") /\ Keys(cs, W, "client")

ReadsOnly(cs) ==
  \A t \in Turn : \A m, n \in 1..Len(cs[t]) :
     m < n /\ cs[t][n].st # "queued" /\ cs[t][m].st # "done" =>
       cs[t][m].kind = "read" /\ cs[t][n].kind = "read"

\* Calls that have left the queue and are not over.
Busy(cs, ids) ==
  \A t \in Turn : \A n \in 1..Len(cs[t]) :
     <<t, n>> \in ids => cs[t][n].st \notin {"queued", "done"}

-----------------------------------------------------------------------------
(* Moves of a set of calls *)

LEMMA Moved ==
  ASSUME NEW cs \in Calls, NEW ids, NEW st \in CallState, NEW t \in Turn, NEW n \in Nat
  PROVE  /\ SetCalls(cs, ids, st) \in Calls
         /\ Len(SetCalls(cs, ids, st)[t]) = Len(cs[t]) /\ Len(cs[t]) \in Nat
         /\ n \in 1..Len(cs[t]) =>
              /\ SetCalls(cs, ids, st)[t][n].kind = cs[t][n].kind
              /\ SetCalls(cs, ids, st)[t][n].st = IF <<t, n>> \in ids THEN st ELSE cs[t][n].st
         /\ \A z : In(SetCalls(cs, ids, st), t, n, z) <=>
                     /\ n \in 1..Len(cs[t])
                     /\ z = IF <<t, n>> \in ids THEN st ELSE cs[t][n].st
<1>0. cs \in [Turn -> Seq(CallRecord)] /\ Len(cs[t]) \in Nat
  BY LenProperties DEF Calls
<1> DEFINE r == SetCalls(cs, ids, st)
<1>1. /\ r \in Calls /\ Len(r[t]) = Len(cs[t])
      /\ \A i \in 1..Len(cs[t]) :
            r[t][i] = IF <<t, i>> \in ids THEN [kind |-> cs[t][i].kind, st |-> st] ELSE cs[t][i]
  BY <1>0, SetCallsTyped DEF Calls
<1> HIDE DEF r
<1>2. ASSUME n \in 1..Len(cs[t])
      PROVE  /\ r[t][n].kind = cs[t][n].kind
             /\ r[t][n].st = IF <<t, n>> \in ids THEN st ELSE cs[t][n].st
  <2>1. CASE <<t, n>> \in ids
    <3>1. r[t][n] = [kind |-> cs[t][n].kind, st |-> st]
      BY <1>1, <1>2, <2>1
    <3> QED BY <2>1, <3>1
  <2>2. CASE <<t, n>> \notin ids
    <3>1. r[t][n] = cs[t][n]
      BY <1>1, <1>2, <2>2
    <3> QED BY <2>2, <3>1
  <2> QED BY <2>1, <2>2
<1>3. ASSUME NEW z
      PROVE  In(r, t, n, z) <=> /\ n \in 1..Len(cs[t])
                                /\ z = IF <<t, n>> \in ids THEN st ELSE cs[t][n].st
  BY <1>1, <1>2 DEF In
<1> QED BY <1>0, <1>1, <1>2, <1>3 DEF r

\* A call that is moved elsewhere leaves the set of a state.
LEMMA KeysLeave ==
  ASSUME NEW cs \in Calls, NEW ids, NEW st \in CallState, NEW W, NEW z, st # z,
         Keys(cs, W, z)
  PROVE  Keys(SetCalls(cs, ids, st), W \ ids, z)
<1> SUFFICES ASSUME NEW t \in Turn, NEW n \in Nat
             PROVE  <<t, n>> \in W \ ids <=> In(SetCalls(cs, ids, st), t, n, z)
  BY DEF Keys
<1>1. In(SetCalls(cs, ids, st), t, n, z) <=>
        n \in 1..Len(cs[t]) /\ z = IF <<t, n>> \in ids THEN st ELSE cs[t][n].st
  BY Moved
<1>2. <<t, n>> \in W <=> In(cs, t, n, z)
  BY DEF Keys
<1>3. CASE <<t, n>> \in ids
  BY <1>1, <1>3
<1>4. CASE <<t, n>> \notin ids
  BY <1>1, <1>2, <1>4 DEF In
<1> QED BY <1>3, <1>4

\* One that is moved there joins it.
LEMMA KeysJoin ==
  ASSUME NEW cs \in Calls, NEW z \in CallState, NEW W, Keys(cs, W, z),
         NEW u \in Turn, NEW k \in Nat, k \in 1..Len(cs[u])
  PROVE  Keys(SetCalls(cs, {<<u, k>>}, z), W \cup {<<u, k>>}, z)
<1> DEFINE ids == {<<u, k>>}
<1> SUFFICES ASSUME NEW t \in Turn, NEW n \in Nat
             PROVE  <<t, n>> \in W \cup ids <=> In(SetCalls(cs, ids, z), t, n, z)
  BY DEF Keys
<1>0. ids = {<<u, k>>}
  OBVIOUS
<1> HIDE DEF ids
<1>1. In(SetCalls(cs, ids, z), t, n, z) <=>
        n \in 1..Len(cs[t]) /\ z = IF <<t, n>> \in ids THEN z ELSE cs[t][n].st
  BY Moved
<1>2. <<t, n>> \in W <=> In(cs, t, n, z)
  BY DEF Keys
<1>3. CASE <<t, n>> \in ids
  <2>1. t = u /\ n = k
    BY <1>0, <1>3
  <2> QED BY <1>1, <1>3, <2>1
<1>4. CASE <<t, n>> \notin ids
  BY <1>1, <1>2, <1>4 DEF In
<1> QED BY <1>3, <1>4

\* A move to a state nobody waits in.
LEMMA ResolversLeave ==
  ASSUME NEW cs \in Calls, NEW ids, NEW st \in CallState, NEW A, NEW W,
         st \notin {"approval", "client"}, Resolvers(cs, A, W)
  PROVE  Resolvers(SetCalls(cs, ids, st), A \ ids, W \ ids)
BY KeysLeave DEF Resolvers

\* A call in another state is in neither set, and no call is in both.
LEMMA ResolversApart ==
  ASSUME NEW cs, NEW A, NEW W, Resolvers(cs, A, W)
  PROVE  /\ \A t \in Turn : \A n \in Nat :
              /\ <<t, n>> \in A => <<t, n>> \notin W
              /\ cs[t][n].st # "approval" => <<t, n>> \notin A
              /\ cs[t][n].st # "client" => <<t, n>> \notin W
BY DEF Resolvers, Keys, In

\* A busy call moves on: whatever runs beside it stays what it was.
LEMMA ReadsKept ==
  ASSUME NEW cs \in Calls, NEW ids, NEW st \in CallState, st # "queued",
         ReadsOnly(cs), Busy(cs, ids)
  PROVE  ReadsOnly(SetCalls(cs, ids, st))
<1> DEFINE r == SetCalls(cs, ids, st)
<1> SUFFICES ASSUME NEW t \in Turn, NEW m \in 1..Len(r[t]), NEW n \in 1..Len(r[t]),
                    m < n, r[t][n].st # "queued", r[t][m].st # "done"
             PROVE  r[t][m].kind = "read" /\ r[t][n].kind = "read"
  BY DEF ReadsOnly
<1>1. /\ m \in 1..Len(cs[t]) /\ n \in 1..Len(cs[t]) /\ m \in Nat /\ n \in Nat
      /\ \A i \in 1..Len(cs[t]) :
           /\ r[t][i].kind = cs[t][i].kind
           /\ r[t][i].st = IF <<t, i>> \in ids THEN st ELSE cs[t][i].st
  <2>0. cs \in [Turn -> Seq(CallRecord)]
    BY DEF Calls
  <2>1. Len(r[t]) = Len(cs[t]) /\ Len(cs[t]) \in Nat
    BY <2>0, LenProperties, SetCallsTyped
  <2>2. \A i \in 1..Len(cs[t]) : i \in Nat
    BY <2>1
  <2> QED BY <2>1, <2>2, Moved
<1> HIDE DEF r
<1>2. cs[t][n].st # "queued"
  <2>1. CASE <<t, n>> \in ids
    BY <1>1, <2>1 DEF Busy
  <2>2. CASE <<t, n>> \notin ids
    BY <1>1, <2>2
  <2> QED BY <2>1, <2>2
<1>3. cs[t][m].st # "done"
  <2>1. CASE <<t, m>> \in ids
    BY <1>1, <2>1 DEF Busy
  <2>2. CASE <<t, m>> \notin ids
    BY <1>1, <2>2
  <2> QED BY <2>1, <2>2
<1> QED BY <1>1, <1>2, <1>3 DEF ReadsOnly

-----------------------------------------------------------------------------
(* Steps that move calls *)

ToolInv == Resolvers(calls, approvals, clientWaits) /\ ReadsOnly(calls)

LEMMA CallsKnown ==
  ASSUME Inv
  PROVE  /\ calls \in Calls
         /\ approvals \subseteq Turn \X Nat /\ clientWaits \subseteq Turn \X Nat
<1>1. calls \in Calls
  BY Typed DEF Calls
<1>2. Call \ {Preview} \subseteq Turn \X Nat
  BY TurnAssumption
<1> QED BY <1>1, <1>2 DEF Inv, TypeOK

LEMMA SameTools ==
  ASSUME ToolInv, UNCHANGED <<calls, approvals, clientWaits>> PROVE ToolInv'
BY DEF ToolInv, Resolvers, Keys, In, ReadsOnly

\* Busy calls move on, and whoever waited for them is unregistered.
LEMMA CallsMove ==
  ASSUME Inv, ToolInv, NEW ids, NEW st \in CallState,
         st \notin {"queued", "approval", "client"}, Busy(calls, ids),
         calls' = SetCalls(calls, ids, st),
         approvals' = approvals \ ids, clientWaits' = clientWaits \ ids
  PROVE  ToolInv'
<1>1. Resolvers(SetCalls(calls, ids, st), approvals \ ids, clientWaits \ ids)
  BY CallsKnown, ResolversLeave DEF ToolInv
<1>2. ReadsOnly(SetCalls(calls, ids, st))
  BY CallsKnown, ReadsKept DEF ToolInv
<1>3. Resolvers(calls', approvals', clientWaits')
  BY <1>1
<1>4. ReadsOnly(calls')
  BY <1>2
<1> QED BY <1>3, <1>4 DEF ToolInv, Resolvers, Keys, In, ReadsOnly

LEMMA OneBusy ==
  ASSUME NEW cs, NEW t, NEW n, cs[t][n].st \notin {"queued", "done"}
  PROVE  Busy(cs, {<<t, n>>})
BY DEF Busy

\* One call that waits for nobody moves on.
LEMMA CallMoves ==
  ASSUME Inv, ToolInv, NEW t \in Turn, NEW n \in 1..MaxCalls, NEW st \in CallState,
         st \notin {"queued", "approval", "client"},
         calls[t][n].st \notin {"queued", "done", "approval", "client"},
         calls' = SetCalls(calls, {<<t, n>>}, st), UNCHANGED <<approvals, clientWaits>>
  PROVE  ToolInv'
<1>1. n \in Nat
  BY TurnAssumption
<1>2. <<t, n>> \notin approvals /\ <<t, n>> \notin clientWaits
  BY <1>1, ResolversApart DEF ToolInv
<1>3. Busy(calls, {<<t, n>>})
  BY OneBusy
<1>4. approvals' = approvals \ {<<t, n>>} /\ clientWaits' = clientWaits \ {<<t, n>>}
  BY <1>2
<1> QED BY <1>3, <1>4, CallsMove

\* The waiting calls are busy.
LEMMA WaitersBusy ==
  ASSUME Inv, ToolInv
  PROVE  /\ \A ids : ids \subseteq approvals => Busy(calls, ids)
         /\ \A ids : ids \subseteq clientWaits => Busy(calls, ids)
         /\ approvals \ clientWaits = approvals /\ clientWaits \ approvals = clientWaits
<1>1. ASSUME NEW t \in Turn, NEW n \in 1..Len(calls[t])
      PROVE  /\ <<t, n>> \in approvals => calls[t][n].st = "approval"
             /\ <<t, n>> \in clientWaits => calls[t][n].st = "client"
  <2>1. n \in Nat
    BY Typed
  <2> QED BY <2>1 DEF ToolInv, Resolvers, Keys, In
<1>2. \A ids : /\ ids \subseteq approvals => Busy(calls, ids)
               /\ ids \subseteq clientWaits => Busy(calls, ids)
  BY <1>1 DEF Busy
<1>3. \A c \in approvals : c \notin clientWaits
  <2> SUFFICES ASSUME NEW c \in approvals PROVE c \notin clientWaits
    OBVIOUS
  <2>1. PICK t \in Turn, n \in Nat : c = <<t, n>>
    BY CallsKnown
  <2> QED BY <2>1, ResolversApart DEF ToolInv
<1> QED BY <1>2, <1>3

\* Client tools that a cancellation answers.
LEMMA ClientCallsMove ==
  ASSUME Inv, ToolInv, NEW ids, ids \subseteq clientWaits,
         calls' = SetCalls(calls, ids, "answered"),
         approvals' = approvals, clientWaits' = clientWaits \ ids
  PROVE  ToolInv'
<1>1. "answered" \in CallState
  BY DEF CallState
<1>2. approvals' = approvals \ ids
  BY WaitersBusy
<1> QED BY <1>1, <1>2, WaitersBusy, CallsMove

-----------------------------------------------------------------------------
(* Clients *)

\* The abort denies what waits for the user, and answers what is swept.
LEMMA CancelsTools ==
  ASSUME Inv, ToolInv, NEW t \in Turn, ClientCancels(t) PROVE ToolInv'
<1> DEFINE cs == DenyPending(calls)
<1>0. "denied" \in CallState /\ "answered" \in CallState
  BY DEF CallState
<1>1. cs \in Calls /\ Resolvers(cs, {}, clientWaits) /\ ReadsOnly(cs)
  <2>1. cs = SetCalls(calls, approvals, "denied")
    BY DEF DenyPending
  <2>2. Resolvers(cs, approvals \ approvals, clientWaits \ approvals)
    BY <1>0, <2>1, CallsKnown, ResolversLeave DEF ToolInv
  <2>3. approvals \ approvals = {} /\ clientWaits \ approvals = clientWaits
    BY WaitersBusy
  <2>4. Busy(calls, approvals)
    BY WaitersBusy
  <2>5. ReadsOnly(cs)
    BY <1>0, <2>1, <2>4, CallsKnown, ReadsKept DEF ToolInv
  <2>6. cs \in Calls
    BY <1>0, <2>1, Typed, SetCallsTyped DEF Calls
  <2> QED BY <2>2, <2>3, <2>5, <2>6
<1>2. approvals' = {}
  BY DEF ClientCancels
<1> HIDE DEF cs
<1>3. CASE calls' = cs /\ clientWaits' = clientWaits
  BY <1>1, <1>2, <1>3 DEF ToolInv, Resolvers, Keys, In, ReadsOnly
<1>4. ASSUME NEW ids, ids \subseteq clientWaits, calls' = SetCalls(cs, ids, "answered"),
             clientWaits' = clientWaits \ ids
      PROVE  ToolInv'
  <2>1. Resolvers(SetCalls(cs, ids, "answered"), {} \ ids, clientWaits \ ids)
    BY <1>0, <1>1, ResolversLeave
  <2>2. Busy(cs, ids)
    <3> SUFFICES ASSUME NEW u \in Turn, NEW n \in 1..Len(cs[u]), <<u, n>> \in ids
                 PROVE  cs[u][n].st \notin {"queued", "done"}
      BY DEF Busy
    <3>1. n \in Nat
      BY <1>1, LenProperties DEF Calls
    <3>2. cs[u][n].st = "client"
      BY <1>1, <1>4, <3>1 DEF Resolvers, Keys, In
    <3> QED BY <3>2
  <2>3. ReadsOnly(SetCalls(cs, ids, "answered"))
    BY <1>0, <1>1, <2>2, ReadsKept
  <2>4. approvals' = {} \ ids
    BY <1>2
  <2>5. Resolvers(calls', approvals', clientWaits') /\ ReadsOnly(calls')
    BY <1>4, <2>1, <2>3, <2>4
  <2> QED BY <2>5 DEF ToolInv, Resolvers, Keys, In, ReadsOnly
<1>5. \/ calls' = cs /\ clientWaits' = clientWaits
      \/ \E ids : /\ ids \subseteq clientWaits /\ calls' = SetCalls(cs, ids, "answered")
                  /\ clientWaits' = clientWaits \ ids
  BY DEF ClientCancels, AnsweredBy, cs
<1> QED BY <1>3, <1>4, <1>5

LEMMA ConfirmsTools ==
  ASSUME Inv, ToolInv, NEW c \in Call \ {Preview}, NEW ok \in BOOLEAN, ClientConfirms(c, ok)
  PROVE  ToolInv'
<1>1. clientWaits' = clientWaits
  BY DEF ClientConfirms
<1>2. CASE approvals' = approvals /\ calls' = calls
  BY <1>1, <1>2, SameTools
<1>3. ASSUME c \in approvals, approvals' = approvals \ {c},
             NEW st \in {"approved", "denied"}, calls' = SetCalls(calls, {c}, st)
      PROVE  ToolInv'
  <2>1. st \in CallState /\ st \notin {"queued", "approval", "client"}
    BY <1>3 DEF CallState
  <2>2. clientWaits' = clientWaits \ {c} /\ Busy(calls, {c})
    BY <1>1, <1>3, WaitersBusy
  <2> QED BY <1>3, <2>1, <2>2, CallsMove
<1> QED BY <1>2, <1>3 DEF ClientConfirms

LEMMA AnswersTools ==
  ASSUME Inv, ToolInv, NEW c \in Call \ {Preview}, ClientAnswers(c) PROVE ToolInv'
<1>1. /\ calls' = SetCalls(calls, clientWaits \cap {c}, "answered")
      /\ approvals' = approvals /\ clientWaits' = clientWaits \ (clientWaits \cap {c})
  BY DEF ClientAnswers
<1> QED BY <1>1, ClientCallsMove

-----------------------------------------------------------------------------
(* Runs *)

\* The catch block answers the tracked client tools of a cancelled run.
Swept(cancelled) == IF cancelled THEN AnsweredBy(session, tracked) ELSE {}

LEMMA UnwindAnswers ==
  ASSUME Inv, NEW t \in Turn, NEW cancelled \in BOOLEAN, Unwind(t, session, cancelled)
  PROVE  clientWaits' = clientWaits \ Swept(cancelled) /\ Swept(cancelled) \subseteq clientWaits
<1> DEFINE quiet == SigActivity(session, "none")
<1>1. quiet.turn = session.turn
  BY Typed, SignalKeeps DEF Label
<1>2. clientWaits' = clientWaits \ (IF cancelled THEN AnsweredBy(quiet, tracked) ELSE {})
  BY DEF Unwind
<1> HIDE DEF quiet
<1>3. AnsweredBy(quiet, tracked) = AnsweredBy(session, tracked)
  BY <1>1 DEF AnsweredBy, Routed
<1> QED BY <1>2, <1>3 DEF Swept, AnsweredBy

LEMMA FailsTools ==
  ASSUME Inv, ToolInv, NEW t \in Turn, Fails(t) PROVE ToolInv'
<1>1. PICK cancelled \in BOOLEAN :
        /\ Unwind(t, session, cancelled)
        /\ calls' = SetCalls(calls, Swept(cancelled), "answered")
  BY DEF Fails, Cancels, Swept
<1>2. clientWaits' = clientWaits \ Swept(cancelled) /\ Swept(cancelled) \subseteq clientWaits
  BY <1>1, UnwindAnswers
<1>3. approvals' = approvals
  BY DEF Fails
<1> QED BY <1>1, <1>2, <1>3, ClientCallsMove

\* The calls a run appends wait in its queue, behind everything listed before.
LEMMA AsksTools ==
  ASSUME Inv, ToolInv, NEW t \in Turn, AsksForTools(t) PROVE ToolInv'
<1>0. PICK n \in 1 .. MaxCalls - Len(calls[t]) : \E kinds \in [1..n -> Kinds] :
        calls' = [calls EXCEPT ![t] = calls[t] \o Asked(n, kinds)]
  BY DEF AsksForTools, Asked
<1>1. PICK kinds \in [1..n -> Kinds] :
        calls' = [calls EXCEPT ![t] = calls[t] \o Asked(n, kinds)]
  BY <1>0
<1>2. n \in Nat /\ kinds \in [1..n -> ToolKind] /\ calls \in [Turn -> Seq(CallRecord)]
  BY Typed, TurnAssumption
<1> DEFINE row == calls[t] \o Asked(n, kinds)
<1>3. /\ Len(row) = Len(calls[t]) + n
      /\ \A i \in 1..Len(calls[t]) : row[i] = calls[t][i]
      /\ \A i \in 1..(Len(calls[t]) + n) : i \notin 1..Len(calls[t]) => row[i].st = "queued"
  BY <1>2, AskedTyped
<1>4. /\ calls'[t] = row /\ \A u \in Turn : u # t => calls'[u] = calls[u]
      /\ Len(calls[t]) \in Nat
  BY <1>1, <1>2, Typed
<1>5. UNCHANGED <<approvals, clientWaits>>
  BY DEF AsksForTools, agentVars
<1> HIDE DEF row
<1>6. ASSUME NEW u \in Turn, NEW i \in Nat, NEW z, z # "queued"
      PROVE  In(calls', u, i, z) <=> In(calls, u, i, z)
  <2>1. CASE u # t
    BY <1>4, <2>1 DEF In
  <2>2. CASE u = t
    <3>1. i \in 1..Len(calls[t]) => i \in 1..Len(row)
      BY <1>2, <1>3, <1>4
    <3>2. i \in 1..Len(row) /\ i \notin 1..Len(calls[t]) => row[i].st = "queued"
      BY <1>3
    <3> QED BY <1>3, <1>4, <1>6, <2>2, <3>1, <3>2 DEF In
  <2> QED BY <2>1, <2>2
<1>7. Resolvers(calls', approvals', clientWaits')
  BY <1>5, <1>6 DEF ToolInv, Resolvers, Keys
<1>8. ReadsOnly(calls')
  <2> SUFFICES ASSUME NEW u \in Turn, NEW m \in 1..Len(calls'[u]), NEW k \in 1..Len(calls'[u]),
                      m < k, calls'[u][k].st # "queued", calls'[u][m].st # "done"
               PROVE  calls'[u][m].kind = "read" /\ calls'[u][k].kind = "read"
    BY DEF ReadsOnly
  <2>1. CASE u # t
    BY <1>4, <2>1 DEF ToolInv, ReadsOnly
  <2>2. CASE u = t
    <3>1. k \in 1..Len(calls[t])
      BY <1>3, <1>4, <2>2
    <3>2. m \in 1..Len(calls[t])
      BY <1>3, <1>4, <2>2, <3>1
    <3>3. calls'[u][m] = calls[t][m] /\ calls'[u][k] = calls[t][k]
      BY <1>3, <1>4, <2>2, <3>1, <3>2
    <3>4. calls[t][k].st # "queued" /\ calls[t][m].st # "done"
      BY <3>3
    <3>5. calls[t][m].kind = "read" /\ calls[t][k].kind = "read"
      BY <3>1, <3>2, <3>4 DEF ToolInv, ReadsOnly
    <3> QED BY <3>3, <3>5
  <2> QED BY <2>1, <2>2
<1> QED BY <1>7, <1>8 DEF ToolInv, Resolvers, Keys, In, ReadsOnly

LEMMA LeastOf ==
  ASSUME NEW S, S \subseteq Nat, S # {}
  PROVE  (CHOOSE n \in S : \A m \in S : n <= m) \in S
         /\ \A m \in S : (CHOOSE n \in S : \A k \in S : n <= k) <= m
<1>1. PICK x \in S : \A y \in S : ~(<<y, x>> \in OpToRel(<, Nat))
  BY NatLessThanWellFounded, WFMin
<1>2. ASSUME NEW y \in S PROVE x <= y
  <2>1. x \in Nat /\ y \in Nat
    OBVIOUS
  <2>2. ~(y < x)
    BY <1>1, <2>1 DEF OpToRel
  <2> QED BY <2>1, <2>2
<1> QED BY <1>2

\* The next call, or the row of read-only calls it starts: nothing at work
\* stands before it, and the calls of one row are all read-only.
LEMMA AdmitsToolsOnce ==
  ASSUME Inv, ToolInv, NEW t \in Turn, AdmitsTools(t) PROVE ToolInv'
<1> DEFINE waiting == {n \in 1..Len(calls[t]) : calls[t][n].st = "queued"}
           first == CHOOSE n \in waiting : \A m \in waiting : n <= m
           ids == {<<t, n>> : n \in NextBatch(t)}
<1>1. /\ calls' = SetCalls(calls, ids, "gated") /\ waiting # {} /\ Idle(t)
      /\ UNCHANGED <<approvals, clientWaits>>
  BY DEF AdmitsTools, agentVars
<1>2. NextBatch(t) = {n \in waiting : n = first \/ \A m \in first..n : calls[t][m].kind = "read"}
  BY DEF NextBatch
<1>3. Len(calls[t]) \in Nat /\ calls \in Calls /\ "gated" \in CallState
  BY Typed, CallsKnown DEF CallState
<1>4. first \in waiting /\ \A m \in waiting : first <= m
  <2>1. waiting \subseteq Nat
    BY <1>3
  <2>2. waiting # {}
    BY <1>1
  <2> HIDE DEF waiting
  <2> QED BY <2>1, <2>2, LeastOf
<1> HIDE DEF first
<1>5. \A n \in NextBatch(t) : /\ n \in 1..Len(calls[t]) /\ calls[t][n].st = "queued"
                              /\ n = first \/ \A m \in first..n : calls[t][m].kind = "read"
  BY <1>2
<1>6. \A u \in Turn : \A n : <<u, n>> \in ids <=> u = t /\ n \in NextBatch(t)
  OBVIOUS
<1> HIDE DEF ids
<1>7. Resolvers(calls', approvals', clientWaits')
  <2>1. ASSUME NEW c \in ids PROVE c \notin approvals /\ c \notin clientWaits
    <3>1. PICK n \in NextBatch(t) : c = <<t, n>>
      BY DEF ids
    <3>2. n \in Nat /\ calls[t][n].st = "queued"
      BY <1>3, <1>5
    <3> QED BY <3>1, <3>2, ResolversApart DEF ToolInv
  <2>2. approvals' = approvals \ ids /\ clientWaits' = clientWaits \ ids
    BY <1>1, <2>1
  <2>3. Resolvers(SetCalls(calls, ids, "gated"), approvals \ ids, clientWaits \ ids)
    BY <1>3, ResolversLeave DEF ToolInv
  <2> QED BY <1>1, <2>2, <2>3
<1>8. ReadsOnly(calls')
  <2> SUFFICES ASSUME NEW u \in Turn, NEW m \in 1..Len(calls'[u]), NEW n \in 1..Len(calls'[u]),
                      m < n, calls'[u][n].st # "queued", calls'[u][m].st # "done"
               PROVE  calls'[u][m].kind = "read" /\ calls'[u][n].kind = "read"
    BY DEF ReadsOnly
  <2>0. calls \in [Turn -> Seq(CallRecord)]
    BY Typed
  <2>1. Len(calls'[u]) = Len(calls[u]) /\ Len(calls[u]) \in Nat
    BY <1>1, <1>3, <2>0, LenProperties, SetCallsTyped
  <2>2. m \in 1..Len(calls[u]) /\ n \in 1..Len(calls[u]) /\ m \in Nat /\ n \in Nat
    BY <2>1
  <2>3. \A i \in 1..Len(calls[u]) :
           /\ calls'[u][i].kind = calls[u][i].kind
           /\ calls'[u][i].st = IF <<u, i>> \in ids THEN "gated" ELSE calls[u][i].st
    <3>1. \A i \in 1..Len(calls[u]) : i \in Nat
      BY <2>1
    <3> QED BY <1>1, <1>3, <3>1, Moved
  <2>4. CASE u # t
    BY <1>6, <2>2, <2>3, <2>4 DEF ToolInv, ReadsOnly
  <2>5. CASE u = t
    <3>1. calls[t][m].st # "done"
      <4>1. CASE <<t, m>> \in ids
        BY <1>5, <1>6, <4>1
      <4>2. CASE <<t, m>> \notin ids
        BY <2>2, <2>3, <2>5, <4>2
      <4> QED BY <4>1, <4>2
    <3>2. calls[t][m].st = "queued" /\ m \in waiting
      <4>1. calls[t][m] \in CallRecord
        BY <2>0, <2>2, <2>5, ElementOfSeq
      <4>2. calls[t][m].st \in CallState
        BY <4>1 DEF CallRecord
      <4>3. calls[t][m].st \notin InFlight
        BY <1>1, <2>2, <2>5 DEF Idle
      <4> QED BY <3>1, <4>2, <4>3, <2>2, <2>5 DEF InFlight
    <3>3. CASE n \in NextBatch(t)
      <4>1. first <= m /\ first \in Nat
        BY <1>3, <1>4, <3>2
      <4>2. n # first /\ m \in first..n /\ n \in first..n
        BY <2>2, <4>1
      <4>3. calls[t][m].kind = "read" /\ calls[t][n].kind = "read"
        BY <1>5, <3>3, <4>2
      <4> QED BY <2>2, <2>3, <2>5, <4>3
    <3>4. CASE n \notin NextBatch(t)
      <4>1. calls[t][n].st # "queued"
        BY <1>6, <2>2, <2>3, <2>5, <3>4
      <4>2. calls[t][m].kind = "read" /\ calls[t][n].kind = "read"
        BY <2>2, <2>5, <3>1, <4>1 DEF ToolInv, ReadsOnly
      <4> QED BY <2>2, <2>3, <2>5, <4>2
    <3> QED BY <3>3, <3>4
  <2> QED BY <2>4, <2>5
<1> QED BY <1>7, <1>8 DEF ToolInv, Resolvers, Keys, In, ReadsOnly

-----------------------------------------------------------------------------
(* Tool calls *)

\* A call that waits for nobody takes a step of its own.
LEMMA ToolsMove ==
  ASSUME Inv, ToolInv, NEW t \in Turn, NEW n \in 1..MaxCalls,
         \/ RefusesTool(t, n) \/ OpensGate(t, n) \/ StartsHostTool(t, n)
         \/ RunsSilently(t, n) \/ EndsSilently(t, n)
         \/ SkipsClientTool(t, n) \/ SkipsEdit(t, n) \/ CompletesTool(t, n)
  PROVE  ToolInv'
<1>1. \E st \in {"opened", "running", "silent", "done"} : calls' = SetCalls(calls, {<<t, n>>}, st)
  BY DEF RefusesTool, OpensGate, StartsHostTool, RunsSilently, EndsSilently,
         SkipsClientTool, SkipsEdit, CompletesTool
<1>2. calls[t][n].st \in {"gated", "opened", "silent", "running", "answered", "approved", "denied"}
  BY DEF RefusesTool, OpensGate, StartsHostTool, RunsSilently, EndsSilently,
         SkipsClientTool, SkipsEdit, CompletesTool, CallIs
<1>3. UNCHANGED <<approvals, clientWaits>>
  BY DEF RefusesTool, OpensGate, StartsHostTool, RunsSilently, EndsSilently,
         SkipsClientTool, SkipsEdit, CompletesTool, agentVars
<1>4. {"opened", "running", "silent", "done"} \subseteq CallState
  BY DEF CallState
<1> QED BY <1>1, <1>2, <1>3, <1>4, CallMoves

\* A call starts to wait, and is registered in the same step.
LEMMA StartsWaiting ==
  ASSUME Inv, ToolInv, NEW t \in Turn, NEW n \in 1..MaxCalls, CallIs(t, n, "gated")
  PROVE  /\ Resolvers(SetCalls(calls, {<<t, n>>}, "client"), approvals, clientWaits \cup {<<t, n>>})
         /\ ReadsOnly(SetCalls(calls, {<<t, n>>}, "client"))
         /\ Resolvers(SetCalls(calls, {<<t, n>>}, "approval"), approvals \cup {<<t, n>>}, clientWaits)
         /\ ReadsOnly(SetCalls(calls, {<<t, n>>}, "approval"))
<1> DEFINE c == <<t, n>>
<1>0. /\ calls \in Calls /\ n \in Nat /\ n \in 1..Len(calls[t]) /\ calls[t][n].st = "gated"
      /\ "client" \in CallState /\ "approval" \in CallState
  BY CallsKnown, TurnAssumption DEF CallIs, CallState
<1>1. approvals \ {c} = approvals /\ clientWaits \ {c} = clientWaits
  BY <1>0, ResolversApart DEF ToolInv
<1>2. Busy(calls, {c})
  BY <1>0, OneBusy
<1>3. Keys(calls, approvals, "approval") /\ Keys(calls, clientWaits, "client") /\ ReadsOnly(calls)
  BY DEF ToolInv, Resolvers
<1>4. /\ Keys(SetCalls(calls, {c}, "client"), clientWaits \cup {c}, "client")
      /\ Keys(SetCalls(calls, {c}, "approval"), approvals \cup {c}, "approval")
  BY <1>0, <1>3, KeysJoin
<1>5. Keys(SetCalls(calls, {c}, "client"), approvals \ {c}, "approval")
  BY <1>0, <1>3, KeysLeave
<1>6. Keys(SetCalls(calls, {c}, "approval"), clientWaits \ {c}, "client")
  BY <1>0, <1>3, KeysLeave
<1>7. ReadsOnly(SetCalls(calls, {c}, "client")) /\ ReadsOnly(SetCalls(calls, {c}, "approval"))
  BY <1>0, <1>2, <1>3, ReadsKept
<1> QED BY <1>1, <1>4, <1>5, <1>6, <1>7 DEF Resolvers

LEMMA StartsClientTools ==
  ASSUME Inv, ToolInv, NEW t \in Turn, NEW n \in 1..MaxCalls, StartsClientTool(t, n)
  PROVE  ToolInv'
<1>1. /\ CallIs(t, n, "gated") /\ calls' = SetCalls(calls, {<<t, n>>}, "client")
      /\ approvals' = approvals /\ clientWaits' = clientWaits \cup {<<t, n>>}
  BY DEF StartsClientTool
<1>2. Resolvers(calls', approvals', clientWaits') /\ ReadsOnly(calls')
  BY <1>1, StartsWaiting
<1> QED BY <1>2 DEF ToolInv, Resolvers, Keys, In, ReadsOnly

LEMMA ProposesTools ==
  ASSUME Inv, ToolInv, NEW t \in Turn, NEW n \in 1..MaxCalls, ProposesEdit(t, n)
  PROVE  ToolInv'
<1>1. CallIs(t, n, "gated") /\ clientWaits' = clientWaits
  BY DEF ProposesEdit
<1>2. CASE /\ calls' = SetCalls(calls, {<<t, n>>}, "approval")
           /\ approvals' = approvals \cup {<<t, n>>}
  <2>1. Resolvers(calls', approvals', clientWaits') /\ ReadsOnly(calls')
    BY <1>1, <1>2, StartsWaiting
  <2> QED BY <2>1 DEF ToolInv, Resolvers, Keys, In, ReadsOnly
<1>3. ASSUME NEW st \in {"approved", "denied"}, calls' = SetCalls(calls, {<<t, n>>}, st),
             approvals' = approvals
      PROVE  ToolInv'
  <2>1. st \in CallState /\ calls[t][n].st = "gated"
    BY <1>1, <1>3 DEF CallIs, CallState
  <2> QED BY <1>1, <1>3, <2>1, CallMoves
<1> QED BY <1>2, <1>3 DEF ProposesEdit

\* The run that a failing tool ends answers the tracked client tools first.
LEMMA ThrowsTools ==
  ASSUME Inv, ToolInv, NEW t \in Turn, NEW n \in 1..MaxCalls, ToolThrows(t, n)
  PROVE  ToolInv'
<1> DEFINE c == <<t, n>>
<1>0. /\ n \in Nat /\ n \in 1..Len(calls[t]) /\ "answered" \in CallState /\ "done" \in CallState
      /\ calls[t][n].st \notin {"queued", "done", "approval", "client"}
  BY TurnAssumption DEF ToolThrows, CallState
<1>1. c \notin approvals /\ c \notin clientWaits /\ approvals' = approvals
  BY <1>0, ResolversApart DEF ToolInv, ToolThrows
<1>2. CASE calls' = SetCalls(calls, {c}, "done") /\ clientWaits' = clientWaits
  BY <1>0, <1>1, <1>2, CallMoves
<1>3. ASSUME NEW cancelled \in BOOLEAN, Unwind(t, session, cancelled),
             calls' = SetCalls(SetCalls(calls, Swept(cancelled), "answered"), {c}, "done")
      PROVE  ToolInv'
  <2> DEFINE hits == Swept(cancelled)
             cs == SetCalls(calls, hits, "answered")
  <2>1. clientWaits' = clientWaits \ hits /\ hits \subseteq clientWaits
    BY <1>3, UnwindAnswers
  <2>2. calls' = SetCalls(cs, {c}, "done")
    BY <1>3
  <2> HIDE DEF hits
  <2>3. /\ cs \in Calls /\ cs[t][n].st = calls[t][n].st
    <3>1. cs[t][n].st = IF <<t, n>> \in hits THEN "answered" ELSE calls[t][n].st
      BY <1>0, CallsKnown, Moved
    <3>2. cs \in Calls
      BY <1>0, Typed, SetCallsTyped DEF Calls
    <3> QED BY <1>1, <2>1, <3>1, <3>2
  <2>4. Resolvers(cs, approvals \ hits, clientWaits \ hits)
    BY <1>0, CallsKnown, ResolversLeave DEF ToolInv
  <2>5. ReadsOnly(cs)
    BY <1>0, <2>1, CallsKnown, WaitersBusy, ReadsKept DEF ToolInv
  <2> HIDE DEF cs
  <2>6. Resolvers(calls', (approvals \ hits) \ {c}, (clientWaits \ hits) \ {c})
    BY <1>0, <2>2, <2>3, <2>4, ResolversLeave
  <2>7. ReadsOnly(calls')
    <3>1. Busy(cs, {c})
      BY <1>0, <2>3, OneBusy
    <3> QED BY <1>0, <2>2, <2>3, <2>5, <3>1, ReadsKept
  <2>8. approvals' = (approvals \ hits) \ {c} /\ clientWaits' = (clientWaits \ hits) \ {c}
    BY <1>1, <2>1, WaitersBusy
  <2>9. Resolvers(calls', approvals', clientWaits')
    BY <2>6, <2>8
  <2> QED BY <2>7, <2>9 DEF ToolInv, Resolvers, Keys, In, ReadsOnly
<1>4. \/ calls' = SetCalls(calls, {c}, "done") /\ clientWaits' = clientWaits
      \/ \E cancelled \in BOOLEAN :
           /\ Unwind(t, session, cancelled)
           /\ calls' = SetCalls(SetCalls(calls, Swept(cancelled), "answered"), {c}, "done")
  BY DEF ToolThrows, Cancels, Swept
<1> QED BY <1>2, <1>3, <1>4

-----------------------------------------------------------------------------
LEMMA InitTools == Init => ToolInv
BY EmptySeq DEF Init, ToolInv, Resolvers, Keys, In, ReadsOnly

LEMMA StepTools == Inv /\ ToolInv /\ [Next]_vars => ToolInv'
<1> SUFFICES ASSUME Inv, ToolInv, [Next]_vars PROVE ToolInv'
  OBVIOUS
<1>1. ASSUME NEW t \in Turn, Run(t) PROVE ToolInv'
  <2>1. CASE \/ Prepares(t) \/ Responds(t) \/ StreamsText(t) \/ StreamsReasoning(t)
             \/ AnnouncesTool(t) \/ Continues(t) \/ Concludes(t) \/ RoundEnds(t)
             \/ HandsOff(t) \/ Finishes(t) \/ Retained(t)
    <3>1. UNCHANGED <<calls, approvals, clientWaits>>
      BY <2>1 DEF Prepares, Responds, StreamsText, StreamsReasoning, AnnouncesTool,
                  Continues, Concludes, RoundEnds, HandsOff, Finishes, Retained,
                  agentVars, runVars
    <3> QED BY <3>1, SameTools
  <2> QED BY <1>1, <2>1, FailsTools, AsksTools, AdmitsToolsOnce DEF Run
<1>2. ASSUME NEW t \in Turn, NEW n \in 1..MaxCalls, Tool(t, n) PROVE ToolInv'
  BY <1>2, ToolsMove, StartsClientTools, ProposesTools, ThrowsTools DEF Tool
<1>3. ASSUME NEW t \in Turn, ClientStartTurn(t) PROVE ToolInv'
  BY <1>3, SameTools DEF ClientStartTurn
<1>4. ASSUME NEW m \in Message, ClientQueues(m) \/ ClientUnqueues(m) PROVE ToolInv'
  BY <1>4, SameTools DEF ClientQueues, ClientUnqueues
<1>7. ASSUME NEW pi, ClientReorders(pi) PROVE ToolInv'
  BY <1>7, SameTools DEF ClientReorders
<1>5. CASE ClientStep
  BY <1>3, <1>4, <1>5, <1>7, CancelsTools, ConfirmsTools, AnswersTools DEF ClientStep
<1>6. CASE UNCHANGED vars
  BY <1>6, SameTools DEF vars
<1> QED BY <1>1, <1>2, <1>5, <1>6 DEF Next

LEMMA ToolsInductive == Spec => []ToolInv
<1> QED BY InitTools, StepTools, Inductive, PTL DEF Spec

\* A call that waits for the user or for a client is registered under its id as
\* long as it waits, and no entry outlives its call: whatever aborts, sweeps,
\* thrown siblings and late answers do, it can still be resumed.
THEOREM WaitersCanResume == Spec => []WaitersHaveResolvers
<1>1. Inv /\ ToolInv => WaitersHaveResolvers
  <2> SUFFICES ASSUME Inv, ToolInv, NEW t \in Turn, NEW n \in 1..Len(calls[t])
               PROVE  /\ <<t, n>> \in approvals <=> calls[t][n].st = "approval"
                      /\ <<t, n>> \in clientWaits <=> calls[t][n].st = "client"
    BY DEF WaitersHaveResolvers
  <2>1. n \in Nat
    BY Typed
  <2> QED BY <2>1 DEF ToolInv, Resolvers, Keys, In
<1> QED BY <1>1, Inductive, ToolsInductive, PTL

\* Only read-only tools of a run are ever at work side by side, and no call
\* overtakes one listed before it, for any number of calls in any order.
THEOREM OnlyReadsRunTogether == Spec => []OnlyReadsInParallel
<1>1. ToolInv => OnlyReadsInParallel
  BY DEF ToolInv, ReadsOnly, OnlyReadsInParallel
<1> QED BY <1>1, ToolsInductive, PTL
=============================================================================
