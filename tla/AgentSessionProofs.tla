-------------------------- MODULE AgentSessionProofs --------------------------
(***************************************************************************)
(* What the session shows of the agent's runs, for any number of turns,    *)
(* overlapping runs, queued messages and tool calls: turns are recorded    *)
(* once, a queued message starts one turn and waits only behind a turn     *)
(* that did not finish, the activity line is the one the agent recorded,   *)
(* and an approval the active turn waits for can be answered.              *)
(*                                                                         *)
(* First what the pieces of an action do to a session (a signal, the end   *)
(* of a turn, the start of one), then one lemma per action.                *)
(***************************************************************************)
EXTENDS AgentTurnProofs, FiniteSetTheorems

\* Turns on record were started (X), once each, and none is the active one.
RecordOk(s, X) ==
  /\ s.turn \in X \cup {NoTurn}
  /\ \A i \in 1..Len(s.turns) : s.turns[i].id \in X /\ s.turns[i].id # s.turn
  /\ \A i, j \in 1..Len(s.turns) : i # j => s.turns[i].id # s.turns[j].id

\* The turns a message started, by the record o of what each was started from.
StartedBy(o, m) == {t \in Turn : o[t] = m}

\* No message is queued twice, and each has started as many turns, or waits to
\* start one more, as it was sent (d).
QueueOk(s, o, d) ==
  /\ \A i, j \in 1..Len(s.queue) : i # j => s.queue[i] # s.queue[j]
  /\ \A m \in Message :
        /\ IsFiniteSet(StartedBy(o, m))
        /\ d[m] = Cardinality(StartedBy(o, m)) + (IF Queued(s, m) THEN 1 ELSE 0)

\* The activity shown in a turn is the recorded one (a), and "thinking" is
\* shown between turns too: the agent does not send it again for the next one.
ShownOk(s, a) == s.turn # NoTurn \/ a = "thinking" => s.activity = a

SessionOk(s, a, X, o, d) ==
  s \in SessionType /\ RecordOk(s, X) /\ QueueOk(s, o, d) /\ ShownOk(s, a)

\* The queue of an idle session waits behind a turn that did not complete.
WaitsOk(s) ==
  s.turn = NoTurn /\ s.queue # <<>> =>
    s.turns # <<>> /\ s.turns[Len(s.turns)].end # "Complete"

\* r shows the same turns, queue and activity as s.
SameShown(r, s) ==
  r.turn = s.turn /\ r.turns = s.turns /\ r.queue = s.queue /\ r.activity = s.activity

-----------------------------------------------------------------------------
(* Signals *)

LEMMA ShownSame ==
  ASSUME NEW s, NEW r \in SessionType, NEW a, NEW X, NEW o, NEW d, SessionOk(s, a, X, o, d),
         SameShown(r, s)
  PROVE  SessionOk(r, a, X, o, d)
BY DEF SessionOk, RecordOk, QueueOk, ShownOk, SameShown, Queued

LEMMA SignalsShow ==
  ASSUME NEW s \in SessionType
  PROVE  /\ \A c \in Call : SigStart(s, c) \in SessionType /\ SameShown(SigStart(s, c), s)
         /\ \A c, b : b \in BOOLEAN =>
              SigReady(s, c, b) \in SessionType /\ SameShown(SigReady(s, c, b), s)
         /\ \A cs : SigComplete(s, cs) \in SessionType /\ SameShown(SigComplete(s, cs), s)
<1>1. ASSUME NEW c \in Call
      PROVE  SigStart(s, c) \in SessionType /\ SameShown(SigStart(s, c), s)
  BY ToolCallStartKeeps DEF SigStart, SameButParts, SameShown
<1>2. ASSUME NEW c, NEW b \in BOOLEAN
      PROVE  SigReady(s, c, b) \in SessionType /\ SameShown(SigReady(s, c, b), s)
  BY ToolCallActions, StepsTyped DEF SigReady, ToolCallReady, SameButParts, SameShown
<1>3. ASSUME NEW cs
      PROVE  SigComplete(s, cs) \in SessionType /\ SameShown(SigComplete(s, cs), s)
  <2> DEFINE step == CompleteStep(FALSE)
  <2>1. step \in Step
    BY StepsTyped
  <2>2. SigComplete(s, cs) = s \/ SigComplete(s, cs) = RefreshStatus(UpdateToolCalls(s, s.turn, cs, step))
    BY DEF SigComplete, ToolCallsComplete
  <2> HIDE DEF step
  <2>3. LET r == RefreshStatus(UpdateToolCalls(s, s.turn, cs, step)) IN
        r \in SessionType /\ SameButParts(r, s)
    BY <2>1, ToolCallActions
  <2> QED BY <2>2, <2>3 DEF SameButParts, SameShown
<1> QED BY <1>1, <1>2, <1>3

LEMMA ToolSignals ==
  ASSUME NEW s, NEW a, NEW X, NEW o, NEW d, SessionOk(s, a, X, o, d)
  PROVE  /\ \A c \in Call : SessionOk(SigStart(s, c), a, X, o, d)
         /\ \A c, b : b \in BOOLEAN => SessionOk(SigReady(s, c, b), a, X, o, d)
         /\ \A cs : SessionOk(SigComplete(s, cs), a, X, o, d)
<1>1. s \in SessionType
  BY DEF SessionOk
<1> QED BY <1>1, SignalsShow, ShownSame

\* A label that differs from the recorded one is sent; the same one, or
\* "thinking", is not.
LEMMA ActivitySignal ==
  ASSUME NEW s, NEW X, NEW o, NEW d, SessionOk(s, activity, X, o, d), NEW label \in Label,
         label = activity \/ label # "thinking"
  PROVE  /\ SessionOk(SigActivity(s, label), label, X, o, d)
         /\ SigActivity(s, label).turn = s.turn /\ SigActivity(s, label).turns = s.turns
         /\ SigActivity(s, label).queue = s.queue
<1> DEFINE r == SigActivity(s, label)
<1>1. s \in SessionType
  BY DEF SessionOk
<1>2. CASE s.turn # NoTurn /\ activity # label
  <2>1. r = ActivityChanged(s, label)
    BY <1>2 DEF SigActivity, Routed
  <2>2. TRUE \in BOOLEAN
    OBVIOUS
  <2>3. /\ r \in SessionType /\ r.activity = label /\ r.turn = s.turn
        /\ r.turns = s.turns /\ r.queue = s.queue
    <3> HIDE DEF r
    <3>1. /\ ActivityChanged(s, label) \in SessionType
          /\ SameButInputs(ActivityChanged(s, label), s)
          /\ ActivityChanged(s, label).activity = label
      BY <1>1, <2>2, FlagsKeep
    <3> QED BY <2>1, <3>1 DEF SameButInputs
  <2> HIDE DEF r
  <2>4. SessionOk(r, label, X, o, d)
    BY <2>3 DEF SessionOk, RecordOk, QueueOk, ShownOk, Queued
  <2> QED BY <2>3, <2>4 DEF r
<1>3. CASE s.turn = NoTurn \/ activity = label
  <2>1. r = s
    BY <1>3 DEF SigActivity, Routed
  <2>2. ShownOk(s, label)
    BY <1>3 DEF SessionOk, ShownOk
  <2> QED BY <2>1, <2>2 DEF SessionOk
<1> QED BY <1>2, <1>3

-----------------------------------------------------------------------------
(* The end of a turn *)

LEMMA LastEnd ==
  ASSUME NEW s \in SessionType, NEW t \in Turn, NEW end \in TurnEnd, s.turn = t
  PROVE  /\ EndTurn(s, t, end).turns # <<>>
         /\ EndTurn(s, t, end).turns[Len(EndTurn(s, t, end).turns)].end = end
         /\ EndTurn(s, t, end).turn = NoTurn
<1> DEFINE e == [id |-> t, end |-> end,
                 parts |-> [i \in 1..Len(s.parts) |->
                              [call |-> s.parts[i].call, st |-> SettleStep[s.parts[i].st]]]]
           r == EndTurn(s, t, end)
<1>1. IsActive(s, t)
  BY AbsentValues DEF IsActive
<1>2. r.turns = Append(s.turns, e)
  BY <1>1 DEF EndTurn, SessionType
<1>3. s.turns \in Seq(FinishedTurn) /\ Len(s.turns) \in Nat
  BY LenProperties DEF SessionType
<1>4. Len(Append(s.turns, e)) = Len(s.turns) + 1 /\ Append(s.turns, e)[Len(s.turns) + 1] = e
  BY <1>3, AppendProperties
<1>5. e.end = end
  OBVIOUS
<1> HIDE DEF e
<1>6. Append(s.turns, e) # <<>>
  BY <1>3, <1>4, EmptySeq
<1> QED BY <1>1, <1>2, <1>4, <1>5, <1>6, EndTurnKeeps

LEMMA EndShows ==
  ASSUME NEW s, NEW a, NEW X \in SUBSET Turn, NEW o, NEW d, SessionOk(s, a, X, o, d),
         NEW t \in Turn \cup {NoTurn}, NEW end \in TurnEnd
  PROVE  /\ SessionOk(EndTurn(s, t, end), a, X, o, d)
         /\ WaitsOk(s) /\ end # "Complete" => WaitsOk(EndTurn(s, t, end))
<1> DEFINE r == EndTurn(s, t, end)
<1>1. s \in SessionType /\ s.turns \in Seq(FinishedTurn) /\ Len(s.turns) \in Nat
  BY LenProperties DEF SessionOk, SessionType
<1>2. CASE ~IsActive(s, t)
  <2>1. r = s
    BY <1>1, <1>2, EndTurnKeeps
  <2> QED BY <2>1
<1>3. CASE IsActive(s, t)
  <2>1. t \in Turn /\ s.turn = t
    BY <1>3, <1>1 DEF IsActive
  <2>2. /\ r \in SessionType /\ r.queue = s.queue /\ r.activity = s.activity /\ r.turn = NoTurn
        /\ Len(r.turns) = Len(s.turns) + 1
        /\ \A i \in 1..Len(s.turns) : r.turns[i] = s.turns[i]
        /\ r.turns[Len(s.turns) + 1].id = t
    BY <1>1, <1>3, EndTurnKeeps
  <2>3. r.turns # <<>> /\ r.turns[Len(r.turns)].end = end
    BY <1>1, <2>1, LastEnd
  <2> HIDE DEF r
  <2>4. \A i \in 1..Len(r.turns) : i \in 1..Len(s.turns) \/ i = Len(s.turns) + 1
    BY <1>1, <2>2
  <2>5. t \in X /\ NoTurn \notin X
    BY <2>1, AbsentValues DEF SessionOk, RecordOk
  <2>6. RecordOk(r, X)
    <3>1. \A i \in 1..Len(r.turns) : r.turns[i].id \in X /\ r.turns[i].id # r.turn
      BY <2>2, <2>4, <2>5 DEF SessionOk, RecordOk
    <3>2. ASSUME NEW i \in 1..Len(r.turns), NEW j \in 1..Len(r.turns), i # j
          PROVE  r.turns[i].id # r.turns[j].id
      BY <2>1, <2>2, <2>4, <3>2 DEF SessionOk, RecordOk
    <3> QED BY <2>2, <3>1, <3>2 DEF RecordOk
  <2>7. QueueOk(r, o, d)
    BY <2>2 DEF SessionOk, QueueOk, Queued
  <2>8. ShownOk(r, a)
    BY <2>2 DEF SessionOk, ShownOk
  <2>9. end # "Complete" => WaitsOk(r)
    BY <2>3 DEF WaitsOk
  <2> QED BY <2>2, <2>6, <2>7, <2>8, <2>9 DEF SessionOk, r
<1> QED BY <1>2, <1>3

-----------------------------------------------------------------------------
(* The start of a turn *)

\* The queued message m, if any, starts turn t.
From(o, t, m) == IF m = NoMessage THEN o ELSE [o EXCEPT ![t] = m]

LEMMA BeginFields ==
  ASSUME NEW s \in SessionType, NEW t \in Turn, NEW m \in Message \cup {NoMessage},
         NEW label \in Label, label = "thinking" => s.activity = "thinking"
  PROVE  LET r == BeginTurn(s, t, m, label) IN
         /\ r \in SessionType /\ r.turn = t /\ r.turns = s.turns /\ r.activity = "thinking"
         /\ r.queue = IF m = NoMessage THEN s.queue ELSE Without(s.queue, m)
<1> DEFINE begun == TurnStarted(s, t, m)
           shown == IF label # "thinking" THEN ActivityChanged(begun, "thinking") ELSE begun
           r == TurnStarted(shown, shown.turn, NoMessage)
           q == IF m = NoMessage THEN s.queue ELSE Without(s.queue, m)
<1>1. /\ begun \in SessionType /\ begun.turn = t /\ begun.turns = s.turns
      /\ begun.activity = s.activity /\ begun.queue = q
  BY TurnStartedKeeps
<1> HIDE DEF begun, q
<1>2. /\ shown \in SessionType /\ shown.turn = t /\ shown.turns = s.turns
      /\ shown.activity = "thinking" /\ shown.queue = q
  <2>1. CASE label # "thinking"
    <3>1. TRUE \in BOOLEAN /\ "thinking" \in Label
      BY DEF Label
    <3>2. /\ ActivityChanged(begun, "thinking") \in SessionType
          /\ SameButInputs(ActivityChanged(begun, "thinking"), begun)
          /\ ActivityChanged(begun, "thinking").activity = "thinking"
      BY <1>1, <3>1, FlagsKeep
    <3>3. shown = ActivityChanged(begun, "thinking")
      BY <2>1
    <3> HIDE DEF shown
    <3> QED BY <1>1, <3>2, <3>3 DEF SameButInputs
  <2>2. CASE label = "thinking"
    BY <1>1, <2>2
  <2> QED BY <2>1, <2>2
<1> HIDE DEF shown
<1>3. /\ r \in SessionType /\ r.turn = t /\ r.turns = s.turns
      /\ r.activity = "thinking" /\ r.queue = q
  <2>1. NoMessage \in Message \cup {NoMessage} /\ shown.turn \in Turn
    BY <1>2
  <2>2. /\ r \in SessionType /\ r.turn = shown.turn /\ r.turns = shown.turns
        /\ r.activity = shown.activity /\ r.queue = shown.queue
    BY <1>2, <2>1, TurnStartedKeeps
  <2> HIDE DEF r
  <2> QED BY <1>2, <2>2
<1>4. BeginTurn(s, t, m, label) = r
  BY DEF BeginTurn, shown, begun
<1> HIDE DEF r
<1> QED BY <1>3, <1>4 DEF q

\* Taking m out of a queue leaves the others, in a queue without repetitions.
LEMMA QueueWithout ==
  ASSUME NEW s, NEW r, NEW m, s.queue \in Seq(Message), r.queue = Without(s.queue, m),
         \A i, j \in 1..Len(s.queue) : i # j => s.queue[i] # s.queue[j]
  PROVE  /\ \A i, j \in 1..Len(r.queue) : i # j => r.queue[i] # r.queue[j]
         /\ ~Queued(r, m)
         /\ \A k : k # m => (Queued(r, k) <=> Queued(s, k))
<1>1. LeftOf(r.queue, s.queue, m)
  BY WithoutIsLeft
<1>2. \A j \in 1..Len(s.queue) : s.queue[j] # m =>
         \E i \in 1..Len(r.queue) : r.queue[i] = s.queue[j]
  BY WithoutKeepsOthers
<1> QED BY <1>1, <1>2 DEF LeftOf, Queued

LEMMA BeginShows ==
  ASSUME Inv, NEW s, NEW a \in Label, NEW d, SessionOk(s, a, Started, origin, d),
         NEW t \in Turn, t \notin Started, origin[t] = NoMessage,
         NEW m \in Message \cup {NoMessage}, m # NoMessage => Queued(s, m)
  PROVE  LET r == BeginTurn(s, t, m, a) IN
         SessionOk(r, "thinking", Started \cup {t}, From(origin, t, m), d) /\ r.turn = t
<1> DEFINE r == BeginTurn(s, t, m, a)
           o == origin
           X == Started
           p == From(o, t, m)
<1>0. /\ o \in [Turn -> Message \cup {NoMessage}] /\ X \subseteq Turn
      /\ SessionOk(s, a, X, o, d) /\ t \notin X /\ o[t] = NoMessage
  BY DEF Inv, TypeOK, Started
<1> HIDE DEF o, X
<1>1. /\ s \in SessionType /\ s.turns \in Seq(FinishedTurn) /\ Len(s.turns) \in Nat
      /\ s.queue \in Seq(Message) /\ NoMessage \notin Message /\ NoTurn \notin Turn
  BY <1>0, LenProperties, AbsentValues DEF SessionOk, SessionType
<1>2. /\ r \in SessionType /\ r.turn = t /\ r.turns = s.turns /\ r.activity = "thinking"
      /\ r.queue = IF m = NoMessage THEN s.queue ELSE Without(s.queue, m)
  <2>1. a = "thinking" => s.activity = "thinking"
    BY <1>0 DEF SessionOk, ShownOk
  <2> QED BY <1>1, <2>1, BeginFields
<1> HIDE DEF r
<1>3. RecordOk(r, X \cup {t})
  BY <1>0, <1>1, <1>2 DEF SessionOk, RecordOk
<1>4. QueueOk(r, p, d)
  <2>1. CASE m = NoMessage
    <3>1. r.queue = s.queue /\ p = o
      BY <1>2, <2>1 DEF From
    <3> QED BY <1>0, <3>1 DEF SessionOk, QueueOk, Queued
  <2>2. CASE m # NoMessage
    <3>1. /\ p = [o EXCEPT ![t] = m] /\ r.queue = Without(s.queue, m)
          /\ Queued(s, m) /\ m \in Message
      BY <1>2, <2>2 DEF From
    <3>2. QueueOk(s, o, d)
      BY <1>0 DEF SessionOk
    <3>3. /\ \A i, j \in 1..Len(r.queue) : i # j => r.queue[i] # r.queue[j]
          /\ ~Queued(r, m)
          /\ \A k : k # m => (Queued(r, k) <=> Queued(s, k))
      BY <1>1, <3>1, <3>2, QueueWithout DEF QueueOk
    <3>4. /\ IsFiniteSet(StartedBy(o, m))
          /\ d[m] = Cardinality(StartedBy(o, m)) + 1
      BY <3>1, <3>2 DEF QueueOk
    <3> HIDE DEF p
    <3>5. /\ IsFiniteSet(StartedBy(p, m))
          /\ Cardinality(StartedBy(p, m)) = Cardinality(StartedBy(o, m)) + 1
          /\ \A k \in Message : k # m => StartedBy(p, k) = StartedBy(o, k)
      <4>1. p[t] = m /\ \A u \in Turn : u # t => p[u] = o[u]
        BY <1>0, <3>1
      <4>2. /\ StartedBy(p, m) = StartedBy(o, m) \cup {t} /\ t \notin StartedBy(o, m)
            /\ \A k \in Message : k # m => StartedBy(p, k) = StartedBy(o, k)
        <5>1. o[t] = NoMessage /\ m \in Message /\ NoMessage \notin Message
          BY <1>0, <1>1, <3>1
        <5>2. StartedBy(p, m) = StartedBy(o, m) \cup {t} /\ t \notin StartedBy(o, m)
          BY <4>1, <5>1 DEF StartedBy
        <5>3. \A k \in Message : k # m => StartedBy(p, k) = StartedBy(o, k)
          BY <4>1, <5>1 DEF StartedBy
        <5> QED BY <5>2, <5>3
      <4>3. /\ IsFiniteSet(StartedBy(o, m) \cup {t})
            /\ Cardinality(StartedBy(o, m) \cup {t}) = Cardinality(StartedBy(o, m)) + 1
        BY <3>4, <4>2, FS_AddElement
      <4> QED BY <4>2, <4>3
    <3>6. d[m] = Cardinality(StartedBy(p, m)) + (IF Queued(r, m) THEN 1 ELSE 0)
      <4>1. Cardinality(StartedBy(o, m)) \in Nat
        BY <3>4, FS_CardinalityType
      <4> QED BY <3>3, <3>4, <3>5, <4>1
    <3>7. ASSUME NEW k \in Message, k # m
          PROVE  /\ IsFiniteSet(StartedBy(p, k))
                 /\ d[k] = Cardinality(StartedBy(p, k)) + (IF Queued(r, k) THEN 1 ELSE 0)
      BY <3>2, <3>3, <3>5, <3>7 DEF QueueOk
    <3> QED BY <3>3, <3>5, <3>6, <3>7 DEF QueueOk
  <2> QED BY <2>1, <2>2
<1>5. ShownOk(r, "thinking")
  BY <1>2 DEF ShownOk
<1> QED BY <1>2, <1>3, <1>4, <1>5 DEF SessionOk, r, o, X

-----------------------------------------------------------------------------
(* The steps of clients, host and agent *)

\* What became, at s, of the turn that was active at q: nothing yet, or it
\* ended, and is the last on record.
Stays(q, s) == s.turn = q.turn /\ s.turns = q.turns
Ended(q, s) ==
  /\ q.turn # NoTurn /\ s.turn = NoTurn
  /\ Len(s.turns) = Len(q.turns) + 1 /\ s.turns[Len(q.turns) + 1].id = q.turn
  /\ \A i \in 1..Len(q.turns) : s.turns[i] = q.turns[i]
Leaves(q, s) == Stays(q, s) \/ Ended(q, s)

\* No message is said to have started a turn that has not started.
Unused == \A t \in Turn \ Started : origin[t] = NoMessage

\* s, and activity a, as a step that began at the current session leaves them.
Good(s, a) == SessionOk(s, a, Started, origin, sent) /\ WaitsOk(s) /\ Leaves(session, s) /\ Unused

Shows == Good(session, activity)

\* What the step does to the turns.
Records ==
  LET n == Len(session.turns) IN
  /\ Len(session'.turns) \in n..(n + 1)
  /\ \A i \in 1..n : session'.turns[i] = session.turns[i]
  /\ session.turn \notin {NoTurn, session'.turn} =>
       \/ Len(session'.turns) = n + 1 /\ session'.turns[n + 1].id = session.turn
       \/ Overlap /\ session'.turn # NoTurn /\ origin'[session'.turn] = NoMessage

\* Only an active turn ends, and after that there is none.
LEMMA LeavesEnd ==
  ASSUME NEW q, NEW s \in SessionType, Leaves(q, s), NEW t \in Turn \cup {NoTurn}, NEW end \in TurnEnd
  PROVE  Leaves(q, EndTurn(s, t, end))
<1>1. PICK e : e = EndTurn(s, t, end)
  OBVIOUS
<1>2. CASE ~IsActive(s, t)
  BY <1>1, <1>2, EndTurnKeeps
<1>3. CASE IsActive(s, t)
  <2>1. /\ e.turn = NoTurn /\ Len(e.turns) = Len(s.turns) + 1 /\ e.turns[Len(s.turns) + 1].id = t
        /\ \A i \in 1..Len(s.turns) : e.turns[i] = s.turns[i]
    BY <1>1, <1>3, EndTurnKeeps
  <2>2. s.turn = t /\ t # NoTurn
    BY <1>3 DEF IsActive
  <2> QED BY <1>1, <2>1, <2>2 DEF Leaves, Stays, Ended
<1> QED BY <1>2, <1>3

LEMMA LeavesRecords ==
  ASSUME Inv, NEW s, Leaves(session, s), session'.turns = s.turns,
         \/ session'.turn = s.turn
         \/ s.turn = NoTurn
         \/ Overlap /\ s = session /\ session'.turn # NoTurn /\ origin'[session'.turn] = NoMessage
  PROVE  Records
<1>1. session.turns \in Seq(FinishedTurn)
  BY Typed DEF SessionType
<1>2. Len(session.turns) \in Nat
  BY <1>1, LenProperties
<1>3. CASE Stays(session, s)
  BY <1>2, <1>3 DEF Stays, Records
<1>4. CASE Ended(session, s)
  BY <1>2, <1>4 DEF Ended, Records
<1> QED BY <1>3, <1>4 DEF Leaves

LEMMA KnownShows ==
  ASSUME Inv
  PROVE  /\ origin \in [Turn -> Message \cup {NoMessage}] /\ activity \in Label
         /\ Started \in SUBSET Turn /\ pc \in [Turn -> RunState]
BY DEF Inv, TypeOK, Started

LEMMA GoodSame ==
  ASSUME NEW s, NEW r \in SessionType, NEW a, Good(s, a), SameShown(r, s) PROVE Good(r, a)
BY ShownSame DEF Good, WaitsOk, SameShown, Leaves, Stays, Ended

LEMMA GoodSignals ==
  ASSUME NEW s, NEW a, Good(s, a)
  PROVE  /\ s \in SessionType
         /\ \A c \in Call : Good(SigStart(s, c), a)
         /\ \A c, b : b \in BOOLEAN => Good(SigReady(s, c, b), a)
         /\ \A cs : Good(SigComplete(s, cs), a)
<1>1. s \in SessionType
  BY DEF Good, SessionOk
<1> QED BY <1>1, SignalsShow, GoodSame

LEMMA GoodActivity ==
  ASSUME NEW s, Good(s, activity), NEW label \in Label,
         label = activity \/ label # "thinking"
  PROVE  Good(SigActivity(s, label), label)
<1>1. SessionOk(s, activity, Started, origin, sent)
  BY DEF Good
<1> DEFINE r == SigActivity(s, label)
<1>2. /\ SessionOk(r, label, Started, origin, sent)
      /\ r.turn = s.turn /\ r.turns = s.turns /\ r.queue = s.queue
  BY <1>1, ActivitySignal
<1> HIDE DEF r
<1>3. WaitsOk(r)
  BY <1>2 DEF Good, WaitsOk
<1>4. Leaves(session, r)
  BY <1>2 DEF Good, Leaves, Stays, Ended
<1> QED BY <1>2, <1>3, <1>4 DEF Good, r

LEMMA GoodEnd ==
  ASSUME Inv, NEW s, NEW a, Good(s, a), NEW end \in TurnEnd, end # "Complete"
  PROVE  /\ \A t \in Turn : Good(EndTurn(s, t, end), a)
         /\ Good(SigEnd(s, end), a)
<1>1. SessionOk(s, a, Started, origin, sent) /\ WaitsOk(s) /\ Started \in SUBSET Turn
  BY KnownShows DEF Good
<1>2. ASSUME NEW t \in Turn \cup {NoTurn} PROVE Good(EndTurn(s, t, end), a)
  <2>1. s \in SessionType /\ Leaves(session, s) /\ Unused
    BY DEF Good, SessionOk
  <2>2. Leaves(session, EndTurn(s, t, end))
    BY <2>1, LeavesEnd
  <2>3. SessionOk(EndTurn(s, t, end), a, Started, origin, sent) /\ WaitsOk(EndTurn(s, t, end))
    BY <1>1, EndShows
  <2> QED BY <2>1, <2>2, <2>3 DEF Good
<1>3. s.turn \in Turn \cup {NoTurn}
  BY <1>1 DEF SessionOk, SessionType
<1> QED BY <1>2, <1>3 DEF SigEnd

\* A step that starts no turn.
LEMMA GoodStep ==
  ASSUME Inv, NEW r, NEW a, Good(r, a), session' = r, activity' = a,
         origin' = origin, sent' = sent,
         \A t \in Turn : pc[t] # "idle" => pc'[t] # "idle"
  PROVE  Shows' /\ Records
<1>1. Started \subseteq Started'
  BY DEF Started
<1>2. RecordOk(r, Started')
  BY <1>1 DEF Good, SessionOk, RecordOk
<1>3. SessionOk(r, a, Started', origin', sent')
  BY <1>2 DEF Good, SessionOk
<1>4. SessionOk(session', activity', Started', origin', sent') /\ WaitsOk(session')
  BY <1>3 DEF Good
<1>5. Unused' /\ Leaves(session', session')
  BY <1>1 DEF Good, Unused, Leaves, Stays
<1>6. Records
  BY LeavesRecords DEF Good
<1> QED BY <1>4, <1>5, <1>6 DEF Shows, Good

\* A step that starts turn t, from the session s left so far.
LEMMA BeginStep ==
  ASSUME Inv, NEW s, NEW label \in Label, SessionOk(s, label, Started, origin, sent'),
         NEW t \in Turn, t \notin Started,
         NEW m \in Message \cup {NoMessage}, m # NoMessage => Queued(s, m),
         session' = BeginTurn(s, t, m, label), activity' = "thinking",
         origin' = From(origin, t, m),
         \A u \in Turn : pc'[u] # "idle" <=> pc[u] # "idle" \/ u = t,
         Unused, Leaves(session, s), s.turn = NoTurn \/ (Overlap /\ s = session /\ m = NoMessage)
  PROVE  Shows' /\ Records
<1>1. Started' = Started \cup {t}
  BY DEF Started
<1> DEFINE r == BeginTurn(s, t, m, label)
<1>6. origin \in [Turn -> Message \cup {NoMessage}] /\ origin[t] = NoMessage
  BY KnownShows DEF Unused
<1>2. SessionOk(r, "thinking", Started \cup {t}, From(origin, t, m), sent') /\ r.turn = t
  BY <1>6, BeginShows
<1> HIDE DEF r
<1>3. WaitsOk(r)
  BY <1>2, AbsentValues DEF WaitsOk
<1>4. session' = r
  BY DEF r
<1>5. SessionOk(session', activity', Started', origin', sent') /\ WaitsOk(session')
  BY <1>1, <1>2, <1>3, <1>4
<1>7. Unused' /\ Leaves(session', session')
  BY <1>1, <1>6 DEF Unused, From, Leaves, Stays
<1>8. session'.turn = t /\ t # NoTurn
  BY <1>2, <1>4, AbsentValues
<1>9. m = NoMessage => origin'[t] = NoMessage
  BY <1>6 DEF From
<1>10. session'.turns = s.turns
  <2>1. s \in SessionType /\ (label = "thinking" => s.activity = "thinking")
    BY DEF SessionOk, ShownOk
  <2> QED BY <2>1, BeginFields
<1>11. Records
  BY <1>8, <1>9, <1>10, LeavesRecords
<1> QED BY <1>5, <1>7, <1>11 DEF Shows, Good

-----------------------------------------------------------------------------
(* Clients *)

LEMMA StartShows ==
  ASSUME Inv, Shows, NEW t \in Turn, ClientStartTurn(t) PROVE Shows' /\ Records
<1>1. /\ t \notin Started /\ session' = BeginTurn(session, t, NoMessage, activity)
      /\ activity' = "thinking" /\ pc' = [pc EXCEPT ![t] = "prepare"]
      /\ origin' = From(origin, t, NoMessage) /\ sent' = sent
  BY DEF ClientStartTurn, From, recordVars
<1>2. \A u \in Turn : pc'[u] # "idle" <=> pc[u] # "idle" \/ u = t
  BY <1>1, KnownShows
<1>3. SessionOk(session, activity, Started, origin, sent) /\ NoMessage \in Message \cup {NoMessage}
  BY DEF Shows, Good
<1>4. Unused /\ Leaves(session, session) /\ (session.turn = NoTurn \/ Overlap)
  BY DEF Shows, Good, ClientStartTurn
<1> QED BY <1>1, <1>2, <1>3, <1>4, KnownShows, BeginStep

LEMMA HeadQueued ==
  ASSUME NEW s \in SessionType, s.queue # <<>>
  PROVE  s.queue[1] \in Message /\ s.queue[1] # NoMessage /\ Queued(s, s.queue[1])
<1>1. s.queue \in Seq(Message) /\ Len(s.queue) \in Nat
  BY LenProperties DEF SessionType
<1>2. Len(s.queue) # 0
  BY <1>1, EmptySeq
<1>3. 1 \in 1..Len(s.queue)
  BY <1>1, <1>2
<1>4. s.queue[1] \in Message
  BY QueueHead
<1> QED BY <1>3, <1>4, AbsentValues DEF Queued

\* The queue of an idle session is consumed with the step that changes it.
LEMMA SyncShows ==
  ASSUME Inv, NEW s, SessionOk(s, activity, Started, origin, sent'), Unused,
         Stays(session, s), SyncPending(s)
  PROVE  Shows' /\ Records
<1>1. CASE ~Consumes(s) /\ session' = s /\ UNCHANGED <<active, activity, tracked, pc, origin>>
  <2>1. WaitsOk(s)
    BY <1>1 DEF Consumes, WaitsOk
  <2>2. Started' = Started /\ Unused'
    BY <1>1 DEF Started, Unused
  <2>3. SessionOk(session', activity', Started', origin', sent') /\ WaitsOk(session')
    BY <1>1, <2>1, <2>2
  <2>4. Leaves(session', session') /\ Leaves(session, s)
    BY DEF Leaves, Stays
  <2>5. Records
    BY <1>1, <2>4, LeavesRecords
  <2> QED BY <2>2, <2>3, <2>4, <2>5 DEF Shows, Good
<1>2. ASSUME NEW t \in Turn, Consumes(s), ConsumeNext(s, t, activity), activity' = "thinking",
             pc' = [pc EXCEPT ![t] = "prepare"]
      PROVE  Shows' /\ Records
  <2>1. s \in SessionType /\ s.queue # <<>>
    BY <1>2 DEF Consumes, SessionOk
  <2>2. s.queue[1] \in Message /\ s.queue[1] # NoMessage /\ Queued(s, s.queue[1])
    BY <2>1, HeadQueued
  <2>3. /\ t \notin Started /\ session' = BeginTurn(s, t, s.queue[1], activity)
        /\ origin' = From(origin, t, s.queue[1])
    BY <1>2, <2>2 DEF ConsumeNext, From
  <2>4. \A u \in Turn : pc'[u] # "idle" <=> pc[u] # "idle" \/ u = t
    BY <1>2, KnownShows
  <2>5. Leaves(session, s) /\ s.turn = NoTurn
    BY <1>2 DEF Leaves, Consumes
  <2> QED BY <1>2, <2>2, <2>3, <2>4, <2>5, KnownShows, BeginStep
<1> QED BY <1>1, <1>2 DEF SyncPending

\* A change of the queue alone.
LEMMA QueueChangeShows ==
  ASSUME Inv, Shows, NEW s \in SessionType, SameButPending(s, session),
         QueueOk(s, origin, sent'), SyncPending(s)
  PROVE  Shows' /\ Records
<1>1. SessionOk(session, activity, Started, origin, sent)
  BY DEF Shows, Good
<1>2. SessionOk(s, activity, Started, origin, sent')
  BY <1>1 DEF SessionOk, RecordOk, ShownOk, SameButPending
<1>3. Unused /\ Stays(session, s)
  BY DEF Shows, Good, Stays, SameButPending
<1> QED BY <1>2, <1>3, SyncShows

LEMMA QueuesShows ==
  ASSUME Inv, Shows, NEW m \in Message, ClientQueues(m) PROVE Shows' /\ Records
<1> DEFINE s == PendingMessageSet(session, "Queued", m)
<1>1. /\ session \in SessionType /\ session.queue \in Seq(Message) /\ Len(session.queue) \in Nat
      /\ SyncPending(s) /\ QueueOk(session, origin, sent) /\ sent \in [Message -> Int]
      /\ sent' = IF Queued(session, m) THEN sent ELSE [sent EXCEPT ![m] = @ + 1]
  BY Typed, LenProperties DEF SessionType, ClientQueues, Shows, Good, SessionOk, Inv, TypeOK
<1>2. /\ s \in SessionType /\ SameButPending(s, session)
      /\ s.queue = IF Queued(session, m) THEN session.queue ELSE Append(session.queue, m)
  BY <1>1, PendingMessageSetKeeps
<1> HIDE DEF s
<1>3. CASE Queued(session, m)
  <2>1. QueueOk(s, origin, sent')
    BY <1>1, <1>2, <1>3 DEF QueueOk, Queued
  <2> QED BY <1>1, <1>2, <2>1, QueueChangeShows
<1>4. CASE ~Queued(session, m)
  <2>1. /\ Len(s.queue) = Len(session.queue) + 1 /\ s.queue[Len(session.queue) + 1] = m
        /\ \A i \in 1..Len(session.queue) : s.queue[i] = session.queue[i]
    BY <1>1, <1>2, <1>4, AppendProperties
  <2>2. \A i \in 1..Len(s.queue) : i \in 1..Len(session.queue) \/ i = Len(session.queue) + 1
    BY <1>1, <2>1
  <2>3. \A i, j \in 1..Len(s.queue) : i # j => s.queue[i] # s.queue[j]
    <3>1. \A i, j \in 1..Len(session.queue) : i # j => session.queue[i] # session.queue[j]
      BY <1>1 DEF QueueOk
    <3>2. \A i \in 1..Len(session.queue) : session.queue[i] # m
      BY <1>4 DEF Queued
    <3> QED BY <2>1, <2>2, <3>1, <3>2
  <2>4. Queued(s, m) /\ \A k : k # m => (Queued(s, k) <=> Queued(session, k))
    <3>1. Len(session.queue) + 1 \in 1..Len(s.queue)
          /\ \A i \in 1..Len(session.queue) : i \in 1..Len(s.queue)
      BY <1>1, <2>1
    <3>2. Queued(s, m)
      BY <2>1, <3>1 DEF Queued
    <3>3. \A k : Queued(session, k) => Queued(s, k)
      BY <2>1, <3>1 DEF Queued
    <3>4. \A k : k # m /\ Queued(s, k) => Queued(session, k)
      BY <2>1, <2>2 DEF Queued
    <3> QED BY <3>2, <3>3, <3>4
  <2>5. sent'[m] = sent[m] + 1 /\ \A k \in Message : k # m => sent'[k] = sent[k]
    BY <1>1, <1>4
  <2>6. ASSUME NEW k \in Message
        PROVE  /\ IsFiniteSet(StartedBy(origin, k))
               /\ sent'[k] = Cardinality(StartedBy(origin, k)) + (IF Queued(s, k) THEN 1 ELSE 0)
    <3>1. /\ IsFiniteSet(StartedBy(origin, k))
          /\ sent[k] = Cardinality(StartedBy(origin, k)) + (IF Queued(session, k) THEN 1 ELSE 0)
      BY <1>1 DEF QueueOk
    <3>2. Cardinality(StartedBy(origin, k)) \in Nat
      BY <3>1, FS_CardinalityType
    <3>3. CASE k = m
      BY <1>4, <2>4, <2>5, <3>1, <3>2, <3>3
    <3>4. CASE k # m
      BY <2>4, <2>5, <3>1, <3>4
    <3> QED BY <3>3, <3>4
  <2>7. QueueOk(s, origin, sent')
    BY <2>3, <2>6 DEF QueueOk
  <2> QED BY <1>1, <1>2, <2>7, QueueChangeShows
<1> QED BY <1>3, <1>4

LEMMA UnqueuesShows ==
  ASSUME Inv, Shows, NEW m \in Message, ClientUnqueues(m) PROVE Shows' /\ Records
<1> DEFINE s == PendingMessageRemoved(session, "Queued", m)
<1>1. /\ session \in SessionType /\ session.queue \in Seq(Message) /\ Queued(session, m)
      /\ SyncPending(s) /\ QueueOk(session, origin, sent) /\ sent \in [Message -> Int]
      /\ sent' = [sent EXCEPT ![m] = @ - 1]
  BY Typed DEF SessionType, ClientUnqueues, Shows, Good, SessionOk, Inv, TypeOK
<1>2. s \in SessionType /\ SameButPending(s, session) /\ s.queue = Without(session.queue, m)
  BY <1>1, PendingMessageRemovedKeeps
<1> HIDE DEF s
<1>3. /\ \A i, j \in 1..Len(s.queue) : i # j => s.queue[i] # s.queue[j]
      /\ ~Queued(s, m)
      /\ \A k : k # m => (Queued(s, k) <=> Queued(session, k))
  BY <1>1, <1>2, QueueWithout DEF QueueOk
<1>4. sent'[m] = sent[m] - 1 /\ \A k \in Message : k # m => sent'[k] = sent[k]
  BY <1>1
<1>5. ASSUME NEW k \in Message
      PROVE  /\ IsFiniteSet(StartedBy(origin, k))
             /\ sent'[k] = Cardinality(StartedBy(origin, k)) + (IF Queued(s, k) THEN 1 ELSE 0)
  <2>1. /\ IsFiniteSet(StartedBy(origin, k))
        /\ sent[k] = Cardinality(StartedBy(origin, k)) + (IF Queued(session, k) THEN 1 ELSE 0)
    BY <1>1 DEF QueueOk
  <2>2. Cardinality(StartedBy(origin, k)) \in Nat
    BY <2>1, FS_CardinalityType
  <2>3. CASE k = m
    BY <1>1, <1>3, <1>4, <2>1, <2>2, <2>3
  <2>4. CASE k # m
    BY <1>3, <1>4, <2>1, <2>4
  <2> QED BY <2>3, <2>4
<1>6. QueueOk(s, origin, sent')
  BY <1>3, <1>5 DEF QueueOk
<1> QED BY <1>1, <1>2, <1>6, QueueChangeShows

\* A list without repetitions that names n positions of n names them all.
LEMMA PermutationOnto ==
  ASSUME NEW n \in Nat, NEW pi \in Permutation(n)
  PROVE  \A j \in 1..n : \E i \in 1..n : pi[i] = j
<1>1. pi \in Injection(1..n, 1..n)
  BY DEF Permutation, Injection, IsInjective
<1>2. IsFiniteSet(1..n)
  BY FS_Interval
<1>3. pi \in Surjection(1..n, 1..n)
  BY <1>1, <1>2, FS_Injection
<1> QED BY <1>3 DEF Surjection

LEMMA ReordersShow ==
  ASSUME Inv, Shows, NEW pi \in Permutation(Len(session.queue)), ClientReorders(pi)
  PROVE  Shows' /\ Records
<1> DEFINE s == QueuedMessagesReordered(session, pi)
<1>1. /\ session \in SessionType /\ Len(session.queue) \in Nat /\ SyncPending(s)
      /\ QueueOk(session, origin, sent) /\ sent' = sent
  BY Typed, LenProperties DEF SessionType, ClientReorders, Shows, Good, SessionOk
<1>2. /\ pi \in [1..Len(session.queue) -> 1..Len(session.queue)]
      /\ \A i, j \in 1..Len(session.queue) : i # j => pi[i] # pi[j]
  BY DEF Permutation
<1>3. /\ s \in SessionType /\ SameButPending(s, session) /\ Len(s.queue) = Len(session.queue)
      /\ \A i \in 1..Len(session.queue) : s.queue[i] = session.queue[pi[i]]
  BY <1>1, <1>2, ReorderedKeeps
<1> HIDE DEF s
<1>4. \A j \in 1..Len(session.queue) : \E i \in 1..Len(session.queue) : pi[i] = j
  BY <1>1, PermutationOnto
<1>5. ASSUME NEW m PROVE Queued(s, m) <=> Queued(session, m)
  <2>1. ASSUME NEW i \in 1..Len(s.queue), s.queue[i] = m PROVE Queued(session, m)
    <3>1. pi[i] \in 1..Len(session.queue) /\ session.queue[pi[i]] = m
      BY <1>2, <1>3, <2>1
    <3> QED BY <3>1 DEF Queued
  <2>2. ASSUME NEW j \in 1..Len(session.queue), session.queue[j] = m PROVE Queued(s, m)
    <3>1. PICK i \in 1..Len(session.queue) : pi[i] = j
      BY <1>4
    <3>2. i \in 1..Len(s.queue) /\ s.queue[i] = m
      BY <1>3, <2>2, <3>1
    <3> QED BY <3>2 DEF Queued
  <2> QED BY <2>1, <2>2 DEF Queued
<1>6. \A i, j \in 1..Len(s.queue) : i # j => s.queue[i] # s.queue[j]
  <2>1. \A i, j \in 1..Len(session.queue) : i # j => session.queue[i] # session.queue[j]
    BY <1>1 DEF QueueOk
  <2>2. \A i \in 1..Len(s.queue) : pi[i] \in 1..Len(session.queue)
    BY <1>2, <1>3
  <2>3. ASSUME NEW i \in 1..Len(s.queue), NEW j \in 1..Len(s.queue), i # j
        PROVE  s.queue[i] # s.queue[j]
    <3>1. i \in 1..Len(session.queue) /\ j \in 1..Len(session.queue)
      BY <1>3, <2>3
    <3>2. pi[i] # pi[j] /\ s.queue[i] = session.queue[pi[i]] /\ s.queue[j] = session.queue[pi[j]]
      BY <1>2, <1>3, <2>3, <3>1
    <3> QED BY <2>1, <2>2, <2>3, <3>2
  <2> QED BY <2>3
<1>7. QueueOk(s, origin, sent')
  BY <1>1, <1>5, <1>6 DEF QueueOk
<1> QED BY <1>1, <1>3, <1>7, QueueChangeShows

LEMMA CancelsShows ==
  ASSUME Inv, Shows, NEW t \in Turn, ClientCancels(t) PROVE Shows' /\ Records
<1> DEFINE ended == EndTurn(session, t, "Cancelled")
           swept == IF tracked # {} THEN SigComplete(ended, tracked) ELSE ended
           quiet == SigActivity(swept, "none")
           final == SigEnd(quiet, "Cancelled")
<1>0. "Cancelled" \in TurnEnd /\ "Cancelled" # "Complete" /\ "none" \in Label
  BY DEF TurnEnd, Label
<1>1. Good(ended, activity)
  BY <1>0, GoodEnd DEF Shows
<1>2. Good(swept, activity)
  BY <1>1, GoodSignals
<1>3. Good(quiet, "none")
  BY <1>0, <1>2, GoodActivity
<1>4. Good(final, "none")
  BY <1>0, <1>3, GoodEnd
<1>5. /\ \/ session' = final /\ activity' = "none"
         \/ session' = ended /\ activity' = activity
      /\ origin' = origin /\ sent' = sent /\ pc' = pc
  BY DEF ClientCancels, recordVars
<1> HIDE DEF final, ended
<1> QED BY <1>1, <1>4, <1>5, GoodStep

LEMMA ConfirmsShows ==
  ASSUME Inv, Shows, NEW c \in Call \ {Preview}, NEW ok \in BOOLEAN, ClientConfirms(c, ok)
  PROVE  Shows' /\ Records
<1> DEFINE r == ToolCallConfirmed(session, session.turn, c, ok)
<1>1. r \in SessionType /\ SameShown(r, session)
  BY Typed, ToolCallActions, StepsTyped DEF ToolCallConfirmed, SameButParts, SameShown
<1>2. session' = r /\ UNCHANGED <<activity, origin, sent, pc>>
  BY DEF ClientConfirms
<1> HIDE DEF r
<1>3. Good(r, activity)
  BY <1>1, GoodSame DEF Shows
<1> QED BY <1>2, <1>3, GoodStep

LEMMA AnswersShows ==
  ASSUME Inv, Shows, NEW c \in Call \ {Preview}, ClientAnswers(c) PROVE Shows' /\ Records
<1> DEFINE step == CompleteStep(FALSE)
           r == RefreshStatus(UpdateToolCalls(session, session.turn, {c}, step))
<1>1. step \in Step
  BY StepsTyped
<1>2. session' = r /\ UNCHANGED <<activity, origin, sent, pc>>
  BY DEF ClientAnswers, ToolCallsComplete, recordVars
<1> HIDE DEF step
<1>3. r \in SessionType /\ SameShown(r, session)
  BY <1>1, Typed, ToolCallActions DEF SameButParts, SameShown
<1> HIDE DEF r
<1>4. Good(r, activity)
  BY <1>3, GoodSame DEF Shows
<1> QED BY <1>2, <1>4, GoodStep

-----------------------------------------------------------------------------
(* Runs *)

LEMMA UnwindShows ==
  ASSUME Inv, Shows, NEW t \in Turn, NEW cancelled \in BOOLEAN,
         Unwind(t, session, cancelled), origin' = origin, sent' = sent
  PROVE  Shows' /\ Records
<1> DEFINE quiet == SigActivity(session, "none")
           swept == IF cancelled /\ tracked # {} THEN SigComplete(quiet, tracked) ELSE quiet
           final == SigEnd(swept, IF cancelled THEN "Cancelled" ELSE "Error")
<1>1. Good(quiet, "none")
  BY GoodActivity DEF Shows, Label
<1>2. Good(swept, "none")
  BY <1>1, GoodSignals
<1>3. Good(final, "none")
  BY <1>2, GoodEnd DEF TurnEnd
<1>4. /\ session' \in {swept, final} /\ activity' = "none"
      /\ \E x \in {"retain", "done"} : pc' = [pc EXCEPT ![t] = x]
  BY DEF Unwind
<1>5. \A u \in Turn : pc[u] # "idle" => pc'[u] # "idle"
  BY <1>4, KnownShows
<1> HIDE DEF swept, final
<1> QED BY <1>2, <1>3, <1>4, <1>5, GoodStep

LEMMA RetainedShows ==
  ASSUME Inv, Shows, NEW t \in Turn, Retained(t) PROVE Shows' /\ Records
<1> DEFINE r == SigEnd(session, "Cancelled")
<1>1. Good(r, activity)
  BY GoodEnd DEF Shows, TurnEnd
<1>2. session' = r /\ UNCHANGED <<activity, origin, sent>> /\ pc' = [pc EXCEPT ![t] = "done"]
  BY DEF Retained, recordVars
<1>3. \A u \in Turn : pc[u] # "idle" => pc'[u] # "idle"
  BY <1>2, KnownShows
<1> HIDE DEF r
<1> QED BY <1>1, <1>2, <1>3, GoodStep

\* A turn that completes starts the next message in the same step, if there is
\* one: nothing is left waiting behind it.
LEMMA FinishesShows ==
  ASSUME Inv, Shows, NEW t \in Turn, Finishes(t) PROVE Shows' /\ Records
<1> DEFINE label == IF pc[t] = "fastlane" THEN "none" ELSE activity
           quiet == SigActivity(session, label)
           ended == SigEnd(quiet, "Complete")
<1>0. label \in Label /\ (label = activity \/ label # "thinking") /\ "Complete" \in TurnEnd
  BY KnownShows DEF Label, TurnEnd
<1> HIDE DEF label
<1>1. Good(quiet, label)
  BY <1>0, GoodActivity DEF Shows
<1>2. SessionOk(ended, label, Started, origin, sent)
  <2>1. quiet.turn \in Turn \cup {NoTurn} /\ Started \in SUBSET Turn
        /\ SessionOk(quiet, label, Started, origin, sent)
    BY <1>1, KnownShows DEF Good, SessionOk, SessionType
  <2> HIDE DEF quiet
  <2> QED BY <1>0, <2>1, EndShows DEF SigEnd
<1>5. Leaves(session, ended) /\ Unused
  <2>1. /\ quiet \in SessionType /\ quiet.turn \in Turn \cup {NoTurn}
        /\ Leaves(session, quiet) /\ Unused
    BY <1>1 DEF Good, SessionOk, SessionType
  <2> HIDE DEF quiet
  <2> QED BY <1>0, <2>1, LeavesEnd DEF SigEnd
<1> HIDE DEF quiet
<1>3. CASE /\ ~Consumes(ended) /\ session' = ended /\ activity' = label
           /\ pc' = [pc EXCEPT ![t] = "done"] /\ UNCHANGED <<origin, sent>>
  <2>1. Good(ended, label)
    BY <1>2, <1>3, <1>5 DEF Good, WaitsOk, Consumes
  <2>2. \A u \in Turn : pc[u] # "idle" => pc'[u] # "idle"
    BY <1>3, KnownShows
  <2> HIDE DEF ended
  <2> QED BY <1>3, <2>1, <2>2, GoodStep
<1>4. ASSUME NEW u \in Turn, Consumes(ended), ConsumeNext(ended, u, label),
             activity' = "thinking", pc[t] \in {"persist", "fastlane"}, sent' = sent,
             pc' = [pc EXCEPT ![t] = "done", ![u] = "prepare"]
      PROVE  Shows' /\ Records
  <2> HIDE DEF ended
  <2>1. ended \in SessionType /\ ended.queue # <<>>
    BY <1>2, <1>4 DEF Consumes, SessionOk
  <2>2. /\ ended.queue[1] \in Message /\ ended.queue[1] # NoMessage
        /\ Queued(ended, ended.queue[1])
    BY <2>1, HeadQueued
  <2>3. /\ u \notin Started /\ session' = BeginTurn(ended, u, ended.queue[1], label)
        /\ origin' = From(origin, u, ended.queue[1])
    BY <1>4, <2>2 DEF ConsumeNext, From
  <2>4. \A v \in Turn : pc'[v] # "idle" <=> pc[v] # "idle" \/ v = u
    BY <1>4, KnownShows
  <2>5. ended.turn = NoTurn
    BY <1>4 DEF Consumes
  <2> QED BY <1>0, <1>2, <1>4, <1>5, <2>2, <2>3, <2>4, <2>5, BeginStep
<1> QED BY <1>3, <1>4 DEF Finishes, label, quiet

\* The steps that leave the session alone.
LEMMA MovesShow ==
  ASSUME Inv, Shows, NEW t \in Turn,
         \/ Prepares(t) \/ Responds(t) \/ Continues(t) \/ Concludes(t) \/ RoundEnds(t)
         \/ AsksForTools(t) \/ AdmitsTools(t)
  PROVE  Shows' /\ Records
<1>1. /\ UNCHANGED <<session, activity, origin, sent>>
      /\ \/ pc' = pc
         \/ \E next \in RunState \ {"idle"} : pc' = [pc EXCEPT ![t] = next]
  BY DEF Prepares, Responds, Continues, Concludes, RoundEnds, AsksForTools, AdmitsTools,
         RunState, hostVars, agentVars, recordVars
<1>2. \A u \in Turn : pc[u] # "idle" => pc'[u] # "idle"
  BY <1>1, KnownShows
<1>3. Good(session, activity)
  BY DEF Shows
<1> QED BY <1>1, <1>2, <1>3, GoodStep

LEMMA StreamsShow ==
  ASSUME Inv, Shows, NEW t \in Turn, StreamsText(t) \/ StreamsReasoning(t) \/ HandsOff(t)
  PROVE  Shows' /\ Records
<1>1. PICK label \in {"none", "reasoning"} :
         session' = SigActivity(session, label) /\ activity' = label
  BY DEF StreamsText, StreamsReasoning, HandsOff
<1>2. /\ pc' = pc \/ pc' = [pc EXCEPT ![t] = "persist"]
      /\ origin' = origin /\ sent' = sent
  BY DEF StreamsText, StreamsReasoning, HandsOff, recordVars, runVars
<1>3. \A u \in Turn : pc[u] # "idle" => pc'[u] # "idle"
  BY <1>2, KnownShows
<1>4. label \in Label /\ label # "thinking"
  BY DEF Label
<1>5. Good(SigActivity(session, label), label)
  BY <1>4, GoodActivity DEF Shows
<1> QED BY <1>1, <1>2, <1>3, <1>5, GoodStep

LEMMA AnnouncesShow ==
  ASSUME Inv, Shows, NEW t \in Turn, AnnouncesTool(t) PROVE Shows' /\ Records
<1>1. Len(calls[t]) \in Nat /\ Len(calls[t]) < MaxCalls
  BY Typed DEF AnnouncesTool
<1>2. PICK c \in {Preview, <<t, Len(calls[t]) + 1>>} :
        session' = SigStart(SigActivity(session, "tool"), c)
  BY DEF AnnouncesTool
<1>3. Len(calls[t]) + 1 \in 1..MaxCalls
  BY <1>1, TurnAssumption
<1>4. c \in Call
  BY <1>3, CallsTyped, TurnAssumption
<1>5. Good(SigActivity(session, "tool"), "tool")
  BY GoodActivity DEF Shows, Label
<1>6. Good(SigStart(SigActivity(session, "tool"), c), "tool")
  BY <1>4, <1>5, GoodSignals
<1>7. activity' = "tool" /\ origin' = origin /\ sent' = sent /\ pc' = pc
  BY DEF AnnouncesTool, recordVars
<1> QED BY <1>2, <1>6, <1>7, GoodStep

-----------------------------------------------------------------------------
(* Tool calls *)

LEMMA ToolsShow ==
  ASSUME Inv, Shows, NEW t \in Turn, NEW n \in 1..MaxCalls, Tool(t, n) PROVE Shows' /\ Records
<1> DEFINE c == <<t, n>>
           lit == SigActivity(session, "tool")
<1>0. /\ c \in Call /\ TRUE \in BOOLEAN /\ FALSE \in BOOLEAN /\ "tool" \in Label
      /\ Good(session, activity)
  BY CallsTyped DEF Label, Shows
<1>1. Good(lit, "tool")
  BY <1>0, GoodActivity
<1> HIDE DEF c, lit
<1>2. CASE RefusesTool(t, n) \/ RunsSilently(t, n) \/ EndsSilently(t, n)
  <2>1. UNCHANGED <<session, activity, origin, sent, pc>>
    BY <1>2 DEF RefusesTool, RunsSilently, EndsSilently, hostVars, agentVars, recordVars
  <2> QED BY <1>0, <2>1, GoodStep
<1>3. CASE OpensGate(t, n) \/ SkipsEdit(t, n) \/ SkipsClientTool(t, n)
  <2>1. PICK line \in Label :
          /\ ShowsLine(line) /\ activity' = line
          /\ \/ session' = SigActivity(session, line)
             \/ session' = SigComplete(SigActivity(session, line), {c})
    BY <1>3 DEF OpensGate, SkipsEdit, SkipsClientTool, c
  <2>2. origin' = origin /\ sent' = sent /\ pc' = pc
    BY <1>3 DEF OpensGate, SkipsEdit, SkipsClientTool, recordVars
  <2>3. Good(SigActivity(session, line), line)
    BY <1>0, <2>1, GoodActivity DEF ShowsLine
  <2>4. Good(SigComplete(SigActivity(session, line), {c}), line)
    BY <2>3, GoodSignals
  <2> QED BY <2>1, <2>2, <2>3, <2>4, GoodStep
<1>4. CASE StartsHostTool(t, n)
  <2>1. session' = SigReady(SigStart(session, c), c, TRUE)
        /\ UNCHANGED <<activity, origin, sent, pc>>
    BY <1>4 DEF StartsHostTool, recordVars, c
  <2>2. Good(SigReady(SigStart(session, c), c, TRUE), activity)
    BY <1>0, GoodSignals
  <2> QED BY <2>1, <2>2, GoodStep
<1>5. CASE StartsClientTool(t, n)
  <2>1. session' = SigReady(SigStart(lit, c), c, TRUE) /\ activity' = "tool"
        /\ UNCHANGED <<origin, sent, pc>>
    BY <1>5 DEF StartsClientTool, recordVars, c, lit
  <2>2. Good(SigReady(SigStart(lit, c), c, TRUE), "tool")
    BY <1>0, <1>1, GoodSignals
  <2> QED BY <2>1, <2>2, GoodStep
<1>6. CASE ProposesEdit(t, n)
  <2> DEFINE begun == SigStart(lit, c)
             asked == SigReady(begun, c, TRUE)
  <2>1. Good(begun, "tool")
    BY <1>0, <1>1, GoodSignals
  <2>2. session' \in {begun, SigReady(asked, c, TRUE), SigReady(asked, c, FALSE)}
        /\ activity' = "tool" /\ UNCHANGED <<origin, sent, pc>>
    BY <1>6 DEF ProposesEdit, c, lit
  <2> HIDE DEF begun
  <2>3. Good(asked, "tool")
    BY <1>0, <2>1, GoodSignals
  <2> HIDE DEF asked
  <2>4. Good(SigReady(asked, c, TRUE), "tool") /\ Good(SigReady(asked, c, FALSE), "tool")
    BY <1>0, <2>3, GoodSignals
  <2> QED BY <2>1, <2>2, <2>4, GoodStep
<1>7. CASE CompletesTool(t, n)
  <2>1. session' = SigComplete(session, {c}) /\ UNCHANGED <<activity, origin, sent, pc>>
    BY <1>7 DEF CompletesTool, c
  <2>2. Good(SigComplete(session, {c}), activity)
    BY <1>0, GoodSignals
  <2> QED BY <2>1, <2>2, GoodStep
<1>8. CASE ToolThrows(t, n)
  <2>1. \/ UNCHANGED <<session, activity, pc>>
        \/ \E cancelled \in BOOLEAN : Unwind(t, session, cancelled)
    BY <1>8 DEF ToolThrows, Cancels
  <2>2. origin' = origin /\ sent' = sent
    BY <1>8 DEF ToolThrows, recordVars
  <2>3. CASE UNCHANGED <<session, activity, pc>>
    BY <1>0, <2>2, <2>3, GoodStep
  <2> QED BY <2>1, <2>2, <2>3, UnwindShows
<1> QED BY <1>2, <1>3, <1>4, <1>5, <1>6, <1>7, <1>8 DEF Tool

-----------------------------------------------------------------------------
LEMMA InitShows == Init => Shows
<1> SUFFICES ASSUME Init PROVE Shows
  OBVIOUS
<1>1. /\ session.turn = NoTurn /\ session.turns = <<>> /\ session.queue = <<>>
      /\ session.activity = "none" /\ activity = "none"
  BY DEF Init, CreatedSession
<1>2. session \in SessionType
  BY InitTyped, Typed
<1>3. RecordOk(session, Started)
  BY <1>1, EmptySeq DEF RecordOk
<1>4. QueueOk(session, origin, sent)
  <2>1. \A m : ~Queued(session, m)
    BY <1>1, EmptySeq DEF Queued
  <2>2. \A m \in Message : StartedBy(origin, m) = {} /\ sent[m] = 0
    BY AbsentValues DEF Init, StartedBy
  <2>3. \A i, j \in 1..Len(session.queue) : i # j => session.queue[i] # session.queue[j]
    BY <1>1, EmptySeq
  <2>4. IsFiniteSet({}) /\ Cardinality({}) = 0
    BY FS_EmptySet
  <2>5. ASSUME NEW m \in Message
        PROVE  /\ IsFiniteSet(StartedBy(origin, m))
               /\ sent[m] = Cardinality(StartedBy(origin, m))
                              + (IF Queued(session, m) THEN 1 ELSE 0)
    <3>1. IsFiniteSet(StartedBy(origin, m)) /\ Cardinality(StartedBy(origin, m)) = 0
      BY <2>2, <2>4, Zenon
    <3> QED BY <2>1, <2>2, <3>1
  <2> QED BY <2>3, <2>5 DEF QueueOk
<1>5. Unused /\ Leaves(session, session)
  BY DEF Init, Unused, Leaves, Stays
<1> QED BY <1>1, <1>2, <1>3, <1>4, <1>5 DEF Shows, Good, SessionOk, ShownOk, WaitsOk

LEMMA StepShows == Inv /\ Shows /\ [Next]_vars => Shows' /\ Records
<1> SUFFICES ASSUME Inv, Shows, [Next]_vars PROVE Shows' /\ Records
  OBVIOUS
<1>1. ASSUME NEW t \in Turn, Run(t) PROVE Shows' /\ Records
  <2>1. CASE Fails(t)
    <3>1. origin' = origin /\ sent' = sent /\ \E cancelled \in BOOLEAN : Unwind(t, session, cancelled)
      BY <2>1 DEF Fails, Cancels, recordVars
    <3> QED BY <3>1, UnwindShows
  <2> QED BY <1>1, <2>1, MovesShow, StreamsShow, AnnouncesShow, FinishesShows,
             RetainedShows DEF Run
<1>2. CASE ClientStep
  BY <1>2, StartShows, CancelsShows, QueuesShows, UnqueuesShows, ReordersShow,
     ConfirmsShows, AnswersShows DEF ClientStep
<1>3. CASE UNCHANGED vars
  <2>1. UNCHANGED <<session, activity, origin, sent, pc>> /\ Good(session, activity)
    BY <1>3 DEF vars, Shows
  <2> QED BY <2>1, GoodStep
<1> QED BY <1>1, <1>2, <1>3, ToolsShow DEF Next

LEMMA ShowsInductive == Spec => []Shows
<1> QED BY InitShows, StepShows, Inductive, PTL DEF Spec

\* However many runs and clients report the end of whatever turn is active, no
\* turn is recorded twice, nor while it is active.
THEOREM TurnsRecordedOnce == Spec => []TurnRecordedOnce
<1>1. Shows => TurnRecordedOnce
  BY DEF Shows, Good, SessionOk, RecordOk, TurnRecordedOnce
<1> QED BY <1>1, ShowsInductive, PTL

\* Each time a message is put into the queue and not taken back it starts one
\* turn, or it still waits for that.
THEOREM MessagesStartOnce == Spec => []MessageStartsOnce
<1>1. Shows => MessageStartsOnce
  BY DEF Shows, Good, SessionOk, QueueOk, StartedBy, MessageStartsOnce
<1> QED BY <1>1, ShowsInductive, PTL

\* In a turn clients see the activity the agent recorded, although it sends
\* only what differs and the host drops what is sent between turns.
THEOREM ShownIsRecorded == Spec => []ShownActivityIsRecorded
<1>1. Shows => ShownActivityIsRecorded
  BY DEF Shows, Good, SessionOk, ShownOk, ShownActivityIsRecorded
<1> QED BY <1>1, ShowsInductive, PTL

\* The queue of an idle session waits only behind a turn that was cancelled or
\* failed: one that completes starts the next message in the same step.
THEOREM QueueWaitsOnly == Spec => []QueueWaitsOnlyAfterFailure
<1>1. Shows => QueueWaitsOnlyAfterFailure
  BY DEF Shows, Good, WaitsOk, QueueWaitsOnlyAfterFailure
<1> QED BY <1>1, ShowsInductive, PTL

\* A turn that is active leaves for the record, where it stays, whichever of the
\* overlapping runs and clients report an end; only a turn that a client starts
\* itself takes its place.
THEOREM TurnsLeaveForRecord == Spec => TurnsLeaveToRecord
<1>1. Inv /\ Shows /\ [Next]_vars => [Records]_vars
  BY StepShows
<1> QED BY <1>1, ShowsInductive, Inductive, PTL DEF Spec, TurnsLeaveToRecord, Records

-----------------------------------------------------------------------------
(* Approvals.  A call that waits for the user is an edit of a run that is   *)
(* still at its tools, its confirmation is routed to the agent, and while   *)
(* its turn is active it is on screen, unless another run is about to       *)
(* report the cancellation that swept it.                                   *)

Pending(s, c) == \E i \in 1..Len(s.parts) : s.parts[i] = [call |-> c, st |-> "PendingConfirmation"]

\* A call at work that is no read-only tool.
Working(cs, t, n) ==
  n \in 1..Len(cs[t]) /\ cs[t][n].st \notin {"queued", "done"} /\ cs[t][n].kind # "read"

WorkersAreAtTools == \A t \in Turn : \A n \in Nat : Working(calls, t, n) => pc[t] = "tools"

ApprovalsAreEdits ==
  \A t \in Turn : \A n \in Nat : <<t, n>> \in approvals => calls[t][n].kind = "edit"

Retaining(c) == \E u \in Turn \ {c[1]} : pc[u] = "retain"

ApprovalsShown ==
  \A c \in approvals : c[1] = session.turn => Pending(session, c) \/ Retaining(c)

AskInv ==
  WorkersAreAtTools /\ ApprovalsAreEdits /\ approvals \subseteq toolAgents /\ ApprovalsShown

\* ds differs from cs by steps of calls at work.
Advances(cs, ds) ==
  \A t \in Turn : \A n \in Nat :
     /\ n \in 1..Len(cs[t]) => n \in 1..Len(ds[t]) /\ ds[t][n].kind = cs[t][n].kind
     /\ Working(ds, t, n) => Working(cs, t, n)

LEMMA MoveAdvances ==
  ASSUME NEW cs \in Calls, NEW ids, NEW st \in CallState, Busy(cs, ids)
  PROVE  Advances(cs, SetCalls(cs, ids, st)) /\ SetCalls(cs, ids, st) \in Calls
<1> DEFINE ds == SetCalls(cs, ids, st)
<1>1. ds \in Calls
  BY SetCallsTyped DEF Calls
<1>2. ASSUME NEW t \in Turn, NEW n \in Nat
      PROVE  /\ n \in 1..Len(cs[t]) => n \in 1..Len(ds[t]) /\ ds[t][n].kind = cs[t][n].kind
             /\ Working(ds, t, n) => Working(cs, t, n)
  <2>1. /\ Len(ds[t]) = Len(cs[t])
        /\ n \in 1..Len(cs[t]) =>
             /\ ds[t][n].kind = cs[t][n].kind
             /\ ds[t][n].st = IF <<t, n>> \in ids THEN st ELSE cs[t][n].st
    BY Moved
  <2> HIDE DEF ds
  <2>2. n \in 1..Len(cs[t]) /\ <<t, n>> \in ids => cs[t][n].st \notin {"queued", "done"}
    BY DEF Busy
  <2> QED BY <2>1, <2>2 DEF Working
<1> QED BY <1>1, <1>2 DEF Advances

LEMMA AdvancesTwice ==
  ASSUME NEW cs, NEW ds, NEW es, Advances(cs, ds), Advances(ds, es) PROVE Advances(cs, es)
BY DEF Advances

-----------------------------------------------------------------------------
(* Confirmations on screen *)

LEMMA PendingActivity ==
  ASSUME NEW s \in SessionType, NEW label \in Label, NEW c, Pending(s, c)
  PROVE  Pending(SigActivity(s, label), c)
<1>1. TRUE \in BOOLEAN
  OBVIOUS
<1>2. SameButInputs(ActivityChanged(s, label), s)
  BY <1>1, FlagsKeep
<1>3. SigActivity(s, label).parts = s.parts
  BY <1>2 DEF SigActivity, SameButInputs
<1> QED BY <1>3 DEF Pending

LEMMA StartParts ==
  ASSUME NEW s \in SessionType, NEW d \in Call
  PROVE  /\ SigStart(s, d) \in SessionType /\ SigStart(s, d).turn = s.turn
         /\ \/ SigStart(s, d).parts = s.parts /\ s.turn = NoTurn
            \/ SigStart(s, d).parts = Append(s.parts, [call |-> d, st |-> "Streaming"])
<1>1. CASE s.turn = NoTurn
  BY <1>1 DEF SigStart, ToolCallStart, IsActive
<1>2. CASE s.turn # NoTurn
  <2>1. SigStart(s, d) = [s EXCEPT !.parts = Append(s.parts, [call |-> d, st |-> "Streaming"])]
    BY <1>2 DEF SigStart, ToolCallStart, IsActive
  <2>2. SigStart(s, d).parts = Append(s.parts, [call |-> d, st |-> "Streaming"])
    BY <2>1 DEF SessionType
  <2> QED BY <2>2, SignalsShow DEF SameShown
<1> QED BY <1>1, <1>2, SignalsShow DEF SameShown

LEMMA PendingStart ==
  ASSUME NEW s \in SessionType, NEW d \in Call, NEW c, Pending(s, c)
  PROVE  Pending(SigStart(s, d), c)
<1> DEFINE e == [call |-> d, st |-> "Streaming"]
<1>1. s.parts \in Seq(Part) /\ Len(s.parts) \in Nat
  BY LenProperties DEF SessionType
<1>2. CASE SigStart(s, d).parts = s.parts
  BY <1>2 DEF Pending
<1>3. CASE SigStart(s, d).parts = Append(s.parts, e)
  <2>1. e \in Part
    BY DEF Part, ToolStatus
  <2> HIDE DEF e
  <2>2. /\ Len(Append(s.parts, e)) = Len(s.parts) + 1
        /\ \A i \in 1..Len(s.parts) : Append(s.parts, e)[i] = s.parts[i]
    BY <1>1, <2>1, AppendProperties
  <2>3. PICK i \in 1..Len(s.parts) : s.parts[i] = [call |-> c, st |-> "PendingConfirmation"]
    BY DEF Pending
  <2>4. i \in 1..(Len(s.parts) + 1)
    BY <1>1
  <2> QED BY <1>3, <2>2, <2>3, <2>4 DEF Pending
<1> QED BY <1>2, <1>3, StartParts

\* A step of other calls leaves a confirmation where it is.
LEMMA PendingStep ==
  ASSUME NEW s \in SessionType, NEW t, NEW cs, NEW step \in Step, NEW c, c \notin cs,
         Pending(s, c)
  PROVE  Pending(RefreshStatus(UpdateToolCalls(s, t, cs, step)), c)
<1> DEFINE r == RefreshStatus(UpdateToolCalls(s, t, cs, step))
<1>1. s.parts \in Seq(Part)
  BY DEF SessionType
<1>2. r.parts = s.parts \/ r.parts = MapParts(s.parts, cs, step)
  BY ToolCallActions
<1> HIDE DEF r
<1>3. PICK i \in 1..Len(s.parts) : s.parts[i] = [call |-> c, st |-> "PendingConfirmation"]
  BY DEF Pending
<1>4. s.parts[i].call = c
  BY <1>3
<1>5. /\ Len(MapParts(s.parts, cs, step)) = Len(s.parts)
      /\ MapParts(s.parts, cs, step)[i] = s.parts[i]
  <2> DEFINE ps == MapParts(s.parts, cs, step)
  <2>1. Len(ps) = Len(s.parts)
    BY <1>1, MapPartsTyped
  <2>2. ps[i] = IF s.parts[i].call \in cs
                THEN [call |-> s.parts[i].call, st |-> step[s.parts[i].st]]
                ELSE s.parts[i]
    BY <1>1, MapPartsTyped
  <2> HIDE DEF ps
  <2> QED BY <1>4, <2>1, <2>2 DEF ps
<1>6. Pending(r, c)
  BY <1>2, <1>3, <1>5 DEF Pending
<1> QED BY <1>6 DEF r

LEMMA PendingSignals ==
  ASSUME NEW s \in SessionType, NEW c, Pending(s, c)
  PROVE  /\ \A d, b : d # c /\ b \in BOOLEAN => Pending(SigReady(s, d, b), c)
         /\ \A cs : c \notin cs => Pending(SigComplete(s, cs), c)
<1>1. ASSUME NEW d, NEW b \in BOOLEAN, d # c PROVE Pending(SigReady(s, d, b), c)
  <2> DEFINE step == ReadyStep(b)
             r == RefreshStatus(UpdateToolCalls(s, s.turn, {d}, step))
  <2>1. step \in Step /\ c \notin {d}
    BY <1>1, StepsTyped
  <2>2. SigReady(s, d, b) \in {s, r}
    BY DEF SigReady, ToolCallReady
  <2> HIDE DEF step
  <2>3. Pending(r, c)
    BY <2>1, PendingStep
  <2> HIDE DEF r
  <2> QED BY <2>2, <2>3
<1>2. ASSUME NEW cs, c \notin cs PROVE Pending(SigComplete(s, cs), c)
  <2> DEFINE step == CompleteStep(FALSE)
             r == RefreshStatus(UpdateToolCalls(s, s.turn, cs, step))
  <2>1. step \in Step
    BY StepsTyped
  <2>2. SigComplete(s, cs) \in {s, r}
    BY DEF SigComplete, ToolCallsComplete
  <2> HIDE DEF step
  <2>3. Pending(r, c)
    BY <1>2, <2>1, PendingStep
  <2> HIDE DEF r
  <2> QED BY <2>2, <2>3
<1> QED BY <1>1, <1>2

\* A call that is started, made ready and then asked about is on screen.
LEMMA PendingAsked ==
  ASSUME NEW s \in SessionType, s.turn # NoTurn, NEW c \in Call
  PROVE  Pending(SigReady(SigReady(SigStart(s, c), c, TRUE), c, FALSE), c)
<1> DEFINE a == SigStart(s, c)
           b == SigReady(a, c, TRUE)
           r == SigReady(b, c, FALSE)
           e == [call |-> c, st |-> "Streaming"]
           k == Len(s.parts) + 1
<1>0. TRUE \in BOOLEAN /\ FALSE \in BOOLEAN /\ ReadyStep(TRUE) \in Step /\ ReadyStep(FALSE) \in Step
  BY StepsTyped
<1>1. /\ a \in SessionType /\ a.turn # NoTurn /\ Len(a.parts) = k /\ k \in 1..k
      /\ a.parts[k] = e /\ a.parts \in Seq(Part)
  <2>1. s.parts \in Seq(Part) /\ Len(s.parts) \in Nat /\ e \in Part
    BY LenProperties DEF SessionType, Part, ToolStatus
  <2>2. a \in SessionType /\ a.turn = s.turn /\ a.parts = Append(s.parts, e)
    BY StartParts
  <2> HIDE DEF a, e
  <2>3. Len(Append(s.parts, e)) = Len(s.parts) + 1 /\ Append(s.parts, e)[Len(s.parts) + 1] = e
    BY <2>1, AppendProperties
  <2>4. a.parts \in Seq(Part)
    BY <2>2 DEF SessionType
  <2> QED BY <2>1, <2>2, <2>3, <2>4
<1> HIDE DEF a, k
<1>2. ASSUME NEW q \in SessionType, q.turn # NoTurn, k \in 1..Len(q.parts),
             NEW st \in ToolStatus, q.parts[k] = [call |-> c, st |-> st], NEW ok \in BOOLEAN
      PROVE  LET z == SigReady(q, c, ok) IN
             /\ z \in SessionType /\ z.turn # NoTurn /\ k \in 1..Len(z.parts)
             /\ z.parts[k] = [call |-> c, st |-> ReadyStep(ok)[st]]
  <2> DEFINE step == ReadyStep(ok)
             z == SigReady(q, c, ok)
             u == UpdateToolCalls(q, q.turn, {c}, step)
             ps == MapParts(q.parts, {c}, step)
  <2>1. step \in Step /\ q.parts \in Seq(Part)
    BY StepsTyped DEF SessionType
  <2>2. z = RefreshStatus(u)
    BY <1>2 DEF SigReady, Routed, ToolCallReady
  <2>3. z \in SessionType /\ z.turn = q.turn
    BY <1>2, SignalsShow DEF SameShown
  <2> HIDE DEF step
  <2>4. Len(ps) = Len(q.parts) /\ ps[k] = [call |-> c, st |-> step[st]]
    <3>1. /\ Len(ps) = Len(q.parts)
          /\ ps[k] = IF q.parts[k].call \in {c}
                     THEN [call |-> q.parts[k].call, st |-> step[q.parts[k].st]]
                     ELSE q.parts[k]
      BY <1>2, <2>1, MapPartsTyped
    <3>2. q.parts[k].call = c /\ q.parts[k].st = st
      BY <1>2
    <3> QED BY <3>1, <3>2
  <2>5. z.parts = ps
    <3>1. u = [q EXCEPT !.parts = ps]
      BY <1>2 DEF UpdateToolCalls, IsActive
    <3>2. u \in SessionType
      BY <2>1, UpdateTyped
    <3>3. u.parts = ps
      BY <3>1 DEF SessionType
    <3> HIDE DEF u
    <3>4. RefreshStatus(u).parts = u.parts
      BY <3>2, RefreshTyped
    <3> QED BY <2>2, <3>3, <3>4
  <2> HIDE DEF z, ps
  <2> QED BY <1>2, <2>3, <2>4, <2>5 DEF z, step
<1>3. /\ b \in SessionType /\ b.turn # NoTurn /\ k \in 1..Len(b.parts)
      /\ b.parts[k] = [call |-> c, st |-> "Running"]
  <2>1. "Streaming" \in ToolStatus /\ ReadyStep(TRUE)["Streaming"] = "Running"
    BY DEF ToolStatus, ReadyStep
  <2> QED BY <1>0, <1>1, <1>2, <2>1
<1> HIDE DEF b
<1>4. /\ k \in 1..Len(r.parts)
      /\ r.parts[k] = [call |-> c, st |-> "PendingConfirmation"]
  <2>1. "Running" \in ToolStatus /\ ReadyStep(FALSE)["Running"] = "PendingConfirmation"
    BY DEF ToolStatus, ReadyStep
  <2>2. /\ k \in 1..Len(r.parts)
        /\ r.parts[k] = [call |-> c, st |-> ReadyStep(FALSE)["Running"]]
    BY <1>0, <1>2, <1>3, <2>1
  <2> QED BY <2>1, <2>2
<1>5. Pending(r, c)
  BY <1>4 DEF Pending
<1> QED BY <1>5 DEF r, b, a

-----------------------------------------------------------------------------
(* The steps *)

SameKinds(cs, ds) ==
  \A t \in Turn : \A n \in Nat :
     n \in 1..Len(cs[t]) => n \in 1..Len(ds[t]) /\ ds[t][n].kind = cs[t][n].kind

LEMMA ApprovalKnown ==
  ASSUME Inv, ToolInv, AskInv, NEW t \in Turn, NEW n \in Nat, <<t, n>> \in approvals
  PROVE  /\ n \in 1..Len(calls[t]) /\ calls[t][n].st = "approval" /\ calls[t][n].kind = "edit"
         /\ pc[t] = "tools" /\ Working(calls, t, n)
<1>1. n \in 1..Len(calls[t]) /\ calls[t][n].st = "approval"
  BY DEF ToolInv, Resolvers, Keys, In
<1>2. calls[t][n].kind = "edit"
  BY DEF AskInv, ApprovalsAreEdits
<1>3. Working(calls, t, n)
  BY <1>1, <1>2 DEF Working
<1> QED BY <1>1, <1>2, <1>3 DEF AskInv, WorkersAreAtTools

\* A step that asks nobody.  What is on screen stays there, or the turn is not
\* that of any approval, or a run without approvals will report a cancellation.
LEMMA AskFrame ==
  ASSUME Inv, ToolInv, AskInv, SameKinds(calls, calls'), WorkersAreAtTools',
         approvals' \subseteq approvals, approvals' \subseteq toolAgents',
         \/ session'.turn = NoTurn
         \/ session'.turn \in Turn \ Started
         \/ /\ session'.turn = session.turn
            /\ \A u \in Turn : pc[u] = "retain" => pc'[u] = "retain"
            /\ \A c \in approvals' : Pending(session, c) => Pending(session', c)
         \/ /\ session'.turn = session.turn
            /\ \E u \in Turn : pc'[u] = "retain" /\ \A n \in Nat : <<u, n>> \notin approvals'
  PROVE  AskInv'
<1>1. ApprovalsAreEdits'
  <2> SUFFICES ASSUME NEW t \in Turn, NEW n \in Nat, <<t, n>> \in approvals'
               PROVE  calls'[t][n].kind = "edit"
    BY DEF ApprovalsAreEdits
  <2>1. n \in 1..Len(calls[t]) /\ calls[t][n].kind = "edit"
    BY ApprovalKnown
  <2> QED BY <2>1 DEF SameKinds
<1>2. ApprovalsShown'
  <2> SUFFICES ASSUME NEW c \in approvals', c[1] = session'.turn
               PROVE  Pending(session', c) \/ \E u \in Turn \ {c[1]} : pc'[u] = "retain"
    BY DEF ApprovalsShown, Retaining, Pending
  <2>1. PICK t \in Turn, n \in Nat : c = <<t, n>>
    BY CallsKnown
  <2>2. c[1] = t /\ <<t, n>> \in approvals
    BY <2>1
  <2>3. session'.turn \in Turn /\ session'.turn \in Started
    <3>1. pc[t] = "tools"
      BY <2>2, ApprovalKnown
    <3> QED BY <2>2, <3>1 DEF Started
  <2>4. session'.turn = session.turn
    BY <2>3, AbsentValues
  <2>5. Pending(session, c) \/ \E u \in Turn \ {c[1]} : pc[u] = "retain"
    BY <2>4 DEF AskInv, ApprovalsShown, Retaining
  <2>6. CASE \E u \in Turn : pc'[u] = "retain" /\ \A k \in Nat : <<u, k>> \notin approvals'
    BY <2>1, <2>2, <2>6
  <2>7. CASE /\ \A u \in Turn : pc[u] = "retain" => pc'[u] = "retain"
             /\ \A d \in approvals' : Pending(session, d) => Pending(session', d)
    BY <2>5, <2>7
  <2> QED BY <2>3, <2>6, <2>7, AbsentValues
<1> QED BY <1>1, <1>2 DEF AskInv

LEMMA WorkersKeep ==
  ASSUME Inv, AskInv, Advances(calls, calls'),
         \A t \in Turn : pc[t] = "tools" => pc'[t] = "tools"
  PROVE  WorkersAreAtTools' /\ SameKinds(calls, calls')
BY DEF AskInv, WorkersAreAtTools, Advances, SameKinds, Working

LEMMA SameAdvances == Advances(calls, calls)
BY DEF Advances

\* A step that leaves the turn active, the approvals and the runs at their
\* tools, and every confirmation on screen.
LEMMA AskQuiet ==
  ASSUME Inv, ToolInv, AskInv, Advances(calls, calls'),
         \A t \in Turn : pc[t] \in {"tools", "retain"} => pc'[t] = pc[t],
         approvals' = approvals, toolAgents \subseteq toolAgents',
         session'.turn = session.turn,
         \A c \in approvals : Pending(session, c) => Pending(session', c)
  PROVE  AskInv'
<1>1. \A t \in Turn : pc[t] = "tools" => pc'[t] = "tools"
  OBVIOUS
<1>2. WorkersAreAtTools' /\ SameKinds(calls, calls')
  BY <1>1, WorkersKeep
<1>3. approvals' \subseteq toolAgents'
  BY DEF AskInv
<1> QED BY <1>2, <1>3, AskFrame

\* A step that starts turn t.
LEMMA AskBegins ==
  ASSUME Inv, ToolInv, AskInv, NEW t \in Turn, t \notin Started, session'.turn = t,
         UNCHANGED <<calls, approvals, toolAgents>>,
         \A u \in Turn : pc[u] = "tools" => pc'[u] = "tools"
  PROVE  AskInv'
<1>1. Advances(calls, calls')
  BY SameAdvances
<1>2. WorkersAreAtTools' /\ SameKinds(calls, calls')
  BY <1>1, WorkersKeep
<1>3. approvals' \subseteq approvals /\ approvals' \subseteq toolAgents'
  BY DEF AskInv
<1> QED BY <1>2, <1>3, AskFrame

\* A step that ends the active turn, if there is one.
LEMMA AskEnds ==
  ASSUME Inv, ToolInv, AskInv, session'.turn = NoTurn,
         UNCHANGED <<calls, approvals, toolAgents>>,
         \A u \in Turn : pc[u] = "tools" => pc'[u] = "tools"
  PROVE  AskInv'
<1>1. Advances(calls, calls')
  BY SameAdvances
<1>2. WorkersAreAtTools' /\ SameKinds(calls, calls')
  BY <1>1, WorkersKeep
<1>3. approvals' \subseteq approvals /\ approvals' \subseteq toolAgents'
  BY DEF AskInv
<1> QED BY <1>2, <1>3, AskFrame

-----------------------------------------------------------------------------
(* Clients *)

LEMMA StartAsks ==
  ASSUME Inv, ToolInv, AskInv, NEW t \in Turn, ClientStartTurn(t) PROVE AskInv'
<1>1. session'.turn = t
  <2>1. activity \in Label /\ NoMessage \in Message \cup {NoMessage}
    BY DEF Inv, TypeOK
  <2>2. BeginTurn(session, t, NoMessage, activity).turn = t
    BY <2>1, Typed, BeginKeeps
  <2> QED BY <2>2 DEF ClientStartTurn
<1>2. /\ t \notin Started /\ UNCHANGED <<calls, approvals, toolAgents>>
      /\ pc' = [pc EXCEPT ![t] = "prepare"]
  BY DEF ClientStartTurn
<1>3. \A u \in Turn : pc[u] = "tools" => pc'[u] = "tools"
  BY <1>2, KnownShows DEF Started
<1> QED BY <1>1, <1>2, <1>3, AskBegins

LEMMA SyncAsks ==
  ASSUME Inv, ToolInv, AskInv, NEW s \in SessionType, s.turn = session.turn,
         s.parts = session.parts, SyncPending(s),
         UNCHANGED <<calls, approvals, toolAgents>>
  PROVE  AskInv'
<1>0. Advances(calls, calls')
  BY SameAdvances
<1>1. CASE session' = s /\ pc' = pc
  <2>1. \A c \in approvals : Pending(session, c) => Pending(session', c)
    BY <1>1 DEF Pending
  <2>2. session'.turn = session.turn /\ \A t \in Turn : pc'[t] = pc[t]
    BY <1>1
  <2> QED BY <1>0, <2>1, <2>2, AskQuiet
<1>2. ASSUME NEW t \in Turn, Consumes(s), ConsumeNext(s, t, activity),
             pc' = [pc EXCEPT ![t] = "prepare"]
      PROVE  AskInv'
  <2>1. s.queue[1] \in Message /\ activity \in Label
    BY <1>2, QueueHead, KnownShows DEF Consumes
  <2>2. session'.turn = t /\ t \notin Started
    BY <1>2, <2>1, BeginKeeps DEF ConsumeNext
  <2>3. \A u \in Turn : pc[u] = "tools" => pc'[u] = "tools"
    BY <1>2, <2>2, KnownShows DEF Started
  <2> QED BY <2>2, <2>3, AskBegins
<1> QED BY <1>1, <1>2 DEF SyncPending

LEMMA QueuesAsk ==
  ASSUME Inv, ToolInv, AskInv, NEW m \in Message, ClientQueues(m) \/ ClientUnqueues(m)
  PROVE  AskInv'
<1>1. CASE ClientQueues(m)
  <2> DEFINE s == PendingMessageSet(session, "Queued", m)
  <2>1. s \in SessionType /\ s.turn = session.turn /\ s.parts = session.parts
    BY Typed, PendingMessageSetKeeps DEF SameButPending
  <2>2. SyncPending(s) /\ UNCHANGED <<calls, approvals, toolAgents>>
    BY <1>1 DEF ClientQueues
  <2> HIDE DEF s
  <2> QED BY <2>1, <2>2, SyncAsks
<1>2. CASE ClientUnqueues(m)
  <2> DEFINE s == PendingMessageRemoved(session, "Queued", m)
  <2>1. s \in SessionType /\ s.turn = session.turn /\ s.parts = session.parts
    BY Typed, PendingMessageRemovedKeeps DEF SameButPending
  <2>2. SyncPending(s) /\ UNCHANGED <<calls, approvals, toolAgents>>
    BY <1>2 DEF ClientUnqueues
  <2> HIDE DEF s
  <2> QED BY <2>1, <2>2, SyncAsks
<1> QED BY <1>1, <1>2

LEMMA ReordersAsk ==
  ASSUME Inv, ToolInv, AskInv, NEW pi \in Permutation(Len(session.queue)), ClientReorders(pi)
  PROVE  AskInv'
<1> DEFINE s == QueuedMessagesReordered(session, pi)
<1>1. pi \in [1..Len(session.queue) -> 1..Len(session.queue)]
  BY DEF Permutation
<1>2. s \in SessionType /\ s.turn = session.turn /\ s.parts = session.parts
  BY <1>1, Typed, ReorderedKeeps DEF SameButPending
<1>3. SyncPending(s) /\ UNCHANGED <<calls, approvals, toolAgents>>
  BY DEF ClientReorders
<1> HIDE DEF s
<1> QED BY <1>2, <1>3, SyncAsks

\* After an abort no approval is left.
LEMMA CancelsAsk ==
  ASSUME Inv, ToolInv, AskInv, NEW t \in Turn, ClientCancels(t) PROVE AskInv'
<1> DEFINE cs == DenyPending(calls)
<1>0. "denied" \in CallState /\ "answered" \in CallState
  BY DEF CallState
<1>1. cs \in Calls /\ Advances(calls, cs) /\ Keys(cs, clientWaits, "client")
  <2>1. Busy(calls, approvals) /\ clientWaits \ approvals = clientWaits
    BY WaitersBusy
  <2>2. Advances(calls, cs) /\ cs \in Calls
    BY <1>0, <2>1, CallsKnown, MoveAdvances DEF DenyPending
  <2>3. Keys(cs, clientWaits \ approvals, "client")
    BY <1>0, CallsKnown, KeysLeave DEF DenyPending, ToolInv, Resolvers
  <2> QED BY <2>1, <2>2, <2>3
<1>2. \/ calls' = cs
      \/ \E ids : ids \subseteq clientWaits /\ calls' = SetCalls(cs, ids, "answered")
  BY DEF ClientCancels, AnsweredBy
<1> HIDE DEF cs
<1>3. ASSUME NEW ids, ids \subseteq clientWaits
      PROVE  Advances(calls, SetCalls(cs, ids, "answered"))
  <2>1. Busy(cs, ids)
    <3> SUFFICES ASSUME NEW u \in Turn, NEW n \in 1..Len(cs[u]), <<u, n>> \in ids
                 PROVE  cs[u][n].st \notin {"queued", "done"}
      BY DEF Busy
    <3>1. n \in Nat
      BY <1>1, LenProperties DEF Calls
    <3>2. cs[u][n].st = "client"
      BY <1>1, <1>3, <3>1 DEF Keys, In
    <3> QED BY <3>2
  <2>2. Advances(cs, SetCalls(cs, ids, "answered"))
    BY <1>0, <1>1, <2>1, MoveAdvances
  <2> QED BY <1>1, <2>2, AdvancesTwice
<1>4. Advances(calls, calls')
  BY <1>1, <1>2, <1>3
<1>5. approvals' = {} /\ pc' = pc
  BY DEF ClientCancels
<1>6. WorkersAreAtTools'
  BY <1>4, <1>5, WorkersKeep
<1> QED BY <1>5, <1>6 DEF AskInv, ApprovalsAreEdits, ApprovalsShown

LEMMA ConfirmsAsk ==
  ASSUME Inv, ToolInv, AskInv, NEW c \in Call \ {Preview}, NEW ok \in BOOLEAN,
         ClientConfirms(c, ok)
  PROVE  AskInv'
<1> DEFINE r == ToolCallConfirmed(session, session.turn, c, ok)
<1>1. r.turn = session.turn
  BY Typed, ToolCallActions, StepsTyped DEF ToolCallConfirmed, SameButParts
<1>2. ASSUME NEW d, d # c, Pending(session, d) PROVE Pending(r, d)
  <2>1. ConfirmedStep(ok) \in Step /\ d \notin {c}
    BY <1>2, StepsTyped
  <2> QED BY <1>2, <2>1, Typed, PendingStep DEF ToolCallConfirmed
<1>3. /\ session' = r /\ approvals' = approvals \ {c} /\ toolAgents' = toolAgents \ {c}
      /\ pc' = pc
  BY DEF ClientConfirms, AskInv
<1> HIDE DEF r
<1>4. Advances(calls, calls')
  <2>1. "approved" \in CallState /\ "denied" \in CallState
    BY DEF CallState
  <2>2. CASE calls' = calls
    BY <2>2, SameAdvances
  <2>3. CASE c \in approvals /\ calls' = SetCalls(calls, {c}, IF ok THEN "approved" ELSE "denied")
    <3>1. Busy(calls, {c})
      BY <2>3, WaitersBusy
    <3> QED BY <2>1, <2>3, <3>1, CallsKnown, MoveAdvances
  <2> QED BY <2>2, <2>3 DEF ClientConfirms
<1>5. WorkersAreAtTools' /\ SameKinds(calls, calls')
  BY <1>3, <1>4, WorkersKeep
<1>6. approvals' \subseteq approvals /\ approvals' \subseteq toolAgents'
  BY <1>3 DEF AskInv
<1>7. /\ session'.turn = session.turn /\ \A u \in Turn : pc[u] = "retain" => pc'[u] = "retain"
      /\ \A d \in approvals' : Pending(session, d) => Pending(session', d)
  BY <1>1, <1>2, <1>3
<1> QED BY <1>5, <1>6, <1>7, AskFrame

\* What a client reports is a client's tool, no edit.
LEMMA AnswersAsk ==
  ASSUME Inv, ToolInv, AskInv, NEW c \in Call \ {Preview}, ClientAnswers(c) PROVE AskInv'
<1> DEFINE step == CompleteStep(FALSE)
           r == RefreshStatus(UpdateToolCalls(session, session.turn, {c}, step))
<1>1. step \in Step
  BY StepsTyped
<1>2. session' = r /\ UNCHANGED <<approvals, toolAgents, pc>>
  BY DEF ClientAnswers, ToolCallsComplete, recordVars
<1> HIDE DEF step
<1>3. r.turn = session.turn
  BY <1>1, Typed, ToolCallActions DEF SameButParts
<1>4. ASSUME NEW d \in approvals, Pending(session, d) PROVE Pending(r, d)
  <2>1. PICK t \in Turn, n \in Nat : d = <<t, n>>
    BY CallsKnown
  <2>2. calls[t][n].kind = "edit"
    BY <2>1, ApprovalKnown
  <2>3. calls[c[1]][c[2]].kind = "client"
    BY DEF ClientAnswers, IsKind
  <2>4. d # c
    BY <2>1, <2>2, <2>3
  <2> QED BY <1>1, <1>4, <2>4, Typed, PendingStep
<1> HIDE DEF r
<1>5. Advances(calls, calls')
  <2>1. Busy(calls, clientWaits \cap {c}) /\ "answered" \in CallState
    BY WaitersBusy DEF CallState
  <2>2. calls' = SetCalls(calls, clientWaits \cap {c}, "answered")
    BY DEF ClientAnswers
  <2> QED BY <2>1, <2>2, CallsKnown, MoveAdvances
<1> QED BY <1>2, <1>3, <1>4, <1>5, AskQuiet

-----------------------------------------------------------------------------
(* Runs *)

\* A run that leaves through its catch block with no call at work: it ends the
\* active turn, or keeps it until the partial answer is saved.
LEMMA UnwindAsks ==
  ASSUME Inv, ToolInv, AskInv, NEW t \in Turn, NEW cancelled \in BOOLEAN,
         Unwind(t, session, cancelled), approvals' = approvals, toolAgents' = toolAgents,
         Advances(calls, calls'), \A n \in Nat : <<t, n>> \notin approvals,
         \A n \in Nat : ~Working(calls', t, n)
  PROVE  AskInv'
<1> DEFINE quiet == SigActivity(session, "none")
           swept == IF cancelled /\ tracked # {} THEN SigComplete(quiet, tracked) ELSE quiet
           final == SigEnd(swept, IF cancelled THEN "Cancelled" ELSE "Error")
           keeps == cancelled /\ t \in streamed
<1>1. quiet \in SessionType /\ quiet.turn = session.turn
  BY Typed, SignalKeeps DEF Label
<1> HIDE DEF quiet
<1>2. swept \in SessionType /\ swept.turn = session.turn
  BY <1>1, SignalKeeps
<1>3. /\ session' = IF keeps THEN swept ELSE final
      /\ pc' = [pc EXCEPT ![t] = IF keeps THEN "retain" ELSE "done"]
  BY DEF Unwind, quiet
<1> HIDE DEF swept
<1>4. final.turn = NoTurn
  BY <1>2, EndKeeps DEF TurnEnd
<1> HIDE DEF final
<1>5. WorkersAreAtTools'
  <2> SUFFICES ASSUME NEW u \in Turn, NEW n \in Nat, Working(calls', u, n)
               PROVE  pc'[u] = "tools"
    BY DEF WorkersAreAtTools, Working
  <2>1. u # t
    OBVIOUS
  <2>2. Working(calls, u, n)
    BY DEF Advances
  <2>3. pc[u] = "tools"
    BY <2>2 DEF AskInv, WorkersAreAtTools
  <2> QED BY <1>3, <2>1, <2>3, KnownShows
<1>6. SameKinds(calls, calls')
  BY DEF Advances, SameKinds
<1>7. approvals' \subseteq approvals /\ approvals' \subseteq toolAgents'
  BY DEF AskInv
<1>8. CASE keeps
  <2>1. session'.turn = session.turn /\ pc'[t] = "retain"
    BY <1>2, <1>3, <1>8, KnownShows
  <2> QED BY <1>5, <1>6, <1>7, <2>1, AskFrame
<1>9. CASE ~keeps
  <2>1. session'.turn = NoTurn
    BY <1>3, <1>4, <1>9
  <2> QED BY <1>5, <1>6, <1>7, <2>1, AskFrame
<1> QED BY <1>8, <1>9

LEMMA SweepAdvances ==
  ASSUME Inv, ToolInv, NEW cancelled \in BOOLEAN
  PROVE  LET cs == SetCalls(calls, Swept(cancelled), "answered") IN
         Advances(calls, cs) /\ cs \in Calls
<1>1. Swept(cancelled) \subseteq clientWaits
  BY DEF Swept, AnsweredBy
<1>2. Busy(calls, Swept(cancelled)) /\ "answered" \in CallState
  BY <1>1, WaitersBusy DEF CallState
<1> QED BY <1>2, CallsKnown, MoveAdvances

LEMMA FailsAsks ==
  ASSUME Inv, ToolInv, AskInv, NEW t \in Turn, Fails(t) PROVE AskInv'
<1>1. PICK cancelled \in BOOLEAN :
        /\ Unwind(t, session, cancelled)
        /\ calls' = SetCalls(calls, Swept(cancelled), "answered")
  BY DEF Fails, Cancels, Swept
<1>2. approvals' = approvals /\ toolAgents' = toolAgents /\ pc[t] # "tools"
  BY DEF Fails
<1>3. Advances(calls, calls')
  BY <1>1, SweepAdvances
<1>4. \A n \in Nat : ~Working(calls, t, n)
  BY <1>2 DEF AskInv, WorkersAreAtTools
<1>5. \A n \in Nat : <<t, n>> \notin approvals
  BY <1>2, ApprovalKnown
<1>6. \A n \in Nat : ~Working(calls', t, n)
  BY <1>3, <1>4 DEF Advances
<1> QED BY <1>1, <1>2, <1>3, <1>5, <1>6, UnwindAsks

\* The call that throws is the only one at work, or its siblings are read-only
\* tools: no approval of the run is pending.
LEMMA ThrowsAsk ==
  ASSUME Inv, ToolInv, AskInv, NEW t \in Turn, NEW n \in 1..MaxCalls, ToolThrows(t, n)
  PROVE  AskInv'
<1> DEFINE c == <<t, n>>
<1>0. /\ n \in Nat /\ n \in 1..Len(calls[t]) /\ "done" \in CallState
      /\ calls[t][n].st \notin {"queued", "done", "approval"}
      /\ approvals' = approvals /\ toolAgents' = toolAgents
  BY TurnAssumption DEF ToolThrows, CallState
<1>1. CASE calls' = SetCalls(calls, {c}, "done") /\ UNCHANGED <<session, pc>>
  <2>1. Busy(calls, {c})
    BY <1>0, OneBusy
  <2>2. Advances(calls, calls')
    BY <1>0, <1>1, <2>1, CallsKnown, MoveAdvances
  <2>3. /\ \A u \in Turn : pc'[u] = pc[u]
        /\ session'.turn = session.turn
        /\ \A d \in approvals : Pending(session, d) => Pending(session', d)
    BY <1>1
  <2> QED BY <1>0, <2>2, <2>3, AskQuiet
<1>2. ASSUME NEW cancelled \in BOOLEAN, Unwind(t, session, cancelled),
             calls' = SetCalls(SetCalls(calls, Swept(cancelled), "answered"), {c}, "done")
      PROVE  AskInv'
  <2> DEFINE cs == SetCalls(calls, Swept(cancelled), "answered")
  <2>1. cs \in Calls /\ Advances(calls, cs) /\ "answered" \in CallState
    BY SweepAdvances DEF CallState
  <2>2. cs[t][n].st \notin {"queued", "done"}
    <3>1. cs[t][n].st = IF c \in Swept(cancelled) THEN "answered" ELSE calls[t][n].st
      BY <1>0, <2>1, CallsKnown, Moved
    <3> QED BY <1>0, <3>1
  <2>3. calls' = SetCalls(cs, {c}, "done")
    BY <1>2
  <2> HIDE DEF cs
  <2>4. Busy(cs, {c})
    BY <2>2, OneBusy
  <2>5. Advances(cs, calls')
    BY <1>0, <2>1, <2>3, <2>4, MoveAdvances
  <2>6. Advances(calls, calls')
    BY <2>1, <2>5, AdvancesTwice
  <2>7. ASSUME NEW m \in Nat, m # n PROVE ~Working(calls, t, m)
    <3> SUFFICES ASSUME Working(calls, t, m) PROVE FALSE
      OBVIOUS
    <3>1. /\ m \in 1..Len(calls[t]) /\ calls[t][m].st \notin {"queued", "done"}
          /\ calls[t][m].kind # "read" /\ (m < n \/ n < m)
      BY <1>0, <2>7 DEF Working
    <3> QED BY <1>0, <3>1 DEF ToolInv, ReadsOnly
  <2>8. ASSUME NEW m \in Nat PROVE ~Working(calls', t, m)
    <3>1. CASE m # n
      BY <2>6, <2>7, <3>1 DEF Advances
    <3>2. CASE m = n
      <4>1. n \in 1..Len(cs[t])
        BY <1>0, <2>1 DEF Advances
      <4> DEFINE ids == {c}
      <4>2. <<t, n>> \in ids /\ calls' = SetCalls(cs, ids, "done")
        BY <2>3
      <4> HIDE DEF ids
      <4>3. SetCalls(cs, ids, "done")[t][n].st = IF <<t, n>> \in ids THEN "done" ELSE cs[t][n].st
        BY <1>0, <2>1, <4>1, Moved
      <4>4. calls'[t][n].st = "done"
        BY <4>2, <4>3
      <4> QED BY <3>2, <4>4 DEF Working
    <3> QED BY <3>1, <3>2
  <2>9. ASSUME NEW m \in Nat PROVE <<t, m>> \notin approvals
    BY <1>0, <2>7, ApprovalKnown
  <2> QED BY <1>0, <1>2, <2>6, <2>8, <2>9, UnwindAsks
<1>3. \/ calls' = SetCalls(calls, {c}, "done") /\ UNCHANGED <<session, pc>>
      \/ \E cancelled \in BOOLEAN :
           /\ Unwind(t, session, cancelled)
           /\ calls' = SetCalls(SetCalls(calls, Swept(cancelled), "answered"), {c}, "done")
  BY DEF ToolThrows, Cancels, Swept
<1> QED BY <1>1, <1>2, <1>3

LEMMA RetainedAsks ==
  ASSUME Inv, ToolInv, AskInv, NEW t \in Turn, Retained(t) PROVE AskInv'
<1>1. session'.turn = NoTurn
  BY Typed, EndKeeps DEF Retained, TurnEnd
<1>2. UNCHANGED <<calls, approvals, toolAgents>> /\ pc[t] = "retain"
      /\ pc' = [pc EXCEPT ![t] = "done"]
  BY DEF Retained
<1>3. \A u \in Turn : pc[u] = "tools" => pc'[u] = "tools"
  BY <1>2, KnownShows
<1> QED BY <1>1, <1>2, <1>3, AskEnds

LEMMA FinishesAsks ==
  ASSUME Inv, ToolInv, AskInv, NEW t \in Turn, Finishes(t) PROVE AskInv'
<1> DEFINE label == IF pc[t] = "fastlane" THEN "none" ELSE activity
           quiet == SigActivity(session, label)
           ended == SigEnd(quiet, "Complete")
<1>0. label \in Label /\ "Complete" \in TurnEnd
  BY KnownShows DEF Label, TurnEnd
<1> HIDE DEF label
<1>1. quiet \in SessionType
  BY <1>0, Typed, SignalKeeps
<1> HIDE DEF quiet
<1>2. ended \in SessionType /\ ended.turn = NoTurn
  BY <1>0, <1>1, EndKeeps
<1> HIDE DEF ended
<1>3. UNCHANGED <<calls, approvals, toolAgents>> /\ pc[t] \in {"persist", "fastlane"}
  BY DEF Finishes
<1>4. CASE session' = ended /\ pc' = [pc EXCEPT ![t] = "done"]
  <2>1. \A u \in Turn : pc[u] = "tools" => pc'[u] = "tools"
    BY <1>3, <1>4, KnownShows
  <2>2. session'.turn = NoTurn
    BY <1>2, <1>4
  <2> QED BY <1>3, <2>1, <2>2, AskEnds
<1>5. ASSUME NEW u \in Turn, Consumes(ended), ConsumeNext(ended, u, label),
             pc' = [pc EXCEPT ![t] = "done", ![u] = "prepare"]
      PROVE  AskInv'
  <2>1. ended.queue[1] \in Message
    BY <1>2, <1>5, QueueHead DEF Consumes
  <2>2. session'.turn = u /\ u \notin Started
    BY <1>0, <1>2, <1>5, <2>1, BeginKeeps DEF ConsumeNext
  <2>3. \A v \in Turn : pc[v] = "tools" => pc'[v] = "tools"
    BY <1>3, <1>5, <2>2, KnownShows DEF Started
  <2> QED BY <1>3, <2>2, <2>3, AskBegins
<1> QED BY <1>4, <1>5 DEF Finishes, label, quiet, ended

\* A run goes from one await to the next.
LEMMA MovesAsk ==
  ASSUME Inv, ToolInv, AskInv, NEW t \in Turn,
         Prepares(t) \/ Responds(t) \/ Continues(t) \/ Concludes(t)
  PROVE  AskInv'
<1>1. /\ UNCHANGED <<session, calls, approvals, toolAgents>>
      /\ pc[t] \in {"prepare", "chat", "body"} /\ \E z : pc' = [pc EXCEPT ![t] = z]
  BY DEF Prepares, Responds, Continues, Concludes, hostVars, agentVars
<1>2. Advances(calls, calls')
  BY <1>1, SameAdvances
<1>3. \A u \in Turn : pc[u] \in {"tools", "retain"} => pc'[u] = pc[u]
  BY <1>1, KnownShows
<1>4. /\ session'.turn = session.turn
      /\ \A d \in approvals : Pending(session, d) => Pending(session', d)
  BY <1>1
<1> QED BY <1>1, <1>2, <1>3, <1>4, AskQuiet

LEMMA RoundAsks ==
  ASSUME Inv, ToolInv, AskInv, NEW t \in Turn, RoundEnds(t) PROVE AskInv'
<1>1. /\ UNCHANGED <<session, calls, approvals, toolAgents>> /\ pc' = [pc EXCEPT ![t] = "chat"]
      /\ pc[t] = "tools" /\ \A n \in 1..Len(calls[t]) : calls[t][n].st = "done"
  BY DEF RoundEnds, hostVars, agentVars
<1>2. WorkersAreAtTools'
  <2> SUFFICES ASSUME NEW u \in Turn, NEW n \in Nat, Working(calls, u, n)
               PROVE  pc'[u] = "tools"
    BY <1>1 DEF WorkersAreAtTools, Working
  <2>1. u # t
    BY <1>1 DEF Working
  <2>2. pc[u] = "tools"
    BY DEF AskInv, WorkersAreAtTools
  <2> QED BY <1>1, <2>1, <2>2, KnownShows
<1>3. SameKinds(calls, calls')
  BY <1>1 DEF SameKinds
<1>4. /\ session'.turn = session.turn /\ \A u \in Turn : pc[u] = "retain" => pc'[u] = "retain"
      /\ \A d \in approvals' : Pending(session, d) => Pending(session', d)
  BY <1>1, KnownShows
<1>5. approvals' \subseteq approvals /\ approvals' \subseteq toolAgents'
  BY <1>1 DEF AskInv
<1> QED BY <1>2, <1>3, <1>4, <1>5, AskFrame

\* The calls the model asks for are queued: none is at work yet.
LEMMA AsksAsk ==
  ASSUME Inv, ToolInv, AskInv, NEW t \in Turn, AsksForTools(t) PROVE AskInv'
<1>0. PICK n \in 1 .. MaxCalls - Len(calls[t]) : \E kinds \in [1..n -> Kinds] :
        calls' = [calls EXCEPT ![t] = calls[t] \o Asked(n, kinds)]
  BY DEF AsksForTools, Asked
<1>1. PICK kinds \in [1..n -> Kinds] :
        calls' = [calls EXCEPT ![t] = calls[t] \o Asked(n, kinds)]
  BY <1>0
<1>2. n \in Nat /\ kinds \in [1..n -> ToolKind] /\ calls \in [Turn -> Seq(CallRecord)]
  BY Typed, TurnAssumption
<1> DEFINE row == calls[t] \o Asked(n, kinds)
<1>3. /\ Len(row) = Len(calls[t]) + n /\ Len(calls[t]) \in Nat
      /\ \A i \in 1..Len(calls[t]) : row[i] = calls[t][i]
      /\ \A i \in 1..(Len(calls[t]) + n) : i \notin 1..Len(calls[t]) => row[i].st = "queued"
  BY <1>2, AskedTyped, Typed
<1>4. calls'[t] = row /\ \A u \in Turn : u # t => calls'[u] = calls[u]
  BY <1>1, <1>2
<1> HIDE DEF row
<1>5. ASSUME NEW u \in Turn, NEW i \in Nat
      PROVE  /\ i \in 1..Len(calls[u]) =>
                  i \in 1..Len(calls'[u]) /\ calls'[u][i].kind = calls[u][i].kind
             /\ Working(calls', u, i) => Working(calls, u, i)
  <2>1. CASE u # t
    BY <1>4, <2>1 DEF Working
  <2>2. CASE u = t
    <3>1. i \in 1..Len(calls[t]) => i \in 1..Len(row) /\ row[i] = calls[t][i]
      BY <1>2, <1>3
    <3>2. i \in 1..Len(row) /\ i \notin 1..Len(calls[t]) => row[i].st = "queued"
      BY <1>3
    <3> QED BY <1>4, <2>2, <3>1, <3>2 DEF Working
  <2> QED BY <2>1, <2>2
<1>6. Advances(calls, calls')
  BY <1>5 DEF Advances
<1>7. /\ UNCHANGED <<session, approvals, toolAgents>>
      /\ pc[t] = "body" /\ pc' = [pc EXCEPT ![t] = "tools"]
  BY DEF AsksForTools, hostVars, agentVars
<1>8. \A u \in Turn : pc[u] \in {"tools", "retain"} => pc'[u] = pc[u]
  BY <1>7, KnownShows
<1>9. /\ session'.turn = session.turn
      /\ \A d \in approvals : Pending(session, d) => Pending(session', d)
  BY <1>7
<1> QED BY <1>6, <1>7, <1>8, <1>9, AskQuiet

LEMMA AdmitsAsk ==
  ASSUME Inv, ToolInv, AskInv, NEW t \in Turn, AdmitsTools(t) PROVE AskInv'
<1> DEFINE ids == {<<t, n>> : n \in NextBatch(t)}
<1>1. /\ calls' = SetCalls(calls, ids, "gated") /\ pc[t] = "tools"
      /\ UNCHANGED <<session, approvals, toolAgents, pc>>
  BY DEF AdmitsTools, agentVars, hostVars
<1>2. \A u \in Turn : \A n : <<u, n>> \in ids => u = t
  OBVIOUS
<1> HIDE DEF ids
<1>3. ASSUME NEW u \in Turn, NEW n \in Nat
      PROVE  /\ Len(calls'[u]) = Len(calls[u])
             /\ n \in 1..Len(calls[u]) =>
                  /\ calls'[u][n].kind = calls[u][n].kind
                  /\ u # t => calls'[u][n].st = calls[u][n].st
  <2>1. "gated" \in CallState /\ calls \in Calls
    BY CallsKnown DEF CallState
  <2>2. /\ Len(SetCalls(calls, ids, "gated")[u]) = Len(calls[u])
        /\ n \in 1..Len(calls[u]) =>
             /\ SetCalls(calls, ids, "gated")[u][n].kind = calls[u][n].kind
             /\ SetCalls(calls, ids, "gated")[u][n].st =
                  IF <<u, n>> \in ids THEN "gated" ELSE calls[u][n].st
    BY <2>1, Moved
  <2> QED BY <1>1, <1>2, <2>2
<1>4. SameKinds(calls, calls')
  BY <1>3 DEF SameKinds
<1>5. WorkersAreAtTools'
  <2> SUFFICES ASSUME NEW u \in Turn, NEW n \in Nat, Working(calls', u, n), u # t
               PROVE  pc[u] = "tools"
    BY <1>1 DEF WorkersAreAtTools, Working
  <2>1. Working(calls, u, n)
    BY <1>3 DEF Working
  <2> QED BY <2>1 DEF AskInv, WorkersAreAtTools
<1>6. /\ session'.turn = session.turn /\ \A u \in Turn : pc[u] = "retain" => pc'[u] = "retain"
      /\ \A d \in approvals' : Pending(session, d) => Pending(session', d)
      /\ approvals' \subseteq approvals /\ approvals' \subseteq toolAgents'
  BY <1>1 DEF AskInv
<1> QED BY <1>4, <1>5, <1>6, AskFrame

LEMMA StreamsAsk ==
  ASSUME Inv, ToolInv, AskInv, NEW t \in Turn,
         StreamsText(t) \/ StreamsReasoning(t) \/ HandsOff(t)
  PROVE  AskInv'
<1>1. PICK label \in {"none", "reasoning"} : session' = SigActivity(session, label)
  BY DEF StreamsText, StreamsReasoning, HandsOff
<1>2. /\ UNCHANGED <<calls, approvals, toolAgents>>
      /\ pc' = pc \/ (pc[t] = "handoff" /\ pc' = [pc EXCEPT ![t] = "persist"])
  BY DEF StreamsText, StreamsReasoning, HandsOff, runVars
<1>3. label \in Label
  BY DEF Label
<1>4. /\ session'.turn = session.turn
      /\ \A d \in approvals : Pending(session, d) => Pending(session', d)
  BY <1>1, <1>3, Typed, SignalKeeps, PendingActivity
<1>5. Advances(calls, calls') /\ \A u \in Turn : pc[u] \in {"tools", "retain"} => pc'[u] = pc[u]
  BY <1>2, SameAdvances, KnownShows
<1> QED BY <1>2, <1>4, <1>5, AskQuiet

LEMMA AnnouncesAsk ==
  ASSUME Inv, ToolInv, AskInv, NEW t \in Turn, AnnouncesTool(t) PROVE AskInv'
<1> DEFINE lit == SigActivity(session, "tool")
<1>1. Len(calls[t]) \in Nat /\ Len(calls[t]) < MaxCalls
  BY Typed DEF AnnouncesTool
<1>2. PICK c \in {Preview, <<t, Len(calls[t]) + 1>>} :
        session' = SigStart(lit, c) /\ toolAgents' = toolAgents \cup {c}
  BY DEF AnnouncesTool
<1>3. Len(calls[t]) + 1 \in 1..MaxCalls
  BY <1>1, TurnAssumption
<1>4. c \in Call
  BY <1>3, CallsTyped, TurnAssumption
<1>5. /\ lit \in SessionType /\ lit.turn = session.turn
      /\ \A d \in approvals : Pending(session, d) => Pending(lit, d)
  BY Typed, SignalKeeps, PendingActivity DEF Label
<1> HIDE DEF lit
<1>6. /\ session'.turn = session.turn
      /\ \A d \in approvals : Pending(session, d) => Pending(session', d)
  BY <1>2, <1>4, <1>5, StartParts, PendingStart
<1>7. UNCHANGED <<calls, approvals, pc>> /\ toolAgents \subseteq toolAgents'
  BY <1>2 DEF AnnouncesTool
<1>8. Advances(calls, calls') /\ \A u \in Turn : pc'[u] = pc[u]
  BY <1>7, SameAdvances
<1> QED BY <1>6, <1>7, <1>8, AskQuiet

-----------------------------------------------------------------------------
(* Tool calls *)

\* A call at work that does not wait for the user takes a step of its own.
LEMMA CallAsks ==
  ASSUME Inv, ToolInv, AskInv, NEW t \in Turn, NEW n \in 1..MaxCalls, NEW st \in CallState,
         calls[t][n].st \notin {"queued", "done", "approval"},
         calls' = SetCalls(calls, {<<t, n>>}, st), UNCHANGED <<approvals, pc>>,
         toolAgents \ {<<t, n>>} \subseteq toolAgents',
         session'.turn = session.turn,
         \A d \in approvals : d # <<t, n>> /\ Pending(session, d) => Pending(session', d)
  PROVE  AskInv'
<1>1. n \in Nat
  BY TurnAssumption
<1>2. <<t, n>> \notin approvals
  BY <1>1, ResolversApart DEF ToolInv
<1>3. Busy(calls, {<<t, n>>})
  BY OneBusy
<1>4. Advances(calls, calls')
  BY <1>3, CallsKnown, MoveAdvances
<1>5. WorkersAreAtTools' /\ SameKinds(calls, calls')
  BY <1>4, WorkersKeep
<1>6. approvals' \subseteq approvals /\ approvals' \subseteq toolAgents'
  BY <1>2 DEF AskInv
<1>7. /\ session'.turn = session.turn /\ \A u \in Turn : pc[u] = "retain" => pc'[u] = "retain"
      /\ \A d \in approvals' : Pending(session, d) => Pending(session', d)
  BY <1>2
<1> QED BY <1>5, <1>6, <1>7, AskFrame

\* What the signals of call c leave on screen.
LEMMA SignalsAsk ==
  ASSUME NEW s \in SessionType, NEW c \in Call, NEW d, d # c, Pending(s, d)
  PROVE  /\ \A label \in Label : Pending(SigActivity(s, label), d)
         /\ Pending(SigStart(s, c), d)
         /\ \A b \in BOOLEAN : Pending(SigReady(s, c, b), d)
         /\ Pending(SigComplete(s, {c}), d)
<1>1. d \notin {c}
  OBVIOUS
<1> QED BY <1>1, PendingActivity, PendingStart, PendingSignals

LEMMA ToolsAsk ==
  ASSUME Inv, ToolInv, AskInv, NEW t \in Turn, NEW n \in 1..MaxCalls,
         \/ RefusesTool(t, n) \/ OpensGate(t, n) \/ StartsHostTool(t, n)
         \/ RunsSilently(t, n) \/ EndsSilently(t, n) \/ StartsClientTool(t, n)
         \/ SkipsClientTool(t, n) \/ SkipsEdit(t, n) \/ CompletesTool(t, n)
  PROVE  AskInv'
<1> DEFINE c == <<t, n>>
<1>0. c \in Call /\ session \in SessionType /\ TRUE \in BOOLEAN /\ "tool" \in Label
  BY CallsTyped, Typed DEF Label
<1>1. /\ \E st \in {"opened", "running", "silent", "client", "done"} :
            calls' = SetCalls(calls, {c}, st)
      /\ calls[t][n].st \in {"gated", "opened", "silent", "running", "answered", "approved", "denied"}
      /\ UNCHANGED <<approvals, pc>> /\ toolAgents \subseteq toolAgents'
  BY DEF RefusesTool, OpensGate, StartsHostTool, RunsSilently, EndsSilently, CallIs,
         StartsClientTool, SkipsClientTool, SkipsEdit, CompletesTool, agentVars, hostVars, Began
<1>2. {"opened", "running", "silent", "client", "done"} \subseteq CallState
  BY DEF CallState
<1> DEFINE Kept(s) == /\ s \in SessionType /\ s.turn = session.turn
                      /\ \A d \in approvals : d # c /\ Pending(session, d) => Pending(s, d)
<1> HIDE DEF c
<1>3. Kept(session)
  BY <1>0
<1>4. ASSUME NEW s, Kept(s)
      PROVE  /\ \A label \in Label : Kept(SigActivity(s, label))
             /\ Kept(SigReady(SigStart(s, c), c, TRUE)) /\ Kept(SigComplete(s, {c}))
  <2>1. \A label \in Label : Kept(SigActivity(s, label))
    BY <1>0, <1>4, SignalKeeps, SignalsAsk
  <2>2. Kept(SigStart(s, c)) /\ Kept(SigComplete(s, {c}))
    BY <1>0, <1>4, SignalKeeps, SignalsAsk
  <2>3. ASSUME NEW r, Kept(r) PROVE Kept(SigReady(r, c, TRUE))
    BY <1>0, <2>3, SignalKeeps, SignalsAsk
  <2> HIDE DEF Kept
  <2> QED BY <2>1, <2>2, <2>3
<1>5. \/ session' = session
      \/ \E line \in Label : \/ session' = SigActivity(session, line)
                             \/ session' = SigComplete(SigActivity(session, line), {c})
      \/ session' = SigReady(SigStart(session, c), c, TRUE)
      \/ session' = SigReady(SigStart(SigActivity(session, "tool"), c), c, TRUE)
      \/ session' = SigComplete(session, {c})
  BY DEF RefusesTool, OpensGate, StartsHostTool, RunsSilently, EndsSilently, c,
         StartsClientTool, SkipsClientTool, SkipsEdit, CompletesTool, hostVars
<1> HIDE DEF Kept
<1>6. Kept(session')
  BY <1>0, <1>3, <1>4, <1>5
<1>7. session'.turn = session.turn
      /\ \A d \in approvals : d # c /\ Pending(session, d) => Pending(session', d)
  BY <1>6 DEF Kept
<1> QED BY <1>1, <1>2, <1>7, CallAsks DEF c

\* The agent registers the approval, its answer's route and the confirmation
\* on screen in one step.
LEMMA ProposesAsk ==
  ASSUME Inv, ToolInv, AskInv, NEW t \in Turn, NEW n \in 1..MaxCalls, ProposesEdit(t, n)
  PROVE  AskInv'
<1> DEFINE c == <<t, n>>
           lit == SigActivity(session, "tool")
           begun == SigStart(lit, c)
           asked == SigReady(begun, c, TRUE)
           sure == SigReady(asked, c, TRUE)
           unsure == SigReady(asked, c, FALSE)
<1>0. /\ c \in Call /\ n \in Nat /\ TRUE \in BOOLEAN /\ FALSE \in BOOLEAN /\ "tool" \in Label
      /\ "approved" \in CallState /\ "denied" \in CallState /\ "approval" \in CallState
  BY CallsTyped, TurnAssumption DEF Label, CallState
<1>1. /\ n \in 1..Len(calls[t]) /\ calls[t][n].st = "gated" /\ calls[t][n].kind = "edit"
      /\ pc' = pc
      /\ \/ /\ session' \in {begun, sure} /\ approvals' = approvals
            /\ toolAgents \ {c} \subseteq toolAgents'
            /\ \E st \in {"approved", "denied"} : calls' = SetCalls(calls, {c}, st)
         \/ /\ session' = unsure /\ approvals' = approvals \cup {c}
            /\ toolAgents' = toolAgents \cup {c}
            /\ calls' = SetCalls(calls, {c}, "approval")
  BY DEF ProposesEdit, CallIs
<1>2. session.turn # NoTurn /\ c[1] = session.turn => Pending(unsure, c)
  <2>1. lit \in SessionType /\ lit.turn = session.turn
    BY <1>0, Typed, SignalKeeps
  <2> HIDE DEF lit
  <2> QED BY <1>0, <2>1, PendingAsked
<1>3. t # NoTurn /\ c[1] = t
  BY AbsentValues
<1> DEFINE Kept(s) == /\ s \in SessionType /\ s.turn = session.turn
                      /\ \A d \in approvals : d # c /\ Pending(session, d) => Pending(s, d)
<1> HIDE DEF c
<1>4. Kept(lit)
  BY <1>0, Typed, SignalKeeps, SignalsAsk
<1> HIDE DEF lit
<1>5. Kept(begun)
  BY <1>0, <1>4, SignalKeeps, SignalsAsk
<1> HIDE DEF begun
<1>6. Kept(asked)
  BY <1>0, <1>5, SignalKeeps, SignalsAsk
<1> HIDE DEF asked
<1>7. Kept(sure) /\ Kept(unsure)
  BY <1>0, <1>6, SignalKeeps, SignalsAsk
<1> HIDE DEF sure, unsure
<1>8. Kept(session')
  BY <1>1, <1>5, <1>7
<1>9. session'.turn = session.turn
      /\ \A d \in approvals : d # c /\ Pending(session, d) => Pending(session', d)
  BY <1>8 DEF Kept
<1> HIDE DEF Kept
<1>10. CASE /\ approvals' = approvals /\ toolAgents \ {c} \subseteq toolAgents'
            /\ \E st \in {"approved", "denied"} : calls' = SetCalls(calls, {c}, st)
  BY <1>0, <1>1, <1>9, <1>10, CallAsks DEF c
<1>11. CASE /\ session' = unsure /\ approvals' = approvals \cup {c}
            /\ toolAgents' = toolAgents \cup {c}
            /\ calls' = SetCalls(calls, {c}, "approval")
  <2>1. Advances(calls, calls')
    <3>1. Busy(calls, {c})
      BY <1>1, OneBusy DEF c
    <3> QED BY <1>0, <1>11, <3>1, CallsKnown, MoveAdvances
  <2>2. WorkersAreAtTools' /\ SameKinds(calls, calls')
    BY <1>1, <2>1, WorkersKeep
  <2>3. ApprovalsAreEdits'
    <3> SUFFICES ASSUME NEW u \in Turn, NEW m \in Nat, <<u, m>> \in approvals'
                 PROVE  calls'[u][m].kind = "edit"
      BY DEF ApprovalsAreEdits
    <3>1. CASE <<u, m>> \in approvals
      <4>1. m \in 1..Len(calls[u]) /\ calls[u][m].kind = "edit"
        BY <3>1, ApprovalKnown
      <4> QED BY <2>2, <4>1 DEF SameKinds
    <3>2. CASE <<u, m>> = c
      <4>1. u = t /\ m = n
        BY <3>2 DEF c
      <4> QED BY <1>0, <1>1, <2>2, <4>1 DEF SameKinds
    <3> QED BY <1>11, <3>1, <3>2
  <2>4. approvals' \subseteq toolAgents'
    BY <1>11 DEF AskInv
  <2>5. ApprovalsShown'
    <3> SUFFICES ASSUME NEW d \in approvals', d[1] = session'.turn
                 PROVE  Pending(session', d) \/ \E u \in Turn \ {d[1]} : pc[u] = "retain"
      BY <1>1 DEF ApprovalsShown, Retaining, Pending
    <3>1. CASE d = c
      BY <1>2, <1>3, <1>9, <1>11, <3>1
    <3>2. CASE d # c
      <4>1. d \in approvals
        BY <1>11, <3>2
      <4>2. Pending(session, d) \/ \E u \in Turn \ {d[1]} : pc[u] = "retain"
        BY <1>9, <4>1 DEF AskInv, ApprovalsShown, Retaining
      <4> QED BY <1>9, <3>2, <4>1, <4>2
    <3> QED BY <3>1, <3>2
  <2> QED BY <2>2, <2>3, <2>4, <2>5 DEF AskInv
<1> QED BY <1>1, <1>10, <1>11

-----------------------------------------------------------------------------
LEMMA InitAsks == Init => AskInv
BY EmptySeq DEF Init, AskInv, WorkersAreAtTools, Working, ApprovalsAreEdits, ApprovalsShown

LEMMA StepAsks == Inv /\ ToolInv /\ AskInv /\ [Next]_vars => AskInv'
<1> SUFFICES ASSUME Inv, ToolInv, AskInv, [Next]_vars PROVE AskInv'
  OBVIOUS
<1>1. ASSUME NEW t \in Turn, Run(t) PROVE AskInv'
  BY <1>1, MovesAsk, StreamsAsk, AnnouncesAsk, AsksAsk, AdmitsAsk, RoundAsks,
     FinishesAsks, FailsAsks, RetainedAsks DEF Run
<1>2. ASSUME NEW t \in Turn, NEW n \in 1..MaxCalls, Tool(t, n) PROVE AskInv'
  BY <1>2, ToolsAsk, ProposesAsk, ThrowsAsk DEF Tool
<1>3. CASE ClientStep
  BY <1>3, StartAsks, CancelsAsk, QueuesAsk, ReordersAsk, ConfirmsAsk,
     AnswersAsk DEF ClientStep
<1>4. CASE UNCHANGED vars
  BY <1>4 DEF vars, AskInv, WorkersAreAtTools, Working, ApprovalsAreEdits,
              ApprovalsShown, Pending, Retaining
<1> QED BY <1>1, <1>2, <1>3, <1>4 DEF Next

LEMMA AsksInductive == Spec => []AskInv
<1> QED BY InitAsks, StepAsks, Inductive, ToolsInductive, PTL DEF Spec

\* Whatever stale runs sweep and however their signals are rewritten, once the
\* active turn's run is the only one left, every approval it waits for is on
\* screen and the user's answer would reach the agent.
THEOREM ApprovalsAnswerable == Spec => []AnswerableApproval
<1>1. Inv /\ ToolInv /\ AskInv => AnswerableApproval
  <2> SUFFICES ASSUME Inv, ToolInv, AskInv, NEW c \in approvals, c[1] = session.turn,
                      \A u \in Turn \ {c[1]} : ~Live(u)
               PROVE  /\ [call |-> c, st |-> "PendingConfirmation"] \in
                           {session.parts[i] : i \in 1..Len(session.parts)}
                      /\ c \in toolAgents
    BY DEF AnswerableApproval
  <2>1. ~Retaining(c)
    BY DEF Retaining, Live
  <2>2. Pending(session, c)
    BY <2>1 DEF AskInv, ApprovalsShown
  <2>3. c \in toolAgents
    BY DEF AskInv
  <2> QED BY <2>2, <2>3 DEF Pending
<1> QED BY <1>1, Inductive, ToolsInductive, AsksInductive, PTL
=============================================================================
