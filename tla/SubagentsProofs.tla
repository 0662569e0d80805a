--------------------------- MODULE SubagentsProofs ---------------------------
(***************************************************************************)
(* Proofs about Subagents, for any number of subagents, calls and turns:   *)
(* child sessions in a turn are tracked, clients find those at work, no    *)
(* call of a subagent appears in the session itself, and the child session *)
(* of one at work shows what was signalled, before it started and since.   *)
(***************************************************************************)
EXTENDS Subagents, WellFoundedInduction, TLAPS

-----------------------------------------------------------------------------
(* The inductive invariant *)

Shapes ==
  /\ turn \in BOOLEAN /\ tracked \subseteq Task
  /\ task \in [Task -> {"none", "running", "done", "gone"}]
  /\ part \in [Task -> {"none", "running", "done"}] /\ link \in [Task -> BOOLEAN]
  /\ child \in [Task -> {"absent", "active", "idle"}]

\* A child is tracked only after its task has started, ...
TrackedHasTask == \A a \in tracked : task[a] # "none"

\* ... parts belong to a turn, and one that is over to a task that has
\* returned: so a subagent that starts finds its part running, or none.
PartsBelong ==
  \A a \in Task : /\ part[a] # "none" => turn
                  /\ part[a] = "done" => task[a] = "done"

LinkInv == TrackedHasTask /\ PartsBelong /\ TrackedIsFound

-----------------------------------------------------------------------------
(* Each part is kept by every step *)

LEMMA ShapesStep ==
  ASSUME Shapes, [Next]_vars
  PROVE  Shapes'
<1> USE DEF Shapes, sdkVars, agentVars, sessionVars, childVars
<1>1. CASE ClientStartsTurn
  BY <1>1 DEF ClientStartsTurn, NoParts
<1>2. CASE ClientCancels
  BY <1>2 DEF ClientCancels, TurnIsOver, CancelSubagentSessions, Idle, NoParts
<1>3. CASE Evicts
  BY <1>3 DEF Evicts
<1>4. CASE Sends
  BY <1>4 DEF Sends
<1>5. CASE Aborts
  BY <1>5 DEF Aborts
<1>6. CASE AbortReturns
  BY <1>6 DEF AbortReturns, TurnIsOver, NoParts
<1>7. CASE GoesIdle
  BY <1>7 DEF GoesIdle, TurnIsOver, NoParts
<1>8. ASSUME NEW a \in Task,
             Restores(a) \/ TaskStarts(a) \/ TaskReturns(a) \/ SubagentStarts(a) \/ SubagentEnds(a)
      PROVE  Shapes'
  <2>1. CASE Restores(a)
    BY <2>1 DEF Restores
  <2>2. CASE TaskStarts(a)
    BY <2>2 DEF TaskStarts
  <2>3. CASE TaskReturns(a)
    BY <2>3 DEF TaskReturns
  <2>4. CASE SubagentStarts(a)
    BY <2>4 DEF SubagentStarts
  <2>5. CASE SubagentEnds(a)
    BY <2>5 DEF SubagentEnds, Idle
  <2> QED
    BY <1>8, <2>1, <2>2, <2>3, <2>4, <2>5
<1>9. ASSUME NEW c \in Call,
             ClientAnswers(c) \/ CallStarts(c) \/ CallAsks(c) \/ PromptFires(c) \/ CallEnds(c) \/ CompletionFires(c)
      PROVE  Shapes'
  <2>1. CASE ClientAnswers(c)
    BY <2>1 DEF ClientAnswers
  <2>2. CASE CallStarts(c)
    BY <2>2 DEF CallStarts
  <2>3. CASE CallAsks(c)
    BY <2>3 DEF CallAsks
  <2>4. CASE PromptFires(c)
    BY <2>4 DEF PromptFires
  <2>5. CASE CallEnds(c)
    BY <2>5 DEF CallEnds
  <2>6. CASE CompletionFires(c)
    BY <2>6 DEF CompletionFires
  <2> QED
    BY <1>9, <2>1, <2>2, <2>3, <2>4, <2>5, <2>6
<1>10. CASE UNCHANGED vars
  BY <1>10 DEF vars
<1> QED
  BY <1>1, <1>2, <1>3, <1>4, <1>5, <1>6, <1>7, <1>8, <1>9, <1>10 DEF Next

\* The link is set when the child is tracked, and kept by the return of the
\* task as long as it is.
LEMMA LinkStep ==
  ASSUME Shapes, LinkInv, [Next]_vars
  PROVE  LinkInv'
<1> USE DEF Shapes, LinkInv, TrackedHasTask, PartsBelong, TrackedIsFound, sdkVars, agentVars, sessionVars, childVars
<1>1. CASE ClientStartsTurn
  BY <1>1 DEF ClientStartsTurn, NoParts
<1>2. CASE ClientCancels
  BY <1>2 DEF ClientCancels, CancelSubagentSessions, TurnIsOver, NoParts
<1>3. CASE Evicts \/ Sends \/ Aborts
  BY <1>3 DEF Evicts, Sends, Aborts
<1>4. CASE AbortReturns
  BY <1>4 DEF AbortReturns, TurnIsOver, NoParts
<1>5. CASE GoesIdle
  BY <1>5 DEF GoesIdle, TurnIsOver, NoParts
<1>6. ASSUME NEW a \in Task,
             Restores(a) \/ TaskStarts(a) \/ TaskReturns(a) \/ SubagentStarts(a) \/ SubagentEnds(a)
      PROVE  LinkInv'
  <2>1. CASE Restores(a)
    BY <2>1 DEF Restores
  <2>2. CASE TaskStarts(a)
    \* its task had not started: nothing was tracked under it
    BY <2>2 DEF TaskStarts
  <2>3. CASE TaskReturns(a)
    BY <2>3 DEF TaskReturns
  <2>4. CASE SubagentStarts(a)
    \* its task runs: its part is running too, or there is none
    BY <2>4 DEF SubagentStarts
  <2>5. CASE SubagentEnds(a)
    BY <2>5 DEF SubagentEnds
  <2> QED
    BY <1>6, <2>1, <2>2, <2>3, <2>4, <2>5
<1>7. ASSUME NEW c \in Call,
             ClientAnswers(c) \/ CallStarts(c) \/ CallAsks(c) \/ PromptFires(c) \/ CallEnds(c) \/ CompletionFires(c)
      PROVE  LinkInv'
  BY <1>7 DEF ClientAnswers, CallStarts, CallAsks, PromptFires, CallEnds, CompletionFires
<1>8. CASE UNCHANGED vars
  BY <1>8 DEF vars
<1> QED
  BY <1>1, <1>2, <1>3, <1>4, <1>5, <1>6, <1>7, <1>8 DEF Next

-----------------------------------------------------------------------------
(* The replay of a buffer *)

SignalRecord == [kind : {"start", "ready", "complete"}, call : Call]
Status == {"none", "running", "pending", "completed", "cancelled"}
Held == [shown : [Call -> Status], registered : SUBSET Call, answered : SUBSET Call]

\* A function f computes the states of a replay of the first n signals of b.
Computes(f, n, b, autos) ==
  f = [i \in 0..n |-> IF i = 0 THEN Now ELSE Deliver(f[i - 1], b[i], autos)]

\* The replay of one signal more needs only the result of those before it.
LEMMA ComputesMore ==
  ASSUME NEW n \in Nat, NEW b, NEW autos, NEW f, Computes(f, n, b, autos)
  PROVE  \E g : Computes(g, n + 1, b, autos)
<1> DEFINE g == [i \in 0..(n + 1) |-> IF i = n + 1 THEN Deliver(f[n], b[n + 1], autos) ELSE f[i]]
<1>1. \A i \in 0..n : g[i] = f[i] /\ f[i] = IF i = 0 THEN Now ELSE Deliver(f[i - 1], b[i], autos)
  <2>1. \A i \in 0..n : i \in 0..(n + 1) /\ i # n + 1
    OBVIOUS
  <2>2. ASSUME NEW i \in 0..n
        PROVE  f[i] = IF i = 0 THEN Now ELSE Deliver(f[i - 1], b[i], autos)
    <3> HIDE DEF g
    <3>1. f = [k \in 0..n |-> IF k = 0 THEN Now ELSE Deliver(f[k - 1], b[k], autos)]
      BY DEF Computes
    <3> QED BY <3>1
  <2> QED BY <2>1, <2>2
<1>2. g[n + 1] = Deliver(f[n], b[n + 1], autos)
  OBVIOUS
<1>3. g = [i \in 0..(n + 1) |-> g[i]]
  OBVIOUS
<1> HIDE DEF g
<1>4. ASSUME NEW i \in 0..(n + 1)
      PROVE  g[i] = IF i = 0 THEN Now ELSE Deliver(g[i - 1], b[i], autos)
  <2>1. CASE i = n + 1
    <3>1. n \in 0..n /\ i - 1 = n /\ i # 0
      BY <2>1
    <3> QED BY <1>1, <1>2, <2>1, <3>1
  <2>2. CASE i # n + 1 /\ i # 0
    <3>1. i \in 0..n /\ i - 1 \in 0..n
      BY <2>2
    <3> QED BY <1>1, <2>2, <3>1
  <2>3. CASE i = 0
    BY <1>1, <2>3
  <2> QED BY <2>1, <2>2, <2>3
<1>5. g = [i \in 0..(n + 1) |-> IF i = 0 THEN Now ELSE Deliver(g[i - 1], b[i], autos)]
  BY <1>3, <1>4
<1> QED BY <1>5 DEF Computes

\* A replay has a result, whatever the length of the buffer: there is no least
\* length for which it has none.
LEMMA DeliveriesDefined ==
  ASSUME NEW b, Len(b) \in Nat, NEW autos
  PROVE  Computes(Deliveries(b, autos), Len(b), b, autos)
<1> DEFINE undefined == {n \in Nat : ~ \E f : Computes(f, n, b, autos)}
<1>1. undefined = {}
  <2> SUFFICES ASSUME undefined # {} PROVE FALSE
    OBVIOUS
  <2>1. PICK m \in undefined : \A n \in undefined : ~(<<n, m>> \in OpToRel(<, Nat))
    <3>1. undefined \subseteq Nat
      OBVIOUS
    <3> HIDE DEF undefined
    <3> QED BY <3>1, NatLessThanWellFounded, WFMin
  <2>2. m \in Nat /\ ~ \E f : Computes(f, m, b, autos)
    OBVIOUS
  <2>3. m # 0
    <3> DEFINE g == [i \in 0..0 |-> Now]
    <3>1. g = [i \in 0..0 |-> IF i = 0 THEN Now ELSE Deliver(g[i - 1], b[i], autos)]
      OBVIOUS
    <3>2. Computes(g, 0, b, autos)
      BY <3>1 DEF Computes
    <3> QED BY <2>2, <3>2
  <2>4. m - 1 \in Nat /\ m - 1 < m /\ (m - 1) + 1 = m
    BY <2>2, <2>3
  <2>5. m - 1 \notin undefined
    BY <2>1, <2>2, <2>4 DEF OpToRel
  <2>6. PICK f : Computes(f, m - 1, b, autos)
    BY <2>4, <2>5
  <2> QED BY <2>2, <2>4, <2>6, ComputesMore
<1>2. PICK f : Computes(f, Len(b), b, autos)
  BY <1>1
<1> QED BY <1>2 DEF Computes, Deliveries

\* What is there before a replay, and what each signal makes of it.
LEMMA DeliveriesStep ==
  ASSUME NEW b, Len(b) \in Nat, NEW autos
  PROVE  /\ Deliveries(b, autos)[0] = Now
         /\ \A i \in 1..Len(b) :
              Deliveries(b, autos)[i] = Deliver(Deliveries(b, autos)[i - 1], b[i], autos)
<1>1. PICK f : f = Deliveries(b, autos)
  OBVIOUS
<1>2. f = [i \in 0..Len(b) |-> IF i = 0 THEN Now ELSE Deliver(f[i - 1], b[i], autos)]
  BY <1>1, DeliveriesDefined DEF Computes
<1>3. f[0] = Now
  BY <1>2
<1>4. \A i \in 1..Len(b) : f[i] = Deliver(f[i - 1], b[i], autos)
  BY <1>2
<1> QED BY <1>1, <1>3, <1>4

-----------------------------------------------------------------------------
(* What signals do, and the types *)

Stage == {"none", "work", "preview", "asking", "granted", "refused", "saving", "done", "gone"}

LEMMA DeliverTyped ==
  ASSUME NEW h \in Held, NEW s \in SignalRecord, NEW autos
  PROVE  Deliver(h, s, autos) \in Held
<1> USE DEF Held, SignalRecord, Status
<1>1. CASE s.kind = "start"
  BY <1>1 DEF Deliver
<1>2. CASE s.kind = "ready" /\ s.call \in autos
  BY <1>2 DEF Deliver
<1>3. CASE s.kind = "ready" /\ s.call \notin autos
  BY <1>3 DEF Deliver
<1>4. CASE s.kind = "complete"
  BY <1>4 DEF Deliver
<1> QED BY <1>1, <1>2, <1>3, <1>4

\* Of c, h and g hold the same.
Same(h, g, c) ==
  /\ h.shown[c] = g.shown[c]
  /\ c \in h.registered <=> c \in g.registered
  /\ c \in h.answered <=> c \in g.answered

\* A signal is about one call.
LEMMA DeliverOthers ==
  ASSUME NEW h \in Held, NEW s \in SignalRecord, NEW autos, NEW c \in Call, c # s.call
  PROVE  Same(Deliver(h, s, autos), h, c)
<1> USE DEF Held, SignalRecord, Status, Same
<1>1. CASE s.kind = "start"
  BY <1>1 DEF Deliver
<1>2. CASE s.kind = "ready" /\ s.call \in autos
  BY <1>2 DEF Deliver
<1>3. CASE s.kind = "ready" /\ s.call \notin autos
  BY <1>3 DEF Deliver
<1>4. CASE s.kind = "complete"
  BY <1>4 DEF Deliver
<1> QED BY <1>1, <1>2, <1>3, <1>4

\* What it does to that call.
LEMMA DeliverStart ==
  ASSUME NEW h \in Held, NEW s \in SignalRecord, NEW autos, s.kind = "start"
  PROVE  LET g == Deliver(h, s, autos) IN
         g.shown[s.call] = "running" /\ s.call \in g.registered /\ g.answered = h.answered
BY DEF Deliver, Held, SignalRecord

LEMMA DeliverReady ==
  ASSUME NEW h \in Held, NEW s \in SignalRecord, NEW autos, s.kind = "ready"
  PROVE  LET g == Deliver(h, s, autos) IN
         IF s.call \in autos
         THEN /\ g.shown = h.shown /\ g.answered = h.answered \cup {s.call}
         ELSE /\ g.registered = h.registered /\ g.answered = h.answered
              /\ h.shown[s.call] = "running" => g.shown[s.call] = "pending"
BY DEF Deliver, Held, SignalRecord

LEMMA DeliverComplete ==
  ASSUME NEW h \in Held, NEW s \in SignalRecord, NEW autos, s.kind = "complete"
  PROVE  LET g == Deliver(h, s, autos) IN
         /\ g.registered = h.registered /\ g.answered = h.answered
         /\ g.shown[s.call] = IF h.shown[s.call] \in {"running", "pending"} THEN "completed"
                              ELSE h.shown[s.call]
BY DEF Deliver, Held, SignalRecord

LEMMA NowTyped ==
  ASSUME shown \in [Call -> Status], registered \subseteq Call
  PROVE  Now \in Held
BY DEF Now, Held

LEMMA ReplayTyped ==
  ASSUME shown \in [Call -> Status], registered \subseteq Call,
         NEW b \in Seq(SignalRecord), NEW autos
  PROVE  \A i \in 0..Len(b) : Deliveries(b, autos)[i] \in Held
<1>1. PICK f : f = Deliveries(b, autos)
  OBVIOUS
<1>2. Len(b) \in Nat /\ \A i \in 1..Len(b) : b[i] \in SignalRecord
  OBVIOUS
<1>3. f[0] \in Held /\ \A i \in 1..Len(b) : f[i] = Deliver(f[i - 1], b[i], autos)
  BY <1>1, <1>2, DeliveriesStep, NowTyped
<1> DEFINE untyped == {i \in 0..Len(b) : f[i] \notin Held}
<1>4. untyped = {}
  <2> SUFFICES ASSUME untyped # {} PROVE FALSE
    OBVIOUS
  <2>1. PICK m \in untyped : \A n \in untyped : ~(<<n, m>> \in OpToRel(<, Nat))
    <3>1. untyped \subseteq Nat
      BY <1>2
    <3> HIDE DEF untyped
    <3> QED BY <3>1, NatLessThanWellFounded, WFMin
  <2>2. m \in 1..Len(b) /\ f[m] \notin Held
    BY <1>2, <1>3
  <2>3. m \in Nat /\ m - 1 \in Nat /\ m - 1 < m /\ m - 1 \in 0..Len(b)
    BY <1>2, <2>2
  <2>4. f[m - 1] \in Held
    BY <2>1, <2>3 DEF OpToRel
  <2> QED BY <1>2, <1>3, <2>2, <2>4, DeliverTyped
<1> QED BY <1>1, <1>4

LEMMA AnsweredTyped ==
  ASSUME NEW st \in [Call -> Stage], NEW cs, NEW to \in Stage
  PROVE  Answered(st, cs, to) \in [Call -> Stage]
BY DEF Answered

LEMMA SettledTyped ==
  ASSUME shown \in [Call -> Status], NEW as
  PROVE  Settled(as) \in [Call -> Status]
BY DEF Settled, Status

\* The variables a signal changes.
Signalled ==
  /\ shown \in [Call -> Status] /\ {registered, named} \subseteq SUBSET Call
  /\ stage \in [Call -> Stage] /\ buffer \in [Task -> Seq(SignalRecord)]

LEMMA RoutesTyped ==
  ASSUME Signalled, NEW s \in SignalRecord, NEW inner \in BOOLEAN, NEW autos,
         NEW st \in [Call -> Stage], Routes(s, inner, autos, st), named' \subseteq Call
  PROVE  Signalled'
<1> USE DEF Signalled
<1> DEFINE h == Deliver(Now, s, autos)
<1>1. h \in Held
  BY NowTyped, DeliverTyped
<1>2. h.shown \in [Call -> Status] /\ h.registered \subseteq Call
  BY <1>1 DEF Held
<1>3. s.call \in Call /\ s.call[1] \in Task
  BY DEF SignalRecord, Call
<1>4. Answered(st, h.answered, "granted") \in [Call -> Stage]
  BY AnsweredTyped DEF Stage
<1> HIDE DEF h
<1>5. shown' \in [Call -> Status]
  BY <1>2 DEF Routes, h
<1>6. registered' \subseteq Call
  BY <1>2, <1>3 DEF Routes, h
<1>7. stage' \in [Call -> Stage]
  BY <1>4 DEF Routes, h
<1>8. buffer' \in [Task -> Seq(SignalRecord)]
  BY <1>3 DEF Routes
<1> QED BY <1>5, <1>6, <1>7, <1>8

\* The variables the SDK and the agent keep for themselves.
Kept ==
  /\ {byAgentId, working, aborting} \subseteq BOOLEAN
  /\ used \in 0..MaxTurns /\ jobs \in Seq({"send", "abort"}) /\ mapped \subseteq Task
  /\ sub \in [Task -> {"none", "running", "over", "gone"}]

LEMMA TypesAre == TypeOK <=> Shapes /\ Kept /\ Signalled
<1>1. /\ Stage = {"none", "work", "preview", "asking", "granted", "refused", "saving", "done", "gone"}
      /\ Status = {"none", "running", "pending", "completed", "cancelled"}
      /\ SignalRecord = [kind : {"start", "ready", "complete"}, call : Call]
  BY DEF Stage, Status, SignalRecord
<1> QED BY <1>1 DEF TypeOK, Shapes, Kept, Signalled

LEMMA KeptStep ==
  ASSUME Kept, [Next]_vars
  PROVE  Kept'
<1> USE DEF Kept, sdkVars, agentVars, sessionVars, childVars
<1>1. CASE ClientStartsTurn
  <2>1. used' \in 0..MaxTurns
    BY <1>1, SubagentAssumption DEF ClientStartsTurn
  <2> QED BY <1>1, <2>1 DEF ClientStartsTurn
<1>2. CASE ClientCancels
  BY <1>2 DEF ClientCancels
<1>3. CASE Evicts
  BY <1>3 DEF Evicts
<1>4. CASE Sends
  BY <1>4 DEF Sends
<1>5. CASE Aborts
  BY <1>5 DEF Aborts
<1>6. CASE AbortReturns
  <2>1. jobs' \in Seq({"send", "abort"})
    <3>1. CASE jobs # <<>>
      BY <1>6, <3>1 DEF AbortReturns
    <3>2. CASE jobs = <<>>
      BY <1>6, <3>2 DEF AbortReturns
    <3> QED BY <3>1, <3>2
  <2>2. sub' \in [Task -> {"none", "running", "over", "gone"}]
    BY <1>6 DEF AbortReturns
  <2> QED BY <1>6, <2>1, <2>2 DEF AbortReturns
<1>7. CASE GoesIdle
  BY <1>7 DEF GoesIdle
<1>8. ASSUME NEW a \in Task,
             Restores(a) \/ TaskStarts(a) \/ TaskReturns(a) \/ SubagentStarts(a) \/ SubagentEnds(a)
      PROVE  Kept'
  <2>1. CASE Restores(a) \/ TaskStarts(a) \/ TaskReturns(a)
    BY <2>1 DEF Restores, TaskStarts, TaskReturns
  <2>2. CASE SubagentStarts(a)
    BY <2>2 DEF SubagentStarts
  <2>3. CASE SubagentEnds(a)
    BY <2>3 DEF SubagentEnds
  <2> QED BY <1>8, <2>1, <2>2, <2>3
<1>9. ASSUME NEW c \in Call,
             ClientAnswers(c) \/ CallStarts(c) \/ CallAsks(c) \/ PromptFires(c) \/ CallEnds(c) \/ CompletionFires(c)
      PROVE  Kept'
  BY <1>9 DEF ClientAnswers, CallStarts, CallAsks, PromptFires, CallEnds, CompletionFires
<1>10. CASE UNCHANGED vars
  BY <1>10 DEF vars
<1> QED
  BY <1>1, <1>2, <1>3, <1>4, <1>5, <1>6, <1>7, <1>8, <1>9, <1>10 DEF Next

\* Whoever takes a child off the table has ended its turn, and a
\* subagent that has stopped was at work.
LEMMA TurnStep ==
  ASSUME Shapes, Kept, TurnMeansTracked, [Next]_vars
  PROVE  TurnMeansTracked'
<1> USE DEF Shapes, Kept, TurnMeansTracked, sdkVars, agentVars, sessionVars, childVars
<1>1. CASE ClientStartsTurn
  BY <1>1 DEF ClientStartsTurn
<1>2. CASE ClientCancels
  BY <1>2 DEF ClientCancels, CancelSubagentSessions, Idle
<1>3. CASE Evicts
  BY <1>3 DEF Evicts
<1>4. CASE Sends \/ Aborts \/ GoesIdle
  BY <1>4 DEF Sends, Aborts, GoesIdle
<1>8. CASE AbortReturns
  BY <1>8 DEF AbortReturns
<1>5. ASSUME NEW a \in Task,
             Restores(a) \/ TaskStarts(a) \/ TaskReturns(a) \/ SubagentStarts(a) \/ SubagentEnds(a)
      PROVE  TurnMeansTracked'
  <2>1. CASE Restores(a)
    BY <2>1 DEF Restores
  <2>2. CASE TaskStarts(a) \/ TaskReturns(a)
    BY <2>2 DEF TaskStarts, TaskReturns
  <2>3. CASE SubagentStarts(a)
    BY <2>3 DEF SubagentStarts
  <2>4. CASE SubagentEnds(a)
    BY <2>4 DEF SubagentEnds, Idle
  <2> QED
    BY <1>5, <2>1, <2>2, <2>3, <2>4
<1>6. ASSUME NEW c \in Call,
             ClientAnswers(c) \/ CallStarts(c) \/ CallAsks(c) \/ PromptFires(c) \/ CallEnds(c) \/ CompletionFires(c)
      PROVE  TurnMeansTracked'
  BY <1>6 DEF ClientAnswers, CallStarts, CallAsks, PromptFires, CallEnds, CompletionFires
<1>7. CASE UNCHANGED vars
  BY <1>7 DEF vars
<1> QED
  BY <1>1, <1>2, <1>3, <1>4, <1>5, <1>6, <1>7, <1>8 DEF Next

LEMMA SignalledStep ==
  ASSUME Signalled, [Next]_vars
  PROVE  Signalled'
<1> USE DEF Signalled, sdkVars, agentVars, sessionVars, childVars
<1>1. CASE ClientStartsTurn
  BY <1>1 DEF ClientStartsTurn
<1>2. CASE ClientCancels
  <2>1. shown' \in [Call -> Status]
    BY <1>2, SettledTyped DEF ClientCancels, CancelSubagentSessions
  <2> QED BY <1>2, <2>1 DEF ClientCancels, CancelSubagentSessions
<1>3. CASE Evicts
  <2>1. shown' \in [Call -> Status]
    BY <1>3 DEF Evicts, Status
  <2> QED BY <1>3, <2>1 DEF Evicts
<1>4. CASE Sends \/ GoesIdle
  BY <1>4 DEF Sends, GoesIdle
<1>5. CASE Aborts
  <2>1. stage' \in [Call -> Stage]
    BY <1>5, AnsweredTyped DEF Aborts, Stage
  <2> QED BY <1>5, <2>1 DEF Aborts
<1>6. CASE AbortReturns
  <2>1. stage' \in [Call -> Stage]
    BY <1>6 DEF AbortReturns, Stage
  <2> QED BY <1>6, <2>1 DEF AbortReturns
<1>7. ASSUME NEW a \in Task,
             Restores(a) \/ TaskStarts(a) \/ TaskReturns(a) \/ SubagentStarts(a) \/ SubagentEnds(a)
      PROVE  Signalled'
  <2>1. CASE Restores(a) \/ TaskStarts(a)
    BY <2>1 DEF Restores, TaskStarts
  <2>2. CASE TaskReturns(a)
    BY <2>2 DEF TaskReturns
  <2>3. CASE SubagentStarts(a)
    <3>1. PICK autos \in SUBSET Of(a) :
            LET h == Replayed(a, autos) IN
            Becomes(h) /\ stage' = Answered(stage, h.answered, "granted")
      BY <2>3 DEF SubagentStarts
    <3>2. PICK h : h = Replayed(a, autos)
      OBVIOUS
    <3>3. h \in Held
      <4>1. buffer[a] \in Seq(SignalRecord) /\ Len(buffer[a]) \in 0..Len(buffer[a])
        OBVIOUS
      <4> QED BY <3>2, <4>1, ReplayTyped DEF Replayed
    <3>4. shown' = h.shown /\ registered' = h.registered
      BY <3>1, <3>2 DEF Becomes
    <3>5. stage' \in [Call -> Stage]
      <4>1. stage' = Answered(stage, h.answered, "granted") /\ "granted" \in Stage
        BY <3>1, <3>2 DEF Stage
      <4> QED BY <4>1, AnsweredTyped
    <3>6. UNCHANGED named /\ buffer' = [buffer EXCEPT ![a] = <<>>]
      BY <2>3 DEF SubagentStarts
    <3>7. shown' \in [Call -> Status] /\ registered' \subseteq Call
      BY <3>3, <3>4 DEF Held
    <3> QED BY <3>5, <3>6, <3>7
  <2>4. CASE SubagentEnds(a)
    <3>1. shown' \in [Call -> Status]
      BY <2>4, SettledTyped DEF SubagentEnds
    <3> QED BY <2>4, <3>1 DEF SubagentEnds
  <2> QED BY <1>7, <2>1, <2>2, <2>3, <2>4
<1>8. ASSUME NEW c \in Call,
             ClientAnswers(c) \/ CallStarts(c) \/ CallAsks(c) \/ PromptFires(c) \/ CallEnds(c) \/ CompletionFires(c)
      PROVE  Signalled'
  <2>0. /\ \A st \in Stage : To(c, st) \in [Call -> Stage]
        /\ \A kind \in {"start", "ready", "complete"} : Signal(kind, c) \in SignalRecord
        /\ {"work", "preview", "asking", "saving", "done", "granted", "refused"} \subseteq Stage
        /\ {"running", "cancelled"} \subseteq Status
    BY DEF To, Signal, SignalRecord, Stage, Status
  <2>1. CASE ClientAnswers(c)
    <3>1. PICK approved \in BOOLEAN :
            /\ shown' = [shown EXCEPT ![c] = IF approved THEN "running" ELSE "cancelled"]
            /\ stage' = IF c \in registered
                        THEN Answered(stage, {c}, IF approved THEN "granted" ELSE "refused")
                        ELSE stage
      BY <2>1 DEF ClientAnswers
    <3>2. shown' \in [Call -> Status]
      BY <2>0, <3>1
    <3>3. stage' \in [Call -> Stage]
      <4>1. (IF approved THEN "granted" ELSE "refused") \in Stage
        BY <2>0
      <4> QED BY <3>1, <4>1, AnsweredTyped
    <3>4. UNCHANGED <<named, buffer>> /\ registered' \subseteq Call
      BY <2>1 DEF ClientAnswers
    <3> QED BY <3>2, <3>3, <3>4
  <2>2. CASE CallStarts(c)
    <3>1. CASE Knows(c[1])
      <4>1. Routes(Signal("start", c), TRUE, {}, To(c, "work")) /\ named' = named \cup {c}
        BY <2>2, <3>1 DEF CallStarts
      <4>2. Signal("start", c) \in SignalRecord /\ To(c, "work") \in [Call -> Stage] /\ named' \subseteq Call
        BY <2>0, <4>1
      <4> HIDE DEF Signalled
      <4> QED BY <4>1, <4>2, RoutesTyped
    <3>2. CASE ~Knows(c[1])
      BY <2>0, <2>2, <3>2 DEF CallStarts
    <3> QED BY <3>1, <3>2
  <2>3. CASE CallAsks(c)
    BY <2>0, <2>3 DEF CallAsks
  <2>4. CASE PromptFires(c)
    <3>1. PICK autos \in SUBSET {c} : Routes(Signal("ready", c), c \in named, autos, To(c, "asking"))
      BY <2>4 DEF PromptFires
    <3>2. /\ Signal("ready", c) \in SignalRecord /\ To(c, "asking") \in [Call -> Stage]
          /\ named' \subseteq Call /\ (c \in named) \in BOOLEAN
      BY <2>0, <2>4 DEF PromptFires
    <3> HIDE DEF Signalled
    <3> QED BY <3>1, <3>2, RoutesTyped
  <2>5. CASE CallEnds(c)
    BY <2>0, <2>5 DEF CallEnds
  <2>6. CASE CompletionFires(c)
    <3>1. Routes(Signal("complete", c), TRUE, {}, To(c, "done"))
      BY <2>6 DEF CompletionFires
    <3>2. /\ Signal("complete", c) \in SignalRecord /\ To(c, "done") \in [Call -> Stage]
          /\ named' \subseteq Call
      BY <2>0, <2>6 DEF CompletionFires
    <3> HIDE DEF Signalled
    <3> QED BY <3>1, <3>2, RoutesTyped
  <2> QED BY <1>8, <2>1, <2>2, <2>3, <2>4, <2>5, <2>6
<1>9. CASE UNCHANGED vars
  BY <1>9 DEF vars
<1> QED
  BY <1>1, <1>2, <1>3, <1>4, <1>5, <1>6, <1>7, <1>8, <1>9 DEF Next

-----------------------------------------------------------------------------
(* A child session shows what its calls do: the inductive invariant *)

\* No abort is under way, or waits for the agent.
Quiet == \A i \in 1..Len(jobs) : jobs[i] # "abort"

\* The subagent at work; the one whose task runs and that has not started.
AtWork(a) == a \in tracked /\ child[a] = "active" /\ sub[a] = "running"
Early(a) == task[a] = "running" /\ sub[a] = "none"

\* Nothing is known of a task that has not started; a named call has started;
\* and a child is tracked when its subagent has started.
Fresh ==
  /\ \A a \in Task : task[a] = "none" => /\ sub[a] = "none" /\ buffer[a] = <<>>
                                         /\ \A c \in Of(a) : stage[c] = "none"
  /\ \A c \in named : stage[c] # "none"
  /\ \A a \in tracked : sub[a] # "none"

\* The agent prepares a completion only of a call it has named.
SavesNamed == \A c \in Call : stage[c] = "saving" => c \in named

\* What the child session has of a call that is at st.
Fits(st, sh, reg) ==
  /\ st \notin {"none", "gone"}
  /\ st \in {"work", "preview"} => sh = "running" /\ reg
  /\ st = "asking" => sh = "pending" /\ reg
  /\ st = "granted" => sh = "running"
  /\ st = "refused" => sh = "cancelled"
  /\ st = "saving" => sh \in {"running", "cancelled"}
  /\ st = "done" => sh \in {"completed", "cancelled"}

CallFits(c) == Fits(stage[c], shown[c], c \in registered)

ChildFits == Quiet => \A a \in Task : AtWork(a) => \A c \in Of(a) \cap named : CallFits(c)

Has(b, kind, c) == \E i \in 1..Len(b) : b[i].kind = kind /\ b[i].call = c

\* Of each call, its start, and nothing or one more signal after it.
InOrder(b) ==
  /\ \A i, j \in 1..Len(b) : i < j /\ b[i].call = b[j].call => b[i].kind = "start" /\ b[j].kind # "start"
  /\ \A j \in 1..Len(b) : b[j].kind # "start" =>
       \E i \in 1..Len(b) : i < j /\ b[i].kind = "start" /\ b[i].call = b[j].call

\* What a buffer has of a call that is at st.
Tells(b, c, st) ==
  /\ st \in {"work", "preview", "asking", "saving", "done"}
  /\ Has(b, "start", c)
  /\ Has(b, "ready", c) <=> st = "asking"
  /\ Has(b, "complete", c) <=> st = "done"

\* The buffer of a subagent that has not started: the named calls, as they are.
Keeps(a) ==
  /\ InOrder(buffer[a])
  /\ \A i \in 1..Len(buffer[a]) : buffer[a][i].call \in Of(a) \cap named
  /\ \A c \in Of(a) \cap named : Tells(buffer[a], c, stage[c])

BufferFits == Quiet => \A a \in Task : Early(a) => Keeps(a)

-----------------------------------------------------------------------------
(* What is kept of it by the parts of a step *)

\* A signal about c leaves every other call as it is, but for the stages st.
LEMMA RoutesOthers ==
  ASSUME Signalled, NEW s \in SignalRecord, NEW inner \in BOOLEAN, NEW autos,
         NEW st \in [Call -> Stage], Routes(s, inner, autos, st)
  PROVE  /\ \A d \in Call : d # s.call =>
              /\ stage'[d] = st[d] /\ shown'[d] = shown[d]
              /\ d \in registered' <=> d \in registered
         /\ \A a \in Task : a # s.call[1] => buffer'[a] = buffer[a]
         /\ \A d \in Call : stage'[d] = "none" <=> st[d] = "none"
<1> USE DEF Signalled
<1>1. Now \in Held
  BY NowTyped
<1>2. PICK h \in Held : h = Deliver(Now, s, autos)
  BY <1>1, DeliverTyped
<1>3. \A d \in Call : d # s.call => Same(h, Now, d)
  BY <1>1, <1>2, DeliverOthers
<1>4. \A d \in Call : d # s.call => h.shown[d] = shown[d]
  BY <1>3 DEF Same, Now
<1>5. \A d \in Call : d # s.call => (d \in h.registered <=> d \in registered)
  BY <1>3 DEF Same, Now
<1>6. \A d \in Call : d # s.call => d \notin h.answered
  BY <1>3 DEF Same, Now
<1>7. s.call \in Call
  BY DEF SignalRecord
<1>8. \A d \in Call : d # s.call => shown'[d] = shown[d]
  <2>1. shown' = h.shown \/ shown' = shown
    BY <1>2 DEF Routes
  <2> QED BY <1>4, <2>1
<1>9. \A d \in Call : d # s.call => (d \in registered' <=> d \in registered)
  <2>1. registered' \in {h.registered, registered \cup {s.call}, registered}
    BY <1>2 DEF Routes
  <2> QED BY <1>5, <2>1
<1>10. stage' = st \/ stage' = Answered(st, h.answered, "granted")
  BY <1>2 DEF Routes
<1>11. \A d \in Call : Answered(st, h.answered, "granted")[d] =
           IF d \in h.answered /\ st[d] \in {"preview", "asking"} THEN "granted" ELSE st[d]
  BY DEF Answered
<1>12. \A d \in Call : d # s.call => stage'[d] = st[d]
  BY <1>6, <1>10, <1>11
<1>13. \A d \in Call : stage'[d] = "none" <=> st[d] = "none"
  BY <1>10, <1>11
<1>14. \A a \in Task : a # s.call[1] => buffer'[a] = buffer[a]
  BY DEF Routes
<1> QED BY <1>8, <1>9, <1>12, <1>13, <1>14

\* Quiet comes back only when an abort returns.
LEMMA QuietStep ==
  ASSUME Kept, [Next]_vars, Quiet', ~AbortReturns
  PROVE  Quiet
<1> USE DEF Kept, Quiet, sdkVars, agentVars, sessionVars, childVars
<1>1. CASE ClientStartsTurn
  <2>1. jobs' = Append(jobs, "send")
    BY <1>1 DEF ClientStartsTurn
  <2>2. \A i \in 1..Len(jobs) : i \in 1..Len(jobs') /\ jobs'[i] = jobs[i]
    BY <2>1
  <2> QED BY <2>2
<1>2. CASE ClientCancels
  <2>1. jobs' = Append(jobs, "abort")
    BY <1>2 DEF ClientCancels
  <2>2. Len(jobs') \in 1..Len(jobs') /\ jobs'[Len(jobs')] = "abort"
    BY <2>1
  <2> QED BY <2>2
<1>3. CASE Sends
  <2>1. jobs # <<>> /\ Head(jobs) = "send" /\ jobs' = Tail(jobs)
    BY <1>3 DEF Sends
  <2>2. Len(jobs) \in Nat /\ Len(jobs') = Len(jobs) - 1 /\ jobs[1] = "send"
    BY <2>1
  <2>3. \A i \in 1..Len(jobs) : i # 1 => i - 1 \in 1..Len(jobs') /\ jobs'[i - 1] = jobs[i]
    BY <2>1, <2>2
  <2> QED BY <2>2, <2>3
<1>4. CASE UNCHANGED jobs
  BY <1>4
<1>5. UNCHANGED jobs \/ ClientStartsTurn \/ ClientCancels \/ Sends
  <2>1. CASE Evicts \/ Aborts \/ GoesIdle \/ UNCHANGED vars
    BY <2>1 DEF Evicts, Aborts, GoesIdle, vars
  <2>2. ASSUME NEW a \in Task,
               Restores(a) \/ TaskStarts(a) \/ TaskReturns(a) \/ SubagentStarts(a) \/ SubagentEnds(a)
        PROVE  UNCHANGED jobs
    BY <2>2 DEF Restores, TaskStarts, TaskReturns, SubagentStarts, SubagentEnds
  <2>3. ASSUME NEW c \in Call,
               ClientAnswers(c) \/ CallStarts(c) \/ CallAsks(c) \/ PromptFires(c) \/ CallEnds(c) \/ CompletionFires(c)
        PROVE  UNCHANGED jobs
    BY <2>3 DEF ClientAnswers, CallStarts, CallAsks, PromptFires, CallEnds, CompletionFires
  <2> QED BY <2>1, <2>2, <2>3 DEF Next
<1> QED BY <1>1, <1>2, <1>3, <1>4, <1>5

LEMMA FreshStep ==
  ASSUME Shapes, Kept, Signalled, Fresh, [Next]_vars
  PROVE  Fresh'
<1> USE DEF Shapes, Kept, Signalled, Fresh, sdkVars, agentVars, sessionVars, childVars
<1>0. \A c \in Call : c[1] \in Task /\ c \in Of(c[1])
  BY DEF Call, Of
<1>1. CASE ClientStartsTurn \/ Evicts \/ Sends \/ GoesIdle \/ UNCHANGED vars
  <2>1. UNCHANGED <<task, sub, buffer, stage, named, tracked>>
    BY <1>1 DEF ClientStartsTurn, Evicts, Sends, GoesIdle, vars
  <2> QED BY <2>1
<1>2. CASE ClientCancels
  BY <1>2 DEF ClientCancels, CancelSubagentSessions
<1>3. CASE Aborts
  <2>1. \A c \in Call : stage'[c] = "none" <=> stage[c] = "none"
    BY <1>3 DEF Aborts, Answered
  <2>2. UNCHANGED <<task, sub, buffer, named, tracked>>
    BY <1>3 DEF Aborts
  <2>3. \A a \in Task : Of(a) \subseteq Call
    BY DEF Of
  <2> QED BY <2>1, <2>2, <2>3
<1>4. CASE AbortReturns
  <2>1. \A c \in Call : stage'[c] = "none" <=> stage[c] = "none"
    BY <1>4 DEF AbortReturns
  <2>2. UNCHANGED <<buffer, named, tracked>>
    BY <1>4 DEF AbortReturns
  <2>3. \A a \in Task : /\ task'[a] = "none" <=> task[a] = "none"
                        /\ sub'[a] = "none" <=> sub[a] = "none"
    BY <1>4 DEF AbortReturns
  <2>4. \A a \in Task : Of(a) \subseteq Call
    BY DEF Of
  <2> QED BY <2>1, <2>2, <2>3, <2>4
<1>5. ASSUME NEW a \in Task,
             Restores(a) \/ TaskStarts(a) \/ TaskReturns(a) \/ SubagentStarts(a) \/ SubagentEnds(a)
      PROVE  Fresh'
  <2>1. CASE Restores(a)
    BY <2>1 DEF Restores
  <2>2. CASE TaskStarts(a)
    BY <2>2 DEF TaskStarts
  <2>3. CASE TaskReturns(a)
    BY <2>3 DEF TaskReturns
  <2>4. CASE SubagentStarts(a)
    <3>1. PICK autos \in SUBSET Of(a) : stage' = Answered(stage, Replayed(a, autos).answered, "granted")
      BY <2>4 DEF SubagentStarts
    <3>2. \A c \in Call : stage'[c] = "none" <=> stage[c] = "none"
      BY <3>1 DEF Answered
    <3>3. \A b \in Task : Of(b) \subseteq Call
      BY DEF Of
    <3>4. /\ task[a] # "none" /\ task' = task /\ named' = named /\ tracked' = tracked \cup {a}
          /\ sub' = [sub EXCEPT ![a] = "running"] /\ buffer' = [buffer EXCEPT ![a] = <<>>]
      BY <2>4 DEF SubagentStarts
    <3> QED BY <3>2, <3>3, <3>4
  <2>5. CASE SubagentEnds(a)
    BY <2>5 DEF SubagentEnds
  <2> QED BY <1>5, <2>1, <2>2, <2>3, <2>4, <2>5
<1>6. ASSUME NEW c \in Call,
             ClientAnswers(c) \/ CallStarts(c) \/ CallAsks(c) \/ PromptFires(c) \/ CallEnds(c) \/ CompletionFires(c)
      PROVE  Fresh'
  <2>1. CASE ClientAnswers(c)
    <3>1. \A d \in Call : stage'[d] = "none" <=> stage[d] = "none"
      <4>1. PICK to \in {"granted", "refused"} : stage' = stage \/ stage' = Answered(stage, {c}, to)
        BY <2>1 DEF ClientAnswers
      <4>2. \A d \in Call : Answered(stage, {c}, to)[d] =
                IF d \in {c} /\ stage[d] \in {"preview", "asking"} THEN to ELSE stage[d]
        BY DEF Answered
      <4> QED BY <4>1, <4>2
    <3>2. UNCHANGED <<task, sub, tracked, named, buffer>>
      BY <2>1 DEF ClientAnswers
    <3>3. \A b \in Task : Of(b) \subseteq Call
      BY DEF Of
    <3> QED BY <3>1, <3>2, <3>3
  <2>2. CASE CallStarts(c) \/ CallAsks(c) \/ PromptFires(c) \/ CallEnds(c) \/ CompletionFires(c)
    <3>1. UNCHANGED <<task, sub, tracked>>
      BY <2>2 DEF CallStarts, CallAsks, PromptFires, CallEnds, CompletionFires
    <3>2. task[c[1]] # "none"
      <4>1. CASE CallStarts(c)
        BY <1>0, <4>1 DEF CallStarts
      <4> QED BY <1>0, <2>2, <4>1 DEF CallAsks, PromptFires, CallEnds, CompletionFires
    <3>3. PICK st \in {"work", "preview", "asking", "saving", "done"} :
            \/ stage' = To(c, st) /\ buffer' = buffer
            \/ \E kind \in {"start", "ready", "complete"}, inner \in BOOLEAN, autos \in SUBSET {c} :
                  Routes(Signal(kind, c), inner, autos, To(c, st))
      <4>1. CASE CallStarts(c)
        BY <4>1 DEF CallStarts
      <4>2. CASE PromptFires(c)
        <5>1. (c \in named) \in BOOLEAN
          OBVIOUS
        <5> QED BY <4>2, <5>1 DEF PromptFires
      <4>3. CASE CompletionFires(c)
        BY <4>3 DEF CompletionFires
      <4>4. CASE CallAsks(c) \/ CallEnds(c)
        BY <4>4 DEF CallAsks, CallEnds
      <4> QED BY <2>2, <4>1, <4>2, <4>3, <4>4
    <3>4. To(c, st) \in [Call -> Stage] /\ \A d \in Call : To(c, st)[d] = IF d = c THEN st ELSE stage[d]
      BY DEF To, Stage
    <3>5. /\ \A d \in Call : stage'[d] = "none" <=> To(c, st)[d] = "none"
          /\ \A b \in Task : b # c[1] => buffer'[b] = buffer[b]
      <4>1. CASE stage' = To(c, st) /\ buffer' = buffer
        BY <4>1
      <4>2. ASSUME NEW kind \in {"start", "ready", "complete"}, NEW inner \in BOOLEAN, NEW autos,
                   Routes(Signal(kind, c), inner, autos, To(c, st))
            PROVE  /\ \A d \in Call : stage'[d] = "none" <=> To(c, st)[d] = "none"
                   /\ \A b \in Task : b # c[1] => buffer'[b] = buffer[b]
        <5>1. Signal(kind, c) \in SignalRecord /\ Signal(kind, c).call = c
          BY DEF Signal, SignalRecord
        <5> HIDE DEF Signalled
        <5> QED BY <3>4, <4>2, <5>1, RoutesOthers
      <4> QED BY <3>3, <4>1, <4>2
    <3>6. named' \subseteq named \cup {c}
      BY <2>2 DEF CallStarts, CallAsks, PromptFires, CallEnds, CompletionFires
    <3>7. \A b \in Task : b # c[1] => Of(b) \subseteq Call \ {c}
      BY DEF Of
    <3>8. \A d \in Call : stage'[d] = "none" <=> (d # c /\ stage[d] = "none")
      BY <3>4, <3>5
    <3> QED BY <3>1, <3>2, <3>5, <3>6, <3>7, <3>8
  <2> QED BY <1>6, <2>1, <2>2
<1> QED
  BY <1>1, <1>2, <1>3, <1>4, <1>5, <1>6 DEF Next

-----------------------------------------------------------------------------
(* What the replay of a buffer in order leaves of each call *)

\* h is what the first i signals of b leave of c: its last one counts.
Delivered(h, b, i, autos, c) ==
  /\ (\A k \in 1..i : b[k].call # c) => Same(h, Now, c)
  /\ \A k \in 1..i : b[k].call = c =>
       /\ b[k].kind = "ready" /\ c \in autos => h.shown[c] = "running" /\ c \in h.answered
       /\ b[k].kind = "ready" /\ c \notin autos =>
            h.shown[c] = "pending" /\ c \in h.registered /\ c \notin h.answered
       /\ b[k].kind = "complete" => h.shown[c] = "completed" /\ c \notin h.answered
       /\ b[k].kind = "start" /\ (\A m \in (k + 1)..i : b[m].call # c) =>
            h.shown[c] = "running" /\ c \in h.registered /\ c \notin h.answered

LEMMA DeliveredSame ==
  ASSUME NEW h, NEW g, NEW b, NEW i \in Nat \ {0}, NEW autos, NEW c,
         Delivered(h, b, i - 1, autos, c), b[i].call # c, Same(g, h, c)
  PROVE  Delivered(g, b, i, autos, c)
<1>1. \A k \in 1..i : b[k].call = c => k \in 1..(i - 1) /\ (k + 1)..(i - 1) \subseteq (k + 1)..i
  OBVIOUS
<1>2. 1..(i - 1) \subseteq 1..i
  OBVIOUS
<1>3. (\A k \in 1..i : b[k].call # c) => Same(g, Now, c)
  BY <1>2 DEF Delivered, Same
<1>4. ASSUME NEW k \in 1..i, b[k].call = c
      PROVE  /\ b[k].kind = "ready" /\ c \in autos => g.shown[c] = "running" /\ c \in g.answered
             /\ b[k].kind = "ready" /\ c \notin autos =>
                  g.shown[c] = "pending" /\ c \in g.registered /\ c \notin g.answered
             /\ b[k].kind = "complete" => g.shown[c] = "completed" /\ c \notin g.answered
             /\ b[k].kind = "start" /\ (\A m \in (k + 1)..i : b[m].call # c) =>
                  g.shown[c] = "running" /\ c \in g.registered /\ c \notin g.answered
  BY <1>1, <1>4 DEF Delivered, Same
<1> QED BY <1>3, <1>4 DEF Delivered

LEMMA DeliveredOwn ==
  ASSUME NEW h \in Held, NEW b \in Seq(SignalRecord), InOrder(b), NEW i \in 1..Len(b), NEW autos,
         Delivered(h, b, i - 1, autos, b[i].call)
  PROVE  Delivered(Deliver(h, b[i], autos), b, i, autos, b[i].call)
<1>1. PICK c, g : c = b[i].call /\ g = Deliver(h, b[i], autos)
  OBVIOUS
<1>2. /\ b[i] \in SignalRecord /\ c \in Call /\ b[i].kind \in {"start", "ready", "complete"}
      /\ i \in Nat /\ Len(b) \in Nat /\ i <= Len(b)
  <2>1. b[i] \in SignalRecord /\ i \in Nat /\ Len(b) \in Nat /\ i <= Len(b)
    OBVIOUS
  <2> QED BY <1>1, <2>1 DEF SignalRecord
<1>3. \A k \in 1..i : k # i => k \in 1..(i - 1) /\ k \in 1..Len(b) /\ k < i
  BY <1>2
<1>4. \A k \in 1..i : k # i /\ b[k].call = c => b[k].kind = "start" /\ i \in (k + 1)..i
  BY <1>1, <1>2, <1>3 DEF InOrder
<1>5. CASE b[i].kind = "start"
  <2>1. \A k \in 1..(i - 1) : b[k].call # c
    BY <1>1, <1>2, <1>5 DEF InOrder
  <2>2. c \notin h.answered
    BY <1>1, <2>1 DEF Delivered, Same, Now
  <2>3. g.shown[c] = "running" /\ c \in g.registered /\ c \notin g.answered
    BY <1>1, <1>2, <1>5, <2>2, DeliverStart
  <2>4. \A k \in 1..i : b[k].call = c => k = i
    BY <1>3, <2>1
  <2> QED BY <1>1, <1>2, <1>5, <2>3, <2>4 DEF Delivered
<1>6. CASE b[i].kind # "start"
  <2>1. PICK k \in 1..Len(b) : k < i /\ b[k].kind = "start" /\ b[k].call = c
    BY <1>1, <1>2, <1>6 DEF InOrder
  <2>2. k \in 1..(i - 1)
    BY <1>2, <2>1
  <2>3. ASSUME NEW m \in (k + 1)..(i - 1), b[m].call = c PROVE FALSE
    <3>1. m \in 1..Len(b) /\ m < i /\ k < m
      BY <1>2, <2>1
    <3>2. b[m].kind = "start"
      BY <1>1, <2>3, <3>1 DEF InOrder
    <3>3. b[m].kind # "start"
      BY <2>1, <2>3, <3>1 DEF InOrder
    <3> QED BY <3>2, <3>3
  <2>4. h.shown[c] = "running" /\ c \in h.registered /\ c \notin h.answered
    BY <1>1, <2>1, <2>2, <2>3 DEF Delivered
  <2>5. CASE b[i].kind = "ready"
    <3>1. IF c \in autos THEN g.shown = h.shown /\ g.answered = h.answered \cup {c}
          ELSE /\ g.registered = h.registered /\ g.answered = h.answered
               /\ h.shown[c] = "running" => g.shown[c] = "pending"
      BY <1>1, <1>2, <2>5, DeliverReady
    <3>2. c \in autos => g.shown[c] = "running" /\ c \in g.answered
      BY <2>4, <3>1
    <3>3. c \notin autos => g.shown[c] = "pending" /\ c \in g.registered /\ c \notin g.answered
      BY <2>4, <3>1
    <3>4. i \in 1..i
      BY <1>2
    <3> QED BY <1>1, <1>4, <2>5, <3>2, <3>3, <3>4 DEF Delivered
  <2>6. CASE b[i].kind = "complete"
    <3>1. g.registered = h.registered /\ g.answered = h.answered /\ g.shown[c] = "completed"
      BY <1>1, <1>2, <2>4, <2>6, DeliverComplete
    <3>2. i \in 1..i
      BY <1>2
    <3> QED BY <1>1, <1>4, <2>4, <2>6, <3>1, <3>2 DEF Delivered
  <2> QED BY <1>2, <1>6, <2>5, <2>6
<1> QED BY <1>5, <1>6

LEMMA ReplayDelivers ==
  ASSUME shown \in [Call -> Status], registered \subseteq Call,
         NEW b \in Seq(SignalRecord), InOrder(b), NEW autos, NEW c \in Call
  PROVE  Delivered(Deliveries(b, autos)[Len(b)], b, Len(b), autos, c)
<1>1. PICK f : f = Deliveries(b, autos)
  OBVIOUS
<1>2. Len(b) \in Nat /\ \A i \in 1..Len(b) : b[i] \in SignalRecord
  OBVIOUS
<1>3. f[0] = Now /\ \A i \in 1..Len(b) : f[i] = Deliver(f[i - 1], b[i], autos)
  BY <1>1, <1>2, DeliveriesStep
<1>4. \A i \in 0..Len(b) : f[i] \in Held
  BY <1>1, ReplayTyped
<1> DEFINE wrong == {i \in 0..Len(b) : ~ Delivered(f[i], b, i, autos, c)}
<1>5. wrong = {}
  <2> SUFFICES ASSUME wrong # {} PROVE FALSE
    OBVIOUS
  <2>1. PICK m \in wrong : \A n \in wrong : ~(<<n, m>> \in OpToRel(<, Nat))
    <3>1. wrong \subseteq Nat
      BY <1>2
    <3> HIDE DEF wrong
    <3> QED BY <3>1, NatLessThanWellFounded, WFMin
  <2>2. m \in 0..Len(b) /\ ~ Delivered(f[m], b, m, autos, c)
    OBVIOUS
  <2>3. Delivered(f[0], b, 0, autos, c)
    BY <1>3 DEF Delivered, Same
  <2>4. m \in 1..Len(b) /\ m \in Nat \ {0} /\ m - 1 \in Nat /\ m - 1 < m /\ m - 1 \in 0..Len(b)
    BY <1>2, <2>2, <2>3
  <2>5. Delivered(f[m - 1], b, m - 1, autos, c)
    BY <2>1, <2>4 DEF OpToRel
  <2>6. CASE b[m].call = c
    BY <1>3, <1>4, <2>2, <2>4, <2>5, <2>6, DeliveredOwn
  <2>7. CASE b[m].call # c
    <3>1. f[m - 1] \in Held /\ b[m] \in SignalRecord
      BY <1>2, <1>4, <2>4
    <3>2. Same(f[m], f[m - 1], c)
      BY <1>3, <2>4, <2>7, <3>1, DeliverOthers
    <3> HIDE DEF wrong
    <3> QED BY <2>2, <2>4, <2>5, <2>7, <3>2, DeliveredSame
  <2> QED BY <2>6, <2>7
<1> QED BY <1>1, <1>2, <1>5

LEMMA SavesStep ==
  ASSUME Signalled, SavesNamed, [Next]_vars
  PROVE  SavesNamed'
<1> USE DEF SavesNamed, sdkVars, agentVars, sessionVars, childVars
<1>0. stage \in [Call -> Stage]
  BY DEF Signalled
<1>a. ASSUME NEW st \in [Call -> Stage], NEW cs, NEW to, to # "saving"
      PROVE  \A d \in Call : Answered(st, cs, to)[d] = "saving" => st[d] = "saving"
  BY <1>a DEF Answered
<1>1. CASE ClientStartsTurn \/ ClientCancels \/ Evicts \/ Sends \/ GoesIdle \/ UNCHANGED vars
  <2>1. UNCHANGED <<stage, named>>
    BY <1>1 DEF ClientStartsTurn, ClientCancels, Evicts, Sends, GoesIdle, vars
  <2> QED BY <2>1
<1>2. CASE Aborts
  <2>1. stage' = Answered(stage, Call, "refused") /\ named' = named
    BY <1>2 DEF Aborts
  <2>2. \A d \in Call : stage'[d] = "saving" => stage[d] = "saving"
    BY <1>0, <1>a, <2>1
  <2> QED BY <2>1, <2>2
<1>3. CASE AbortReturns
  BY <1>3 DEF AbortReturns
<1>4. ASSUME NEW a \in Task,
             Restores(a) \/ TaskStarts(a) \/ TaskReturns(a) \/ SubagentStarts(a) \/ SubagentEnds(a)
      PROVE  SavesNamed'
  <2>1. CASE Restores(a) \/ TaskStarts(a) \/ TaskReturns(a) \/ SubagentEnds(a)
    <3>1. UNCHANGED <<stage, named>>
      BY <2>1 DEF Restores, TaskStarts, TaskReturns, SubagentEnds
    <3> QED BY <3>1
  <2>2. CASE SubagentStarts(a)
    <3>1. PICK autos \in SUBSET Of(a) : stage' = Answered(stage, Replayed(a, autos).answered, "granted")
      BY <2>2 DEF SubagentStarts
    <3>2. named' = named
      BY <2>2 DEF SubagentStarts
    <3>3. \A d \in Call : stage'[d] = "saving" => stage[d] = "saving"
      BY <1>0, <1>a, <3>1
    <3> QED BY <3>2, <3>3
  <2> QED BY <1>4, <2>1, <2>2
<1>5. ASSUME NEW c \in Call,
             ClientAnswers(c) \/ CallStarts(c) \/ CallAsks(c) \/ PromptFires(c) \/ CallEnds(c) \/ CompletionFires(c)
      PROVE  SavesNamed'
  <2>0. \A st : \A d \in Call : To(c, st)[d] = IF d = c THEN st ELSE stage[d]
    BY <1>0 DEF To
  <2>1. CASE ClientAnswers(c)
    <3>1. PICK to \in {"granted", "refused"} : stage' = stage \/ stage' = Answered(stage, {c}, to)
      BY <2>1 DEF ClientAnswers
    <3>2. \A d \in Call : stage'[d] = "saving" => stage[d] = "saving"
      BY <1>0, <1>a, <3>1
    <3>3. named' = named
      BY <2>1 DEF ClientAnswers
    <3> QED BY <3>2, <3>3
  <2>2. CASE CallEnds(c)
    <3>1. stage' = To(c, IF c \in named THEN "saving" ELSE "done") /\ named' = named
      BY <2>2 DEF CallEnds
    <3> QED BY <2>0, <3>1
  <2>3. CASE CallStarts(c) \/ CallAsks(c) \/ PromptFires(c) \/ CompletionFires(c)
    <3>1. PICK st \in {"work", "preview", "asking", "done"} :
            stage' = To(c, st) \/ \E cs : stage' = Answered(To(c, st), cs, "granted")
      BY <2>3 DEF CallStarts, CallAsks, PromptFires, CompletionFires, Routes
    <3>2. To(c, st) \in [Call -> Stage]
      BY <1>0 DEF To, Stage
    <3>3. \A d \in Call : stage'[d] = "saving" => To(c, st)[d] = "saving"
      BY <1>a, <3>1, <3>2
    <3>4. named \subseteq named'
      BY <2>3 DEF CallStarts, CallAsks, PromptFires, CompletionFires
    <3> QED BY <2>0, <3>3, <3>4
  <2> QED BY <1>5, <2>1, <2>2, <2>3
<1> QED
  BY <1>1, <1>2, <1>3, <1>4, <1>5 DEF Next

-----------------------------------------------------------------------------
(* What a buffer has *)

LEMMA AppendHas ==
  ASSUME NEW b \in Seq(SignalRecord), NEW s \in SignalRecord, NEW kind, NEW c
  PROVE  Has(Append(b, s), kind, c) <=> Has(b, kind, c) \/ (s.kind = kind /\ s.call = c)
<1>1. /\ Len(b) \in Nat /\ Len(Append(b, s)) = Len(b) + 1 /\ Append(b, s)[Len(b) + 1] = s
      /\ \A i \in 1..Len(b) : Append(b, s)[i] = b[i]
  OBVIOUS
<1>2. \A i \in 1..Len(Append(b, s)) : i \in 1..Len(b) \/ i = Len(b) + 1
  BY <1>1
<1>3. 1..Len(b) \subseteq 1..Len(Append(b, s)) /\ Len(b) + 1 \in 1..Len(Append(b, s))
  BY <1>1
<1> QED BY <1>1, <1>2, <1>3 DEF Has

LEMMA AppendInOrder ==
  ASSUME NEW b \in Seq(SignalRecord), InOrder(b), NEW s \in SignalRecord,
         IF s.kind = "start" THEN \A i \in 1..Len(b) : b[i].call # s.call
         ELSE Has(b, "start", s.call) /\ ~Has(b, "ready", s.call) /\ ~Has(b, "complete", s.call)
  PROVE  InOrder(Append(b, s))
<1>1. PICK e : e = Append(b, s)
  OBVIOUS
<1>2. /\ Len(b) \in Nat /\ Len(e) = Len(b) + 1 /\ e[Len(b) + 1] = s
      /\ \A i \in 1..Len(b) : e[i] = b[i] /\ b[i] \in SignalRecord
  BY <1>1
<1>3. \A i \in 1..Len(b) : b[i].kind \in {"start", "ready", "complete"}
  BY <1>2 DEF SignalRecord
<1>4. \A i, j \in 1..Len(e) : i < j => i \in 1..Len(b) /\ (j \in 1..Len(b) \/ j = Len(b) + 1)
  BY <1>2
<1>5. ASSUME NEW i \in 1..Len(e), NEW j \in 1..Len(e), i < j, e[i].call = e[j].call
      PROVE  e[i].kind = "start" /\ e[j].kind # "start"
  <2>1. i \in 1..Len(b)
    BY <1>4, <1>5
  <2>2. CASE j \in 1..Len(b)
    BY <1>2, <1>5, <2>1, <2>2 DEF InOrder
  <2>3. CASE j = Len(b) + 1
    BY <1>2, <1>3, <1>5, <2>1, <2>3 DEF Has
  <2> QED BY <1>4, <1>5, <2>2, <2>3
<1>6. ASSUME NEW j \in 1..Len(e), e[j].kind # "start"
      PROVE  \E i \in 1..Len(e) : i < j /\ e[i].kind = "start" /\ e[i].call = e[j].call
  <2>1. 1..Len(b) \subseteq 1..Len(e)
    BY <1>2
  <2>2. CASE j \in 1..Len(b)
    <3>1. PICK i \in 1..Len(b) : i < j /\ b[i].kind = "start" /\ b[i].call = b[j].call
      BY <1>2, <1>6, <2>2 DEF InOrder
    <3> QED BY <1>2, <2>1, <2>2, <3>1
  <2>3. CASE j = Len(b) + 1
    <3>1. PICK i \in 1..Len(b) : b[i].kind = "start" /\ b[i].call = s.call
      BY <1>2, <1>6, <2>3 DEF Has
    <3>2. i < j
      BY <1>2, <2>3
    <3> QED BY <1>2, <2>1, <2>3, <3>1, <3>2
  <2>4. j \in 1..Len(b) \/ j = Len(b) + 1
    BY <1>2
  <2> QED BY <2>2, <2>3, <2>4
<1> QED BY <1>1, <1>5, <1>6 DEF InOrder

\* What a child that has not started is told is buffered.
LEMMA RoutesEarly ==
  ASSUME Signalled, NEW c \in Call, c[1] \notin tracked, NEW s \in SignalRecord, s.call = c,
         NEW autos, NEW st, Routes(s, TRUE, autos, st)
  PROVE  stage' = st /\ buffer'[c[1]] = Append(buffer[c[1]], s)
<1>1. c[1] \in Task /\ buffer \in [Task -> Seq(SignalRecord)]
  BY DEF Signalled, Call
<1> QED BY <1>1 DEF Routes

LEMMA KeepsSame ==
  ASSUME NEW a \in Task, Keeps(a), buffer'[a] = buffer[a],
         \A c \in Of(a) : /\ c \in named' <=> c \in named
                          /\ c \in named => stage'[c] = stage[c]
  PROVE  Keeps(a)'
<1>1. InOrder(buffer[a])'
  BY DEF Keeps, InOrder
<1>2. \A i \in 1..Len(buffer[a]') : buffer[a]'[i].call \in Of(a) \cap named'
  BY DEF Keeps
<1>3. ASSUME NEW c \in Of(a) \cap named' PROVE Tells(buffer[a]', c, stage'[c])
  <2>1. c \in named /\ stage'[c] = stage[c] /\ Tells(buffer[a], c, stage[c])
    BY DEF Keeps
  <2> QED BY <2>1
<1>4. \A c \in Of(a) \cap named' : Tells(buffer[a], c, stage[c])'
  BY <1>3 DEF Tells, Has
<1> QED BY <1>1, <1>2, <1>4 DEF Keeps, Of, Call

\* A signal about c is added, for what c is now.
LEMMA KeepsMore ==
  ASSUME Signalled, NEW a \in Task, NEW c \in Of(a), Keeps(a), c \in named',
         NEW kind \in {"start", "ready", "complete"},
         buffer'[a] = Append(buffer[a], Signal(kind, c)),
         \A d \in Of(a) : d # c => (d \in named' <=> d \in named) /\ stage'[d] = stage[d],
         kind = "start" => c \notin named /\ stage'[c] = "work",
         kind # "start" => c \in named /\ stage[c] \in {"work", "preview", "saving"},
         kind = "ready" => stage'[c] = "asking",
         kind = "complete" => stage'[c] = "done"
  PROVE  Keeps(a)'
<1>1. PICK b, s, e : b = buffer[a] /\ s = Signal(kind, c) /\ e = Append(b, s)
  OBVIOUS
<1>2. b \in Seq(SignalRecord) /\ s \in SignalRecord /\ s.kind = kind /\ s.call = c /\ InOrder(b) /\ c \in Call
  BY <1>1 DEF Signalled, Signal, SignalRecord, Keeps, Of
<1>3. \A i \in 1..Len(b) : b[i].call \in Of(a) \cap named
  BY <1>1 DEF Keeps
<1>4. c \in named => Tells(b, c, stage[c])
  BY <1>1 DEF Keeps
<1>5. InOrder(e)
  <2>1. CASE kind = "start"
    BY <1>1, <1>2, <1>3, <2>1, AppendInOrder
  <2>2. CASE kind # "start"
    <3>1. Has(b, "start", c) /\ ~Has(b, "ready", c) /\ ~Has(b, "complete", c)
      BY <1>4, <2>2 DEF Tells
    <3> QED BY <1>1, <1>2, <2>2, <3>1, AppendInOrder
  <2> QED BY <2>1, <2>2
<1>6. \A k, d : Has(e, k, d) <=> Has(b, k, d) \/ (kind = k /\ c = d)
  BY <1>1, <1>2, AppendHas
<1>7. \A i \in 1..Len(e) : e[i].call \in Of(a) \cap named'
  <2>1. \A i \in 1..Len(b) : b[i].call \in Of(a) \cap named'
    BY <1>3
  <2>2. /\ Len(b) \in Nat /\ Len(e) = Len(b) + 1 /\ e[Len(b) + 1] = s
        /\ \A i \in 1..Len(b) : e[i] = b[i]
    BY <1>1, <1>2
  <2>3. \A i \in 1..Len(e) : i \in 1..Len(b) \/ i = Len(b) + 1
    BY <2>2
  <2> QED BY <1>2, <2>1, <2>2, <2>3
<1>8. \A k : ~Has(b, k, c) \/ c \in named
  BY <1>3 DEF Has
<1>9. ASSUME NEW d \in Of(a) \cap named' PROVE Tells(e, d, stage'[d])
  <2>1. CASE d = c
    <3>1. CASE kind = "start"
      BY <1>6, <1>8, <2>1, <3>1 DEF Tells
    <3>2. CASE kind = "ready"
      <4>1. Has(b, "start", c) /\ ~Has(b, "ready", c) /\ ~Has(b, "complete", c)
        BY <1>4, <3>2 DEF Tells
      <4> QED BY <1>6, <2>1, <3>2, <4>1 DEF Tells
    <3>3. CASE kind = "complete"
      <4>1. Has(b, "start", c) /\ ~Has(b, "ready", c) /\ ~Has(b, "complete", c)
        BY <1>4, <3>3 DEF Tells
      <4> QED BY <1>6, <2>1, <3>3, <4>1 DEF Tells
    <3> QED BY <3>1, <3>2, <3>3
  <2>2. CASE d # c
    <3>1. d \in named /\ stage'[d] = stage[d] /\ Tells(b, d, stage[d])
      BY <1>1, <2>2 DEF Keeps
    <3> QED BY <1>6, <2>2, <3>1 DEF Tells
  <2> QED BY <2>1, <2>2
<1>10. e = buffer'[a]
  BY <1>1
<1>11. InOrder(buffer[a])' /\ \A i \in 1..Len(buffer[a]') : buffer[a]'[i].call \in Of(a) \cap named'
  BY <1>5, <1>7, <1>10 DEF InOrder
<1>12. \A d \in Of(a) \cap named' : Tells(buffer[a], d, stage[d])'
  BY <1>9, <1>10 DEF Tells, Has
<1> QED BY <1>11, <1>12 DEF Keeps, Of, Call

\* The same of the signals the agent sends.
LEMMA SignalOthers ==
  ASSUME Signalled, NEW c \in Call, NEW kind \in {"start", "ready", "complete"}, NEW inner \in BOOLEAN,
         NEW autos, NEW st \in Stage, Routes(Signal(kind, c), inner, autos, To(c, st))
  PROVE  /\ \A d \in Call : d # c =>
              /\ stage'[d] = stage[d] /\ shown'[d] = shown[d]
              /\ d \in registered' <=> d \in registered
         /\ \A b \in Task : b # c[1] => buffer'[b] = buffer[b]
<1>1. PICK s : s = Signal(kind, c)
  OBVIOUS
<1>2. s \in SignalRecord /\ s.call = c
  BY <1>1 DEF Signal, SignalRecord
<1>3. PICK to : to = To(c, st)
  OBVIOUS
<1>4. to \in [Call -> Stage] /\ \A d \in Call : d # c => to[d] = stage[d]
  BY <1>3 DEF To, Signalled
<1>5. Routes(s, inner, autos, to)
  BY <1>1, <1>3
<1>6. /\ \A d \in Call : d # c =>
           /\ stage'[d] = to[d] /\ shown'[d] = shown[d]
           /\ d \in registered' <=> d \in registered
      /\ \A b \in Task : b # c[1] => buffer'[b] = buffer[b]
  BY <1>2, <1>4, <1>5, RoutesOthers
<1> QED BY <1>4, <1>6

LEMMA SignalEarly ==
  ASSUME Signalled, NEW c \in Call, c[1] \notin tracked, NEW kind \in {"start", "ready", "complete"},
         NEW autos, NEW st, Routes(Signal(kind, c), TRUE, autos, st)
  PROVE  stage' = st /\ buffer'[c[1]] = Append(buffer[c[1]], Signal(kind, c))
<1>1. Signal(kind, c) \in SignalRecord /\ Signal(kind, c).call = c
  BY DEF Signal, SignalRecord
<1> QED BY <1>1, RoutesEarly

\* A replay is about the calls of its subagent.
LEMMA ReplayOthers ==
  ASSUME Signalled, NEW a \in Task, Keeps(a), NEW autos, NEW d \in Call, d \notin Of(a)
  PROVE  Same(Replayed(a, autos), Now, d)
<1>1. PICK b, h : b = buffer[a] /\ h = Replayed(a, autos)
  OBVIOUS
<1>2. b \in Seq(SignalRecord) /\ InOrder(b) /\ shown \in [Call -> Status] /\ registered \subseteq Call
  BY <1>1 DEF Signalled, Keeps
<1>3. Delivered(h, b, Len(b), autos, d)
  BY <1>1, <1>2, ReplayDelivers DEF Replayed
<1>4. \A k \in 1..Len(b) : b[k].call # d
  BY <1>1 DEF Keeps
<1> QED BY <1>1, <1>3, <1>4 DEF Delivered

\* Steps about one call of a that leave the others alone.
LEMMA CallKeeps ==
  ASSUME Shapes, Signalled, Fresh, SavesNamed, TurnMeansTracked, NEW a \in Task, Early(a), Keeps(a),
         NEW c \in Call,
         ClientAnswers(c) \/ CallStarts(c) \/ CallAsks(c) \/ PromptFires(c) \/ CallEnds(c) \/ CompletionFires(c)
  PROVE  Keeps(a)'
<1>0. /\ stage \in [Call -> Stage] /\ named \subseteq Call
      /\ \A st \in Stage : To(c, st) \in [Call -> Stage]
      /\ \A st : \A d \in Call : To(c, st)[d] = IF d = c THEN st ELSE stage[d]
      /\ {"work", "preview", "asking", "saving", "done"} \subseteq Stage
      /\ Of(a) \subseteq Call /\ c[1] \in Task /\ (c[1] = a <=> c \in Of(a))
      /\ a \notin tracked /\ child[a] # "active"
  BY DEF Signalled, To, Stage, Of, Call, Early, Fresh, TurnMeansTracked
<1>1. CASE ClientAnswers(c)
  <2>1. c \notin Of(a)
    BY <1>0, <1>1 DEF ClientAnswers
  <2>2. UNCHANGED <<named, buffer>>
    BY <1>1 DEF ClientAnswers, agentVars
  <2>3. PICK to \in {"granted", "refused"} : stage' = stage \/ stage' = Answered(stage, {c}, to)
    BY <1>1 DEF ClientAnswers
  <2>4. \A d \in Call : d # c => stage'[d] = stage[d]
    <3>1. \A d \in Call : Answered(stage, {c}, to)[d] =
            IF d \in {c} /\ stage[d] \in {"preview", "asking"} THEN to ELSE stage[d]
      BY DEF Answered
    <3> QED BY <2>3, <3>1
  <2> QED BY <1>0, <2>1, <2>2, <2>4, KeepsSame
<1>2. ASSUME NEW kind \in {"start", "ready", "complete"}, NEW inner \in BOOLEAN, NEW autos, NEW st \in Stage,
             Routes(Signal(kind, c), inner, autos, To(c, st)), named' \subseteq named \cup {c}, named \subseteq named',
             c \notin Of(a)
      PROVE  Keeps(a)'
  <2>1. /\ \A d \in Call : d # c => stage'[d] = stage[d]
        /\ \A b \in Task : b # c[1] => buffer'[b] = buffer[b]
    BY <1>2, SignalOthers
  <2> QED BY <1>0, <1>2, <2>1, KeepsSame
<1>3. CASE CallStarts(c)
  <2>1. stage[c] = "none" /\ c \notin named
    BY <1>3 DEF CallStarts, Fresh
  <2>2. CASE Knows(c[1])
    <3>1. named' = named \cup {c} /\ Routes(Signal("start", c), TRUE, {}, To(c, "work"))
      BY <1>3, <2>2 DEF CallStarts
    <3>2. CASE c \in Of(a)
      <4>1. stage' = To(c, "work") /\ buffer'[a] = Append(buffer[a], Signal("start", c))
        BY <1>0, <3>1, <3>2, SignalEarly
      <4> QED BY <1>0, <2>1, <3>1, <3>2, <4>1, KeepsMore
    <3>3. CASE c \notin Of(a)
      BY <1>0, <1>2, <3>1, <3>3
    <3> QED BY <3>2, <3>3
  <2>3. CASE ~Knows(c[1])
    <3>1. stage' = To(c, "work") /\ UNCHANGED <<named, buffer>>
      BY <1>3, <2>3 DEF CallStarts
    <3> QED BY <1>0, <2>1, <3>1, KeepsSame
  <2> QED BY <2>2, <2>3
<1>4. CASE CallAsks(c) \/ CallEnds(c)
  <2>1. UNCHANGED <<named, buffer>> /\ \A d \in Of(a) : d # c => stage'[d] = stage[d]
    BY <1>0, <1>4 DEF CallAsks, CallEnds, agentVars, childVars
  <2>2. CASE c \notin Of(a) \/ c \notin named
    BY <2>1, <2>2, KeepsSame
  <2>3. CASE c \in Of(a) /\ c \in named
    <3>1. Tells(buffer[a], c, stage[c])
      BY <2>3 DEF Keeps
    <3>2. stage[c] = "work" /\ stage'[c] \in {"preview", "saving"}
      BY <1>0, <1>4, <2>3, <3>1 DEF CallAsks, CallEnds, Tells
    <3>3. Tells(buffer[a], c, stage'[c])
      BY <3>1, <3>2 DEF Tells
    <3>4. ASSUME NEW d \in Of(a) \cap named' PROVE Tells(buffer'[a], d, stage'[d])
      BY <2>1, <3>3 DEF Keeps
    <3>5. InOrder(buffer[a])' /\ \A i \in 1..Len(buffer[a]') : buffer[a]'[i].call \in Of(a) \cap named'
      BY <2>1 DEF Keeps, InOrder
    <3>6. \A d \in Of(a) \cap named' : Tells(buffer[a], d, stage[d])'
      BY <3>4 DEF Tells, Has
    <3> QED BY <3>5, <3>6 DEF Keeps, Of, Call
  <2> QED BY <2>2, <2>3
<1>5. CASE PromptFires(c)
  <2>1. PICK autos \in SUBSET {c} : Routes(Signal("ready", c), c \in named, autos, To(c, "asking"))
    BY <1>5 DEF PromptFires
  <2>2. stage[c] = "preview" /\ named' = named
    BY <1>5 DEF PromptFires, agentVars
  <2>3. CASE c \notin Of(a)
    <3>1. (c \in named) \in BOOLEAN
      OBVIOUS
    <3> QED BY <1>0, <1>2, <2>1, <2>2, <2>3, <3>1
  <2>4. CASE c \in Of(a) /\ c \in named
    <3>1. stage' = To(c, "asking") /\ buffer'[a] = Append(buffer[a], Signal("ready", c))
      <4>1. Routes(Signal("ready", c), TRUE, autos, To(c, "asking"))
        BY <2>1, <2>4
      <4> QED BY <1>0, <2>4, <4>1, SignalEarly
    <3>2. /\ stage'[c] = "asking" /\ \A d \in Of(a) : d # c => stage'[d] = stage[d]
          /\ c \in named' /\ stage[c] = "preview"
      BY <1>0, <2>2, <2>4, <3>1
    <3> QED BY <1>0, <2>2, <2>4, <3>1, <3>2, KeepsMore
  <2>5. CASE c \in Of(a) /\ c \notin named
    <3>1. buffer' = buffer
      BY <2>1, <2>5 DEF Routes
    <3>2. \A d \in Call : d # c => stage'[d] = stage[d]
      <4>1. (c \in named) = FALSE
        BY <2>5
      <4>2. Routes(Signal("ready", c), FALSE, autos, To(c, "asking"))
        BY <2>1, <4>1
      <4> QED BY <1>0, <4>2, SignalOthers
    <3> QED BY <1>0, <2>2, <2>5, <3>1, <3>2, KeepsSame
  <2> QED BY <2>3, <2>4, <2>5
<1>6. CASE CompletionFires(c)
  <2>1. /\ stage[c] = "saving" /\ c \in named /\ named' = named
        /\ Routes(Signal("complete", c), TRUE, {}, To(c, "done"))
    BY <1>6 DEF CompletionFires, SavesNamed, agentVars
  <2>2. CASE c \notin Of(a)
    BY <1>0, <1>2, <2>1, <2>2
  <2>3. CASE c \in Of(a)
    <3>1. stage' = To(c, "done") /\ buffer'[a] = Append(buffer[a], Signal("complete", c))
      BY <1>0, <2>1, <2>3, SignalEarly
    <3> QED BY <1>0, <2>1, <2>3, <3>1, KeepsMore
  <2> QED BY <2>2, <2>3
<1> QED BY <1>1, <1>3, <1>4, <1>5, <1>6

LEMMA BufferStep ==
  ASSUME Shapes, Kept, Signalled, Fresh, SavesNamed, TurnMeansTracked, BufferFits, [Next]_vars
  PROVE  BufferFits'
<1> SUFFICES ASSUME Quiet', NEW a \in Task, Early(a)' PROVE Keeps(a)'
  BY DEF BufferFits
<1> USE DEF sdkVars, agentVars, sessionVars, childVars
<1>0. task'[a] = "running" /\ sub'[a] = "none" /\ Of(a) \subseteq Call
  BY DEF Early, Of
<1>1. ~AbortReturns
  BY <1>0 DEF AbortReturns, Shapes
<1>2. Quiet
  BY <1>1, QuietStep
<1>3. ~Aborts
  <2>1. ASSUME Aborts PROVE FALSE
    <3>1. jobs # <<>> /\ Head(jobs) = "abort" /\ jobs \in Seq({"send", "abort"})
      BY <2>1 DEF Aborts, Kept
    <3>2. 1 \in 1..Len(jobs) /\ jobs[1] = "abort"
      BY <3>1
    <3> QED BY <1>2, <3>2 DEF Quiet
  <2> QED BY <2>1
<1>4. ~ClientCancels
  <2>1. ASSUME ClientCancels PROVE FALSE
    <3>1. jobs' = Append(jobs, "abort") /\ jobs \in Seq({"send", "abort"})
      BY <2>1 DEF ClientCancels, Kept
    <3>2. Len(jobs') \in 1..Len(jobs') /\ jobs'[Len(jobs')] = "abort"
      BY <3>1
    <3> QED BY <3>2 DEF Quiet
  <2> QED BY <2>1
<1>5. CASE TaskStarts(a)
  <2>1. task[a] = "none" /\ buffer' = buffer /\ stage' = stage /\ named' = named
    BY <1>5 DEF TaskStarts
  <2>2. buffer'[a] = <<>> /\ \A c \in Of(a) : c \notin named'
    BY <2>1 DEF Fresh
  <2>3. Len(buffer'[a]) = 0
    BY <2>2
  <2>4. InOrder(buffer[a])' /\ \A i \in 1..Len(buffer[a]') : buffer[a]'[i].call \in Of(a) \cap named'
    BY <2>3 DEF InOrder
  <2>5. \A c \in Of(a) \cap named' : Tells(buffer[a], c, stage[c])'
    BY <2>2
  <2> QED BY <2>4, <2>5 DEF Keeps, Of, Call
<1>6. CASE ~TaskStarts(a)
  <2>1. Early(a)
    <3>1. task[a] = "running"
      <4>1. CASE \E b \in Task : TaskStarts(b) \/ TaskReturns(b)
        BY <1>0, <1>6, <4>1 DEF TaskStarts, TaskReturns, Shapes
      <4>2. CASE task' = task
        BY <1>0, <4>2
      <4>3. task' = task \/ \E b \in Task : TaskStarts(b) \/ TaskReturns(b)
        <5>1. CASE ClientStartsTurn \/ Evicts \/ Sends \/ GoesIdle \/ UNCHANGED vars
          BY <5>1 DEF ClientStartsTurn, Evicts, Sends, GoesIdle, vars
        <5>2. CASE \E b \in Task : Restores(b) \/ SubagentStarts(b) \/ SubagentEnds(b)
          BY <5>2 DEF Restores, SubagentStarts, SubagentEnds
        <5>3. CASE \E c \in Call : ClientAnswers(c) \/ CallStarts(c) \/ CallAsks(c)
                                  \/ PromptFires(c) \/ CallEnds(c) \/ CompletionFires(c)
          BY <5>3 DEF ClientAnswers, CallStarts, CallAsks, PromptFires, CallEnds, CompletionFires
        <5> QED BY <1>1, <1>3, <1>4, <5>1, <5>2, <5>3 DEF Next
      <4> QED BY <4>1, <4>2, <4>3
    <3>2. sub[a] = "none"
      <4>1. CASE \E b \in Task : SubagentStarts(b) \/ SubagentEnds(b)
        BY <1>0, <4>1 DEF SubagentStarts, SubagentEnds, Kept
      <4>2. CASE sub' = sub
        BY <1>0, <4>2
      <4>3. sub' = sub \/ \E b \in Task : SubagentStarts(b) \/ SubagentEnds(b)
        <5>1. CASE ClientStartsTurn \/ Evicts \/ Sends \/ GoesIdle \/ UNCHANGED vars
          BY <5>1 DEF ClientStartsTurn, Evicts, Sends, GoesIdle, vars
        <5>2. CASE \E b \in Task : Restores(b) \/ TaskStarts(b) \/ TaskReturns(b)
          BY <5>2 DEF Restores, TaskStarts, TaskReturns
        <5>3. CASE \E c \in Call : ClientAnswers(c) \/ CallStarts(c) \/ CallAsks(c)
                                  \/ PromptFires(c) \/ CallEnds(c) \/ CompletionFires(c)
          BY <5>3 DEF ClientAnswers, CallStarts, CallAsks, PromptFires, CallEnds, CompletionFires
        <5> QED BY <1>1, <1>3, <1>4, <5>1, <5>2, <5>3 DEF Next
      <4> QED BY <4>1, <4>2, <4>3
    <3> QED BY <3>1, <3>2 DEF Early
  <2>2. Keeps(a)
    BY <1>2, <2>1 DEF BufferFits
  <2>3. CASE ClientStartsTurn \/ Evicts \/ Sends \/ GoesIdle \/ UNCHANGED vars
    <3>1. UNCHANGED <<buffer, stage, named>>
      BY <2>3 DEF ClientStartsTurn, Evicts, Sends, GoesIdle, vars
    <3> QED BY <2>2, <3>1, KeepsSame
  <2>4. ASSUME NEW b \in Task,
               Restores(b) \/ TaskStarts(b) \/ TaskReturns(b) \/ SubagentStarts(b) \/ SubagentEnds(b)
        PROVE  Keeps(a)'
    <3>1. CASE Restores(b) \/ TaskStarts(b)
      <4>1. UNCHANGED <<buffer, stage, named>>
        BY <3>1 DEF Restores, TaskStarts
      <4> QED BY <2>2, <4>1, KeepsSame
    <3>2. CASE TaskReturns(b)
      <4>1. b # a
        BY <1>0, <3>2 DEF TaskReturns, Shapes
      <4>2. buffer'[a] = buffer[a] /\ UNCHANGED <<stage, named>>
        BY <3>2, <4>1 DEF TaskReturns, Signalled
      <4> QED BY <2>2, <4>2, KeepsSame
    <3>3. CASE SubagentEnds(b)
      <4>1. b # a
        BY <2>1, <3>3 DEF SubagentEnds, Early
      <4>2. buffer'[a] = buffer[a] /\ UNCHANGED <<stage, named>>
        BY <3>3, <4>1 DEF SubagentEnds, Signalled
      <4> QED BY <2>2, <4>2, KeepsSame
    <3>4. CASE SubagentStarts(b)
      <4>1. b # a
        BY <1>0, <3>4 DEF SubagentStarts, Kept
      <4>2. buffer'[a] = buffer[a] /\ named' = named
        BY <3>4, <4>1 DEF SubagentStarts, Signalled
      <4>3. PICK autos \in SUBSET Of(b) : stage' = Answered(stage, Replayed(b, autos).answered, "granted")
        BY <3>4 DEF SubagentStarts
      <4>4. Keeps(b)
        BY <1>2, <3>4 DEF SubagentStarts, BufferFits, Early
      <4>5. \A c \in Of(a) : c \in Call /\ c \notin Of(b)
        BY <4>1 DEF Of
      <4>6. \A c \in Of(a) : Same(Replayed(b, autos), Now, c)
        BY <4>4, <4>5, ReplayOthers
      <4>7. \A c \in Of(a) : c \notin Replayed(b, autos).answered
        BY <4>6 DEF Same, Now
      <4>8. \A c \in Of(a) : stage'[c] = stage[c]
        BY <4>3, <4>5, <4>7 DEF Answered
      <4> QED BY <2>2, <4>2, <4>8, KeepsSame
    <3> QED BY <2>4, <3>1, <3>2, <3>3, <3>4
  <2>5. ASSUME NEW c \in Call,
               ClientAnswers(c) \/ CallStarts(c) \/ CallAsks(c) \/ PromptFires(c) \/ CallEnds(c) \/ CompletionFires(c)
        PROVE  Keeps(a)'
    BY <2>1, <2>2, <2>5, CallKeeps
  <2> QED BY <1>1, <1>3, <1>4, <2>3, <2>4, <2>5 DEF Next
<1> QED BY <1>5, <1>6

-----------------------------------------------------------------------------
(* What a child session shows *)

LEMMA FitsSame ==
  ASSUME NEW c \in Call, CallFits(c), stage'[c] = stage[c], shown'[c] = shown[c],
         c \in registered' <=> c \in registered
  PROVE  CallFits(c)'
BY DEF CallFits, Fits

\* A signal about a call of a child at work is delivered.
LEMMA RoutesAtWork ==
  ASSUME NEW c \in Call, c[1] \in tracked, child[c[1]] = "active", NEW kind, NEW autos, NEW st,
         Routes(Signal(kind, c), TRUE, autos, st), NEW h, h = Deliver(Now, Signal(kind, c), autos)
  PROVE  /\ shown' = h.shown /\ registered' = h.registered
         /\ stage' = Answered(st, h.answered, "granted")
BY DEF Routes, Signal

LEMMA AnsweredAt ==
  ASSUME NEW st, NEW cs, NEW to, NEW c \in Call
  PROVE  Answered(st, cs, to)[c] = IF c \in cs /\ st[c] \in {"preview", "asking"} THEN to ELSE st[c]
BY DEF Answered

\* What happens to a call of a child at work is what the child shows.
LEMMA OwnFits ==
  ASSUME Signalled, Fresh, SavesNamed, NEW c \in Call, AtWork(c[1]), c \in named => CallFits(c), c \in named',
         ClientAnswers(c) \/ CallStarts(c) \/ CallAsks(c) \/ PromptFires(c) \/ CallEnds(c) \/ CompletionFires(c)
  PROVE  CallFits(c)'
<1>0. /\ stage \in [Call -> Stage] /\ shown \in [Call -> Status] /\ Now \in Held
      /\ c[1] \in tracked /\ child[c[1]] = "active" /\ Now.answered = {}
      /\ Now.shown = shown /\ Now.registered = registered
      /\ \A st : To(c, st)[c] = st
  BY NowTyped DEF Signalled, To, AtWork, Now
<1>w. c[1] \in tracked /\ child[c[1]] = "active"
  BY <1>0
<1>s. \A kind \in {"start", "ready", "complete"} :
        Signal(kind, c) \in SignalRecord /\ Signal(kind, c).call = c /\ Signal(kind, c).kind = kind
  BY DEF Signal, SignalRecord
<1>1. CASE ClientAnswers(c)
  <2>1. CallFits(c) /\ shown[c] = "pending"
    BY <1>1 DEF ClientAnswers, agentVars
  <2>2. stage[c] = "asking" /\ c \in registered
    <3>1. stage[c] \in {"none", "work", "preview", "asking", "granted", "refused", "saving", "done", "gone"}
      BY <1>0 DEF Stage
    <3> QED BY <2>1, <3>1 DEF CallFits, Fits
  <2>3. PICK approved \in BOOLEAN :
          /\ shown' = [shown EXCEPT ![c] = IF approved THEN "running" ELSE "cancelled"]
          /\ stage' = Answered(stage, {c}, IF approved THEN "granted" ELSE "refused")
    BY <1>1, <2>2 DEF ClientAnswers
  <2>4. shown'[c] = IF approved THEN "running" ELSE "cancelled"
    BY <1>0, <2>3
  <2>5. stage'[c] = IF approved THEN "granted" ELSE "refused"
    BY <2>2, <2>3, AnsweredAt
  <2> QED BY <2>4, <2>5 DEF CallFits, Fits
<1>2. CASE CallStarts(c)
  <2>1. stage[c] = "none" /\ c \notin named
    BY <1>2 DEF CallStarts, Fresh
  <2>2. Routes(Signal("start", c), TRUE, {}, To(c, "work"))
    BY <1>2, <2>1 DEF CallStarts
  <2>3. PICK h : h = Deliver(Now, Signal("start", c), {})
    OBVIOUS
  <2>4. shown' = h.shown /\ registered' = h.registered /\ stage' = Answered(To(c, "work"), h.answered, "granted")
    BY <1>w, <2>2, <2>3, RoutesAtWork
  <2>5. h.shown[c] = "running" /\ c \in h.registered
    BY <1>0, <1>s, <2>3, DeliverStart
  <2>6. stage'[c] = "work"
    BY <1>0, <2>4, AnsweredAt
  <2> QED BY <2>4, <2>5, <2>6 DEF CallFits, Fits
<1>3. CASE CallAsks(c)
  <2>1. /\ CallFits(c) /\ stage[c] = "work" /\ shown' = shown /\ registered' = registered
        /\ stage'[c] = "preview"
    BY <1>0, <1>3 DEF CallAsks, agentVars, childVars
  <2> QED BY <2>1 DEF CallFits, Fits
<1>4. CASE PromptFires(c)
  <2>1. CallFits(c) /\ stage[c] = "preview" /\ c \in named
    BY <1>4 DEF PromptFires, agentVars
  <2>2. shown[c] = "running" /\ c \in registered
    BY <2>1 DEF CallFits, Fits
  <2>3. PICK autos \in SUBSET {c} : Routes(Signal("ready", c), TRUE, autos, To(c, "asking"))
    BY <1>4, <2>1 DEF PromptFires
  <2>4. PICK h : h = Deliver(Now, Signal("ready", c), autos)
    OBVIOUS
  <2>5. shown' = h.shown /\ registered' = h.registered /\ stage' = Answered(To(c, "asking"), h.answered, "granted")
    BY <1>w, <2>3, <2>4 DEF Routes, Signal
  <2>6. IF c \in autos THEN h.shown = shown /\ h.answered = {c}
        ELSE h.registered = registered /\ h.answered = {} /\ h.shown[c] = "pending"
    BY <1>0, <1>s, <2>2, <2>4, DeliverReady
  <2>7. stage'[c] = IF c \in autos THEN "granted" ELSE "asking"
    BY <1>0, <2>5, <2>6, AnsweredAt
  <2> QED BY <2>2, <2>5, <2>6, <2>7 DEF CallFits, Fits
<1>5. CASE CallEnds(c)
  <2>1. /\ CallFits(c) /\ stage[c] \in {"work", "granted", "refused"} /\ shown' = shown
        /\ registered' = registered /\ stage'[c] = "saving"
    BY <1>0, <1>5 DEF CallEnds, agentVars, childVars
  <2> QED BY <2>1 DEF CallFits, Fits
<1>6. CASE CompletionFires(c)
  <2>1. CallFits(c) /\ stage[c] = "saving" /\ Routes(Signal("complete", c), TRUE, {}, To(c, "done"))
    BY <1>6 DEF CompletionFires, agentVars
  <2>2. shown[c] \in {"running", "cancelled"}
    BY <2>1 DEF CallFits, Fits
  <2>3. PICK h : h = Deliver(Now, Signal("complete", c), {})
    OBVIOUS
  <2>4. shown' = h.shown /\ stage' = Answered(To(c, "done"), h.answered, "granted")
    BY <1>w, <2>1, <2>3, RoutesAtWork
  <2>5. h.answered = {} /\ h.shown[c] \in {"completed", "cancelled"}
    BY <1>0, <1>s, <2>2, <2>3, DeliverComplete
  <2>6. stage'[c] = "done"
    BY <1>0, <2>4, <2>5, AnsweredAt
  <2> QED BY <2>4, <2>5, <2>6 DEF CallFits, Fits
<1> QED BY <1>1, <1>2, <1>3, <1>4, <1>5, <1>6

\* What happens to one call is nothing to another.
LEMMA OthersFit ==
  ASSUME Signalled, NEW c \in Call, NEW d \in Call, d # c, CallFits(d),
         ClientAnswers(c) \/ CallStarts(c) \/ CallAsks(c) \/ PromptFires(c) \/ CallEnds(c) \/ CompletionFires(c)
  PROVE  CallFits(d)'
<1>0. /\ stage \in [Call -> Stage] /\ shown \in [Call -> Status]
      /\ {"work", "preview", "asking", "saving", "done"} \subseteq Stage
      /\ \A st : To(c, st)[d] = stage[d]
  BY DEF Signalled, To, Stage
<1>1. CASE ClientAnswers(c)
  <2>1. PICK to \in {"granted", "refused"} : stage' = stage \/ stage' = Answered(stage, {c}, to)
    BY <1>1 DEF ClientAnswers
  <2>2. stage'[d] = stage[d]
    BY <2>1, AnsweredAt
  <2>3. shown'[d] = shown[d] /\ (d \in registered' <=> d \in registered)
    BY <1>0, <1>1 DEF ClientAnswers
  <2> QED BY <2>2, <2>3, FitsSame
<1>2. ASSUME NEW kind \in {"start", "ready", "complete"}, NEW inner \in BOOLEAN, NEW autos, NEW st \in Stage,
             Routes(Signal(kind, c), inner, autos, To(c, st))
      PROVE  CallFits(d)'
  <2>1. \A e \in Call : e # c =>
           /\ stage'[e] = stage[e] /\ shown'[e] = shown[e]
           /\ e \in registered' <=> e \in registered
    BY <1>2, SignalOthers
  <2> QED BY <2>1, FitsSame
<1>3. CASE CallStarts(c)
  <2>1. CASE Knows(c[1])
    <3>1. Routes(Signal("start", c), TRUE, {}, To(c, "work"))
      BY <1>3, <2>1 DEF CallStarts
    <3> QED BY <1>0, <1>2, <3>1
  <2>2. CASE ~Knows(c[1])
    <3>1. stage'[d] = stage[d] /\ shown' = shown /\ registered' = registered
      BY <1>0, <1>3, <2>2 DEF CallStarts
    <3> QED BY <3>1, FitsSame
  <2> QED BY <2>1, <2>2
<1>4. CASE CallAsks(c) \/ CallEnds(c)
  <2>1. stage'[d] = stage[d] /\ shown' = shown /\ registered' = registered
    BY <1>0, <1>4 DEF CallAsks, CallEnds, childVars
  <2> QED BY <2>1, FitsSame
<1>5. CASE PromptFires(c)
  <2>1. PICK autos \in SUBSET {c} : Routes(Signal("ready", c), c \in named, autos, To(c, "asking"))
    BY <1>5 DEF PromptFires
  <2>2. CASE (c \in named) = TRUE
    <3>1. Routes(Signal("ready", c), TRUE, autos, To(c, "asking"))
      BY <2>1, <2>2
    <3> QED BY <1>0, <1>2, <3>1
  <2>3. CASE (c \in named) = FALSE
    <3>1. Routes(Signal("ready", c), FALSE, autos, To(c, "asking"))
      BY <2>1, <2>3
    <3> QED BY <1>0, <1>2, <3>1
  <2>4. (c \in named) = TRUE \/ (c \in named) = FALSE
    OBVIOUS
  <2> QED BY <2>2, <2>3, <2>4
<1>6. CASE CompletionFires(c)
  <2>1. Routes(Signal("complete", c), TRUE, {}, To(c, "done"))
    BY <1>6 DEF CompletionFires
  <2> QED BY <1>0, <1>2, <2>1
<1> QED BY <1>1, <1>3, <1>4, <1>5, <1>6

\* What was buffered for a subagent is what its child shows when it starts.
LEMMA ReplayFits ==
  ASSUME Signalled, NEW a \in Task, Keeps(a), NEW c \in Of(a) \cap named, NEW autos,
         Becomes(Replayed(a, autos)), stage' = Answered(stage, Replayed(a, autos).answered, "granted")
  PROVE  CallFits(c)'
<1>1. PICK b, h : b = buffer[a] /\ h = Replayed(a, autos)
  OBVIOUS
<1>2. /\ b \in Seq(SignalRecord) /\ InOrder(b) /\ shown \in [Call -> Status] /\ registered \subseteq Call
      /\ c \in Call /\ Tells(b, c, stage[c])
  BY <1>1 DEF Signalled, Keeps, Of
<1>3. Delivered(h, b, Len(b), autos, c)
  BY <1>1, <1>2, ReplayDelivers DEF Replayed
<1>4. shown' = h.shown /\ registered' = h.registered
  BY <1>1 DEF Becomes
<1>5. stage'[c] = IF c \in h.answered /\ stage[c] \in {"preview", "asking"} THEN "granted" ELSE stage[c]
  BY <1>1, <1>2, AnsweredAt
<1>6. CASE stage[c] = "asking"
  <2>1. PICK k \in 1..Len(b) : b[k].kind = "ready" /\ b[k].call = c
    BY <1>2, <1>6 DEF Tells, Has
  <2>2. /\ c \in autos => h.shown[c] = "running" /\ c \in h.answered
        /\ c \notin autos => h.shown[c] = "pending" /\ c \in h.registered /\ c \notin h.answered
    BY <1>3, <2>1 DEF Delivered
  <2> QED BY <1>4, <1>5, <1>6, <2>2 DEF CallFits, Fits
<1>7. CASE stage[c] = "done"
  <2>1. PICK k \in 1..Len(b) : b[k].kind = "complete" /\ b[k].call = c
    BY <1>2, <1>7 DEF Tells, Has
  <2>2. h.shown[c] = "completed"
    BY <1>3, <2>1 DEF Delivered
  <2> QED BY <1>4, <1>5, <1>7, <2>2 DEF CallFits, Fits
<1>8. CASE stage[c] \in {"work", "preview", "saving"}
  <2>1. PICK k \in 1..Len(b) : b[k].kind = "start" /\ b[k].call = c
    BY <1>2 DEF Tells, Has
  <2>2. Len(b) \in Nat /\ \A m \in 1..Len(b) : b[m] \in SignalRecord
    BY <1>2
  <2>3. ASSUME NEW m \in (k + 1)..Len(b), b[m].call = c PROVE FALSE
    <3>1. m \in 1..Len(b) /\ k < m
      BY <2>2
    <3>2. b[m].kind # "start"
      BY <1>2, <2>1, <2>3, <3>1 DEF InOrder
    <3>3. b[m].kind \in {"ready", "complete"}
      BY <2>2, <3>1, <3>2 DEF SignalRecord
    <3>4. Has(b, "ready", c) \/ Has(b, "complete", c)
      BY <2>3, <3>1, <3>3 DEF Has
    <3> QED BY <1>2, <1>8, <3>4 DEF Tells
  <2>4. h.shown[c] = "running" /\ c \in h.registered /\ c \notin h.answered
    BY <1>3, <2>1, <2>3 DEF Delivered
  <2> QED BY <1>4, <1>5, <1>8, <2>4 DEF CallFits, Fits
<1> QED BY <1>2, <1>6, <1>7, <1>8 DEF Tells

LEMMA ChildStep ==
  ASSUME Shapes, Kept, Signalled, Fresh, SavesNamed, BufferFits, ChildFits, [Next]_vars
  PROVE  ChildFits'
<1> SUFFICES ASSUME Quiet', NEW a \in Task, AtWork(a)', NEW c \in Of(a), c \in named' PROVE CallFits(c)'
  BY DEF ChildFits, Of, Call
<1> USE DEF sdkVars, agentVars, sessionVars, childVars
<1>0. a \in tracked' /\ child'[a] = "active" /\ sub'[a] = "running" /\ c \in Call /\ c[1] = a
  BY DEF AtWork, Of
<1>1. ~AbortReturns
  BY <1>0 DEF AbortReturns, Kept
<1>2. Quiet
  BY <1>1, QuietStep
<1>3. ~Aborts
  <2>1. ASSUME Aborts PROVE FALSE
    <3>1. jobs # <<>> /\ Head(jobs) = "abort" /\ jobs \in Seq({"send", "abort"})
      BY <2>1 DEF Aborts, Kept
    <3>2. 1 \in 1..Len(jobs) /\ jobs[1] = "abort"
      BY <3>1
    <3> QED BY <1>2, <3>2 DEF Quiet
  <2> QED BY <2>1
<1>4. ~ClientCancels
  BY <1>0 DEF ClientCancels, CancelSubagentSessions
<1>5. ~Evicts
  BY <1>0 DEF Evicts
<1>6. CASE SubagentStarts(a)
  <2>1. PICK autos \in SUBSET Of(a) :
          Becomes(Replayed(a, autos)) /\ stage' = Answered(stage, Replayed(a, autos).answered, "granted")
    BY <1>6 DEF SubagentStarts
  <2>2. Keeps(a) /\ named' = named
    BY <1>2, <1>6 DEF SubagentStarts, BufferFits, Early
  <2>3. c \in Of(a) \cap named
    BY <2>2
  <2> QED BY <2>1, <2>2, <2>3, ReplayFits
<1>7. CASE ~SubagentStarts(a)
  <2>1. AtWork(a)
    <3>1. CASE ClientStartsTurn \/ Sends \/ GoesIdle \/ UNCHANGED vars
      <4>1. UNCHANGED <<tracked, child, sub>>
        BY <3>1 DEF ClientStartsTurn, Sends, GoesIdle, vars
      <4> QED BY <1>0, <4>1 DEF AtWork
    <3>2. ASSUME NEW b \in Task, Restores(b) \/ TaskStarts(b) \/ TaskReturns(b)
          PROVE  AtWork(a)
      BY <1>0, <3>2 DEF Restores, TaskStarts, TaskReturns, Shapes, AtWork
    <3>3. ASSUME NEW b \in Task, SubagentEnds(b)
          PROVE  AtWork(a)
      BY <1>0, <3>3 DEF SubagentEnds, Idle, Kept, AtWork
    <3>4. ASSUME NEW b \in Task, SubagentStarts(b)
          PROVE  AtWork(a)
      <4>1. b # a
        BY <1>7, <3>4
      <4> QED BY <1>0, <3>4, <4>1 DEF SubagentStarts, Kept, Shapes, AtWork
    <3>5. ASSUME NEW d \in Call,
                 ClientAnswers(d) \/ CallStarts(d) \/ CallAsks(d) \/ PromptFires(d) \/ CallEnds(d) \/ CompletionFires(d)
          PROVE  AtWork(a)
      <4>1. UNCHANGED <<tracked, child, sub>>
        BY <3>5 DEF ClientAnswers, CallStarts, CallAsks, PromptFires, CallEnds, CompletionFires
      <4> QED BY <1>0, <4>1 DEF AtWork
    <3> QED BY <1>1, <1>3, <1>4, <1>5, <3>1, <3>2, <3>3, <3>4, <3>5 DEF Next
  <2>2. c \in named => CallFits(c)
    BY <1>2, <2>1 DEF ChildFits
  <2>3. CASE ClientStartsTurn \/ Sends \/ GoesIdle \/ UNCHANGED vars
    <3>1. UNCHANGED <<named, stage, shown, registered>>
      BY <2>3 DEF ClientStartsTurn, Sends, GoesIdle, vars
    <3> QED BY <1>0, <2>2, <3>1, FitsSame
  <2>4. ASSUME NEW b \in Task,
               Restores(b) \/ TaskStarts(b) \/ TaskReturns(b) \/ SubagentStarts(b) \/ SubagentEnds(b)
        PROVE  CallFits(c)'
    <3>1. CASE Restores(b) \/ TaskStarts(b) \/ TaskReturns(b)
      <4>1. UNCHANGED <<named, stage, shown, registered>>
        BY <3>1 DEF Restores, TaskStarts, TaskReturns
      <4> QED BY <1>0, <2>2, <4>1, FitsSame
    <3>2. CASE SubagentEnds(b)
      <4>1. b # a
        BY <1>0, <3>2 DEF SubagentEnds, Kept
      <4>2. UNCHANGED <<named, stage, registered>> /\ shown'[c] = shown[c]
        BY <1>0, <3>2, <4>1 DEF SubagentEnds, Settled
      <4> QED BY <1>0, <2>2, <4>2, FitsSame
    <3>3. CASE SubagentStarts(b)
      <4>1. b # a
        BY <1>7, <3>3
      <4>2. PICK autos \in SUBSET Of(b) :
              Becomes(Replayed(b, autos)) /\ stage' = Answered(stage, Replayed(b, autos).answered, "granted")
        BY <3>3 DEF SubagentStarts
      <4>3. Keeps(b) /\ named' = named
        BY <1>2, <3>3 DEF SubagentStarts, BufferFits, Early
      <4>4. c \notin Of(b)
        BY <1>0, <4>1 DEF Of
      <4>5. Same(Replayed(b, autos), Now, c)
        BY <1>0, <4>3, <4>4, ReplayOthers
      <4>6. shown'[c] = shown[c] /\ (c \in registered' <=> c \in registered)
        BY <4>2, <4>5 DEF Same, Now, Becomes
      <4>7. c \notin Replayed(b, autos).answered
        BY <4>5 DEF Same, Now
      <4>8. stage'[c] = stage[c]
        BY <1>0, <4>2, <4>7, AnsweredAt
      <4> QED BY <1>0, <2>2, <4>3, <4>6, <4>8, FitsSame
    <3> QED BY <2>4, <3>1, <3>2, <3>3
  <2>5. ASSUME NEW d \in Call,
               ClientAnswers(d) \/ CallStarts(d) \/ CallAsks(d) \/ PromptFires(d) \/ CallEnds(d) \/ CompletionFires(d)
        PROVE  CallFits(c)'
    <3>1. CASE d = c
      BY <1>0, <2>1, <2>2, <2>5, <3>1, OwnFits
    <3>2. CASE d # c
      <4>1. c \in named
        <5>1. named' \subseteq named \cup {d}
          BY <2>5 DEF ClientAnswers, CallStarts, CallAsks, PromptFires, CallEnds, CompletionFires
        <5> QED BY <3>2, <5>1
      <4> QED BY <1>0, <2>2, <2>5, <3>2, <4>1, OthersFit
    <3> QED BY <3>1, <3>2
  <2> QED BY <1>1, <1>3, <1>4, <1>5, <2>3, <2>4, <2>5 DEF Next
<1> QED BY <1>6, <1>7

-----------------------------------------------------------------------------
(* What a child session shows as over stays over *)

\* A call that has not started, or whose subagent has not, is shown nowhere;
\* and what a buffer holds are signals of its own calls that have started.
Untouched ==
  /\ \A c \in Call : stage[c] = "none" \/ sub[c[1]] = "none" => shown[c] = "none"
  /\ \A a \in Task : \A i \in 1..Len(buffer[a]) :
       buffer[a][i].call \in Of(a) /\ stage[buffer[a][i].call] # "none"

\* Only a start changes what is shown of a call that is over.
LEMMA DeliverSettled ==
  ASSUME NEW h \in Held, NEW s \in SignalRecord, NEW autos, s.kind # "start",
         h.shown[s.call] \notin {"running", "pending"}
  PROVE  Deliver(h, s, autos).shown[s.call] = h.shown[s.call]
<1>1. CASE s.kind = "ready" /\ s.call \in autos
  BY <1>1 DEF Deliver, Held, SignalRecord
<1>2. CASE s.kind = "ready" /\ s.call \notin autos
  BY <1>2 DEF Deliver, Held, SignalRecord
<1>3. CASE s.kind = "complete"
  BY <1>3 DEF Deliver, Held, SignalRecord
<1> QED BY <1>1, <1>2, <1>3 DEF SignalRecord

LEMMA RoutesSettled ==
  ASSUME Signalled, NEW s \in SignalRecord, NEW inner, NEW autos, NEW st, Routes(s, inner, autos, st)
  PROVE  /\ s.call[1] \notin tracked => shown' = shown
         /\ s.kind # "start" /\ shown[s.call] \notin {"running", "pending"} =>
              shown'[s.call] = shown[s.call]
<1>1. PICK h : h = Deliver(Now, s, autos)
  OBVIOUS
<1>2. Now \in Held /\ Now.shown = shown
  BY NowTyped DEF Signalled, Now
<1>3. shown' = h.shown \/ shown' = shown
  BY <1>1 DEF Routes
<1>4. s.call[1] \notin tracked => shown' = shown
  BY DEF Routes
<1>5. s.kind # "start" /\ shown[s.call] \notin {"running", "pending"} => h.shown[s.call] = shown[s.call]
  BY <1>1, <1>2, DeliverSettled
<1> QED BY <1>3, <1>4, <1>5

\* A replay leaves alone the calls of which the buffer has no signal: the first
\* delivery after which one is different would have been about it.
LEMMA ReplayElsewhere ==
  ASSUME Signalled, NEW a \in Task, NEW autos, NEW c \in Call,
         \A i \in 1..Len(buffer[a]) : buffer[a][i].call # c
  PROVE  Same(Replayed(a, autos), Now, c)
<1>1. PICK b, f : b = buffer[a] /\ f = Deliveries(b, autos)
  OBVIOUS
<1>2. b \in Seq(SignalRecord) /\ Len(b) \in Nat /\ \A i \in 1..Len(b) : b[i] \in SignalRecord
  BY <1>1 DEF Signalled
<1>3. f[0] = Now /\ \A i \in 1..Len(b) : f[i] = Deliver(f[i - 1], b[i], autos)
  BY <1>1, <1>2, DeliveriesStep
<1>4. \A i \in 0..Len(b) : f[i] \in Held
  BY <1>1, <1>2, ReplayTyped DEF Signalled
<1> DEFINE changed == {i \in 0..Len(b) : ~ Same(f[i], Now, c)}
<1>5. changed = {}
  <2> SUFFICES ASSUME changed # {} PROVE FALSE
    OBVIOUS
  <2>1. PICK m \in changed : \A n \in changed : ~(<<n, m>> \in OpToRel(<, Nat))
    <3>1. changed \subseteq Nat
      BY <1>2
    <3> HIDE DEF changed
    <3> QED BY <3>1, NatLessThanWellFounded, WFMin
  <2>2. m \in 0..Len(b) /\ ~ Same(f[m], Now, c)
    OBVIOUS
  <2>3. Same(f[0], Now, c)
    BY <1>3 DEF Same
  <2>4. m \in 1..Len(b) /\ m - 1 \in Nat /\ m \in Nat /\ m - 1 < m /\ m - 1 \in 0..Len(b)
    BY <1>2, <2>2, <2>3
  <2>5. Same(f[m - 1], Now, c)
    BY <2>1, <2>4 DEF OpToRel
  <2>6. f[m - 1] \in Held /\ b[m] \in SignalRecord /\ b[m].call # c
    BY <1>1, <1>2, <1>4, <2>4
  <2>7. Same(f[m], f[m - 1], c)
    BY <1>3, <2>4, <2>6, DeliverOthers
  <2> QED BY <2>2, <2>5, <2>7 DEF Same
<1> QED BY <1>1, <1>2, <1>5 DEF Replayed

\* A signal of c is routed: a start, if c had not started.
Signals(c) ==
  \E kind \in {"start", "ready", "complete"}, inner \in BOOLEAN, autos \in SUBSET {c}, to \in Stage \ {"none"} :
    /\ kind = "start" => stage[c] = "none"
    /\ Routes(Signal(kind, c), inner, autos, To(c, to))

LEMMA CallSignals ==
  ASSUME NEW c \in Call, CallStarts(c) \/ PromptFires(c) \/ CompletionFires(c)
  PROVE  Signals(c) \/ (stage' = To(c, "work") /\ UNCHANGED <<shown, buffer>>)
<1> USE DEF Signals
<1>0. {"work", "asking", "done"} \subseteq Stage \ {"none"}
  BY DEF Stage
<1>1. CASE CallStarts(c)
  <2>1. stage[c] = "none"
    BY <1>1 DEF CallStarts
  <2>2. CASE Routes(Signal("start", c), TRUE, {}, To(c, "work"))
    BY <1>0, <2>1, <2>2
  <2>3. CASE stage' = To(c, "work") /\ UNCHANGED <<shown, buffer>>
    BY <2>3
  <2> QED BY <1>1, <2>2, <2>3 DEF CallStarts
<1>2. CASE PromptFires(c)
  <2>1. PICK autos \in SUBSET {c} : Routes(Signal("ready", c), c \in named, autos, To(c, "asking"))
    BY <1>2 DEF PromptFires
  <2>2. CASE (c \in named) = TRUE
    <3>1. Routes(Signal("ready", c), TRUE, autos, To(c, "asking"))
      BY <2>1, <2>2
    <3> QED BY <1>0, <3>1
  <2>3. CASE (c \in named) = FALSE
    <3>1. Routes(Signal("ready", c), FALSE, autos, To(c, "asking"))
      BY <2>1, <2>3
    <3> QED BY <1>0, <3>1
  <2>4. (c \in named) = TRUE \/ (c \in named) = FALSE
    OBVIOUS
  <2> QED BY <2>2, <2>3, <2>4
<1>3. CASE CompletionFires(c)
  <2>1. Routes(Signal("complete", c), TRUE, {}, To(c, "done"))
    BY <1>3 DEF CompletionFires
  <2> QED BY <1>0, <2>1
<1> QED BY <1>1, <1>2, <1>3

\* What has started has always started.
LEMMA StartedStep ==
  ASSUME Signalled, Kept, [Next]_vars
  PROVE  /\ \A c \in Call : stage'[c] = "none" => stage[c] = "none"
         /\ \A a \in Task : sub'[a] = "none" => sub[a] = "none"
<1> USE DEF Kept, Signalled, sdkVars, agentVars, sessionVars, childVars
<1>1. CASE ClientStartsTurn \/ ClientCancels \/ Evicts \/ Sends \/ GoesIdle \/ UNCHANGED vars
  BY <1>1 DEF ClientStartsTurn, ClientCancels, Evicts, Sends, GoesIdle, vars
<1>2. CASE Aborts
  BY <1>2 DEF Aborts, Answered
<1>3. CASE AbortReturns
  BY <1>3 DEF AbortReturns
<1>4. ASSUME NEW a \in Task,
             Restores(a) \/ TaskStarts(a) \/ TaskReturns(a) \/ SubagentStarts(a) \/ SubagentEnds(a)
      PROVE  /\ \A c \in Call : stage'[c] = "none" => stage[c] = "none"
             /\ \A b \in Task : sub'[b] = "none" => sub[b] = "none"
  <2>1. CASE Restores(a) \/ TaskStarts(a) \/ TaskReturns(a)
    BY <2>1 DEF Restores, TaskStarts, TaskReturns
  <2>2. CASE SubagentEnds(a)
    BY <2>2 DEF SubagentEnds
  <2>3. CASE SubagentStarts(a)
    <3>1. PICK answered : stage' = Answered(stage, answered, "granted")
      BY <2>3 DEF SubagentStarts
    <3>2. \A c \in Call : stage'[c] = "none" => stage[c] = "none"
      BY <3>1 DEF Answered
    <3>3. sub' = [sub EXCEPT ![a] = "running"]
      BY <2>3 DEF SubagentStarts
    <3> QED BY <3>2, <3>3
  <2> QED BY <1>4, <2>1, <2>2, <2>3
<1>5. ASSUME NEW c \in Call,
             ClientAnswers(c) \/ CallStarts(c) \/ CallAsks(c) \/ PromptFires(c) \/ CallEnds(c) \/ CompletionFires(c)
      PROVE  /\ \A d \in Call : stage'[d] = "none" => stage[d] = "none"
             /\ \A b \in Task : sub'[b] = "none" => sub[b] = "none"
  <2>1. sub' = sub
    BY <1>5 DEF ClientAnswers, CallStarts, CallAsks, PromptFires, CallEnds, CompletionFires
  <2>2. CASE ClientAnswers(c)
    BY <2>1, <2>2 DEF ClientAnswers, Answered
  <2>3. CASE CallAsks(c) \/ CallEnds(c)
    BY <2>1, <2>3 DEF CallAsks, CallEnds, To
  <2>4. CASE Signals(c)
    <3>1. PICK kind \in {"start", "ready", "complete"}, inner \in BOOLEAN, autos \in SUBSET {c},
               to \in Stage \ {"none"} : Routes(Signal(kind, c), inner, autos, To(c, to))
      BY <2>4 DEF Signals
    <3>2. Signal(kind, c) \in SignalRecord /\ To(c, to) \in [Call -> Stage]
      BY DEF Signal, SignalRecord, To
    <3>3. \A d \in Call : stage'[d] = "none" <=> To(c, to)[d] = "none"
      BY <3>1, <3>2, RoutesOthers
    <3> QED BY <2>1, <3>3 DEF To
  <2>5. CASE stage' = To(c, "work")
    BY <2>1, <2>5 DEF To
  <2> QED BY <1>5, <2>2, <2>3, <2>4, <2>5, CallSignals
<1> QED BY <1>1, <1>2, <1>3, <1>4, <1>5 DEF Next

\* What is shown of a call changes when one of its signals is routed, or
\* replayed; a client answers it; its turn ends; or its session is evicted.
LEMMA ShownStep ==
  ASSUME Signalled, Untouched, [Next]_vars, NEW c \in Call
  PROVE  \/ shown'[c] = shown[c]
         \/ shown[c] \in {"running", "pending"}
         \/ child'[c[1]] = "absent" /\ shown'[c] = "none"
         \/ Signals(c) /\ c[1] \in tracked /\ stage[c] = "none"
         \/ SubagentStarts(c[1]) /\ stage[c] # "none"
<1> USE DEF Signalled, sdkVars, agentVars, sessionVars, childVars
<1>0. c[1] \in Task /\ c \in Of(c[1])
  BY DEF Call, Of
<1>1. CASE ClientStartsTurn \/ Sends \/ Aborts \/ AbortReturns \/ GoesIdle \/ UNCHANGED vars
  BY <1>1 DEF ClientStartsTurn, Sends, Aborts, AbortReturns, GoesIdle, vars
<1>2. CASE ClientCancels
  BY <1>2 DEF ClientCancels, CancelSubagentSessions, Settled
<1>3. CASE Evicts
  BY <1>0, <1>3 DEF Evicts
<1>4. ASSUME NEW a \in Task, Restores(a) \/ TaskStarts(a) \/ TaskReturns(a)
      PROVE  shown' = shown
  BY <1>4 DEF Restores, TaskStarts, TaskReturns
<1>5. ASSUME NEW a \in Task, SubagentEnds(a)
      PROVE  shown'[c] = shown[c] \/ shown[c] \in {"running", "pending"}
  BY <1>5 DEF SubagentEnds, Settled
<1>6. ASSUME NEW a \in Task, SubagentStarts(a)
      PROVE  shown'[c] = shown[c] \/ (SubagentStarts(c[1]) /\ stage[c] # "none")
  <2>1. PICK autos \in SUBSET Of(a) : Becomes(Replayed(a, autos))
    BY <1>6 DEF SubagentStarts
  <2>2. CASE \A i \in 1..Len(buffer[a]) : buffer[a][i].call # c
    <3>1. Same(Replayed(a, autos), Now, c)
      BY <2>2, ReplayElsewhere
    <3> QED BY <2>1, <3>1 DEF Same, Becomes, Now
  <2>3. CASE \E i \in 1..Len(buffer[a]) : buffer[a][i].call = c
    <3>1. c \in Of(a) /\ stage[c] # "none"
      BY <2>3 DEF Untouched
    <3> QED BY <1>6, <3>1 DEF Of
  <2> QED BY <2>2, <2>3
<1>7. ASSUME NEW d \in Call, ClientAnswers(d)
      PROVE  shown'[c] = shown[c] \/ shown[c] \in {"running", "pending"}
  BY <1>7 DEF ClientAnswers
<1>8. ASSUME NEW d \in Call, Signals(d)
      PROVE  \/ shown'[c] = shown[c] \/ shown[c] \in {"running", "pending"}
             \/ Signals(c) /\ c[1] \in tracked /\ stage[c] = "none"
  <2>1. PICK kind \in {"start", "ready", "complete"}, inner \in BOOLEAN, autos \in SUBSET {d},
             to \in Stage \ {"none"} :
               /\ kind = "start" => stage[d] = "none"
               /\ Routes(Signal(kind, d), inner, autos, To(d, to))
    BY <1>8 DEF Signals
  <2>2. Signal(kind, d) \in SignalRecord /\ To(d, to) \in [Call -> Stage]
    BY DEF Signal, SignalRecord, To
  <2>3. Signal(kind, d).kind = kind /\ Signal(kind, d).call = d
    BY DEF Signal
  <2>4. CASE d # c
    BY <2>1, <2>2, <2>3, <2>4, RoutesOthers
  <2>5. CASE d = c
    <3>1. c[1] \notin tracked => shown' = shown
      BY <2>1, <2>2, <2>3, <2>5, RoutesSettled
    <3>2. kind # "start" /\ shown[c] \notin {"running", "pending"} => shown'[c] = shown[c]
      BY <2>1, <2>2, <2>3, <2>5, RoutesSettled
    <3> QED BY <1>8, <2>1, <2>5, <3>1, <3>2
  <2> QED BY <2>4, <2>5
<1>9. ASSUME NEW d \in Call, CallStarts(d) \/ PromptFires(d) \/ CompletionFires(d)
      PROVE  \/ shown'[c] = shown[c] \/ shown[c] \in {"running", "pending"}
             \/ Signals(c) /\ c[1] \in tracked /\ stage[c] = "none"
  BY <1>8, <1>9, CallSignals
<1>10. ASSUME NEW d \in Call, CallAsks(d) \/ CallEnds(d)
       PROVE  shown' = shown
  BY <1>10 DEF CallAsks, CallEnds
<1> QED BY <1>1, <1>2, <1>3, <1>4, <1>5, <1>6, <1>7, <1>9, <1>10 DEF Next

\* What a buffer holds is about calls of its subagent that have started.
LEMMA BufferedStep ==
  ASSUME Signalled, Kept, Untouched, [Next]_vars, NEW a \in Task, NEW i \in 1..Len(buffer'[a])
  PROVE  buffer'[a][i].call \in Of(a) /\ stage'[buffer'[a][i].call] # "none"
<1> USE DEF Signalled, sdkVars, agentVars, sessionVars, childVars
<1>1. \A d \in Of(a) : stage[d] # "none" => stage'[d] # "none"
  BY StartedStep DEF Of
<1>2. CASE buffer'[a] = buffer[a]
  BY <1>1, <1>2 DEF Untouched
<1>3. buffer'[a] # <<>>
  OBVIOUS
<1>4. ASSUME NEW c \in Call, Signals(c), buffer'[a] # buffer[a]
      PROVE  buffer'[a][i].call \in Of(a) /\ stage'[buffer'[a][i].call] # "none"
  <2>1. PICK kind \in {"start", "ready", "complete"}, inner \in BOOLEAN, autos \in SUBSET {c},
             to \in Stage \ {"none"} : Routes(Signal(kind, c), inner, autos, To(c, to))
    BY <1>4 DEF Signals
  <2>2. Signal(kind, c) \in SignalRecord /\ To(c, to) \in [Call -> Stage] /\ Signal(kind, c).call = c
    BY DEF Signal, SignalRecord, To
  <2>3. a = c[1] /\ c \in Of(a)
    BY <1>4, <2>1, <2>2, RoutesOthers DEF Of
  <2>4. buffer'[a] = Append(buffer[a], Signal(kind, c))
    BY <1>4, <2>1, <2>2, <2>3 DEF Routes
  <2>5. stage'[c] # "none"
    <3>1. stage'[c] = "none" <=> To(c, to)[c] = "none"
      BY <2>1, <2>2, RoutesOthers
    <3> QED BY <3>1 DEF To
  <2>6. CASE i = Len(buffer[a]) + 1
    BY <2>2, <2>3, <2>4, <2>5, <2>6
  <2>7. CASE i # Len(buffer[a]) + 1
    <3>1. i \in 1..Len(buffer[a]) /\ buffer'[a][i] = buffer[a][i]
      BY <2>2, <2>4, <2>7
    <3> QED BY <1>1, <3>1 DEF Untouched
  <2> QED BY <2>6, <2>7
<1>5. CASE ClientStartsTurn \/ Evicts \/ Sends \/ Aborts \/ AbortReturns \/ GoesIdle \/ UNCHANGED vars
  BY <1>2, <1>5 DEF ClientStartsTurn, Evicts, Sends, Aborts, AbortReturns, GoesIdle, vars
<1>6. CASE ClientCancels
  BY <1>3, <1>6 DEF ClientCancels, CancelSubagentSessions
<1>7. ASSUME NEW b \in Task,
             Restores(b) \/ TaskStarts(b) \/ TaskReturns(b) \/ SubagentStarts(b) \/ SubagentEnds(b)
      PROVE  buffer'[a] = buffer[a]
  BY <1>3, <1>7 DEF Restores, TaskStarts, TaskReturns, SubagentStarts, SubagentEnds
<1>8. ASSUME NEW c \in Call,
             ClientAnswers(c) \/ CallStarts(c) \/ CallAsks(c) \/ PromptFires(c) \/ CallEnds(c) \/ CompletionFires(c)
      PROVE  buffer' = buffer \/ Signals(c)
  <2>1. CASE ClientAnswers(c) \/ CallAsks(c) \/ CallEnds(c)
    BY <2>1 DEF ClientAnswers, CallAsks, CallEnds
  <2> QED BY <1>8, <2>1, CallSignals
<1> QED BY <1>2, <1>4, <1>5, <1>6, <1>7, <1>8 DEF Next

LEMMA UntouchedStep ==
  ASSUME Signalled, Kept, Fresh, Untouched, [Next]_vars
  PROVE  Untouched'
<1>1. ASSUME NEW c \in Call, stage'[c] = "none" \/ sub'[c[1]] = "none"
      PROVE  shown'[c] = "none"
  <2>1. c[1] \in Task
    BY DEF Call
  <2>2. stage[c] = "none" \/ sub[c[1]] = "none"
    BY <1>1, <2>1, StartedStep
  <2>3. shown[c] = "none"
    BY <2>2 DEF Untouched
  <2>4. ~(Signals(c) /\ c[1] \in tracked /\ stage[c] = "none")
    <3>1. ASSUME Signals(c), c[1] \in tracked PROVE FALSE
      <4>1. sub[c[1]] # "none" /\ sub'[c[1]] # "none"
        BY <2>1, <3>1, StartedStep DEF Fresh
      <4>2. PICK kind \in {"start", "ready", "complete"}, inner \in BOOLEAN, autos \in SUBSET {c},
                 to \in Stage \ {"none"} : Routes(Signal(kind, c), inner, autos, To(c, to))
        BY <3>1 DEF Signals
      <4>3. Signal(kind, c) \in SignalRecord /\ To(c, to) \in [Call -> Stage] /\ To(c, to)[c] # "none"
        BY DEF Signal, SignalRecord, To, Signalled
      <4>4. stage'[c] # "none"
        BY <4>2, <4>3, RoutesOthers
      <4> QED BY <1>1, <4>1, <4>4
    <3> QED BY <3>1
  <2>5. ~(SubagentStarts(c[1]) /\ stage[c] # "none")
    <3>1. SubagentStarts(c[1]) => sub'[c[1]] = "running"
      BY <2>1 DEF SubagentStarts, Kept
    <3>2. stage'[c] = "none" => stage[c] = "none"
      BY StartedStep
    <3> QED BY <1>1, <3>1, <3>2
  <2> QED BY <2>3, <2>4, <2>5, ShownStep
<1>2. \A a \in Task : \A i \in 1..Len(buffer'[a]) :
        buffer'[a][i].call \in Of(a) /\ stage'[buffer'[a][i].call] # "none"
  BY BufferedStep
<1> QED BY <1>1, <1>2 DEF Untouched, Of

\* A call that is over has started, in a subagent that has: neither a start nor
\* a replay is about it.
LEMMA SettledStep ==
  ASSUME Signalled, Untouched, [Next]_vars, NEW c \in Call, shown[c] \in {"completed", "cancelled"}
  PROVE  shown'[c] = shown[c] \/ child'[c[1]] = "absent"
<1>1. stage[c] # "none" /\ sub[c[1]] # "none"
  BY DEF Untouched
<1>2. ~SubagentStarts(c[1])
  BY <1>1 DEF SubagentStarts
<1> QED BY <1>1, <1>2, ShownStep

-----------------------------------------------------------------------------
(* Theorems *)

ChildInv == Fresh /\ SavesNamed /\ BufferFits /\ ChildFits

LEMMA InitHolds ==
  Init => /\ Shapes /\ Kept /\ Signalled /\ TurnMeansTracked
          /\ LinkInv /\ ChildInv
<1> SUFFICES ASSUME Init
             PROVE  /\ Shapes /\ Kept /\ Signalled /\ TurnMeansTracked
                    /\ LinkInv /\ ChildInv
  OBVIOUS
<1>1. Shapes
  BY DEF Init, Shapes, NoParts
<1>2. Kept
  <2>1. 0 \in 0..MaxTurns
    BY SubagentAssumption
  <2>2. <<>> \in Seq({"send", "abort"})
    OBVIOUS
  <2> QED BY <2>1, <2>2 DEF Init, Kept, NoParts
<1>3. Signalled
  BY DEF Init, Signalled, Stage, Status
<1>4. TurnMeansTracked
  BY DEF Init, TurnMeansTracked
<1>5. LinkInv
  BY DEF Init, LinkInv, TrackedHasTask, PartsBelong, TrackedIsFound, NoParts
<1>6. Fresh /\ SavesNamed
  BY DEF Init, Fresh, SavesNamed, NoParts, Of
<1>7. BufferFits /\ ChildFits
  BY DEF Init, BufferFits, ChildFits, Early, AtWork, NoParts
<1> QED
  BY <1>1, <1>2, <1>3, <1>4, <1>5, <1>6, <1>7 DEF ChildInv

LEMMA ShapesStay == Spec => []Shapes
<1>1. Init => Shapes
  BY InitHolds
<1>2. Shapes /\ [Next]_vars => Shapes'
  BY ShapesStep
<1> QED
  BY <1>1, <1>2, PTL DEF Spec

\* Every variable has its shape, for any number of subagents, calls and turns:
\* a buffer of any length is replayed to statuses the reducer knows.
THEOREM SubagentsTyped == Spec => []TypeOK
<1>1. Init => Kept /\ Signalled
  BY InitHolds
<1>2. Kept /\ Signalled /\ [Next]_vars => Kept' /\ Signalled'
  BY KeptStep, SignalledStep
<1>3. Shapes /\ Kept /\ Signalled => TypeOK
  BY TypesAre
<1> QED
  BY <1>1, <1>2, <1>3, ShapesStay, PTL DEF Spec

\* A child session in a turn is in _subagentSessions, for any number of
\* subagents: a completion or a cancellation reaches it.
THEOREM ActiveChildrenTracked == Spec => []TurnMeansTracked
<1>1. Init => Kept /\ TurnMeansTracked
  BY InitHolds
<1>2. Kept /\ [Next]_vars => Kept'
  BY KeptStep
<1>3. Shapes /\ Kept /\ TurnMeansTracked /\ [Next]_vars => TurnMeansTracked'
  BY TurnStep
<1> QED
  BY <1>1, <1>2, <1>3, ShapesStay, PTL DEF Spec

\* In a turn that knows the spawning call, clients find the child of every
\* subagent at work, also when the call has returned.
THEOREM WorkingChildrenFound == Spec => []TrackedIsFound
<1>1. Init => LinkInv
  BY InitHolds
<1>2. Shapes /\ LinkInv /\ [Next]_vars => LinkInv'
  BY LinkStep
<1>3. LinkInv => TrackedIsFound
  BY DEF LinkInv
<1> QED
  BY <1>1, <1>2, <1>3, ShapesStay, PTL DEF Spec

\* The child session of a subagent at work shows of each call what the agent
\* has signalled, before and after subagent_started, and takes its answer.
THEOREM CallsShownAsSignalled == Spec => []ShownAsSignalled
<1>1. Init => Kept /\ Signalled /\ ChildInv
  BY InitHolds
<1>2. Shapes /\ TurnMeansTracked /\ Kept /\ Signalled /\ ChildInv /\ [Next]_vars
        => Kept' /\ Signalled' /\ ChildInv'
  BY KeptStep, SignalledStep, FreshStep, SavesStep, BufferStep, ChildStep DEF ChildInv
<1>3. Shapes /\ Signalled /\ ChildInv => ShownAsSignalled
  <2> SUFFICES ASSUME Shapes, Signalled, ChildInv, NEW a \in tracked, child[a] = "active",
                      sub[a] = "running", Quiet, NEW c \in Of(a) \cap named
               PROVE  /\ stage[c] \in {"work", "preview", "granted"} => shown[c] = "running"
                      /\ stage[c] = "asking" <=> shown[c] = "pending"
                      /\ stage[c] = "asking" => c \in registered
                      /\ stage[c] = "refused" => shown[c] = "cancelled"
                      /\ stage[c] = "done" => shown[c] \in {"completed", "cancelled"}
    BY DEF ShownAsSignalled, Quiet
  <2>1. a \in Task /\ AtWork(a)
    BY DEF Shapes, AtWork
  <2>2. CallFits(c)
    BY <2>1 DEF ChildInv, ChildFits
  <2>3. stage[c] \in Stage
    BY DEF Signalled, Of
  <2> QED BY <2>2, <2>3 DEF CallFits, Fits, Stage
<1> QED
  BY <1>1, <1>2, <1>3, ShapesStay, ActiveChildrenTracked, PTL DEF Spec

\* What a child session shows as completed or cancelled it shows until it is
\* evicted: the replay of any buffer, a late completion and a late prompt leave
\* a call that is over as it is.
THEOREM SettledCallsStay == Spec => SettledStays
<1>1. Init => Kept /\ Signalled /\ Fresh /\ Untouched
  <2>1. Init => Untouched
    BY DEF Init, Untouched
  <2> QED BY <2>1, InitHolds DEF ChildInv
<1>2. Shapes /\ Kept /\ Signalled /\ Fresh /\ Untouched /\ [Next]_vars
        => Kept' /\ Signalled' /\ Fresh' /\ Untouched'
  BY KeptStep, SignalledStep, FreshStep, UntouchedStep
<1>3. Signalled /\ Untouched /\ [Next]_vars
        => [\A c \in Call : shown[c] \in {"completed", "cancelled"} =>
              shown'[c] = shown[c] \/ child'[c[1]] = "absent"]_vars
  BY SettledStep
<1> QED
  BY <1>1, <1>2, <1>3, ShapesStay, PTL DEF Spec, SettledStays

=============================================================================
