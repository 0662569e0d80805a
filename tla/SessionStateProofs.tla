------------------------- MODULE SessionStateProofs -------------------------
(***************************************************************************)
(* What each operator of the session reducer preserves, for any session:   *)
(* its shape, a settled history, a truthful summary status, and the fields *)
(* the action is not about.  SessionLifeProofs and AgentTurnProofs cite    *)
(* these lemmas where a step reduces an action.                            *)
(***************************************************************************)
EXTENDS SessionState, SequenceTheorems, TLAPS

\* A turn on record holds no tool call that still runs or waits.
Settled(s) ==
  \A i \in 1..Len(s.turns) : \A j \in 1..Len(s.turns[i].parts) :
     s.turns[i].parts[j].st \in Terminal

\* The summary status says what the session is doing.
StatusTrue(s) ==
  /\ s.status = "InputNeeded" <=> s.inputs # {} \/ HasPendingConfirmation(s)
  /\ s.status = "InProgress" => s.turn # NoTurn

\* r differs from s at most in its parts and its status.
SameButParts(r, s) ==
  /\ r.lifecycle = s.lifecycle /\ r.turn = s.turn /\ r.turns = s.turns
  /\ r.queue = s.queue /\ r.steering = s.steering /\ r.inputs = s.inputs
  /\ r.read = s.read /\ r.activity = s.activity

Step == [ToolStatus -> ToolStatus]

-----------------------------------------------------------------------------
(* Status *)

LEMMA SummaryTyped ==
  ASSUME NEW s \in SessionType
  PROVE  /\ SummaryStatus(s) \in Status
         /\ SummaryStatus(s) = "InputNeeded" <=> s.inputs # {} \/ HasPendingConfirmation(s)
         /\ SummaryStatus(s) = "InProgress" => s.turn # NoTurn
BY DEF SummaryStatus, Status

LEMMA RefreshTyped ==
  ASSUME NEW s \in SessionType
  PROVE  /\ RefreshStatus(s) \in SessionType /\ StatusTrue(RefreshStatus(s))
         /\ SameButParts(RefreshStatus(s), s) /\ RefreshStatus(s).parts = s.parts
<1> DEFINE r == RefreshStatus(s)
<1>1. r = [s EXCEPT !.status = SummaryStatus(s)]
  BY DEF RefreshStatus
<1>2. SummaryStatus(s) \in Status
  BY SummaryTyped
<1>3. r \in SessionType
  BY <1>1, <1>2 DEF SessionType
<1>4. SameButParts(r, s) /\ r.parts = s.parts /\ r.status = SummaryStatus(s)
  BY <1>1 DEF SessionType, SameButParts
<1>5. HasPendingConfirmation(r) <=> HasPendingConfirmation(s)
  BY <1>4 DEF HasPendingConfirmation, SameButParts
<1> QED BY <1>3, <1>4, <1>5, SummaryTyped DEF StatusTrue, SameButParts

LEMMA TouchedTyped ==
  ASSUME NEW s \in SessionType
  PROVE  /\ Touched(s) \in SessionType /\ StatusTrue(Touched(s))
         /\ Touched(s).lifecycle = s.lifecycle /\ Touched(s).turn = s.turn
         /\ Touched(s).parts = s.parts /\ Touched(s).turns = s.turns
         /\ Touched(s).queue = s.queue /\ Touched(s).steering = s.steering
         /\ Touched(s).inputs = s.inputs /\ Touched(s).activity = s.activity
<1> DEFINE r == RefreshStatus(s)
           u == Touched(s)
<1>1. r \in SessionType /\ StatusTrue(r) /\ SameButParts(r, s) /\ r.parts = s.parts
  BY RefreshTyped
<1>2. u = [r EXCEPT !.read = FALSE]
  BY DEF Touched
<1> HIDE DEF r, u
<1>3. u \in SessionType
  BY <1>1, <1>2 DEF SessionType
<1>4. /\ u.lifecycle = r.lifecycle /\ u.turn = r.turn /\ u.parts = r.parts
      /\ u.turns = r.turns /\ u.queue = r.queue /\ u.steering = r.steering
      /\ u.inputs = r.inputs /\ u.status = r.status /\ u.activity = r.activity
  BY <1>1, <1>2 DEF SessionType
<1>5. StatusTrue(u)
  BY <1>1, <1>4 DEF StatusTrue, HasPendingConfirmation
<1>6. /\ u.lifecycle = s.lifecycle /\ u.turn = s.turn /\ u.parts = s.parts
      /\ u.turns = s.turns /\ u.queue = s.queue /\ u.steering = s.steering
      /\ u.inputs = s.inputs /\ u.activity = s.activity
  BY <1>1, <1>4 DEF SameButParts
<1> QED BY <1>3, <1>5, <1>6 DEF u

-----------------------------------------------------------------------------
(* Tool calls *)

LEMMA StepsTyped ==
  ASSUME NEW b \in BOOLEAN
  PROVE  /\ ReadyStep(b) \in Step /\ ConfirmedStep(b) \in Step
         /\ CompleteStep(b) \in Step /\ ResultConfirmedStep(b) \in Step
         /\ SettleStep \in Step
         /\ \A st \in ToolStatus : SettleStep[st] \in Terminal
BY DEF ReadyStep, ConfirmedStep, CompleteStep, ResultConfirmedStep, SettleStep,
       Step, ToolStatus, Terminal

LEMMA MapPartsTyped ==
  ASSUME NEW parts \in Seq(Part), NEW cs, NEW step \in Step
  PROVE  /\ MapParts(parts, cs, step) \in Seq(Part)
         /\ Len(MapParts(parts, cs, step)) = Len(parts)
         /\ \A i \in 1..Len(parts) :
              MapParts(parts, cs, step)[i] =
                IF parts[i].call \in cs
                THEN [call |-> parts[i].call, st |-> step[parts[i].st]]
                ELSE parts[i]
<1> DEFINE e(i) == IF parts[i].call \in cs
                   THEN [call |-> parts[i].call, st |-> step[parts[i].st]]
                   ELSE parts[i]
<1>1. Len(parts) \in Nat
  BY LenProperties
<1>2. ASSUME NEW i \in 1..Len(parts) PROVE e(i) \in Part
  <2>1. parts[i] \in Part
    BY ElementOfSeq
  <2> QED BY <2>1 DEF Part, Step
<1> HIDE DEF e
<1>3. [i \in 1..Len(parts) |-> e(i)] \in Seq(Part)
  BY <1>1, <1>2, IsASeq
<1>4. MapParts(parts, cs, step) = [i \in 1..Len(parts) |-> e(i)]
  BY DEF MapParts, e
<1>5. Len([i \in 1..Len(parts) |-> e(i)]) = Len(parts)
  BY <1>1, <1>3, LenProperties
<1> QED BY <1>3, <1>4, <1>5 DEF e

LEMMA UpdateTyped ==
  ASSUME NEW s \in SessionType, NEW t, NEW cs, NEW step \in Step
  PROVE  /\ UpdateToolCalls(s, t, cs, step) \in SessionType
         /\ SameButParts(UpdateToolCalls(s, t, cs, step), s)
         /\ \/ UpdateToolCalls(s, t, cs, step).parts = s.parts
            \/ s.turn # NoTurn /\ UpdateToolCalls(s, t, cs, step).parts = MapParts(s.parts, cs, step)
<1>1. s.parts \in Seq(Part)
  BY DEF SessionType
<1>2. MapParts(s.parts, cs, step) \in Seq(Part)
  BY <1>1, MapPartsTyped
<1>3. CASE IsActive(s, t)
  BY <1>2, <1>3 DEF UpdateToolCalls, SessionType, SameButParts, IsActive
<1>4. CASE ~IsActive(s, t)
  BY <1>4 DEF UpdateToolCalls, SameButParts
<1> QED BY <1>3, <1>4

\* The four actions on a tool call keep everything else and refresh the status.
LEMMA ToolCallActions ==
  ASSUME NEW s \in SessionType, NEW t, NEW cs, NEW step \in Step
  PROVE  LET r == RefreshStatus(UpdateToolCalls(s, t, cs, step)) IN
         /\ r \in SessionType /\ StatusTrue(r) /\ SameButParts(r, s)
         /\ \/ r.parts = s.parts
            \/ s.turn # NoTurn /\ r.parts = MapParts(s.parts, cs, step)
<1> DEFINE u == UpdateToolCalls(s, t, cs, step)
<1>1. /\ u \in SessionType /\ SameButParts(u, s)
      /\ \/ u.parts = s.parts
         \/ s.turn # NoTurn /\ u.parts = MapParts(s.parts, cs, step)
  BY UpdateTyped
<1> HIDE DEF u
<1>2. /\ RefreshStatus(u) \in SessionType /\ StatusTrue(RefreshStatus(u))
      /\ SameButParts(RefreshStatus(u), u) /\ RefreshStatus(u).parts = u.parts
  BY <1>1, RefreshTyped
<1>3. SameButParts(RefreshStatus(u), s)
  BY <1>1, <1>2 DEF SameButParts
<1> QED BY <1>1, <1>2, <1>3 DEF u

LEMMA ToolCallStartKeeps ==
  ASSUME NEW s \in SessionType, NEW t, NEW c \in Call
  PROVE  /\ ToolCallStart(s, t, c) \in SessionType
         /\ SameButParts(ToolCallStart(s, t, c), s)
         /\ ToolCallStart(s, t, c).status = s.status
         /\ \/ ToolCallStart(s, t, c).parts = s.parts
            \/ /\ s.turn # NoTurn
               /\ ToolCallStart(s, t, c).parts = Append(s.parts, [call |-> c, st |-> "Streaming"])
         /\ StatusTrue(s) => StatusTrue(ToolCallStart(s, t, c))
<1> DEFINE e == [call |-> c, st |-> "Streaming"]
           r == ToolCallStart(s, t, c)
<1>1. CASE ~IsActive(s, t)
  BY <1>1 DEF ToolCallStart, SameButParts
<1>2. CASE IsActive(s, t)
  <2>1. s.parts \in Seq(Part) /\ e \in Part /\ s.turn # NoTurn
    BY <1>2 DEF SessionType, Part, ToolStatus, IsActive
  <2>2. r = [s EXCEPT !.parts = Append(s.parts, e)]
    BY <1>2 DEF ToolCallStart
  <2>3. e.st = "Streaming"
    OBVIOUS
  <2> HIDE DEF e, r
  <2>4. /\ Append(s.parts, e) \in Seq(Part) /\ Len(Append(s.parts, e)) = Len(s.parts) + 1
        /\ \A i \in 1..Len(s.parts) : Append(s.parts, e)[i] = s.parts[i]
        /\ Append(s.parts, e)[Len(s.parts) + 1] = e
        /\ Len(s.parts) \in Nat
    BY <2>1, AppendProperties, LenProperties
  <2>5. /\ r \in SessionType /\ SameButParts(r, s) /\ r.status = s.status
        /\ r.parts = Append(s.parts, e)
    BY <2>2, <2>4 DEF SessionType, SameButParts
  <2>6. HasPendingConfirmation(r) <=> HasPendingConfirmation(s)
    <3>1. ASSUME NEW i \in 1..Len(r.parts), r.parts[i].st \in AwaitingUser
          PROVE  i \in 1..Len(s.parts) /\ s.parts[i].st \in AwaitingUser
      <4>1. i # Len(s.parts) + 1
        BY <2>3, <2>4, <2>5, <3>1 DEF AwaitingUser
      <4>2. i \in 1..Len(s.parts)
        BY <2>4, <2>5, <4>1
      <4> QED BY <2>4, <2>5, <3>1, <4>2
    <3>2. ASSUME NEW i \in 1..Len(s.parts), s.parts[i].st \in AwaitingUser
          PROVE  i \in 1..Len(r.parts) /\ r.parts[i].st \in AwaitingUser
      BY <2>4, <2>5, <3>2
    <3>3. r.turn = s.turn
      BY <2>5 DEF SameButParts
    <3> QED BY <3>1, <3>2, <3>3 DEF HasPendingConfirmation
  <2>7. StatusTrue(s) => StatusTrue(r)
    BY <2>5, <2>6 DEF StatusTrue, SameButParts
  <2> QED BY <2>1, <2>5, <2>7 DEF r, e
<1> QED BY <1>1, <1>2

-----------------------------------------------------------------------------
(* Turns *)

LEMMA EndTurnKeeps ==
  ASSUME NEW s \in SessionType, NEW t \in Turn \cup {NoTurn}, NEW end \in TurnEnd
  PROVE  LET r == EndTurn(s, t, end) IN
         /\ r \in SessionType
         /\ r.queue = s.queue /\ r.lifecycle = s.lifecycle /\ r.activity = s.activity
         /\ r.turn = IF IsActive(s, t) THEN NoTurn ELSE s.turn
         /\ ~IsActive(s, t) => r = s
         /\ IsActive(s, t) =>
              /\ r.parts = <<>> /\ r.inputs = {}
              /\ Len(r.turns) = Len(s.turns) + 1
              /\ \A i \in 1..Len(s.turns) : r.turns[i] = s.turns[i]
              /\ r.turns[Len(s.turns) + 1].id = t
         /\ StatusTrue(s) => StatusTrue(r)
         /\ Settled(s) => Settled(r)
<1> DEFINE r == EndTurn(s, t, end)
<1>1. CASE ~IsActive(s, t)
  BY <1>1 DEF EndTurn
<1>2. CASE IsActive(s, t)
  <2> DEFINE e(i) == [call |-> s.parts[i].call, st |-> SettleStep[s.parts[i].st]]
             ps == [i \in 1..Len(s.parts) |-> e(i)]
             done == [id |-> t, end |-> end, parts |-> ps]
             u == [s EXCEPT !.turns = Append(s.turns, done),
                            !.turn = NoTurn, !.parts = <<>>, !.inputs = {}]
             st == IF end = "Error" THEN "Error" ELSE SummaryStatus(u)
  <2>1. /\ s.parts \in Seq(Part) /\ s.turns \in Seq(FinishedTurn)
        /\ Len(s.parts) \in Nat /\ Len(s.turns) \in Nat /\ t \in Turn
    BY <1>2, LenProperties DEF SessionType, IsActive
  <2>2. ASSUME NEW i \in 1..Len(s.parts) PROVE e(i) \in Part /\ e(i).st \in Terminal
    <3>1. s.parts[i] \in Part
      BY <2>1, ElementOfSeq
    <3>2. SettleStep \in Step /\ SettleStep[s.parts[i].st] \in Terminal
      BY <3>1, StepsTyped DEF Part
    <3> QED BY <3>1, <3>2 DEF Part, Step
  <2>3. r = [u EXCEPT !.status = st]
    BY <1>2 DEF EndTurn
  <2> HIDE DEF e
  <2>4. /\ ps \in Seq(Part) /\ Len(ps) = Len(s.parts)
        /\ \A i \in 1..Len(ps) : ps[i].st \in Terminal
    <3>1. ps \in Seq(Part)
      BY <2>1, <2>2, IsASeq
    <3>2. Len(ps) = Len(s.parts)
      BY <2>1, <3>1, LenProperties
    <3> QED BY <2>2, <3>1, <3>2
  <2> HIDE DEF ps
  <2>5. done \in FinishedTurn /\ done.id = t /\ done.parts = ps
    BY <2>1, <2>4 DEF FinishedTurn
  <2> HIDE DEF done
  <2>6. /\ Append(s.turns, done) \in Seq(FinishedTurn)
        /\ Len(Append(s.turns, done)) = Len(s.turns) + 1
        /\ \A i \in 1..Len(s.turns) : Append(s.turns, done)[i] = s.turns[i]
        /\ Append(s.turns, done)[Len(s.turns) + 1] = done
    BY <2>1, <2>5, AppendProperties
  <2>7. <<>> \in Seq(Part) /\ Len(<<>>) = 0
    BY EmptySeq
  <2>8. /\ u \in SessionType /\ u.turn = NoTurn /\ u.parts = <<>> /\ u.inputs = {}
        /\ u.turns = Append(s.turns, done) /\ u.queue = s.queue
        /\ u.lifecycle = s.lifecycle /\ u.activity = s.activity
    BY <2>6, <2>7 DEF SessionType
  <2> HIDE DEF u
  <2>9. st \in Status /\ st # "InputNeeded" /\ st # "InProgress"
    <3>1. ~HasPendingConfirmation(u)
      BY <2>8 DEF HasPendingConfirmation
    <3> QED BY <2>8, <3>1 DEF SummaryStatus, Status
  <2> HIDE DEF st
  <2>10. /\ r \in SessionType /\ r.turn = NoTurn /\ r.parts = <<>> /\ r.inputs = {}
         /\ r.turns = Append(s.turns, done) /\ r.queue = s.queue
         /\ r.lifecycle = s.lifecycle /\ r.activity = s.activity /\ r.status = st
    BY <2>3, <2>8, <2>9 DEF SessionType
  <2> HIDE DEF r
  <2>11. StatusTrue(r)
    BY <2>9, <2>10 DEF StatusTrue, HasPendingConfirmation
  <2>12. Settled(s) => Settled(r)
    <3> SUFFICES ASSUME Settled(s), NEW i \in 1..Len(r.turns), NEW j \in 1..Len(r.turns[i].parts)
                 PROVE  r.turns[i].parts[j].st \in Terminal
      BY DEF Settled
    <3>1. i \in 1..(Len(s.turns) + 1)
      BY <2>6, <2>10
    <3>2. CASE i \in 1..Len(s.turns)
      BY <2>6, <2>10, <3>2 DEF Settled
    <3>3. CASE i = Len(s.turns) + 1
      BY <2>4, <2>5, <2>6, <2>10, <3>3
    <3> QED BY <2>1, <3>1, <3>2, <3>3
  <2>13. r.turns[Len(s.turns) + 1].id = t
    BY <2>5, <2>6, <2>10
  <2> QED BY <1>2, <2>6, <2>10, <2>11, <2>12, <2>13 DEF r
<1> QED BY <1>1, <1>2

\* Taking out a message that is there closes one gap.
LEMMA WithoutShape ==
  ASSUME NEW S, NEW q \in Seq(S), NEW m, \E i \in 1..Len(q) : q[i] = m
  PROVE  \E k \in 1..Len(q) :
           /\ q[k] = m /\ Len(q) \in Nat
           /\ Without(q, m) \in Seq(S) /\ Len(Without(q, m)) = Len(q) - 1
           /\ \A i \in 1..(Len(q) - 1) : Without(q, m)[i] = IF i < k THEN q[i] ELSE q[i + 1]
<1> DEFINE k == CHOOSE i \in 1..Len(q) : q[i] = m
           a == SubSeq(q, 1, k - 1)
           b == SubSeq(q, k + 1, Len(q))
<1>1. k \in 1..Len(q) /\ q[k] = m /\ Len(q) \in Nat
  BY LenProperties
<1>2. Without(q, m) = a \o b
  BY DEF Without
<1> HIDE DEF k
<1>3. /\ a \in Seq(S) /\ Len(a) = k - 1
      /\ \A i \in 1..(k - 1) : a[i] = q[i]
  BY <1>1, SubSeqProperties
<1>4. /\ b \in Seq(S) /\ Len(b) = Len(q) - k
      /\ \A i \in 1..(Len(q) - k) : b[i] = q[k + i]
  BY <1>1, SubSeqProperties
<1> HIDE DEF a, b
<1>5. /\ a \o b \in Seq(S) /\ Len(a \o b) = Len(a) + Len(b)
      /\ \A i \in 1..(Len(a) + Len(b)) :
            (a \o b)[i] = IF i <= Len(a) THEN a[i] ELSE b[i - Len(a)]
  BY <1>3, <1>4, ConcatProperties
<1>6. ASSUME NEW i \in 1..(Len(q) - 1)
      PROVE  (a \o b)[i] = IF i < k THEN q[i] ELSE q[i + 1]
  <2>1. (a \o b)[i] = IF i <= k - 1 THEN a[i] ELSE b[i - (k - 1)]
    BY <1>1, <1>3, <1>4, <1>5
  <2>2. CASE i < k
    BY <1>1, <1>3, <2>1, <2>2
  <2>3. CASE ~(i < k)
    <3>1. i - (k - 1) \in 1..(Len(q) - k) /\ k + (i - (k - 1)) = i + 1
      BY <1>1, <2>3
    <3> QED BY <1>1, <1>4, <2>1, <2>3, <3>1
  <2> QED BY <2>2, <2>3
<1>7. Len(a \o b) = Len(q) - 1
  BY <1>1, <1>3, <1>4, <1>5
<1> QED BY <1>1, <1>2, <1>5, <1>6, <1>7

LEMMA WithoutTyped ==
  ASSUME NEW S, NEW q \in Seq(S), NEW m
  PROVE  /\ Without(q, m) \in Seq(S)
         /\ (\A i, j \in 1..Len(q) : i # j => q[i] # q[j]) =>
              \A i, j \in 1..Len(Without(q, m)) :
                 i # j => Without(q, m)[i] # Without(q, m)[j]
         /\ \A i \in 1..Len(Without(q, m)) : \E j \in 1..Len(q) : q[j] = Without(q, m)[i]
         /\ (\A i, j \in 1..Len(q) : i # j => q[i] # q[j]) =>
              \A i \in 1..Len(Without(q, m)) : Without(q, m)[i] # m
<1>1. CASE ~\E i \in 1..Len(q) : q[i] = m
  BY <1>1 DEF Without
<1>2. CASE \E i \in 1..Len(q) : q[i] = m
  <2> DEFINE w == Without(q, m)
  <2>1. PICK k \in 1..Len(q) :
          /\ q[k] = m /\ Len(q) \in Nat /\ w \in Seq(S) /\ Len(w) = Len(q) - 1
          /\ \A i \in 1..(Len(q) - 1) : w[i] = IF i < k THEN q[i] ELSE q[i + 1]
    BY <1>2, WithoutShape
  <2> HIDE DEF w
  <2> DEFINE at(n) == IF n < k THEN n ELSE n + 1
  <2>2. ASSUME NEW i \in 1..Len(w)
        PROVE  at(i) \in 1..Len(q) /\ at(i) # k /\ w[i] = q[at(i)] /\ i \in Nat
    <3>1. i \in 1..(Len(q) - 1) /\ k \in Nat
      BY <2>1
    <3> QED BY <2>1, <3>1
  <2>3. ASSUME NEW i \in 1..Len(w), NEW j \in 1..Len(w), i # j PROVE at(i) # at(j)
    <3>1. i \in Nat /\ j \in Nat /\ k \in Nat
      BY <2>1, <2>2
    <3> QED BY <2>3, <3>1
  <2> HIDE DEF at
  <2>4. ASSUME \A i, j \in 1..Len(q) : i # j => q[i] # q[j]
        PROVE  /\ \A i, j \in 1..Len(w) : i # j => w[i] # w[j]
               /\ \A i \in 1..Len(w) : w[i] # m
    BY <2>1, <2>2, <2>3, <2>4
  <2>5. \A i \in 1..Len(w) : \E j \in 1..Len(q) : q[j] = w[i]
    BY <2>2
  <2> QED BY <2>1, <2>4, <2>5 DEF w
<1> QED BY <1>1, <1>2

\* Taking an element out of a queue leaves it distinct.
LEMMA WithoutKeepsDistinct ==
  ASSUME NEW S, NEW q \in Seq(S), NEW m,
         \A i, j \in 1..Len(q) : i # j => q[i] # q[j]
  PROVE  \A i, j \in 1..Len(Without(q, m)) : i # j => Without(q, m)[i] # Without(q, m)[j]
BY WithoutTyped

\* Only m is taken out.
LEMMA WithoutKeepsOthers ==
  ASSUME NEW S, NEW q \in Seq(S), NEW m, NEW j \in 1..Len(q), q[j] # m
  PROVE  \E i \in 1..Len(Without(q, m)) : Without(q, m)[i] = q[j]
<1>1. CASE ~\E i \in 1..Len(q) : q[i] = m
  BY <1>1 DEF Without
<1>2. CASE \E i \in 1..Len(q) : q[i] = m
  <2> DEFINE w == Without(q, m)
  <2>1. PICK k \in 1..Len(q) :
          /\ q[k] = m /\ Len(q) \in Nat /\ w \in Seq(S) /\ Len(w) = Len(q) - 1
          /\ \A i \in 1..(Len(q) - 1) : w[i] = IF i < k THEN q[i] ELSE q[i + 1]
    BY <1>2, WithoutShape
  <2> HIDE DEF w
  <2>2. j # k /\ j \in Nat /\ k \in Nat
    BY <2>1
  <2>3. CASE j < k
    <3>1. j \in 1..(Len(q) - 1)
      BY <2>1, <2>2, <2>3
    <3> QED BY <2>1, <2>3, <3>1 DEF w
  <2>4. CASE j > k
    <3>1. j - 1 \in 1..(Len(q) - 1) /\ ~(j - 1 < k) /\ (j - 1) + 1 = j
      BY <2>1, <2>2, <2>4
    <3>2. w[j - 1] = q[j]
      BY <2>1, <3>1
    <3> QED BY <2>1, <3>1, <3>2 DEF w
  <2> QED BY <2>2, <2>3, <2>4
<1> QED BY <1>1, <1>2

\* What is left when m is taken out of a queue without repetitions.
LeftOf(w, q, m) ==
  /\ \A i, j \in 1..Len(w) : i # j => w[i] # w[j]
  /\ \A i \in 1..Len(w) : \E j \in 1..Len(q) : q[j] = w[i]
  /\ \A i \in 1..Len(w) : w[i] # m

LEMMA WithoutIsLeft ==
  ASSUME NEW S, NEW q \in Seq(S), NEW m,
         \A i, j \in 1..Len(q) : i # j => q[i] # q[j]
  PROVE  LeftOf(Without(q, m), q, m)
<1>1. \A i, j \in 1..Len(Without(q, m)) : i # j => Without(q, m)[i] # Without(q, m)[j]
  BY WithoutTyped
<1>2. \A i \in 1..Len(Without(q, m)) : \E j \in 1..Len(q) : q[j] = Without(q, m)[i]
  BY WithoutTyped
<1>3. \A i \in 1..Len(Without(q, m)) : Without(q, m)[i] # m
  BY WithoutTyped
<1> QED
  BY <1>1, <1>2, <1>3 DEF LeftOf

\* Starting a turn, whatever message it consumes.
LEMMA TurnStartedKeeps ==
  ASSUME NEW s \in SessionType, NEW t \in Turn, NEW m \in Message \cup {NoMessage}
  PROVE  LET r == TurnStarted(s, t, m) IN
         /\ r \in SessionType /\ r.turn = t /\ r.parts = <<>>
         /\ r.turns = s.turns /\ r.inputs = s.inputs /\ r.lifecycle = s.lifecycle
         /\ r.activity = s.activity
         /\ r.queue = IF m = NoMessage THEN s.queue ELSE Without(s.queue, m)
         /\ StatusTrue(r)
<1> DEFINE u == [s EXCEPT !.turn = t, !.parts = <<>>]
           b == Touched(u)
           r == TurnStarted(s, t, m)
<1>1. <<>> \in Seq(Part)
  BY EmptySeq
<1>2. /\ u \in SessionType /\ u.turn = t /\ u.parts = <<>> /\ u.turns = s.turns
      /\ u.inputs = s.inputs /\ u.lifecycle = s.lifecycle /\ u.queue = s.queue
      /\ u.activity = s.activity
  BY <1>1 DEF SessionType
<1> HIDE DEF u
<1>3. /\ b \in SessionType /\ StatusTrue(b) /\ b.turn = t /\ b.parts = <<>>
      /\ b.turns = s.turns /\ b.inputs = s.inputs /\ b.lifecycle = s.lifecycle
      /\ b.queue = s.queue /\ b.activity = s.activity
  BY <1>2, TouchedTyped
<1> HIDE DEF b
<1>4. CASE m = NoMessage
  BY <1>3, <1>4 DEF TurnStarted, u, b
<1>5. CASE m # NoMessage
  <2>1. r = [b EXCEPT !.steering = IF s.steering = m THEN NoMessage ELSE s.steering,
                      !.queue = Without(s.queue, m)]
    BY <1>5 DEF TurnStarted, u, b
  <2>2. s.queue \in Seq(Message) /\ Without(s.queue, m) \in Seq(Message)
        /\ s.steering \in Message \cup {NoMessage}
    BY WithoutTyped DEF SessionType
  <2>3. /\ r \in SessionType /\ r.turn = t /\ r.parts = <<>> /\ r.turns = s.turns
        /\ r.inputs = s.inputs /\ r.lifecycle = s.lifecycle /\ r.activity = s.activity
        /\ r.queue = Without(s.queue, m) /\ r.status = b.status
    BY <1>3, <2>1, <2>2 DEF SessionType
  <2> HIDE DEF r
  <2>4. StatusTrue(r)
    BY <1>3, <2>3 DEF StatusTrue, HasPendingConfirmation
  <2> QED BY <1>5, <2>3, <2>4 DEF r
<1> QED BY <1>4, <1>5

\* Keeping the first n turns.
LEMMA TruncatedKeeps ==
  ASSUME NEW s \in SessionType, NEW n \in 0..Len(s.turns)
  PROVE  LET r == Truncated(s, n) IN
         /\ r \in SessionType /\ StatusTrue(r)
         /\ r.turn = NoTurn /\ r.parts = <<>> /\ r.inputs = {}
         /\ r.queue = s.queue /\ r.lifecycle = s.lifecycle
         /\ Len(r.turns) = n
         /\ \A i \in 1..n : r.turns[i] = s.turns[i]
<1> DEFINE kept == SubSeq(s.turns, 1, n)
           u == [s EXCEPT !.turns = kept, !.turn = NoTurn, !.parts = <<>>, !.inputs = {}]
<1>1. s.turns \in Seq(FinishedTurn) /\ Len(s.turns) \in Nat /\ n \in Nat /\ n <= Len(s.turns)
  BY LenProperties DEF SessionType
<1>2. \A i \in 1..n : s.turns[i] \in FinishedTurn
  BY <1>1, ElementOfSeq
<1>3. /\ kept \in Seq(FinishedTurn) /\ Len(kept) = n
      /\ \A i \in 1..n : kept[i] = s.turns[i]
  BY <1>1, <1>2, SubSeqProperties
<1>4. <<>> \in Seq(Part)
  BY EmptySeq
<1> HIDE DEF kept
<1>5. /\ u \in SessionType /\ u.turn = NoTurn /\ u.parts = <<>> /\ u.inputs = {}
      /\ u.queue = s.queue /\ u.lifecycle = s.lifecycle /\ u.turns = kept
  BY <1>3, <1>4 DEF SessionType
<1>6. Truncated(s, n) = RefreshStatus(u)
  BY DEF Truncated, kept
<1> HIDE DEF u
<1>7. /\ RefreshStatus(u) \in SessionType /\ StatusTrue(RefreshStatus(u))
      /\ SameButParts(RefreshStatus(u), u) /\ RefreshStatus(u).parts = u.parts
  BY <1>5, RefreshTyped
<1> QED BY <1>3, <1>5, <1>6, <1>7 DEF SameButParts

-----------------------------------------------------------------------------
(* Pending messages, input requests, flags *)

\* r differs from s in its pending messages alone.
SameButPending(r, s) ==
  /\ r.lifecycle = s.lifecycle /\ r.turn = s.turn /\ r.parts = s.parts
  /\ r.turns = s.turns /\ r.inputs = s.inputs /\ r.status = s.status
  /\ r.activity = s.activity

LEMMA PendingMessageSetKeeps ==
  ASSUME NEW s \in SessionType, NEW kind, NEW m \in Message
  PROVE  LET r == PendingMessageSet(s, kind, m) IN
         /\ r \in SessionType /\ SameButPending(r, s)
         /\ r.queue = IF kind = "Steering" \/ Queued(s, m) THEN s.queue ELSE Append(s.queue, m)
<1>1. s.queue \in Seq(Message) /\ Append(s.queue, m) \in Seq(Message)
  BY AppendProperties DEF SessionType
<1> QED BY <1>1 DEF PendingMessageSet, SessionType, SameButPending

LEMMA PendingMessageRemovedKeeps ==
  ASSUME NEW s \in SessionType, NEW kind, NEW m \in Message
  PROVE  LET r == PendingMessageRemoved(s, kind, m) IN
         /\ r \in SessionType /\ SameButPending(r, s)
         /\ r.queue = IF kind = "Steering" THEN s.queue ELSE Without(s.queue, m)
<1>1. s.queue \in Seq(Message) /\ Without(s.queue, m) \in Seq(Message)
  BY WithoutTyped DEF SessionType
<1> QED BY <1>1 DEF PendingMessageRemoved, SessionType, SameButPending

LEMMA ReorderedKeeps ==
  ASSUME NEW s \in SessionType, NEW pi \in [1..Len(s.queue) -> 1..Len(s.queue)]
  PROVE  LET r == QueuedMessagesReordered(s, pi) IN
         /\ r \in SessionType /\ SameButPending(r, s)
         /\ Len(r.queue) = Len(s.queue)
         /\ \A i \in 1..Len(s.queue) : r.queue[i] = s.queue[pi[i]]
<1> DEFINE q == [i \in 1..Len(s.queue) |-> s.queue[pi[i]]]
<1>1. s.queue \in Seq(Message) /\ Len(s.queue) \in Nat
  BY LenProperties DEF SessionType
<1>2. \A i \in 1..Len(s.queue) : s.queue[pi[i]] \in Message
  BY <1>1, ElementOfSeq
<1>3. q \in Seq(Message)
  BY <1>1, <1>2, IsASeq
<1>4. Len(q) = Len(s.queue)
  BY <1>1, <1>3, LenProperties
<1>5. \A i \in 1..Len(s.queue) : q[i] = s.queue[pi[i]]
  OBVIOUS
<1> HIDE DEF q
<1>6. /\ [s EXCEPT !.queue = q] \in SessionType
      /\ SameButPending([s EXCEPT !.queue = q], s)
      /\ [s EXCEPT !.queue = q].queue = q
  BY <1>3 DEF SessionType, SameButPending
<1> QED BY <1>4, <1>5, <1>6 DEF QueuedMessagesReordered, q

\* r differs from s in its input requests, status and read flag.
SameButInputs(r, s) ==
  /\ r.lifecycle = s.lifecycle /\ r.turn = s.turn /\ r.parts = s.parts
  /\ r.turns = s.turns /\ r.queue = s.queue

LEMMA InputRequestedKeeps ==
  ASSUME NEW s \in SessionType, NEW q \in Request
  PROVE  LET r == InputRequested(s, q) IN
         r \in SessionType /\ StatusTrue(r) /\ SameButInputs(r, s)
<1> DEFINE u == [s EXCEPT !.inputs = s.inputs \cup {q}]
<1>1. u \in SessionType /\ SameButInputs(u, s)
  BY DEF SessionType, SameButInputs
<1> HIDE DEF u
<1>2. /\ Touched(u) \in SessionType /\ StatusTrue(Touched(u))
      /\ SameButInputs(Touched(u), u)
  BY <1>1, TouchedTyped DEF SameButInputs
<1> QED BY <1>1, <1>2 DEF InputRequested, SameButInputs, u

LEMMA InputCompletedKeeps ==
  ASSUME NEW s \in SessionType, NEW q
  PROVE  LET r == InputCompleted(s, q) IN
         /\ r \in SessionType /\ SameButInputs(r, s) /\ r.inputs \subseteq s.inputs
         /\ StatusTrue(s) => StatusTrue(r)
<1>1. CASE q \notin s.inputs
  BY <1>1 DEF InputCompleted, SameButInputs
<1>2. CASE q \in s.inputs
  <2> DEFINE u == [s EXCEPT !.inputs = s.inputs \ {q}]
  <2>1. u \in SessionType /\ SameButInputs(u, s) /\ u.inputs \subseteq s.inputs
    BY DEF SessionType, SameButInputs
  <2> HIDE DEF u
  <2>2. /\ RefreshStatus(u) \in SessionType /\ StatusTrue(RefreshStatus(u))
        /\ SameButParts(RefreshStatus(u), u) /\ RefreshStatus(u).parts = u.parts
    BY <2>1, RefreshTyped
  <2> QED BY <1>2, <2>1, <2>2 DEF InputCompleted, SameButInputs, SameButParts, u
<1> QED BY <1>1, <1>2

LEMMA FlagsKeep ==
  ASSUME NEW s \in SessionType, NEW read \in BOOLEAN, NEW label \in Label
  PROVE  /\ IsReadChanged(s, read) \in SessionType
         /\ SameButInputs(IsReadChanged(s, read), s)
         /\ IsReadChanged(s, read).inputs = s.inputs
         /\ StatusTrue(s) => StatusTrue(IsReadChanged(s, read))
         /\ ActivityChanged(s, label) \in SessionType
         /\ SameButInputs(ActivityChanged(s, label), s)
         /\ ActivityChanged(s, label).activity = label
<1>1. /\ IsReadChanged(s, read) \in SessionType
      /\ SameButInputs(IsReadChanged(s, read), s)
      /\ IsReadChanged(s, read).inputs = s.inputs
      /\ IsReadChanged(s, read).status = s.status
  BY DEF IsReadChanged, SessionType, SameButInputs
<1>2. StatusTrue(s) => StatusTrue(IsReadChanged(s, read))
  BY <1>1 DEF StatusTrue, HasPendingConfirmation, SameButInputs
<1>3. /\ ActivityChanged(s, label) \in SessionType
      /\ SameButInputs(ActivityChanged(s, label), s)
      /\ ActivityChanged(s, label).activity = label
  BY DEF ActivityChanged, SessionType, SameButInputs
<1> QED BY <1>1, <1>2, <1>3

LEMMA ReadyKeeps ==
  ASSUME NEW s \in SessionType
  PROVE  LET r == SessionReady(s) IN
         /\ r \in SessionType /\ r.lifecycle = "Ready" /\ r.status = "Idle"
         /\ r.turn = s.turn /\ r.parts = s.parts /\ r.turns = s.turns
         /\ r.queue = s.queue /\ r.inputs = s.inputs
BY DEF SessionReady, SessionType, Status

LEMMA CreatedTyped ==
  /\ CreatedSession \in SessionType /\ StatusTrue(CreatedSession) /\ Settled(CreatedSession)
<1>1. <<>> \in Seq(Part) /\ <<>> \in Seq(FinishedTurn) /\ <<>> \in Seq(Message)
  BY EmptySeq
<1> QED BY <1>1 DEF CreatedSession, SessionType, StatusTrue, Settled,
                    HasPendingConfirmation, Status, Label
=============================================================================
