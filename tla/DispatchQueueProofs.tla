------------------------- MODULE DispatchQueueProofs -------------------------
(***************************************************************************)
(* For any number of clients and actions: the chains of AgentService keep  *)
(* the order of every client, and DispatchQueue implements ClientOrder.    *)
(*                                                                         *)
(* OrderPerClient is not inductive: a step that reduces an action needs to *)
(* know that everything already reduced for its client came before, and    *)
(* one that bypasses the chain that a client without an entry has nothing  *)
(* waiting.                                                                *)
(***************************************************************************)
EXTENDS DispatchQueue, SequenceTheorems, TLAPS

Entry == [seq : 1..MaxSeq, kind : {Plain, Rewrite}]

\* The chain of a client holds the actions sent after the last one settled,
\* in their order, without a gap.
ChainIsUnsettled ==
  \A c \in Client :
    /\ Len(chain[c]) = sent[c] - settled[c]
    /\ \A i \in 1..Len(chain[c]) : chain[c][i].seq = settled[c] + i

\* A client with a chain has an entry, so a client without one may bypass.
ChainHasEntry == \A c \in Client : chain[c] # <<>> => c \in entries

\* What is reduced is settled.
LogIsSettled == \A i \in 1..Len(log) : log[i][2] <= settled[log[i][1]]

IInv ==
  /\ TypeOK /\ ChainIsUnsettled /\ ChainHasEntry
  /\ LogIsSettled /\ OrderPerClient

\* The facts about one client the steps rest on.
LEMMA ClientFacts ==
  ASSUME IInv, NEW c \in Client
  PROVE  /\ sent[c] \in 0..MaxSeq /\ settled[c] \in 0..MaxSeq
         /\ chain[c] \in Seq(Entry)
         /\ chain[c] = <<>> => settled[c] = sent[c]
         /\ chain[c] # <<>> => /\ settled[c] < sent[c]
                               /\ Head(chain[c]).seq = settled[c] + 1
                               /\ Tail(chain[c]) \in Seq(Entry)
                               /\ Len(Tail(chain[c])) = Len(chain[c]) - 1
                               /\ \A i \in 1..Len(Tail(chain[c])) :
                                     Tail(chain[c])[i] = chain[c][i + 1]
<1>1. /\ sent[c] \in 0..MaxSeq /\ settled[c] \in 0..MaxSeq
      /\ chain[c] \in Seq(Entry)
  BY DEF IInv, TypeOK, Entry
<1>2. /\ Len(chain[c]) = sent[c] - settled[c]
      /\ \A i \in 1..Len(chain[c]) : chain[c][i].seq = settled[c] + i
  BY DEF IInv, ChainIsUnsettled
<1>3. MaxSeq \in Nat
  BY QueueAssumption
<1>4. ASSUME chain[c] = <<>> PROVE settled[c] = sent[c]
  <2>1. Len(chain[c]) = 0
    BY <1>4
  <2> QED BY <1>1, <1>2, <1>3, <2>1
<1>5. ASSUME chain[c] # <<>>
      PROVE  /\ settled[c] < sent[c]
             /\ Head(chain[c]).seq = settled[c] + 1
             /\ Tail(chain[c]) \in Seq(Entry)
             /\ Len(Tail(chain[c])) = Len(chain[c]) - 1
             /\ \A i \in 1..Len(Tail(chain[c])) : Tail(chain[c])[i] = chain[c][i + 1]
  <2>1. Len(chain[c]) \in Nat /\ Len(chain[c]) > 0
    BY <1>1, <1>5, EmptySeq, LenProperties
  <2>2. /\ Tail(chain[c]) \in Seq(Entry)
        /\ Len(Tail(chain[c])) = Len(chain[c]) - 1
        /\ \A i \in 1..Len(Tail(chain[c])) : Tail(chain[c])[i] = chain[c][i + 1]
        /\ Head(chain[c]) = chain[c][1]
    BY <1>1, <1>5, HeadTailProperties
  <2>3. chain[c][1].seq = settled[c] + 1
    BY <1>2, <2>1
  <2> QED BY <1>1, <1>2, <1>3, <2>1, <2>2, <2>3
<1> QED BY <1>1, <1>4, <1>5

\* What is known of an entry of the log.
LEMMA LogFacts ==
  ASSUME IInv, NEW i \in 1..Len(log)
  PROVE  /\ log[i][1] \in Client /\ log[i][2] \in 1..MaxSeq
         /\ settled[log[i][1]] \in Nat
         /\ log[i][2] <= settled[log[i][1]]
<1>1. log \in Seq(Client \X (1..MaxSeq)) /\ settled \in [Client -> 0..MaxSeq]
  BY DEF IInv, TypeOK
<1>2. log[i] \in Client \X (1..MaxSeq)
  BY <1>1, ElementOfSeq
<1>3. log[i][1] \in Client /\ log[i][2] \in 1..MaxSeq
  BY <1>2
<1>4. settled[log[i][1]] \in 0..MaxSeq
  BY <1>1, <1>3
<1>5. log[i][2] <= settled[log[i][1]]
  BY DEF IInv, LogIsSettled
<1> QED BY <1>3, <1>4, <1>5

\* Reducing the next unsettled action of a client keeps the log in order.
LEMMA DispatchNowKeepsOrder ==
  ASSUME IInv, NEW c \in Client, settled[c] < MaxSeq,
         DispatchNow(c, settled[c] + 1)
  PROVE  /\ log' \in Seq(Client \X (1..MaxSeq))
         /\ settled' \in [Client -> 0..MaxSeq]
         /\ LogIsSettled' /\ OrderPerClient'
<1> DEFINE e == <<c, settled[c] + 1>>
<1>1. /\ log \in Seq(Client \X (1..MaxSeq)) /\ settled \in [Client -> 0..MaxSeq]
      /\ MaxSeq \in Nat
  BY QueueAssumption DEF IInv, TypeOK
<1>2. settled[c] \in Nat /\ settled[c] + 1 \in 1..MaxSeq
  BY <1>1
<1>3. /\ settled' = [settled EXCEPT ![c] = @ + 1]
      /\ log' = Append(log, e)
  BY DEF DispatchNow
<1>4. e \in Client \X (1..MaxSeq) /\ e[1] = c /\ e[2] = settled[c] + 1
  BY <1>2
<1> HIDE DEF e
<1>5. /\ log' \in Seq(Client \X (1..MaxSeq)) /\ Len(log') = Len(log) + 1
      /\ Len(log) \in Nat
      /\ \A i \in 1..Len(log) : log'[i] = log[i]
      /\ log'[Len(log) + 1] = e
  BY <1>1, <1>3, <1>4, AppendProperties, LenProperties
<1>6. settled' \in [Client -> 0..MaxSeq]
  BY <1>1, <1>2, <1>3
<1>7. \A i \in 1..Len(log) :
        /\ log[i][1] \in Client /\ log[i][2] \in 1..MaxSeq
        /\ log[i][2] <= settled[log[i][1]]
  BY LogFacts
<1>8. LogIsSettled'
  <2> SUFFICES ASSUME NEW i \in 1..Len(log') PROVE log'[i][2] <= settled'[log'[i][1]]
    BY DEF LogIsSettled
  <2>1. CASE i \in 1..Len(log)
    <3>1. log'[i] = log[i] /\ settled[log[i][1]] <= settled'[log[i][1]]
      BY <1>1, <1>3, <1>5, <1>7, <2>1
    <3> QED BY <1>1, <1>6, <1>7, <2>1, <3>1
  <2>2. CASE i = Len(log) + 1
    BY <1>1, <1>2, <1>3, <1>4, <1>5, <2>2
  <2> QED BY <1>5, <2>1, <2>2
<1>9. OrderPerClient'
  <2> SUFFICES ASSUME NEW i \in 1..Len(log'), NEW j \in 1..Len(log'),
                      i < j, log'[i][1] = log'[j][1]
               PROVE  log'[i][2] < log'[j][2]
    BY DEF OrderPerClient
  <2>1. i \in 1..Len(log) /\ log'[i] = log[i]
    <3>1. i \in 1..(Len(log) + 1) /\ j \in 1..(Len(log) + 1)
      BY <1>5
    <3>2. i \in 1..Len(log)
      BY <1>5, <3>1
    <3> QED BY <1>5, <3>2
  <2>2. CASE j \in 1..Len(log)
    BY <1>5, <2>1, <2>2 DEF IInv, OrderPerClient
  <2>3. CASE j = Len(log) + 1
    <3>1. log[i][1] = c /\ log[i][2] <= settled[c] /\ log[i][2] \in 1..MaxSeq
      BY <1>4, <1>5, <1>7, <2>1, <2>3
    <3> QED BY <1>2, <1>4, <1>5, <2>1, <2>3, <3>1
  <2> QED BY <1>5, <2>2, <2>3
<1> QED BY <1>5, <1>6, <1>8, <1>9

LEMMA InitEstablishes == Init => IInv
<1> SUFFICES ASSUME Init PROVE IInv
  OBVIOUS
<1>1. TypeOK
  BY QueueAssumption, EmptySeq DEF Init, TypeOK
<1>2. ChainIsUnsettled /\ ChainHasEntry /\ LogIsSettled /\ OrderPerClient
  BY DEF Init, ChainIsUnsettled, ChainHasEntry, LogIsSettled, OrderPerClient
<1> QED BY <1>1, <1>2 DEF IInv

\* An action reduced past an idle chain.
LEMMA BypassKeeps ==
  ASSUME IInv, NEW c \in Client, NEW kind \in {Plain, Rewrite},
         Dispatch(c, kind), Bypasses(c, kind)
  PROVE  IInv'
<1>1. /\ chain[c] = <<>> /\ settled[c] = sent[c] /\ sent[c] < MaxSeq
      /\ sent[c] \in 0..MaxSeq /\ MaxSeq \in Nat
  BY ClientFacts, QueueAssumption DEF IInv, ChainHasEntry, Bypasses, Dispatch
<1>2. /\ sent' = [sent EXCEPT ![c] = @ + 1]
      /\ DispatchNow(c, settled[c] + 1)
      /\ UNCHANGED <<entries, chain, rewriting>>
  BY <1>1 DEF Dispatch
<1>3. /\ log' \in Seq(Client \X (1..MaxSeq)) /\ settled' \in [Client -> 0..MaxSeq]
      /\ LogIsSettled' /\ OrderPerClient'
  BY <1>1, <1>2, DispatchNowKeepsOrder
<1>4. TypeOK'
  <2>1. sent' \in [Client -> 0..MaxSeq]
    <3>1. sent \in [Client -> 0..MaxSeq] /\ sent[c] + 1 \in 0..MaxSeq
      BY <1>1 DEF IInv, TypeOK
    <3> QED BY <1>2, <3>1
  <2> QED BY <1>2, <1>3, <2>1 DEF IInv, TypeOK
<1>5. ChainIsUnsettled'
  <2> SUFFICES ASSUME NEW d \in Client
               PROVE  /\ Len(chain[d]) = sent'[d] - settled'[d]
                      /\ \A i \in 1..Len(chain[d]) : chain[d][i].seq = settled'[d] + i
    BY <1>2 DEF ChainIsUnsettled
  <2>1. CASE d = c
    BY <1>1, <1>2, <2>1 DEF IInv, TypeOK, DispatchNow
  <2>2. CASE d # c
    BY <1>2, <2>2 DEF IInv, TypeOK, DispatchNow, ChainIsUnsettled
  <2> QED BY <2>1, <2>2
<1>6. ChainHasEntry'
  BY <1>2 DEF IInv, ChainHasEntry
<1> QED BY <1>3, <1>4, <1>5, <1>6 DEF IInv

\* An action put at the end of the chain.
LEMMA EnqueueKeeps ==
  ASSUME IInv, NEW c \in Client, NEW kind \in {Plain, Rewrite},
         Dispatch(c, kind), ~Bypasses(c, kind)
  PROVE  IInv'
<1> DEFINE e == [seq |-> sent[c] + 1, kind |-> kind]
<1>1. /\ sent[c] < MaxSeq /\ sent[c] \in 0..MaxSeq /\ MaxSeq \in Nat
      /\ settled[c] \in 0..MaxSeq
      /\ chain \in [Client -> Seq(Entry)]
      /\ Len(chain[c]) = sent[c] - settled[c]
  BY QueueAssumption DEF IInv, TypeOK, Entry, Dispatch, ChainIsUnsettled
<1>2. /\ sent' = [sent EXCEPT ![c] = @ + 1]
      /\ chain' = [chain EXCEPT ![c] = Append(@, e)]
      /\ entries' = entries \cup {c}
      /\ UNCHANGED <<settled, log, rewriting>>
  BY DEF Dispatch
<1>3. e \in Entry /\ e.seq = sent[c] + 1
  BY <1>1 DEF Entry
<1> HIDE DEF e
<1>4. /\ Append(chain[c], e) \in Seq(Entry)
      /\ Len(Append(chain[c], e)) = Len(chain[c]) + 1
      /\ \A i \in 1..Len(chain[c]) : Append(chain[c], e)[i] = chain[c][i]
      /\ Append(chain[c], e)[Len(chain[c]) + 1] = e
  BY <1>1, <1>3, AppendProperties
<1>5. chain' \in [Client -> Seq(Entry)] /\ sent' \in [Client -> 0..MaxSeq]
  BY <1>1, <1>2, <1>4 DEF IInv, TypeOK
<1>6. TypeOK'
  BY <1>2, <1>5 DEF IInv, TypeOK, Entry
<1>7. ChainIsUnsettled'
  <2> SUFFICES ASSUME NEW d \in Client
               PROVE  /\ Len(chain'[d]) = sent'[d] - settled[d]
                      /\ \A i \in 1..Len(chain'[d]) : chain'[d][i].seq = settled[d] + i
    BY <1>2 DEF ChainIsUnsettled
  <2>1. CASE d = c
    <3>1. chain'[d] = Append(chain[c], e) /\ sent'[d] = sent[c] + 1
      BY <1>1, <1>2, <2>1 DEF IInv, TypeOK
    <3>2. Len(chain'[d]) = sent'[d] - settled[d]
      BY <1>1, <1>4, <2>1, <3>1
    <3>3. ASSUME NEW i \in 1..Len(chain'[d]) PROVE chain'[d][i].seq = settled[d] + i
      <4>1. i \in 1..(Len(chain[c]) + 1)
        BY <1>4, <3>1
      <4>2. CASE i \in 1..Len(chain[c])
        BY <1>4, <2>1, <3>1, <4>2 DEF IInv, ChainIsUnsettled
      <4>3. CASE i = Len(chain[c]) + 1
        BY <1>1, <1>3, <1>4, <2>1, <3>1, <4>3
      <4> QED BY <1>1, <4>1, <4>2, <4>3
    <3> QED BY <3>2, <3>3
  <2>2. CASE d # c
    BY <1>2, <2>2 DEF IInv, TypeOK, ChainIsUnsettled
  <2> QED BY <2>1, <2>2
<1>8. ChainHasEntry'
  <2> SUFFICES ASSUME NEW d \in Client, chain'[d] # <<>> PROVE d \in entries'
    BY DEF ChainHasEntry
  <2> QED BY <1>1, <1>2 DEF IInv, ChainHasEntry
<1>9. LogIsSettled' /\ OrderPerClient'
  BY <1>2 DEF IInv, LogIsSettled, OrderPerClient
<1> QED BY <1>6, <1>7, <1>8, <1>9 DEF IInv

\* The oldest action leaves the chain; settled counts it.
LEMMA ProceedsKeeps ==
  ASSUME IInv, NEW c \in Client, Proceeds(c),
         settled' = [settled EXCEPT ![c] = @ + 1]
  PROVE  /\ sent' \in [Client -> 0..MaxSeq] /\ settled' \in [Client -> 0..MaxSeq]
         /\ entries' \subseteq Client /\ rewriting' \subseteq Client
         /\ chain' \in [Client -> Seq(Entry)]
         /\ ChainIsUnsettled' /\ ChainHasEntry'
<1>1. /\ settled[c] < sent[c] /\ sent[c] \in 0..MaxSeq /\ settled[c] \in 0..MaxSeq
      /\ MaxSeq \in Nat /\ Tail(chain[c]) \in Seq(Entry)
      /\ Len(chain[c]) = sent[c] - settled[c]
      /\ Len(Tail(chain[c])) = Len(chain[c]) - 1
      /\ \A i \in 1..Len(Tail(chain[c])) : Tail(chain[c])[i] = chain[c][i + 1]
      /\ chain[c] # <<>>
  BY ClientFacts, QueueAssumption DEF Proceeds, IInv, ChainIsUnsettled
<1>2. /\ chain' = [chain EXCEPT ![c] = Tail(@)] /\ rewriting' = rewriting \ {c}
      /\ UNCHANGED <<sent, entries>>
  BY DEF Proceeds
<1>3. /\ sent' \in [Client -> 0..MaxSeq] /\ settled' \in [Client -> 0..MaxSeq]
      /\ entries' \subseteq Client /\ rewriting' \subseteq Client
      /\ chain' \in [Client -> Seq(Entry)]
  <2>1. /\ sent \in [Client -> 0..MaxSeq] /\ settled \in [Client -> 0..MaxSeq]
        /\ chain \in [Client -> Seq(Entry)]
        /\ entries \subseteq Client /\ rewriting \subseteq Client
    BY DEF IInv, TypeOK, Entry
  <2>2. settled[c] + 1 \in 0..MaxSeq
    BY <1>1
  <2> QED BY <1>1, <1>2, <2>1, <2>2
<1>4. ChainIsUnsettled'
  <2> SUFFICES ASSUME NEW d \in Client
               PROVE  /\ Len(chain'[d]) = sent[d] - settled'[d]
                      /\ \A i \in 1..Len(chain'[d]) : chain'[d][i].seq = settled'[d] + i
    BY <1>2 DEF ChainIsUnsettled
  <2>1. CASE d = c
    <3>1. chain'[d] = Tail(chain[c]) /\ settled'[d] = settled[c] + 1
      BY <1>2, <2>1 DEF IInv, TypeOK
    <3>2. Len(chain'[d]) = sent[d] - settled'[d]
      BY <1>1, <2>1, <3>1
    <3>3. ASSUME NEW i \in 1..Len(chain'[d]) PROVE chain'[d][i].seq = settled'[d] + i
      <4>1. chain'[d][i] = chain[c][i + 1] /\ i + 1 \in 1..Len(chain[c])
        BY <1>1, <3>1
      <4>2. chain[c][i + 1].seq = settled[c] + (i + 1)
        BY <4>1 DEF IInv, ChainIsUnsettled
      <4>3. i \in Int
        OBVIOUS
      <4>4. settled[c] \in Int
        BY <1>1
      <4>5. settled[c] + (i + 1) = (settled[c] + 1) + i
        BY <4>3, <4>4
      <4> QED BY <3>1, <4>1, <4>2, <4>5
    <3> QED BY <3>2, <3>3
  <2>2. CASE d # c
    BY <1>2, <2>2 DEF IInv, TypeOK, ChainIsUnsettled
  <2> QED BY <2>1, <2>2
<1>5. ChainHasEntry'
  BY <1>1, <1>2 DEF IInv, TypeOK, ChainHasEntry
<1> QED BY <1>3, <1>4, <1>5

LEMMA CompletesKeeps ==
  ASSUME IInv, NEW c \in Client, Completes(c) PROVE IInv'
<1>1. Proceeds(c) /\ DispatchNow(c, settled[c] + 1) /\ settled[c] < MaxSeq
  BY ClientFacts, QueueAssumption DEF Completes, Proceeds
<1>2. /\ log' \in Seq(Client \X (1..MaxSeq))
      /\ LogIsSettled' /\ OrderPerClient'
  BY <1>1, DispatchNowKeepsOrder
<1>3. settled' = [settled EXCEPT ![c] = @ + 1]
  BY <1>1 DEF DispatchNow
<1> QED BY <1>1, <1>2, <1>3, ProceedsKeeps DEF IInv, TypeOK, Entry

LEMMA DropsKeeps ==
  ASSUME IInv, NEW c \in Client, Drops(c) PROVE IInv'
<1>1. Proceeds(c) /\ settled' = [settled EXCEPT ![c] = @ + 1] /\ log' = log
  BY DEF Drops
<1>2. LogIsSettled'
  <2> SUFFICES ASSUME NEW i \in 1..Len(log) PROVE log[i][2] <= settled'[log[i][1]]
    BY <1>1 DEF LogIsSettled
  <2>1. /\ log[i][1] \in Client /\ log[i][2] \in 1..MaxSeq
        /\ settled[log[i][1]] \in Nat /\ log[i][2] <= settled[log[i][1]]
    BY LogFacts
  <2>2. settled \in [Client -> 0..MaxSeq]
    BY DEF IInv, TypeOK
  <2>3. settled[log[i][1]] <= settled'[log[i][1]] /\ settled'[log[i][1]] \in Nat
    BY <1>1, <2>1, <2>2
  <2> QED BY <2>1, <2>3
<1>3. OrderPerClient'
  BY <1>1 DEF IInv, OrderPerClient
<1> QED BY <1>1, <1>2, <1>3, ProceedsKeeps DEF IInv, TypeOK, Entry

LEMMA StepKeeps == IInv /\ [Next]_vars => IInv'
<1> SUFFICES ASSUME IInv, [Next]_vars PROVE IInv'
  OBVIOUS
<1>1. ASSUME NEW c \in Client, NEW kind \in {Plain, Rewrite}, Dispatch(c, kind)
      PROVE  IInv'
  BY <1>1, BypassKeeps, EnqueueKeeps
<1>2. ASSUME NEW c \in Client, StartsRewrite(c) PROVE IInv'
  BY <1>2 DEF StartsRewrite, IInv, TypeOK, ChainIsUnsettled, ChainHasEntry,
              LogIsSettled, OrderPerClient
<1>3. ASSUME NEW c \in Client, Completes(c) PROVE IInv'
  BY <1>3, CompletesKeeps
<1>4. ASSUME NEW c \in Client, Drops(c) PROVE IInv'
  BY <1>4, DropsKeeps
<1>5. CASE UNCHANGED vars
  BY <1>5 DEF vars, IInv, TypeOK, ChainIsUnsettled, ChainHasEntry,
              LogIsSettled, OrderPerClient
<1> QED BY <1>1, <1>2, <1>3, <1>4, <1>5 DEF Next, Queue

LEMMA Inductive == Spec => []IInv
<1> QED BY InitEstablishes, StepKeeps, PTL DEF Spec

\* Every variable of AgentService's queues keeps its shape.
THEOREM QueuesTyped == Spec => []TypeOK
<1>1. IInv => TypeOK
  BY DEF IInv
<1> QED BY <1>1, Inductive, PTL

\* The chain of a client is exactly what it sent and is not settled yet.
THEOREM ChainsHoldUnsettled == Spec => []ChainIsUnsettled
<1>1. IInv => ChainIsUnsettled
  BY DEF IInv
<1> QED BY <1>1, Inductive, PTL

\* dispatchAction reduces the actions of every client in the order it sent
\* them, for any number of clients and actions.
THEOREM ClientsKeepOrder == Spec => []OrderPerClient
<1>1. IInv => OrderPerClient
  BY DEF IInv
<1> QED BY <1>1, Inductive, PTL

\* Every step of the promise chains is a step of ClientOrder, or none.
LEMMA StepImplements == IInv /\ [Next]_vars => [Promise!Next]_(Promise!vars)
<1> SUFFICES ASSUME IInv, [Next]_vars PROVE [Promise!Next]_(Promise!vars)
  OBVIOUS
<1>1. ASSUME NEW c \in Client, NEW kind \in {Plain, Rewrite}, Dispatch(c, kind)
      PROVE  Promise!Next
  <2>1. CASE Bypasses(c, kind)
    <3>1. chain[c] = <<>> /\ settled[c] = sent[c]
      BY <2>1, ClientFacts DEF IInv, ChainHasEntry, Bypasses
    <3> QED BY <1>1, <2>1, <3>1
            DEF Dispatch, DispatchNow, Promise!Next, Promise!Sends, Promise!Reduces
  <2>2. CASE ~Bypasses(c, kind)
    BY <1>1, <2>2 DEF Dispatch, Promise!Next, Promise!Sends
  <2> QED BY <2>1, <2>2
<1>2. ASSUME NEW c \in Client, StartsRewrite(c) PROVE UNCHANGED Promise!vars
  BY <1>2 DEF StartsRewrite, Promise!vars
<1>3. ASSUME NEW c \in Client, Completes(c) PROVE Promise!Next
  <2>1. settled[c] < sent[c] /\ Head(chain[c]).seq = settled[c] + 1
    BY <1>3, ClientFacts DEF Completes, Proceeds
  <2> QED BY <1>3, <2>1 DEF Completes, Proceeds, DispatchNow,
             Promise!Next, Promise!Advances, Promise!Reduces
<1>4. ASSUME NEW c \in Client, Drops(c) PROVE Promise!Next
  <2>1. settled[c] < sent[c]
    BY <1>4, ClientFacts DEF Drops, Proceeds
  <2> QED BY <1>4, <2>1 DEF Drops, Proceeds, Promise!Next, Promise!Advances, Promise!Skips
<1>5. CASE UNCHANGED vars
  BY <1>5 DEF vars, Promise!vars
<1> QED BY <1>1, <1>2, <1>3, <1>4, <1>5 DEF Next, Queue

\* AgentService's promise chains implement the order promised to clients: what
\* waits for a rewrite, what bypasses and what fails is settled in turn.
THEOREM ImplementsClientOrder == Spec => Promise!Spec
<1>1. Init => Promise!Init
  BY DEF Init, Promise!Init
<1> QED BY <1>1, Inductive, StepImplements, PTL DEF Spec, Promise!Spec
=============================================================================
