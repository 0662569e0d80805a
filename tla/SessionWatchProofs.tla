-------------------------- MODULE SessionWatchProofs --------------------------
(***************************************************************************)
(* Proofs about SessionWatch, for any number of connections.               *)
(***************************************************************************)
EXTENDS SessionWatch, TLAPS

-----------------------------------------------------------------------------
(* The inductive invariant *)

\* The client of a request under way is registered, and not on a list yet.
AskerIsRegistered ==
  \A c \in Client : asking[c] # "no" => c \in watchers /\ c \notin held

\* What a list holds is registered.
HeldIsRegistered == held \subseteq watchers

\* A session that is not in memory has nothing in memory.
AbsentIsBlank == ~present => ~turns /\ ~active /\ ~dirty

\* A listed session in memory was announced: its changes will be sent.
ListedIsAnnounced == present /\ shown # Unlisted => notified # Unlisted

\* What was announced is in memory.
AnnouncedIsPresent == notified # Unlisted => present

\* With nothing pending, what counts as sent is the summary.
SentIsCurrent == notified # Unlisted /\ ~dirty => notified = status

\* What counts as sent was sent, but for the restore of a session that was
\* evicted with an error.
SentIsShown ==
  notified # Unlisted /\ shown # Unlisted =>
    shown = notified \/ (shown = "Error" /\ notified = "Idle")

\* Only a turn keeps a session busy; the status of one that clients list is
\* final when it is evicted.
RestIsFinal ==
  (present \/ shown # Unlisted) /\ ~active => status \in {"Idle", "Error"}

\* While a creation is under way, an unannounced session stays empty.
CreatingIsFresh ==
  creating # "no" /\ present /\ notified = Unlisted => ~turns /\ ~active

\* A session is provisional only if no client lists it.
ProvisionalIsUnlisted == creating = "configuring" /\ provisional => shown = Unlisted

\* Turns are run, and saved, only in sessions whose creation was answered.
CreatingIsUnsaved == creating # "no" => ~saved /\ ~active

\* What was saved while a client was reading is still in memory, or was read.
ReadingIsFresh ==
  \A c \in Client : asking[c] = "loading" /\ saved /\ ~present => read[c]

WatchInv ==
  /\ HeldIsRegistered /\ AskerIsRegistered
  /\ ArmedMeansUnwatched /\ WatchedIsInMemory

CountInv == AbsentIsBlank /\ ActiveCountIsTrue

SummaryInv ==
  /\ ListedIsAnnounced /\ AnnouncedIsPresent /\ SentIsCurrent /\ SentIsShown /\ RestIsFinal
  /\ CreatingIsFresh /\ ProvisionalIsUnlisted /\ SummaryReachesClients

SavedInv == CreatingIsUnsaved /\ ReadingIsFresh /\ SavedIsShown

-----------------------------------------------------------------------------
(* Each part is kept by every step *)

\* Every step keeps the shapes.
LEMMA TypeStep ==
  ASSUME TypeOK, [Next]_vars
  PROVE  TypeOK'
<1> USE DEF TypeOK, Status, Unlisted, Disposer
<1>1. CASE Flushes
  BY <1>1 DEF Flushes, Flushed, providerVars, stateVars, summaryVars, clientVars, serviceVars
<1>2. CASE StartsTurn
  BY <1>2 DEF StartsTurn, Touches, providerVars, stateVars, summaryVars, clientVars, serviceVars
<1>3. CASE EndsTurn
  <2>1. ({known, saved, provisional, kept, present, turns, active, running, dirty, armed} \subseteq BOOLEAN)'
    BY <1>3 DEF EndsTurn, Touches, providerVars, stateVars, summaryVars, clientVars, serviceVars
  <2>2. (creating \in {"no", "providing", "configuring"} /\ disposing \subseteq Disposer)'
    BY <1>3 DEF EndsTurn, Touches, providerVars, stateVars, summaryVars, clientVars, serviceVars
  <2>3. (status \in Status /\ {notified, shown} \subseteq Status \cup {Unlisted})'
    BY <1>3 DEF EndsTurn, Touches, providerVars, stateVars, summaryVars, clientVars, serviceVars
  <2>4. /\ conn' \in [Client -> {"new", "open", "closed"}]
         /\ asking' \in [Client -> {"no", "reading", "loading", "configuring"}]
         /\ read' \in [Client -> BOOLEAN]
         /\ held' \subseteq Client /\ watchers' \subseteq Client
    BY <1>3 DEF EndsTurn, Touches, providerVars, stateVars, summaryVars, clientVars, serviceVars
  <2> QED BY <2>1, <2>2, <2>3, <2>4
<1>4. CASE Materializes
  BY <1>4 DEF Materializes, providerVars, stateVars, summaryVars, clientVars, serviceVars
<1>5. CASE Creates
  BY <1>5 DEF Creates, providerVars, stateVars, summaryVars, clientVars, serviceVars
<1>6. CASE Provides
  BY <1>6 DEF Provides, providerVars, stateVars, summaryVars, clientVars, serviceVars
<1>7. CASE Configures
  <2>1. ({known, saved, provisional, kept, present, turns, active, running, dirty, armed} \subseteq BOOLEAN)'
    BY <1>7 DEF Configures, providerVars, stateVars, summaryVars, clientVars, serviceVars
  <2>2. (creating \in {"no", "providing", "configuring"} /\ disposing \subseteq Disposer)'
    BY <1>7 DEF Configures, providerVars, stateVars, summaryVars, clientVars, serviceVars
  <2>3. (status \in Status /\ {notified, shown} \subseteq Status \cup {Unlisted})'
    BY <1>7 DEF Configures, providerVars, stateVars, summaryVars, clientVars, serviceVars
  <2>4. /\ conn' \in [Client -> {"new", "open", "closed"}]
         /\ asking' \in [Client -> {"no", "reading", "loading", "configuring"}]
         /\ read' \in [Client -> BOOLEAN]
         /\ held' \subseteq Client /\ watchers' \subseteq Client
    BY <1>7 DEF Configures, providerVars, stateVars, summaryVars, clientVars, serviceVars
  <2> QED BY <2>1, <2>2, <2>3, <2>4
<1>8. CASE AsksToDispose
  BY <1>8 DEF AsksToDispose, providerVars, stateVars, summaryVars, clientVars, serviceVars
<1>9. CASE TimerFires
  BY <1>9 DEF TimerFires, providerVars, stateVars, summaryVars, clientVars, serviceVars
<1>10. ASSUME NEW d \in Disposer, DisposeEnds(d) PROVE TypeOK'
  BY <1>10 DEF DisposeEnds, DeleteSession, Leaves, providerVars, stateVars, summaryVars, clientVars, serviceVars
<1>11. ASSUME NEW d \in Disposer, DisposeFails(d) PROVE TypeOK'
  BY <1>11 DEF DisposeFails, providerVars, stateVars, summaryVars, clientVars, serviceVars
<1>12. ASSUME NEW c \in Client, Connects(c) PROVE TypeOK'
  BY <1>12 DEF Connects, providerVars, stateVars, summaryVars, clientVars, serviceVars
<1>13. ASSUME NEW c \in Client, Subscribes(c) PROVE TypeOK'
  BY <1>13 DEF Subscribes, AddSubscriber, Joined, providerVars, stateVars, summaryVars, clientVars, serviceVars
<1>14. ASSUME NEW c \in Client, Reads(c) PROVE TypeOK'
  BY <1>14 DEF Reads, providerVars, stateVars, summaryVars, clientVars, serviceVars
<1>15. ASSUME NEW c \in Client, Restores(c) PROVE TypeOK'
  BY <1>15 DEF Restores, providerVars, stateVars, summaryVars, clientVars, serviceVars
<1>16. ASSUME NEW c \in Client, Answers(c) PROVE TypeOK'
  BY <1>16 DEF Answers, Joined, providerVars, stateVars, summaryVars, clientVars, serviceVars
<1>17. ASSUME NEW c \in Client, RestoreFails(c) PROVE TypeOK'
  <2>1. ({known, saved, provisional, kept, present, turns, active, running, dirty, armed} \subseteq BOOLEAN)'
    BY <1>17 DEF RestoreFails, Unsubscribe, RemoveSession, Leaves, Flushed, providerVars, stateVars, summaryVars, clientVars, serviceVars
  <2>2. (creating \in {"no", "providing", "configuring"} /\ disposing \subseteq Disposer)'
    BY <1>17 DEF RestoreFails, Unsubscribe, RemoveSession, Leaves, Flushed, providerVars, stateVars, summaryVars, clientVars, serviceVars
  <2>3. (status \in Status /\ {notified, shown} \subseteq Status \cup {Unlisted})'
    BY <1>17 DEF RestoreFails, Unsubscribe, RemoveSession, Leaves, Flushed, providerVars, stateVars, summaryVars, clientVars, serviceVars
  <2>4. /\ conn' \in [Client -> {"new", "open", "closed"}]
         /\ asking' \in [Client -> {"no", "reading", "loading", "configuring"}]
         /\ read' \in [Client -> BOOLEAN]
         /\ held' \subseteq Client /\ watchers' \subseteq Client
    BY <1>17 DEF RestoreFails, Unsubscribe, RemoveSession, Leaves, Flushed, providerVars, stateVars, summaryVars, clientVars, serviceVars
  <2> QED BY <2>1, <2>2, <2>3, <2>4
<1>18. ASSUME NEW c \in Client, Unsubscribes(c) PROVE TypeOK'
  <2>1. ({known, saved, provisional, kept, present, turns, active, running, dirty, armed} \subseteq BOOLEAN)'
    BY <1>18 DEF Unsubscribes, Unsubscribe, RemoveSession, Leaves, Flushed, providerVars, stateVars, summaryVars, clientVars, serviceVars
  <2>2. (creating \in {"no", "providing", "configuring"} /\ disposing \subseteq Disposer)'
    BY <1>18 DEF Unsubscribes, Unsubscribe, RemoveSession, Leaves, Flushed, providerVars, stateVars, summaryVars, clientVars, serviceVars
  <2>3. (status \in Status /\ {notified, shown} \subseteq Status \cup {Unlisted})'
    BY <1>18 DEF Unsubscribes, Unsubscribe, RemoveSession, Leaves, Flushed, providerVars, stateVars, summaryVars, clientVars, serviceVars
  <2>4. /\ conn' \in [Client -> {"new", "open", "closed"}]
         /\ asking' \in [Client -> {"no", "reading", "loading", "configuring"}]
         /\ read' \in [Client -> BOOLEAN]
         /\ held' \subseteq Client /\ watchers' \subseteq Client
    BY <1>18 DEF Unsubscribes, Unsubscribe, RemoveSession, Leaves, Flushed, providerVars, stateVars, summaryVars, clientVars, serviceVars
  <2> QED BY <2>1, <2>2, <2>3, <2>4
<1>19. ASSUME NEW c \in Client, Closes(c) PROVE TypeOK'
  <2>1. ({known, saved, provisional, kept, present, turns, active, running, dirty, armed} \subseteq BOOLEAN)'
    BY <1>19 DEF Closes, Unsubscribe, RemoveSession, Leaves, Flushed, providerVars, stateVars, summaryVars, clientVars, serviceVars
  <2>2. (creating \in {"no", "providing", "configuring"} /\ disposing \subseteq Disposer)'
    BY <1>19 DEF Closes, Unsubscribe, RemoveSession, Leaves, Flushed, providerVars, stateVars, summaryVars, clientVars, serviceVars
  <2>3. (status \in Status /\ {notified, shown} \subseteq Status \cup {Unlisted})'
    BY <1>19 DEF Closes, Unsubscribe, RemoveSession, Leaves, Flushed, providerVars, stateVars, summaryVars, clientVars, serviceVars
  <2>4. /\ conn' \in [Client -> {"new", "open", "closed"}]
         /\ asking' \in [Client -> {"no", "reading", "loading", "configuring"}]
         /\ read' \in [Client -> BOOLEAN]
         /\ held' \subseteq Client /\ watchers' \subseteq Client
    BY <1>19 DEF Closes, Unsubscribe, RemoveSession, Leaves, Flushed, providerVars, stateVars, summaryVars, clientVars, serviceVars
  <2> QED BY <2>1, <2>2, <2>3, <2>4
<1>20. CASE WaitsForUser
  BY <1>20 DEF WaitsForUser, Touches, providerVars, stateVars, summaryVars, clientVars, serviceVars
<1>21. CASE UNCHANGED vars
  BY <1>21 DEF vars, providerVars, stateVars, summaryVars, clientVars, serviceVars
<1> QED BY <1>1, <1>2, <1>3, <1>4, <1>5, <1>6, <1>7, <1>8, <1>9, <1>10, <1>11, <1>12, <1>13, <1>14, <1>15, <1>16, <1>17, <1>18, <1>19, <1>20, <1>21 DEF Next, Serves

\* Registration comes before the awaits, and eviction looks at it.
LEMMA WatchStep ==
  ASSUME TypeOK, WatchInv, [Next]_vars
  PROVE  WatchInv'
<1> USE DEF TypeOK, Status, Unlisted, Disposer, WatchInv, HeldIsRegistered, AskerIsRegistered, ArmedMeansUnwatched, WatchedIsInMemory
<1>1. CASE Flushes
  BY <1>1 DEF Flushes, Flushed, providerVars, stateVars, summaryVars, clientVars, serviceVars
<1>2. CASE StartsTurn
  BY <1>2 DEF StartsTurn, Touches, providerVars, stateVars, summaryVars, clientVars, serviceVars
<1>3. CASE EndsTurn
  BY <1>3 DEF EndsTurn, Touches, providerVars, stateVars, summaryVars, clientVars, serviceVars
<1>4. CASE Materializes
  BY <1>4 DEF Materializes, providerVars, stateVars, summaryVars, clientVars, serviceVars
<1>5. CASE Creates
  BY <1>5 DEF Creates, providerVars, stateVars, summaryVars, clientVars, serviceVars
<1>6. CASE Provides
  BY <1>6 DEF Provides, providerVars, stateVars, summaryVars, clientVars, serviceVars
<1>7. CASE Configures
  BY <1>7 DEF Configures, providerVars, stateVars, summaryVars, clientVars, serviceVars
<1>8. CASE AsksToDispose
  BY <1>8 DEF AsksToDispose, providerVars, stateVars, summaryVars, clientVars, serviceVars
<1>9. CASE TimerFires
  BY <1>9 DEF TimerFires, providerVars, stateVars, summaryVars, clientVars, serviceVars
<1>10. ASSUME NEW d \in Disposer, DisposeEnds(d) PROVE WatchInv'
  BY <1>10 DEF DisposeEnds, DeleteSession, Leaves, providerVars, stateVars, summaryVars, clientVars, serviceVars
<1>11. ASSUME NEW d \in Disposer, DisposeFails(d) PROVE WatchInv'
  BY <1>11 DEF DisposeFails, providerVars, stateVars, summaryVars, clientVars, serviceVars
<1>12. ASSUME NEW c \in Client, Connects(c) PROVE WatchInv'
  BY <1>12 DEF Connects, providerVars, stateVars, summaryVars, clientVars, serviceVars
<1>13. ASSUME NEW c \in Client, Subscribes(c) PROVE WatchInv'
  BY <1>13 DEF Subscribes, AddSubscriber, Joined, providerVars, stateVars, summaryVars, clientVars, serviceVars
<1>14. ASSUME NEW c \in Client, Reads(c) PROVE WatchInv'
  BY <1>14 DEF Reads, providerVars, stateVars, summaryVars, clientVars, serviceVars
<1>15. ASSUME NEW c \in Client, Restores(c) PROVE WatchInv'
  BY <1>15 DEF Restores, providerVars, stateVars, summaryVars, clientVars, serviceVars
<1>16. ASSUME NEW c \in Client, Answers(c) PROVE WatchInv'
  BY <1>16 DEF Answers, Joined, providerVars, stateVars, summaryVars, clientVars, serviceVars
<1>17. ASSUME NEW c \in Client, RestoreFails(c) PROVE WatchInv'
  BY <1>17 DEF RestoreFails, Unsubscribe, RemoveSession, Leaves, Flushed, providerVars, stateVars, summaryVars, clientVars, serviceVars
<1>18. ASSUME NEW c \in Client, Unsubscribes(c) PROVE WatchInv'
  BY <1>18 DEF Unsubscribes, Unsubscribe, RemoveSession, Leaves, Flushed, providerVars, stateVars, summaryVars, clientVars, serviceVars
<1>19. ASSUME NEW c \in Client, Closes(c) PROVE WatchInv'
  BY <1>19 DEF Closes, Unsubscribe, RemoveSession, Leaves, Flushed, providerVars, stateVars, summaryVars, clientVars, serviceVars
<1>20. CASE WaitsForUser
  BY <1>20 DEF WaitsForUser, Touches, providerVars, stateVars, summaryVars, clientVars, serviceVars
<1>21. CASE UNCHANGED vars
  BY <1>21 DEF vars, providerVars, stateVars, summaryVars, clientVars, serviceVars
<1> QED BY <1>1, <1>2, <1>3, <1>4, <1>5, <1>6, <1>7, <1>8, <1>9, <1>10, <1>11, <1>12, <1>13, <1>14, <1>15, <1>16, <1>17, <1>18, <1>19, <1>20, <1>21 DEF Next, Serves

\* Turns begin, end and leave with their session: each is counted.
LEMMA CountStep ==
  ASSUME TypeOK, CountInv, [Next]_vars
  PROVE  CountInv'
<1> USE DEF TypeOK, Status, Unlisted, Disposer, CountInv, AbsentIsBlank, ActiveCountIsTrue
<1>1. CASE Flushes
  BY <1>1 DEF Flushes, Flushed, providerVars, stateVars, summaryVars, clientVars, serviceVars
<1>2. CASE StartsTurn
  BY <1>2 DEF StartsTurn, Touches, providerVars, stateVars, summaryVars, clientVars, serviceVars
<1>3. CASE EndsTurn
  BY <1>3 DEF EndsTurn, Touches, providerVars, stateVars, summaryVars, clientVars, serviceVars
<1>4. CASE Materializes
  BY <1>4 DEF Materializes, providerVars, stateVars, summaryVars, clientVars, serviceVars
<1>5. CASE Creates
  BY <1>5 DEF Creates, providerVars, stateVars, summaryVars, clientVars, serviceVars
<1>6. CASE Provides
  BY <1>6 DEF Provides, providerVars, stateVars, summaryVars, clientVars, serviceVars
<1>7. CASE Configures
  BY <1>7 DEF Configures, providerVars, stateVars, summaryVars, clientVars, serviceVars
<1>8. CASE AsksToDispose
  BY <1>8 DEF AsksToDispose, providerVars, stateVars, summaryVars, clientVars, serviceVars
<1>9. CASE TimerFires
  BY <1>9 DEF TimerFires, providerVars, stateVars, summaryVars, clientVars, serviceVars
<1>10. ASSUME NEW d \in Disposer, DisposeEnds(d) PROVE CountInv'
  BY <1>10 DEF DisposeEnds, DeleteSession, Leaves, providerVars, stateVars, summaryVars, clientVars, serviceVars
<1>11. ASSUME NEW d \in Disposer, DisposeFails(d) PROVE CountInv'
  BY <1>11 DEF DisposeFails, providerVars, stateVars, summaryVars, clientVars, serviceVars
<1>12. ASSUME NEW c \in Client, Connects(c) PROVE CountInv'
  BY <1>12 DEF Connects, providerVars, stateVars, summaryVars, clientVars, serviceVars
<1>13. ASSUME NEW c \in Client, Subscribes(c) PROVE CountInv'
  BY <1>13 DEF Subscribes, AddSubscriber, Joined, providerVars, stateVars, summaryVars, clientVars, serviceVars
<1>14. ASSUME NEW c \in Client, Reads(c) PROVE CountInv'
  BY <1>14 DEF Reads, providerVars, stateVars, summaryVars, clientVars, serviceVars
<1>15. ASSUME NEW c \in Client, Restores(c) PROVE CountInv'
  BY <1>15 DEF Restores, providerVars, stateVars, summaryVars, clientVars, serviceVars
<1>16. ASSUME NEW c \in Client, Answers(c) PROVE CountInv'
  BY <1>16 DEF Answers, Joined, providerVars, stateVars, summaryVars, clientVars, serviceVars
<1>17. ASSUME NEW c \in Client, RestoreFails(c) PROVE CountInv'
  BY <1>17 DEF RestoreFails, Unsubscribe, RemoveSession, Leaves, Flushed, providerVars, stateVars, summaryVars, clientVars, serviceVars
<1>18. ASSUME NEW c \in Client, Unsubscribes(c) PROVE CountInv'
  BY <1>18 DEF Unsubscribes, Unsubscribe, RemoveSession, Leaves, Flushed, providerVars, stateVars, summaryVars, clientVars, serviceVars
<1>19. ASSUME NEW c \in Client, Closes(c) PROVE CountInv'
  BY <1>19 DEF Closes, Unsubscribe, RemoveSession, Leaves, Flushed, providerVars, stateVars, summaryVars, clientVars, serviceVars
<1>20. CASE WaitsForUser
  BY <1>20 DEF WaitsForUser, Touches, providerVars, stateVars, summaryVars, clientVars, serviceVars
<1>21. CASE UNCHANGED vars
  BY <1>21 DEF vars, providerVars, stateVars, summaryVars, clientVars, serviceVars
<1> QED BY <1>1, <1>2, <1>3, <1>4, <1>5, <1>6, <1>7, <1>8, <1>9, <1>10, <1>11, <1>12, <1>13, <1>14, <1>15, <1>16, <1>17, <1>18, <1>19, <1>20, <1>21 DEF Next, Serves

\* A change is pending until it was sent, and only announced sessions are listed.
LEMMA SummaryStep ==
  ASSUME TypeOK, CountInv, SummaryInv, [Next]_vars
  PROVE  SummaryInv'
<1> USE DEF TypeOK, Status, Unlisted, Disposer, CountInv, AbsentIsBlank, SummaryInv, ListedIsAnnounced, AnnouncedIsPresent, SentIsCurrent, SentIsShown, RestIsFinal, CreatingIsFresh, ProvisionalIsUnlisted, SummaryReachesClients, RestoredAfterError
<1>1. CASE Flushes
  BY <1>1 DEF Flushes, Flushed, providerVars, stateVars, summaryVars, clientVars, serviceVars
<1>2. CASE StartsTurn
  BY <1>2 DEF StartsTurn, Touches, providerVars, stateVars, summaryVars, clientVars, serviceVars
<1>3. CASE EndsTurn
  BY <1>3 DEF EndsTurn, Touches, providerVars, stateVars, summaryVars, clientVars, serviceVars
<1>4. CASE Materializes
  BY <1>4 DEF Materializes, providerVars, stateVars, summaryVars, clientVars, serviceVars
<1>5. CASE Creates
  BY <1>5 DEF Creates, providerVars, stateVars, summaryVars, clientVars, serviceVars
<1>6. CASE Provides
  BY <1>6 DEF Provides, providerVars, stateVars, summaryVars, clientVars, serviceVars
<1>7. CASE Configures
  BY <1>7 DEF Configures, providerVars, stateVars, summaryVars, clientVars, serviceVars
<1>8. CASE AsksToDispose
  BY <1>8 DEF AsksToDispose, providerVars, stateVars, summaryVars, clientVars, serviceVars
<1>9. CASE TimerFires
  BY <1>9 DEF TimerFires, providerVars, stateVars, summaryVars, clientVars, serviceVars
<1>10. ASSUME NEW d \in Disposer, DisposeEnds(d) PROVE SummaryInv'
  BY <1>10 DEF DisposeEnds, DeleteSession, Leaves, providerVars, stateVars, summaryVars, clientVars, serviceVars
<1>11. ASSUME NEW d \in Disposer, DisposeFails(d) PROVE SummaryInv'
  BY <1>11 DEF DisposeFails, providerVars, stateVars, summaryVars, clientVars, serviceVars
<1>12. ASSUME NEW c \in Client, Connects(c) PROVE SummaryInv'
  BY <1>12 DEF Connects, providerVars, stateVars, summaryVars, clientVars, serviceVars
<1>13. ASSUME NEW c \in Client, Subscribes(c) PROVE SummaryInv'
  BY <1>13 DEF Subscribes, AddSubscriber, Joined, providerVars, stateVars, summaryVars, clientVars, serviceVars
<1>14. ASSUME NEW c \in Client, Reads(c) PROVE SummaryInv'
  BY <1>14 DEF Reads, providerVars, stateVars, summaryVars, clientVars, serviceVars
<1>15. ASSUME NEW c \in Client, Restores(c) PROVE SummaryInv'
  BY <1>15 DEF Restores, providerVars, stateVars, summaryVars, clientVars, serviceVars
<1>16. ASSUME NEW c \in Client, Answers(c) PROVE SummaryInv'
  BY <1>16 DEF Answers, Joined, providerVars, stateVars, summaryVars, clientVars, serviceVars
<1>17. ASSUME NEW c \in Client, RestoreFails(c) PROVE SummaryInv'
  BY <1>17 DEF RestoreFails, Unsubscribe, RemoveSession, Leaves, Flushed, providerVars, stateVars, summaryVars, clientVars, serviceVars
<1>18. ASSUME NEW c \in Client, Unsubscribes(c) PROVE SummaryInv'
  BY <1>18 DEF Unsubscribes, Unsubscribe, RemoveSession, Leaves, Flushed, providerVars, stateVars, summaryVars, clientVars, serviceVars
<1>19. ASSUME NEW c \in Client, Closes(c) PROVE SummaryInv'
  BY <1>19 DEF Closes, Unsubscribe, RemoveSession, Leaves, Flushed, providerVars, stateVars, summaryVars, clientVars, serviceVars
<1>20. CASE WaitsForUser
  BY <1>20 DEF WaitsForUser, Touches, providerVars, stateVars, summaryVars, clientVars, serviceVars
<1>21. CASE UNCHANGED vars
  BY <1>21 DEF vars, providerVars, stateVars, summaryVars, clientVars, serviceVars
<1> QED BY <1>1, <1>2, <1>3, <1>4, <1>5, <1>6, <1>7, <1>8, <1>9, <1>10, <1>11, <1>12, <1>13, <1>14, <1>15, <1>16, <1>17, <1>18, <1>19, <1>20, <1>21 DEF Next, Serves

\* A reader is registered before it reads, and eviction looks at that.
LEMMA SavedStep ==
  ASSUME TypeOK, CountInv, WatchInv, SavedInv, [Next]_vars
  PROVE  SavedInv'
<1> USE DEF TypeOK, Status, Unlisted, Disposer, CountInv, AbsentIsBlank, WatchInv, AskerIsRegistered, SavedInv, CreatingIsUnsaved, ReadingIsFresh, SavedIsShown
<1>1. CASE Flushes
  BY <1>1 DEF Flushes, Flushed, providerVars, stateVars, summaryVars, clientVars, serviceVars
<1>2. CASE StartsTurn
  BY <1>2 DEF StartsTurn, Touches, providerVars, stateVars, summaryVars, clientVars, serviceVars
<1>3. CASE EndsTurn
  BY <1>3 DEF EndsTurn, Touches, providerVars, stateVars, summaryVars, clientVars, serviceVars
<1>4. CASE Materializes
  BY <1>4 DEF Materializes, providerVars, stateVars, summaryVars, clientVars, serviceVars
<1>5. CASE Creates
  BY <1>5 DEF Creates, providerVars, stateVars, summaryVars, clientVars, serviceVars
<1>6. CASE Provides
  BY <1>6 DEF Provides, providerVars, stateVars, summaryVars, clientVars, serviceVars
<1>7. CASE Configures
  BY <1>7 DEF Configures, providerVars, stateVars, summaryVars, clientVars, serviceVars
<1>8. CASE AsksToDispose
  BY <1>8 DEF AsksToDispose, providerVars, stateVars, summaryVars, clientVars, serviceVars
<1>9. CASE TimerFires
  BY <1>9 DEF TimerFires, providerVars, stateVars, summaryVars, clientVars, serviceVars
<1>10. ASSUME NEW d \in Disposer, DisposeEnds(d) PROVE SavedInv'
  BY <1>10 DEF DisposeEnds, DeleteSession, Leaves, providerVars, stateVars, summaryVars, clientVars, serviceVars
<1>11. ASSUME NEW d \in Disposer, DisposeFails(d) PROVE SavedInv'
  BY <1>11 DEF DisposeFails, providerVars, stateVars, summaryVars, clientVars, serviceVars
<1>12. ASSUME NEW c \in Client, Connects(c) PROVE SavedInv'
  BY <1>12 DEF Connects, providerVars, stateVars, summaryVars, clientVars, serviceVars
<1>13. ASSUME NEW c \in Client, Subscribes(c) PROVE SavedInv'
  BY <1>13 DEF Subscribes, AddSubscriber, Joined, providerVars, stateVars, summaryVars, clientVars, serviceVars
<1>14. ASSUME NEW c \in Client, Reads(c) PROVE SavedInv'
  BY <1>14 DEF Reads, providerVars, stateVars, summaryVars, clientVars, serviceVars
<1>15. ASSUME NEW c \in Client, Restores(c) PROVE SavedInv'
  BY <1>15 DEF Restores, providerVars, stateVars, summaryVars, clientVars, serviceVars
<1>16. ASSUME NEW c \in Client, Answers(c) PROVE SavedInv'
  BY <1>16 DEF Answers, Joined, providerVars, stateVars, summaryVars, clientVars, serviceVars
<1>17. ASSUME NEW c \in Client, RestoreFails(c) PROVE SavedInv'
  BY <1>17 DEF RestoreFails, Unsubscribe, RemoveSession, Leaves, Flushed, providerVars, stateVars, summaryVars, clientVars, serviceVars
<1>18. ASSUME NEW c \in Client, Unsubscribes(c) PROVE SavedInv'
  BY <1>18 DEF Unsubscribes, Unsubscribe, RemoveSession, Leaves, Flushed, providerVars, stateVars, summaryVars, clientVars, serviceVars
<1>19. ASSUME NEW c \in Client, Closes(c) PROVE SavedInv'
  BY <1>19 DEF Closes, Unsubscribe, RemoveSession, Leaves, Flushed, providerVars, stateVars, summaryVars, clientVars, serviceVars
<1>20. CASE WaitsForUser
  BY <1>20 DEF WaitsForUser, Touches, providerVars, stateVars, summaryVars, clientVars, serviceVars
<1>21. CASE UNCHANGED vars
  BY <1>21 DEF vars, providerVars, stateVars, summaryVars, clientVars, serviceVars
<1> QED BY <1>1, <1>2, <1>3, <1>4, <1>5, <1>6, <1>7, <1>8, <1>9, <1>10, <1>11, <1>12, <1>13, <1>14, <1>15, <1>16, <1>17, <1>18, <1>19, <1>20, <1>21 DEF Next, Serves

-----------------------------------------------------------------------------
(* Theorems *)

\* TypeOK: the state of host and connections keeps its shape.
THEOREM WatchTyped == Spec => []TypeOK
<1>1. ASSUME Init PROVE TypeOK
  <2>1. conn \in [Client -> {"new", "open", "closed"}]
    BY <1>1 DEF Init
  <2>2. asking \in [Client -> {"no", "reading", "loading", "configuring"}]
    BY <1>1 DEF Init
  <2>3. read \in [Client -> BOOLEAN]
    BY <1>1 DEF Init
  <2> QED BY <1>1, <2>1, <2>2, <2>3 DEF Init, TypeOK, Status, Unlisted, Disposer
<1> QED BY <1>1, TypeStep, PTL DEF Spec

\* The invariant about subscribers.
LEMMA WatchInvariant == Spec => []WatchInv
<1>1. Init => WatchInv
  BY DEF Init, WatchInv, HeldIsRegistered, AskerIsRegistered, ArmedMeansUnwatched, WatchedIsInMemory
<1> QED BY <1>1, WatchStep, WatchTyped, PTL DEF Spec

\* WatchedIsInMemory: what a client was given stays in memory until it is
\* disposed of.
THEOREM WatchedStays == Spec => []WatchedIsInMemory
<1>1. WatchInv => WatchedIsInMemory
  BY DEF WatchInv
<1> QED BY <1>1, WatchInvariant, PTL

\* ArmedMeansUnwatched: no timer runs against a subscriber.
THEOREM TimerExcludesWatchers == Spec => []ArmedMeansUnwatched
<1>1. WatchInv => ArmedMeansUnwatched
  BY DEF WatchInv
<1> QED BY <1>1, WatchInvariant, PTL

\* The invariant about the active turn count.
LEMMA CountInvariant == Spec => []CountInv
<1>1. Init => CountInv
  BY DEF Init, CountInv, AbsentIsBlank, ActiveCountIsTrue
<1> QED BY <1>1, CountStep, WatchTyped, PTL DEF Spec

\* ActiveCountIsTrue: the root state counts exactly the running turns.
THEOREM CountStaysTrue == Spec => []ActiveCountIsTrue
<1>1. CountInv => ActiveCountIsTrue
  BY DEF CountInv
<1> QED BY <1>1, CountInvariant, PTL

\* SummaryReachesClients: with nothing pending, lists show the last status,
\* but for the restore of a session that was evicted with an error.
THEOREM ListsShowSummary == Spec => []SummaryReachesClients
<1>1. Init => SummaryInv
  BY DEF Init, SummaryInv, ListedIsAnnounced, AnnouncedIsPresent, SentIsCurrent, SentIsShown, RestIsFinal, CreatingIsFresh, ProvisionalIsUnlisted, SummaryReachesClients, RestoredAfterError, Unlisted
<1>2. SummaryInv => SummaryReachesClients
  BY DEF SummaryInv
<1> QED BY <1>1, <1>2, SummaryStep, WatchTyped, CountInvariant, PTL DEF Spec

\* SavedIsShown: no session in memory was made from a reading older than the
\* turns that were saved.
THEOREM SavedTurnsShown == Spec => []SavedIsShown
<1>1. Init => SavedInv
  BY DEF Init, SavedInv, CreatingIsUnsaved, ReadingIsFresh, SavedIsShown
<1>2. SavedInv => SavedIsShown
  BY DEF SavedInv
<1> QED BY <1>1, <1>2, SavedStep, WatchTyped, CountInvariant, WatchInvariant, PTL DEF Spec

=============================================================================
