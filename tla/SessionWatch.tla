----------------------------- MODULE SessionWatch -----------------------------
(***************************************************************************)
(* The life of one session in the host's memory: AgentService with its     *)
(* subscribers, eviction and garbage collection, AgentHostStateManager     *)
(* with the active turn count and the debounced summaries, and the         *)
(* connections of ProtocolServerHandler.                                   *)
(*                                                                         *)
(* A client is one connection: it opens and closes once, and has one       *)
(* subscribe under way at most (ClientSync has several).  Of the turns it  *)
(* matters whether there are any, of the summary its status.               *)
(***************************************************************************)

CONSTANT Client       \* connections to the protocol server

Status == {"Idle", "InProgress", "InputNeeded", "Error"}
Unlisted == "unlisted" \* no summary was announced
Disposer == {"client", "collector"}

VARIABLES
  known, saved,       \* does the provider have the session, with a turn?
  creating,           \* where createSession is
  provisional,        \* did the provider create it as provisional?
  disposing,          \* calls of disposeSession that wait for the provider
  kept,               \* did the provider fail to dispose of it?
  present, turns, active, \* in _sessionStates; with a turn; with an active turn
  running,            \* activeSessions of the root state counts it
  status,             \* of its summary, the last one when it is not in memory
  notified,           \* status in _lastNotifiedSummaries, or Unlisted
  dirty,              \* is it in _dirtySummaries?
  shown,              \* status clients have in their session list, or Unlisted
  conn,               \* the connections: new, open, closed
  held,               \* those whose client.subscriptions has the session
  asking, read,       \* where their subscribe is; did it read a turn?
  watchers,           \* _resourceSubscribers
  armed               \* is its timer in _pendingSessionGc?

providerVars == <<known, saved, creating, provisional, disposing, kept>>
stateVars == <<present, turns, active, running>>
summaryVars == <<status, notified, dirty, shown>>
clientVars == <<conn, held, asking, read>>
serviceVars == <<watchers, armed>>
vars == <<providerVars, stateVars, summaryVars, clientVars, serviceVars>>

Init ==
  /\ known = FALSE /\ saved = FALSE /\ creating = "no" /\ provisional = FALSE
  /\ disposing = {} /\ kept = FALSE
  /\ present = FALSE /\ turns = FALSE /\ active = FALSE /\ running = FALSE
  /\ status = "Idle" /\ notified = Unlisted /\ dirty = FALSE /\ shown = Unlisted
  /\ conn = [c \in Client |-> "new"] /\ held = {}
  /\ asking = [c \in Client |-> "no"] /\ read = [c \in Client |-> FALSE]
  /\ watchers = {} /\ armed = FALSE

-----------------------------------------------------------------------------
(* The state manager *)

\* Mutant of Flushed: the field is sent also when it has no change to send.
FlushedUndefined ==
  IF notified # Unlisted /\ shown # Unlisted
  THEN IF status # notified THEN status ELSE "undefined"
  ELSE shown

\* _flushSummaryNotificationFor: clients that list the session get what differs
\* from the last summary that was sent.
Flushed ==
  IF notified # Unlisted /\ shown # Unlisted /\ status # notified THEN status ELSE shown

\* Mutant of Leaves: the active turn count keeps the session.
LeavesCounted ==
  /\ present' = FALSE /\ turns' = FALSE /\ active' = FALSE
  /\ notified' = Unlisted /\ dirty' = FALSE
  /\ UNCHANGED <<running, status>>

\* The session leaves _sessionStates; the active turn count is told.
Leaves ==
  /\ present' = FALSE /\ turns' = FALSE /\ active' = FALSE /\ running' = FALSE
  /\ notified' = Unlisted /\ dirty' = FALSE
  /\ UNCHANGED status

\* Mutant of RemoveSession: the pending summary is dropped.
RemoveSessionUnflushed ==
  /\ UNCHANGED shown
  /\ IF present THEN Leaves
     ELSE UNCHANGED <<stateVars, status, notified, dirty>>

\* removeSession: a pending summary is flushed first.
RemoveSession ==
  /\ shown' = IF present /\ dirty THEN Flushed ELSE shown
  /\ IF present THEN Leaves
     ELSE UNCHANGED <<stateVars, status, notified, dirty>>

\* deleteSession: the pending summary is dropped; announced sessions only are
\* announced as removed.
DeleteSession ==
  /\ shown' = IF notified # Unlisted THEN Unlisted ELSE shown
  /\ Leaves

\* A reducer made the summary anew, with status w.
Touches(w) ==
  /\ status' = w /\ dirty' = TRUE
  /\ UNCHANGED <<notified, shown>>

\* _flushSummaryNotifications, when the scheduler fires.
Flushes ==
  /\ dirty /\ dirty' = FALSE
  /\ shown' = Flushed
  /\ notified' = IF notified # Unlisted THEN status ELSE Unlisted
  /\ UNCHANGED <<status, stateVars, providerVars, clientVars, serviceVars>>

\* Clients start turns on sessions whose creation was answered.
StartsTurn ==
  /\ present /\ ~active /\ creating = "no"
  /\ active' = TRUE /\ running' = TRUE
  /\ Touches("InProgress")
  /\ UNCHANGED <<present, turns, providerVars, clientVars, serviceVars>>

\* The turn waits for a user, or goes on; the status is derived anew.
WaitsForUser ==
  /\ present /\ active
  /\ \E w \in {"InProgress", "InputNeeded"} \ {status} : Touches(w)
  /\ UNCHANGED <<stateVars, providerVars, clientVars, serviceVars>>

EndsTurn ==
  /\ present /\ active
  /\ active' = FALSE /\ running' = FALSE
  /\ turns' = TRUE /\ saved' = TRUE
  /\ \E w \in {"Idle", "Error"} : Touches(w)
  /\ UNCHANGED <<present, known, creating, provisional, disposing, kept, clientVars, serviceVars>>

\* The first message of a provisional session: markSessionPersisted announces
\* it as it is, session/ready makes it Idle.
Materializes ==
  /\ present /\ (turns \/ active) /\ notified = Unlisted
  /\ notified' = status /\ shown' = status
  /\ status' = "Idle" /\ dirty' = TRUE
  /\ UNCHANGED <<stateVars, providerVars, clientVars, serviceVars>>

-----------------------------------------------------------------------------
(* The agent service *)

\* createSession awaits the provider; a client re-creates empty sessions only.
Creates ==
  /\ creating = "no" /\ ~(saved \/ turns \/ active)
  /\ creating' = "providing"
  /\ UNCHANGED <<known, saved, provisional, disposing, kept, stateVars, summaryVars, clientVars, serviceVars>>

\* The provider has created it: a pending collection is cancelled.
Provides ==
  /\ creating = "providing" /\ creating' = "configuring"
  /\ known' = TRUE /\ armed' = FALSE
  /\ provisional' \in (IF shown = Unlisted THEN BOOLEAN ELSE {FALSE})
  /\ UNCHANGED <<saved, disposing, kept, stateVars, summaryVars, clientVars, watchers>>

\* Its configuration is resolved: an existing state is kept.  Unless the session
\* is provisional, a new one is announced, and session/ready makes it Idle.
Configures ==
  /\ creating = "configuring" /\ creating' = "no"
  /\ present' = TRUE
  /\ status' = IF present /\ provisional THEN status ELSE "Idle"
  /\ dirty' = (dirty \/ ~provisional)
  /\ IF present \/ provisional THEN UNCHANGED <<notified, shown>>
     ELSE notified' = "Idle" /\ shown' = "Idle"
  /\ UNCHANGED <<known, saved, provisional, disposing, kept, turns, active, running, clientVars, serviceVars>>

AsksToDispose ==
  /\ known /\ disposing' = disposing \cup {"client"}
  /\ UNCHANGED <<known, saved, creating, provisional, kept, stateVars, summaryVars, clientVars, serviceVars>>

\* Mutant of TimerFires: only a session that is not in memory is collected.
TimerFiresIfAbsent ==
  /\ armed /\ armed' = FALSE
  /\ disposing' = IF watchers = {} /\ ~present
                  THEN disposing \cup {"collector"} ELSE disposing
  /\ UNCHANGED <<known, saved, creating, provisional, kept, stateVars, summaryVars, clientVars, watchers>>

\* _runSessionGc looks again, and waits for the provider.
TimerFires ==
  /\ armed /\ armed' = FALSE
  /\ disposing' = IF watchers = {} /\ ~(turns \/ active)
                  THEN disposing \cup {"collector"} ELSE disposing
  /\ UNCHANGED <<known, saved, creating, provisional, kept, stateVars, summaryVars, clientVars, watchers>>

\* disposeSession after the provider.
DisposeEnds(d) ==
  /\ d \in disposing /\ disposing' = disposing \ {d}
  /\ known' = FALSE /\ saved' = FALSE
  /\ DeleteSession
  /\ UNCHANGED <<creating, provisional, kept, clientVars, serviceVars>>

DisposeFails(d) ==
  /\ d \in disposing /\ disposing' = disposing \ {d}
  /\ kept' = TRUE
  /\ UNCHANGED <<known, saved, creating, provisional, stateVars, summaryVars, clientVars, serviceVars>>

\* Mutant of Unsubscribe: the others are not counted.
UnsubscribeAsLast(c) ==
  /\ watchers' = watchers \ {c}
  /\ LET last == watchers # {} IN
     /\ armed' = (armed \/ (last /\ present /\ ~turns /\ ~active))
     /\ IF last /\ present /\ turns /\ ~active
        THEN RemoveSession ELSE UNCHANGED <<stateVars, summaryVars>>

\* unsubscribe: the last one to leave an empty session arms the timer, and
\* evicts any other that is idle.
Unsubscribe(c) ==
  /\ watchers' = watchers \ {c}
  /\ LET last == watchers # {} /\ watchers' = {} IN
     /\ armed' = (armed \/ (last /\ present /\ ~turns /\ ~active))
     /\ IF last /\ present /\ turns /\ ~active
        THEN RemoveSession ELSE UNCHANGED <<stateVars, summaryVars>>

\* Mutant of AddSubscriber: the timer goes on.
AddSubscriberUncancelled(c) == watchers' = watchers \cup {c} /\ UNCHANGED armed

\* addSubscriber
AddSubscriber(c) == watchers' = watchers \cup {c} /\ armed' = FALSE

-----------------------------------------------------------------------------
(* The protocol server *)

Connects(c) ==
  /\ conn[c] = "new" /\ conn' = [conn EXCEPT ![c] = "open"]
  /\ UNCHANGED <<held, asking, read, providerVars, stateVars, summaryVars, serviceVars>>

\* The session is on the client's list.  That of a closed connection is never
\* looked at again.
Joined(c) == IF conn[c] = "open" THEN held \cup {c} ELSE held

\* The client is registered at once; a session in memory is answered without
\* an await on anything but the handler itself, another one is restored.
Subscribes(c) ==
  /\ conn[c] = "open" /\ c \notin held /\ asking[c] = "no"
  /\ AddSubscriber(c)
  /\ IF present THEN held' = Joined(c) /\ UNCHANGED asking
     ELSE asking' = [asking EXCEPT ![c] = "reading"] /\ UNCHANGED held
  /\ UNCHANGED <<conn, read, providerVars, stateVars, summaryVars>>

\* restoreSession: metadata and turns are read.
Reads(c) ==
  /\ asking[c] = "reading" /\ known
  /\ asking' = [asking EXCEPT ![c] = "loading"]
  /\ read' = [read EXCEPT ![c] = saved]
  /\ UNCHANGED <<conn, held, providerVars, stateVars, summaryVars, serviceVars>>

\* Mutant of Restores: the state is made again, from an older reading.
RestoresOverwriting(c) ==
  /\ asking[c] = "loading"
  /\ asking' = [asking EXCEPT ![c] = "configuring"]
  /\ present' = TRUE /\ turns' = read[c] /\ status' = "Idle" /\ notified' = "Idle"
  /\ UNCHANGED <<active, running, dirty, shown, conn, held, read, providerVars, serviceVars>>

\* The state is made from what was read, unless another request was first.  Its
\* summary is a new one, that counts as sent: clients are not told.
Restores(c) ==
  /\ asking[c] = "loading"
  /\ asking' = [asking EXCEPT ![c] = "configuring"]
  /\ IF present THEN UNCHANGED <<present, turns, status, notified>>
     ELSE present' = TRUE /\ turns' = read[c] /\ status' = "Idle" /\ notified' = "Idle"
  /\ UNCHANGED <<active, running, dirty, shown, conn, held, read, providerVars, serviceVars>>

\* The configuration is resolved: the snapshot is taken, the handler goes on.
Answers(c) ==
  /\ asking[c] = "configuring" /\ present
  /\ asking' = [asking EXCEPT ![c] = "no"]
  /\ held' = Joined(c)
  /\ UNCHANGED <<conn, read, providerVars, stateVars, summaryVars, serviceVars>>

\* The session was not found, could not be read, or is gone again.
RestoreFails(c) ==
  /\ asking[c] \in {"reading", "loading"} \/ (asking[c] = "configuring" /\ ~present)
  /\ asking' = [asking EXCEPT ![c] = "no"]
  /\ Unsubscribe(c)
  /\ UNCHANGED <<conn, held, read, providerVars>>

Unsubscribes(c) ==
  /\ c \in held /\ held' = held \ {c}
  /\ Unsubscribe(c)
  /\ UNCHANGED <<conn, asking, read, providerVars>>

\* onClose: an implicit unsubscribe of what the client's list holds.
Closes(c) ==
  /\ conn[c] = "open" /\ conn' = [conn EXCEPT ![c] = "closed"]
  /\ held' = held \ {c}
  /\ IF c \in held THEN Unsubscribe(c)
     ELSE UNCHANGED <<serviceVars, stateVars, summaryVars>>
  /\ UNCHANGED <<asking, read, providerVars>>

-----------------------------------------------------------------------------

Serves(c) == Reads(c) \/ Restores(c) \/ Answers(c) \/ RestoreFails(c)

Next ==
  \/ Flushes \/ StartsTurn \/ WaitsForUser \/ EndsTurn \/ Materializes
  \/ Creates \/ Provides \/ Configures
  \/ AsksToDispose \/ TimerFires
  \/ \E d \in Disposer : DisposeEnds(d) \/ DisposeFails(d)
  \/ \E c \in Client : Connects(c) \/ Subscribes(c) \/ Serves(c)
                         \/ Unsubscribes(c) \/ Closes(c)

Spec == Init /\ [][Next]_vars

\* Timers fire, and the provider answers.
FairSpec ==
  /\ Spec
  /\ WF_vars(TimerFires)
  /\ WF_vars(\E d \in Disposer : DisposeEnds(d) \/ DisposeFails(d))

-----------------------------------------------------------------------------
(* Properties *)

\* Every variable has the shape of the field it stands for.
TypeOK ==
  /\ {known, saved, provisional, kept, present, turns, active, running, dirty, armed} \subseteq BOOLEAN
  /\ creating \in {"no", "providing", "configuring"} /\ disposing \subseteq Disposer
  /\ status \in Status /\ {notified, shown} \subseteq Status \cup {Unlisted}
  /\ conn \in [Client -> {"new", "open", "closed"}]
  /\ asking \in [Client -> {"no", "reading", "loading", "configuring"}]
  /\ read \in [Client -> BOOLEAN]
  /\ held \subseteq Client /\ watchers \subseteq Client

\* A session some client was given is in memory until it is disposed of:
\* registering the subscriber before the awaits keeps eviction away, however
\* restores, failures and disconnects of others fall.
WatchedIsInMemory == held # {} /\ known /\ creating # "configuring" => present

\* The timer of an empty session and a subscriber exclude each other, also one
\* whose session is still being restored.
ArmedMeansUnwatched == armed => watchers = {}

\* activeSessions of the root state is the number of running turns, also when
\* the session is evicted or deleted: the server's life depends on it.
ActiveCountIsTrue == running <=> present /\ active

\* A session that ended in an error, was evicted and is restored: it is Idle,
\* and counts as announced so.
RestoredAfterError == shown = "Error" /\ status = "Idle" /\ notified # "Error"

\* A client that lists the session has its last status once the debounce has
\* run, also when the session was evicted within it, and when turns, creations
\* and restores set the status between two flushes: what is sent is what
\* differs from the last summary sent.  The one status that does not come is
\* Idle after the restore of a session that was evicted with an error.
SummaryReachesClients ==
  shown # Unlisted /\ ~dirty => shown = status \/ RestoredAfterError

\* What the provider has saved is shown by a session in memory, also when it
\* was made from a reading that began before the turn: a reader is registered,
\* so the turns of others stay in memory until it finds them there.
SavedIsShown == present /\ saved => turns

\* An empty session that is left alone is disposed of, unless somebody comes
\* back to it or the provider fails.
LeftAlone == present /\ watchers = {} /\ ~turns /\ ~active /\ creating = "no" /\ ~kept
EmptyIsCollected == armed ~> ~LeftAlone

\* protocolServerHandler.ts, onClose: the implicit unsubscribe is there "so the
\* server-side refcount can drop to zero": no closed connection is counted
\* once its requests are done.
ClosedIsReleased ==
  \A c \in Client : conn[c] = "closed" /\ asking[c] = "no" => c \notin watchers

=============================================================================
