------------------------------ MODULE Watcher ------------------------------
(***************************************************************************)
(* The life of a polling watcher and of the session it polls for            *)
(* (PollingWorkspaceWatcher in pyinc_tools/_workspace.py, the closing half  *)
(* of WorkspaceSession in session.py).  Threads of the application start,   *)
(* stop, poll, use and close; every start() makes a new polling thread,     *)
(* whose callback may itself use, stop or close.                            *)
(*                                                                         *)
(* Two locks: the watcher's lifecycle lock and the session's lock, taken in *)
(* that order.  What a poll finds and what a refresh writes is the module   *)
(* LanguageServer's; here a refresh is a use of the mirror directory.       *)
(***************************************************************************)
EXTENDS Integers, FiniteSets

CONSTANTS
  Callers,       \* threads of the application
  MaxStarts,     \* bound on the polling threads started
  MaxCalls,      \* bound on the calls of each application thread
  Nobody

Workers == 1 .. MaxStarts
Threads == Callers \cup Workers

ASSUME WatcherAssumption ==
  /\ MaxStarts \in Nat /\ MaxCalls \in Nat
  /\ Callers \cap Workers = {} /\ 0 \notin Callers /\ Nobody \notin Threads

VARIABLES
  lifecycle,     \* who holds the watcher's lifecycle lock
  session,       \* who holds the session's lock
  pc,            \* where each thread is
  thread,        \* the watcher's _thread: a worker, 0 for None
  event,         \* which stop event is the watcher's _stop_event
  stopSet,       \* the stop events that are set
  registered,    \* is the watcher in the session's _watchers?
  closed,        \* the session's _closed
  complete,      \* the session's _close_complete
  mirror,        \* does the mirror directory exist?
  started,       \* how many polling threads were made
  calls,         \* how many calls each application thread made
  joining,       \* the thread each stop() found to join, 0 for none
  gaveUp,        \* history: workers that a join gave up on
  owed           \* history: for a stop or close in progress, the newest
                 \* worker that existed or was being started at its call

vars == <<lifecycle, session, pc, thread, event, stopSet, registered, closed,
          complete, mirror, started, calls, joining, gaveUp, owed>>

ghosts == <<gaveUp, owed>>
closing == <<closed, complete, mirror>>
watching == <<thread, event, stopSet, registered, started>>

Stopping == {"stop.lock", "stop.join"}
Closing == {"close.lock", "close.decide", "close.request", "close.stop", "close.join",
            "close.cleanup", "close.wait"}

\* A polling thread is "unborn" before start() and "dead" when _run returned.
Init ==
  /\ lifecycle = Nobody /\ session = Nobody
  /\ pc = [t \in Threads |-> IF t \in Callers THEN "idle" ELSE "unborn"]
  /\ thread = 0 /\ event = 0 /\ stopSet = {} /\ registered = FALSE
  /\ closed = FALSE /\ complete = FALSE /\ mirror = TRUE
  /\ started = 0 /\ calls = [c \in Callers |-> 0] /\ gaveUp = {}
  /\ joining = [t \in Threads |-> 0] /\ owed = [t \in Threads |-> 0]

Goto(t, label) == pc' = [pc EXCEPT ![t] = label]
\* Where a thread goes on when its call returns: an application thread is
\* free, a polling thread is back from its callback.
Return(t) == Goto(t, IF t \in Callers THEN "idle" ELSE "wait")
Alive(w) == w # 0 /\ pc[w] \notin {"unborn", "dead"}
\* The newest polling thread that exists or whose start() has begun.
Newest == started + Cardinality({t \in Threads : pc[t] \in {"start.register", "start.event"}})

Entry(op) == IF op = "use" THEN "use.lock" ELSE IF op = "start" THEN "start.lock"
             ELSE IF op = "poll" THEN "poll.lock" ELSE IF op = "stop" THEN "stop.lock"
             ELSE "close.lock"

\* An application thread makes a call.
Call(c) ==
  /\ pc[c] = "idle" /\ calls[c] < MaxCalls
  /\ calls' = [calls EXCEPT ![c] = @ + 1]
  /\ \E op \in {"start", "stop", "poll", "use", "close"} :
       /\ op = "start" => started < MaxStarts
       /\ Goto(c, Entry(op))
       /\ owed' = [owed EXCEPT ![c] = Newest]
  /\ UNCHANGED <<lifecycle, session, watching, closing, joining, gaveUp>>

\* start: refused while the previous thread lives.
StartLock(c) ==
  /\ pc[c] = "start.lock" /\ lifecycle = Nobody
  /\ IF Alive(thread) \/ started = MaxStarts
     THEN Return(c) /\ UNCHANGED lifecycle
     ELSE Goto(c, "start.register") /\ lifecycle' = c
  /\ UNCHANGED <<session, watching, closing, calls, joining, ghosts>>

\* _register_watcher: a closed session refuses.
StartRegister(c) ==
  /\ pc[c] = "start.register" /\ session = Nobody
  /\ IF closed
     THEN Return(c) /\ lifecycle' = Nobody /\ UNCHANGED registered
     ELSE Goto(c, "start.event") /\ registered' = TRUE /\ UNCHANGED lifecycle
  /\ UNCHANGED <<session, thread, event, stopSet, started, closing, calls, joining, ghosts>>

\* The new stop event and the new thread replace the old ones.
StartEvent(c) ==
  /\ pc[c] = "start.event"
  /\ Goto(c, "start.run")
  /\ started' = started + 1 /\ event' = started + 1 /\ thread' = started + 1
  /\ UNCHANGED <<lifecycle, session, stopSet, registered, closing, calls, joining, ghosts>>

StartRun(c) ==
  /\ pc[c] = "start.run"
  /\ pc' = [pc EXCEPT ![c] = "idle", ![thread] = "loop"]
  /\ lifecycle' = Nobody
  /\ UNCHANGED <<session, watching, closing, calls, joining, ghosts>>

\* thread.start() raised: the start is undone.
StartFails(c) ==
  /\ pc[c] = "start.run" /\ session = Nobody
  /\ pc' = [pc EXCEPT ![c] = "idle", ![thread] = "dead"]
  /\ thread' = 0 /\ registered' = FALSE /\ lifecycle' = Nobody
  /\ UNCHANGED <<session, event, stopSet, started, closing, calls, joining, ghosts>>

Start(c) ==
  \/ StartLock(c)
  \/ StartRegister(c)
  \/ StartEvent(c)
  \/ StartRun(c)
  \/ StartFails(c)

RequestStopMutant(t) == stopSet' = stopSet \cup {event}
\* _request_stop sets the event that is the watcher's now.
RequestStop(t) ==
  /\ lifecycle = Nobody
  /\ stopSet' = stopSet \cup {event}

\* stop: nothing to join without a thread, and a thread does not join itself.
StopLock(t, here, join, after) ==
  /\ pc[t] = here /\ RequestStop(t)
  /\ IF thread \in {0, t}
     THEN after /\ UNCHANGED joining
     ELSE Goto(t, join) /\ joining' = [joining EXCEPT ![t] = thread]
  /\ UNCHANGED <<lifecycle, session, thread, event, registered, started, closing, calls, gaveUp, owed>>

\* The join ends with the thread that was found.
StopJoin(t, here, after) ==
  /\ pc[t] = here /\ ~Alive(joining[t])
  /\ joining' = [joining EXCEPT ![t] = 0]
  /\ after
  /\ UNCHANGED <<lifecycle, session, watching, closing, calls, ghosts>>

\* Or it gives up after its timeout, and the thread runs on.
StopGivesUp(t) ==
  /\ Alive(joining[t])
  /\ gaveUp' = gaveUp \cup {joining[t]}
  /\ joining' = [joining EXCEPT ![t] = 0]
  /\ IF pc[t] = "stop.join" THEN Return(t) ELSE Goto(t, "close.cleanup")
  /\ UNCHANGED <<lifecycle, session, watching, closing, calls, owed>>

Stop(t) ==
  \/ StopLock(t, "stop.lock", "stop.join", Return(t))
  \/ StopJoin(t, "stop.join", Return(t))

PollLockMutant(c) ==
  /\ pc[c] = "poll.lock" /\ lifecycle = Nobody
  /\ IF Alive(thread) THEN Return(c) ELSE Goto(c, "poll.refresh")
  /\ UNCHANGED <<lifecycle, session, watching, closing, calls, joining, ghosts>>
\* poll: check and poll under one hold of the lifecycle lock.
PollLock(c) ==
  /\ pc[c] = "poll.lock" /\ lifecycle = Nobody
  /\ IF Alive(thread)
     THEN Return(c) /\ UNCHANGED lifecycle
     ELSE Goto(c, "poll.refresh") /\ lifecycle' = c
  /\ UNCHANGED <<session, watching, closing, calls, joining, ghosts>>

CheckOpenMutant == TRUE
\* Any public method of the session holds its lock for all of its work.
CheckOpen == ~closed

\* refresh_paths takes the session's lock and checks that the session is open.
PollRefresh(c) ==
  /\ pc[c] = "poll.refresh" /\ session = Nobody
  /\ IF ~CheckOpen
     THEN Return(c) /\ lifecycle' = Nobody /\ UNCHANGED session
     ELSE Goto(c, "direct.refresh") /\ session' = c /\ UNCHANGED lifecycle
  /\ UNCHANGED <<watching, closing, calls, joining, ghosts>>

PollReturns(c) ==
  /\ pc[c] = "direct.refresh"
  /\ Return(c) /\ session' = Nobody /\ lifecycle' = Nobody
  /\ UNCHANGED <<watching, closing, calls, joining, ghosts>>

Poll(c) ==
  \/ PollLock(c)
  \/ PollRefresh(c)
  \/ PollReturns(c)

UseLock(t) ==
  /\ pc[t] = "use.lock" /\ session = Nobody
  /\ IF CheckOpen THEN Goto(t, "using") /\ session' = t ELSE Return(t) /\ UNCHANGED session
  /\ UNCHANGED <<lifecycle, watching, closing, calls, joining, ghosts>>

UseReturns(t) ==
  /\ pc[t] = "using"
  /\ Return(t) /\ session' = Nobody
  /\ UNCHANGED <<lifecycle, watching, closing, calls, joining, ghosts>>

Use(t) ==
  \/ UseLock(t)
  \/ UseReturns(t)

\* close, under the session's lock.
CloseLock(t) ==
  /\ pc[t] = "close.lock" /\ session = Nobody
  /\ session' = t /\ Goto(t, "close.decide")
  /\ UNCHANGED <<lifecycle, watching, closing, calls, joining, ghosts>>

RunsInWatcherThreadMutant(t) == FALSE
RunsInWatcherThread(t) == registered /\ thread = t

\* The first closer marks the session closed and goes on alone; a later one
\* waits for it, unless it is a polling thread the first may be joining.
CloseDecide(t) ==
  /\ pc[t] = "close.decide"
  /\ session' = Nobody
  /\ IF complete \/ (closed /\ RunsInWatcherThread(t))
     THEN Return(t) /\ UNCHANGED closed
     ELSE IF closed
     THEN Goto(t, "close.wait") /\ UNCHANGED closed
     ELSE closed' = TRUE /\ Goto(t, IF registered THEN "close.request" ELSE "close.cleanup")
  /\ UNCHANGED <<lifecycle, watching, complete, mirror, calls, joining, ghosts>>

CloseRequest(t) ==
  /\ pc[t] = "close.request" /\ RequestStop(t)
  /\ Goto(t, "close.stop")
  /\ UNCHANGED <<lifecycle, session, thread, event, registered, started, closing, calls, joining, ghosts>>

\* Wakes the watcher, joins it without the session's lock, removes the mirror.
CloseCleanup(t) ==
  /\ pc[t] = "close.cleanup"
  /\ mirror' = FALSE /\ complete' = TRUE /\ Return(t)
  /\ UNCHANGED <<lifecycle, session, watching, closed, calls, joining, ghosts>>

CloseWait(t) ==
  /\ pc[t] = "close.wait" /\ complete
  /\ Return(t)
  /\ UNCHANGED <<lifecycle, session, watching, closing, calls, joining, ghosts>>

Close(t) ==
  \/ CloseLock(t)
  \/ CloseDecide(t)
  \/ CloseRequest(t)
  \/ StopLock(t, "close.stop", "close.join", Goto(t, "close.cleanup"))
  \/ StopJoin(t, "close.join", Goto(t, "close.cleanup"))
  \/ CloseCleanup(t)
  \/ CloseWait(t)

StopIsSet == event \in stopSet

\* _run: the loop of a polling thread.
RunLoop(w) ==
  /\ pc[w] \in {"loop", "check", "wait"}
  /\ Goto(w, IF StopIsSet THEN "finish"
             ELSE IF pc[w] = "loop" THEN "poll"
             ELSE IF pc[w] = "check" THEN "callback" ELSE "loop")
  /\ UNCHANGED <<lifecycle, session, watching, closing, calls, joining, ghosts>>

\* A poll that finds nothing ready comes back to the stop event; one that does
\* refreshes the session, and a closed session ends the thread.
RunPoll(w) ==
  /\ pc[w] = "poll"
  /\ \/ Goto(w, "wait") /\ UNCHANGED session
     \/ /\ session = Nobody
        /\ IF CheckOpen THEN Goto(w, "refresh") /\ session' = w
                        ELSE Goto(w, "finish") /\ UNCHANGED session
  /\ UNCHANGED <<lifecycle, watching, closing, calls, joining, ghosts>>

\* The refresh ends, or raises (a file it could not write): then the error is
\* reported and there is nothing to call back for.
RunRefreshed(w) ==
  /\ pc[w] = "refresh"
  /\ session' = Nobody
  /\ \E next \in {"check", "wait"} : Goto(w, next)
  /\ UNCHANGED <<lifecycle, watching, closing, calls, joining, ghosts>>

\* The callback is the application's: it may use, stop or close.
RunCallback(w) ==
  /\ pc[w] = "callback"
  /\ \E op \in {"use", "stop", "close"} : Goto(w, Entry(op))
  /\ owed' = [owed EXCEPT ![w] = 0]
  /\ UNCHANGED <<lifecycle, session, watching, closing, calls, joining, gaveUp>>

\* _finish_current_thread
RunFinish(w) ==
  /\ pc[w] = "finish" /\ lifecycle = Nobody
  /\ Goto(w, IF thread = w THEN "unregister" ELSE "dead")
  /\ UNCHANGED <<lifecycle, session, watching, closing, calls, joining, ghosts>>

RunUnregister(w) ==
  /\ pc[w] = "unregister" /\ session = Nobody
  /\ registered' = FALSE /\ Goto(w, "dead")
  /\ UNCHANGED <<lifecycle, session, thread, event, stopSet, started, closing, calls, joining, ghosts>>

Run(w) ==
  \/ RunLoop(w)
  \/ RunPoll(w)
  \/ RunRefreshed(w)
  \/ RunCallback(w)
  \/ RunFinish(w)
  \/ RunUnregister(w)

CallerStep(c) ==
  \/ Start(c)
  \/ Stop(c)
  \/ Poll(c)
  \/ Use(c)
  \/ Close(c)

WorkerStep(w) ==
  \/ Run(w)
  \/ Stop(w)
  \/ Use(w)
  \/ Close(w)

\* All application threads are done and no polling thread runs.
Quiet ==
  /\ \A c \in Callers : pc[c] = "idle" /\ calls[c] = MaxCalls
  /\ \A w \in Workers : ~Alive(w)
  /\ UNCHANGED vars

Next ==
  \/ \E c \in Callers : Call(c) \/ CallerStep(c)
  \/ \E w \in Workers : WorkerStep(w)
  \/ \E t \in Threads : StopGivesUp(t)
  \/ Quiet

\* Threads are scheduled, and locks are not withheld from a waiting thread for
\* ever; nothing obliges an application thread to make a call, and no join may
\* count on giving up.
Fairness ==
  /\ \A c \in Callers : SF_vars(CallerStep(c))
  /\ \A w \in Workers : SF_vars(WorkerStep(w))

Spec == Init /\ [][Next]_vars /\ Fairness

-----------------------------------------------------------------------------
\* The mirror directory is never removed under a thread that is working in it,
\* even when the join of a watcher gave up: every use holds the session's lock
\* from its check that the session is open (session.py:369-421).
NoUseAfterRemoval ==
  \A t \in Threads : pc[t] \in {"using", "refresh", "direct.refresh"} => mirror

\* One poll at a time: a direct poll() never runs beside a polling thread, and
\* two polling threads never run side by side, so the pending map and the
\* snapshot have one user (_workspace.py:645-654).
OnePollAtATime ==
  \A t, u \in Threads :
    /\ pc[t] \in {"poll", "refresh", "poll.refresh", "direct.refresh"}
    /\ pc[u] \in {"poll", "refresh", "poll.refresh", "direct.refresh"}
    => t = u

\* What a step of a stop or a close owes the caller.
DebtsPaid ==
  \A c \in Callers :
    /\ ( \/ pc[c] \in Stopping /\ pc'[c] = "idle"
         \/ pc[c] \in Closing /\ pc'[c] = "close.cleanup" )
       => \A w \in 1 .. owed[c] : ~Alive(w)' \/ w \in gaveUp'
    /\ pc[c] \in Closing /\ pc'[c] = "idle" => complete' /\ ~mirror'

\* A stop or a close that lands while the watcher starts stops the thread it
\* starts (docs/pyinc-tools-guide.md:126-127): when the join is over, every
\* polling thread that existed or was being started at the call is dead, unless
\* a join gave up on it.  (A close is over the join once it removes the mirror;
\* the watcher's own thread does not join itself.)  And close() returns to an
\* application thread only with the session closed and the mirror gone, also
\* when another thread was closing first.
StopStopsWhatWasStarting == [][DebtsPaid]_vars

\* Nobody waits for ever: every call returns, though no join gives up, whatever
\* the callbacks do - two closers, a callback that closes while another thread
\* joins it, a stop during a start (session.py:376-395) - and the polling thread
\* of a closed session ends.
CallsReturn ==
  /\ \A c \in Callers : pc[c] # "idle" ~> pc[c] = "idle"
  /\ \A w \in Workers : closed /\ Alive(w) ~> ~Alive(w)
=============================================================================
