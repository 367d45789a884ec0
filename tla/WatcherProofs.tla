---------------------------- MODULE WatcherProofs ----------------------------
(***************************************************************************)
(* Proofs about Watcher for every number of application threads, polling    *)
(* threads and calls: the mirror is never removed under a user, one thread  *)
(* polls at a time, and a stop or a close stops what was starting.          *)
(***************************************************************************)
EXTENDS Watcher, FiniteSetTheorems, TLAPS

Shared == {"stop.lock", "stop.join", "use.lock", "using"} \cup Closing
CallerLabels ==
  Shared \cup {"idle", "start.lock", "start.register", "start.event", "start.run",
               "poll.lock", "poll.refresh", "direct.refresh"}
WorkerLabels ==
  Shared \cup {"unborn", "dead", "loop", "check", "wait", "poll", "refresh", "callback",
               "finish", "unregister"}

TypeOK ==
  /\ lifecycle \in Threads \cup {Nobody} /\ session \in Threads \cup {Nobody}
  /\ pc \in [Threads -> CallerLabels \cup WorkerLabels]
  /\ \A c \in Callers : pc[c] \in CallerLabels
  /\ \A w \in Workers : pc[w] \in WorkerLabels
  /\ thread \in Workers \cup {0} /\ event \in Workers \cup {0}
  /\ stopSet \subseteq Workers \cup {0} /\ gaveUp \subseteq Workers
  /\ started \in 0 .. MaxStarts /\ calls \in [Callers -> 0 .. MaxCalls]
  /\ joining \in [Threads -> Workers \cup {0}] /\ owed \in [Threads -> 0 .. MaxStarts]

Flags ==
  registered \in BOOLEAN /\ closed \in BOOLEAN /\ complete \in BOOLEAN /\ mirror \in BOOLEAN

\* Where a thread is when it holds a lock, and only there.
UnderLifecycle == {"start.register", "start.event", "start.run", "poll.refresh", "direct.refresh"}
UnderSession == {"direct.refresh", "using", "close.decide", "refresh"}
LocksHeld ==
  \A t \in Threads :
    /\ lifecycle = t <=> pc[t] \in UnderLifecycle
    /\ session = t <=> pc[t] \in UnderSession

\* A polling thread that lives is the watcher's own and is registered, and none
\* lives while an application thread starts another or polls itself.
OneWorker ==
  /\ \A w \in Workers : Alive(w) => thread = w /\ registered
  /\ \A c \in Callers :
       /\ pc[c] \in UnderLifecycle => ~Alive(thread)
       /\ pc[c] \in {"start.register", "start.event"} => started < MaxStarts
       /\ pc[c] \in {"start.event", "start.run"} => registered
       /\ pc[c] = "start.run" =>
            thread = started /\ thread \in Workers /\ pc[thread] = "unborn"

\* Polling threads are born in order.
InOrder ==
  /\ thread <= started
  /\ \A w \in Workers :
       /\ w > started => pc[w] = "unborn"
       /\ w <= started /\ pc[w] = "unborn" =>
            w = started /\ \E c \in Callers : pc[c] = "start.run"

\* A thread joins another exactly while it waits in a join, and one that ran.
Joins ==
  \A t \in Threads :
    /\ joining[t] # 0 <=> pc[t] \in {"stop.join", "close.join"}
    /\ joining[t] # 0 => pc[joining[t]] # "unborn"

\* Closed before the mirror goes, and nobody uses a closed session.
CloseOrder ==
  /\ complete <=> ~mirror
  /\ complete => closed
  /\ \A t \in Threads :
       /\ pc[t] \in Closing \ {"close.lock", "close.decide"} => closed
       /\ pc[t] \in {"using", "refresh", "direct.refresh"} => ~closed

\* Before a stop has the lifecycle lock, a thread it owes to stop exists, or is
\* being started, or never will be; from the join on, it is dead, or the one
\* joined, or given up, or never will be.
Starting == \E u \in Callers : pc[u] \in {"start.register", "start.event"}
Unstartable == closed /\ \A u \in Callers : pc[u] # "start.event"
Debts ==
  \A c \in Callers :
    /\ pc[c] \in {"stop.lock", "close.lock", "close.decide", "close.request", "close.stop"} =>
         owed[c] <= started \/ closed \/ (owed[c] = started + 1 /\ Starting)
    /\ pc[c] \in {"stop.join", "close.join", "close.cleanup"} =>
         \A w \in 1 .. owed[c] :
           pc[w] = "dead" \/ w = joining[c] \/ w \in gaveUp \/ (w > started /\ Unstartable)

IInv == TypeOK /\ Flags /\ LocksHeld /\ OneWorker /\ InOrder /\ Joins /\ CloseOrder /\ Debts
-----------------------------------------------------------------------------
(* The steps.  Every one moves the thread that takes it, and StartRun and    *)
(* StartFails the polling thread that is being started.                      *)

USE WatcherAssumption DEF Threads, Workers, Goto, Return, Alive, watching, closing, ghosts,
    Shared, Closing, CallerLabels, WorkerLabels, UnderLifecycle, UnderSession

\* start() is refused, or takes the lifecycle lock while no polling thread lives.
LEMMA StartLockPreserves ==
  ASSUME IInv, NEW t \in Callers, StartLock(t)
  PROVE  IInv'
<1>1. TypeOK'
  BY DEF IInv, TypeOK, StartLock
<1>2. Flags'
  BY Zenon DEF IInv, Flags, StartLock
<1>3. LocksHeld'
  BY DEF IInv, TypeOK, LocksHeld, OneWorker, StartLock
<1>4. OneWorker' /\ InOrder'
  BY DEF IInv, TypeOK, LocksHeld, OneWorker, InOrder, StartLock
<1>5. Joins' /\ CloseOrder'
  BY DEF IInv, TypeOK, LocksHeld, OneWorker, InOrder, Joins, CloseOrder, StartLock
<1>6. Debts'
  BY DEF IInv, TypeOK, LocksHeld, OneWorker, InOrder, Joins, Debts, Starting, Unstartable, StartLock
<1> QED  BY <1>1, <1>2, <1>3, <1>4, <1>5, <1>6 DEF IInv

\* A closed session refuses; otherwise the watcher is registered.
LEMMA StartRegisterPreserves ==
  ASSUME IInv, NEW t \in Callers, StartRegister(t)
  PROVE  IInv'
<1>1. TypeOK'
  BY DEF IInv, TypeOK, StartRegister
<1>2. Flags'
  BY Zenon DEF IInv, Flags, StartRegister
<1>3. LocksHeld'
  BY DEF IInv, TypeOK, LocksHeld, OneWorker, StartRegister
<1>4. OneWorker' /\ InOrder'
  BY DEF IInv, TypeOK, LocksHeld, OneWorker, InOrder, StartRegister
<1>5. Joins' /\ CloseOrder'
  BY DEF IInv, TypeOK, LocksHeld, OneWorker, InOrder, Joins, CloseOrder, StartRegister
<1>6. Debts'
  BY DEF IInv, TypeOK, LocksHeld, OneWorker, InOrder, Joins, Debts, Starting, Unstartable, StartRegister
<1> QED  BY <1>1, <1>2, <1>3, <1>4, <1>5, <1>6 DEF IInv

\* The next polling thread, still unborn, becomes the watcher's.
LEMMA StartEventPreserves ==
  ASSUME IInv, NEW t \in Callers, StartEvent(t)
  PROVE  IInv'
<1>1. TypeOK'
  BY DEF IInv, TypeOK, OneWorker, StartEvent
<1>2. Flags'
  BY Zenon DEF IInv, Flags, StartEvent
<1>3. LocksHeld'
  BY DEF IInv, TypeOK, LocksHeld, OneWorker, StartEvent
<1>4. OneWorker' /\ InOrder'
  BY DEF IInv, TypeOK, LocksHeld, OneWorker, InOrder, StartEvent
<1>5. Joins' /\ CloseOrder'
  BY DEF IInv, TypeOK, LocksHeld, OneWorker, InOrder, Joins, CloseOrder, StartEvent
<1>6. Debts'
  BY DEF IInv, TypeOK, LocksHeld, OneWorker, InOrder, Joins, Debts, Starting, Unstartable, StartEvent
<1> QED  BY <1>1, <1>2, <1>3, <1>4, <1>5, <1>6 DEF IInv

\* The thread that is being started is the one unborn among those made.
LEMMA StartRunPreserves ==
  ASSUME IInv, NEW t \in Callers, StartRun(t)
  PROVE  IInv'
<1>0. /\ thread \in Workers /\ \A c \in Callers : pc[c] = "start.run" => c = t
      /\ \A u \in Threads : pc'[u] = IF u = thread THEN "loop" ELSE IF u = t THEN "idle" ELSE pc[u]
  BY DEF IInv, TypeOK, LocksHeld, OneWorker, StartRun
<1>1. TypeOK'
  BY <1>0 DEF IInv, TypeOK, StartRun
<1>2. Flags'
  BY Zenon DEF IInv, Flags, StartRun
<1>3. LocksHeld'
  BY <1>0 DEF IInv, TypeOK, LocksHeld, OneWorker, StartRun
<1>4. OneWorker' /\ InOrder'
  BY <1>0 DEF IInv, TypeOK, LocksHeld, OneWorker, InOrder, StartRun
<1>5. Joins' /\ CloseOrder'
  BY <1>0 DEF IInv, TypeOK, LocksHeld, OneWorker, InOrder, Joins, CloseOrder, StartRun
<1>6. Debts'
  BY <1>0 DEF IInv, TypeOK, LocksHeld, OneWorker, InOrder, Joins, Debts, Starting, Unstartable, StartRun
<1> QED  BY <1>1, <1>2, <1>3, <1>4, <1>5, <1>6 DEF IInv

\* The thread that could not start counts as dead.
LEMMA StartFailsPreserves ==
  ASSUME IInv, NEW t \in Callers, StartFails(t)
  PROVE  IInv'
<1>0. /\ thread \in Workers /\ \A c \in Callers : pc[c] = "start.run" => c = t
      /\ \A u \in Threads : pc'[u] = IF u = thread THEN "dead" ELSE IF u = t THEN "idle" ELSE pc[u]
  BY DEF IInv, TypeOK, LocksHeld, OneWorker, StartFails
<1>1. TypeOK'
  <2>1. pc' \in [Threads -> CallerLabels \cup WorkerLabels]
    BY <1>0 DEF IInv, TypeOK, StartFails
  <2>2. \A u \in Threads : pc'[u] \in IF u \in Callers THEN CallerLabels ELSE WorkerLabels
    BY <1>0 DEF IInv, TypeOK, StartFails
  <2> QED  BY <1>0, <2>1, <2>2 DEF IInv, TypeOK, StartFails
<1>2. Flags'
  BY Zenon DEF IInv, Flags, StartFails
<1>3. LocksHeld'
  BY <1>0 DEF IInv, TypeOK, LocksHeld, OneWorker, StartFails
<1>4. OneWorker' /\ InOrder'
  BY <1>0 DEF IInv, TypeOK, LocksHeld, OneWorker, InOrder, StartFails
<1>5. Joins' /\ CloseOrder'
  BY <1>0 DEF IInv, TypeOK, LocksHeld, OneWorker, InOrder, Joins, CloseOrder, StartFails
<1>6. Debts'
  BY <1>0 DEF IInv, TypeOK, LocksHeld, OneWorker, InOrder, Joins, Debts, Starting, Unstartable, StartFails
<1> QED  BY <1>1, <1>2, <1>3, <1>4, <1>5, <1>6 DEF IInv

\* A direct poll takes the lifecycle lock, and the session's with it open.
LEMMA PollLockPreserves ==
  ASSUME IInv, NEW t \in Callers, PollLock(t)
  PROVE  IInv'
<1>1. TypeOK'
  BY DEF IInv, TypeOK, PollLock
<1>2. Flags'
  BY Zenon DEF IInv, Flags, PollLock
<1>3. LocksHeld'
  BY DEF IInv, TypeOK, LocksHeld, OneWorker, PollLock
<1>4. OneWorker' /\ InOrder'
  BY DEF IInv, TypeOK, LocksHeld, OneWorker, InOrder, PollLock
<1>5. Joins' /\ CloseOrder'
  BY DEF IInv, TypeOK, LocksHeld, OneWorker, InOrder, Joins, CloseOrder, PollLock
<1>6. Debts'
  BY DEF IInv, TypeOK, LocksHeld, OneWorker, InOrder, Joins, Debts, Starting, Unstartable, PollLock
<1> QED  BY <1>1, <1>2, <1>3, <1>4, <1>5, <1>6 DEF IInv

LEMMA PollRefreshPreserves ==
  ASSUME IInv, NEW t \in Callers, PollRefresh(t)
  PROVE  IInv'
<1>1. TypeOK'
  BY DEF IInv, TypeOK, PollRefresh, CheckOpen
<1>2. Flags'
  BY Zenon DEF IInv, Flags, PollRefresh, CheckOpen
<1>3. LocksHeld'
  BY DEF IInv, TypeOK, LocksHeld, OneWorker, PollRefresh, CheckOpen
<1>4. OneWorker' /\ InOrder'
  BY DEF IInv, TypeOK, LocksHeld, OneWorker, InOrder, PollRefresh, CheckOpen
<1>5. Joins' /\ CloseOrder'
  BY DEF IInv, TypeOK, LocksHeld, OneWorker, InOrder, Joins, CloseOrder, PollRefresh, CheckOpen
<1>6. Debts'
  BY DEF IInv, TypeOK, LocksHeld, OneWorker, InOrder, Joins, Debts, Starting, Unstartable, PollRefresh, CheckOpen
<1> QED  BY <1>1, <1>2, <1>3, <1>4, <1>5, <1>6 DEF IInv

LEMMA PollReturnsPreserves ==
  ASSUME IInv, NEW t \in Callers, PollReturns(t)
  PROVE  IInv'
<1>1. TypeOK'
  BY DEF IInv, TypeOK, PollReturns
<1>2. Flags'
  BY Zenon DEF IInv, Flags, PollReturns
<1>3. LocksHeld'
  BY DEF IInv, TypeOK, LocksHeld, OneWorker, PollReturns
<1>4. OneWorker' /\ InOrder'
  BY DEF IInv, TypeOK, LocksHeld, OneWorker, InOrder, PollReturns
<1>5. Joins' /\ CloseOrder'
  BY DEF IInv, TypeOK, LocksHeld, OneWorker, InOrder, Joins, CloseOrder, PollReturns
<1>6. Debts'
  BY DEF IInv, TypeOK, LocksHeld, OneWorker, InOrder, Joins, Debts, Starting, Unstartable, PollReturns
<1> QED  BY <1>1, <1>2, <1>3, <1>4, <1>5, <1>6 DEF IInv

\* A use takes the session's lock with the session open.
LEMMA UseLockPreserves ==
  ASSUME IInv, NEW t \in Threads, UseLock(t)
  PROVE  IInv'
<1>1. TypeOK'
  BY DEF IInv, TypeOK, UseLock, CheckOpen
<1>2. Flags'
  BY Zenon DEF IInv, Flags, UseLock, CheckOpen
<1>3. LocksHeld'
  BY DEF IInv, TypeOK, LocksHeld, OneWorker, UseLock, CheckOpen
<1>4. OneWorker' /\ InOrder'
  BY DEF IInv, TypeOK, LocksHeld, OneWorker, InOrder, UseLock, CheckOpen
<1>5. Joins' /\ CloseOrder'
  BY DEF IInv, TypeOK, LocksHeld, OneWorker, InOrder, Joins, CloseOrder, UseLock, CheckOpen
<1>6. Debts'
  BY DEF IInv, TypeOK, LocksHeld, OneWorker, InOrder, Joins, Debts, Starting, Unstartable, UseLock, CheckOpen
<1> QED  BY <1>1, <1>2, <1>3, <1>4, <1>5, <1>6 DEF IInv

LEMMA UseReturnsPreserves ==
  ASSUME IInv, NEW t \in Threads, UseReturns(t)
  PROVE  IInv'
<1>1. TypeOK'
  BY DEF IInv, TypeOK, UseReturns
<1>2. Flags'
  BY Zenon DEF IInv, Flags, UseReturns
<1>3. LocksHeld'
  BY DEF IInv, TypeOK, LocksHeld, OneWorker, UseReturns
<1>4. OneWorker' /\ InOrder'
  BY DEF IInv, TypeOK, LocksHeld, OneWorker, InOrder, UseReturns
<1>5. Joins' /\ CloseOrder'
  BY DEF IInv, TypeOK, LocksHeld, OneWorker, InOrder, Joins, CloseOrder, UseReturns
<1>6. Debts'
  BY DEF IInv, TypeOK, LocksHeld, OneWorker, InOrder, Joins, Debts, Starting, Unstartable, UseReturns
<1> QED  BY <1>1, <1>2, <1>3, <1>4, <1>5, <1>6 DEF IInv

\* The first closer closes under the session's lock, when nobody uses it.
LEMMA CloseLockPreserves ==
  ASSUME IInv, NEW t \in Threads, CloseLock(t)
  PROVE  IInv'
<1>1. TypeOK'
  BY DEF IInv, TypeOK, CloseLock
<1>2. Flags'
  BY Zenon DEF IInv, Flags, CloseLock
<1>3. LocksHeld'
  BY DEF IInv, TypeOK, LocksHeld, OneWorker, CloseLock
<1>4. OneWorker' /\ InOrder'
  BY DEF IInv, TypeOK, LocksHeld, OneWorker, InOrder, CloseLock
<1>5. Joins' /\ CloseOrder'
  BY DEF IInv, TypeOK, LocksHeld, OneWorker, InOrder, Joins, CloseOrder, CloseLock
<1>6. Debts'
  BY DEF IInv, TypeOK, LocksHeld, OneWorker, InOrder, Joins, Debts, Starting, Unstartable, CloseLock
<1> QED  BY <1>1, <1>2, <1>3, <1>4, <1>5, <1>6 DEF IInv

LEMMA CloseDecidePreserves ==
  ASSUME IInv, NEW t \in Threads, CloseDecide(t)
  PROVE  IInv'
<1>1. TypeOK'
  BY DEF IInv, TypeOK, CloseDecide, RunsInWatcherThread
<1>2. Flags'
  BY Zenon DEF IInv, Flags, CloseDecide, RunsInWatcherThread
<1>3. LocksHeld'
  BY DEF IInv, TypeOK, LocksHeld, OneWorker, CloseDecide, RunsInWatcherThread
<1>4. OneWorker' /\ InOrder'
  BY DEF IInv, TypeOK, LocksHeld, OneWorker, InOrder, CloseDecide, RunsInWatcherThread
<1>5. Joins' /\ CloseOrder'
  BY DEF IInv, TypeOK, LocksHeld, OneWorker, InOrder, Joins, CloseOrder, CloseDecide, RunsInWatcherThread
<1>6. Debts'
  BY DEF IInv, TypeOK, LocksHeld, OneWorker, InOrder, Joins, Debts, Starting, Unstartable, CloseDecide, RunsInWatcherThread
<1> QED  BY <1>1, <1>2, <1>3, <1>4, <1>5, <1>6 DEF IInv

LEMMA CloseRequestPreserves ==
  ASSUME IInv, NEW t \in Threads, CloseRequest(t)
  PROVE  IInv'
<1>1. TypeOK'
  BY DEF IInv, TypeOK, CloseRequest, RequestStop
<1>2. Flags'
  BY Zenon DEF IInv, Flags, CloseRequest, RequestStop
<1>3. LocksHeld'
  BY DEF IInv, TypeOK, LocksHeld, OneWorker, CloseRequest, RequestStop
<1>4. OneWorker' /\ InOrder'
  BY DEF IInv, TypeOK, LocksHeld, OneWorker, InOrder, CloseRequest, RequestStop
<1>5. Joins' /\ CloseOrder'
  BY DEF IInv, TypeOK, LocksHeld, OneWorker, InOrder, Joins, CloseOrder, CloseRequest, RequestStop
<1>6. Debts'
  BY DEF IInv, TypeOK, LocksHeld, OneWorker, InOrder, Joins, Debts, Starting, Unstartable, CloseRequest, RequestStop
<1> QED  BY <1>1, <1>2, <1>3, <1>4, <1>5, <1>6 DEF IInv

LEMMA CloseCleanupPreserves ==
  ASSUME IInv, NEW t \in Threads, CloseCleanup(t)
  PROVE  IInv'
<1>1. TypeOK'
  BY DEF IInv, TypeOK, CloseCleanup
<1>2. Flags'
  BY Zenon DEF IInv, Flags, CloseCleanup
<1>3. LocksHeld'
  BY DEF IInv, TypeOK, LocksHeld, OneWorker, CloseCleanup
<1>4. OneWorker' /\ InOrder'
  BY DEF IInv, TypeOK, LocksHeld, OneWorker, InOrder, CloseCleanup
<1>5. Joins' /\ CloseOrder'
  BY DEF IInv, TypeOK, LocksHeld, OneWorker, InOrder, Joins, CloseOrder, CloseCleanup
<1>6. Debts'
  BY DEF IInv, TypeOK, LocksHeld, OneWorker, InOrder, Joins, Debts, Starting, Unstartable, CloseCleanup
<1> QED  BY <1>1, <1>2, <1>3, <1>4, <1>5, <1>6 DEF IInv

LEMMA CloseWaitPreserves ==
  ASSUME IInv, NEW t \in Threads, CloseWait(t)
  PROVE  IInv'
<1>1. TypeOK'
  BY DEF IInv, TypeOK, CloseWait
<1>2. Flags'
  BY Zenon DEF IInv, Flags, CloseWait
<1>3. LocksHeld'
  BY DEF IInv, TypeOK, LocksHeld, OneWorker, CloseWait
<1>4. OneWorker' /\ InOrder'
  BY DEF IInv, TypeOK, LocksHeld, OneWorker, InOrder, CloseWait
<1>5. Joins' /\ CloseOrder'
  BY DEF IInv, TypeOK, LocksHeld, OneWorker, InOrder, Joins, CloseOrder, CloseWait
<1>6. Debts'
  BY DEF IInv, TypeOK, LocksHeld, OneWorker, InOrder, Joins, Debts, Starting, Unstartable, CloseWait
<1> QED  BY <1>1, <1>2, <1>3, <1>4, <1>5, <1>6 DEF IInv

\* A join that gives up takes its thread off the debt.
LEMMA StopGivesUpPreserves ==
  ASSUME IInv, NEW t \in Threads, StopGivesUp(t)
  PROVE  IInv'
<1>0. pc[t] \in {"stop.join", "close.join"} /\ joining[t] \in Workers
  BY DEF IInv, TypeOK, Joins, StopGivesUp
<1>1. TypeOK'
  <2>1. pc' \in [Threads -> CallerLabels \cup WorkerLabels]
    BY <1>0 DEF IInv, TypeOK, StopGivesUp
  <2>2. \A u \in Threads : pc'[u] \in IF u \in Callers THEN CallerLabels ELSE WorkerLabels
    BY <1>0 DEF IInv, TypeOK, StopGivesUp
  <2>3. joining' \in [Threads -> Workers \cup {0}] /\ gaveUp' \subseteq Workers
    BY <1>0 DEF IInv, TypeOK, StopGivesUp
  <2> HIDE DEF Threads, Workers, CallerLabels, WorkerLabels
  <2> QED  BY <2>1, <2>2, <2>3 DEF IInv, TypeOK, StopGivesUp, watching, closing, Threads
<1>2. Flags'
  BY Zenon DEF IInv, Flags, StopGivesUp
<1>3. LocksHeld'
  BY <1>0 DEF IInv, TypeOK, LocksHeld, OneWorker, StopGivesUp
<1>4. OneWorker' /\ InOrder'
  BY <1>0 DEF IInv, TypeOK, LocksHeld, OneWorker, InOrder, StopGivesUp
<1>5. Joins' /\ CloseOrder'
  BY <1>0 DEF IInv, TypeOK, LocksHeld, OneWorker, InOrder, Joins, CloseOrder, StopGivesUp
<1>6. Debts'
  BY <1>0 DEF IInv, TypeOK, LocksHeld, OneWorker, InOrder, Joins, Debts, Starting, Unstartable, StopGivesUp
<1> QED  BY <1>1, <1>2, <1>3, <1>4, <1>5, <1>6 DEF IInv

\* A polling thread stays the watcher's own until it is dead.
LEMMA RunLoopPreserves ==
  ASSUME IInv, NEW t \in Workers, RunLoop(t)
  PROVE  IInv'
<1>1. TypeOK'
  BY DEF IInv, TypeOK, RunLoop
<1>2. Flags'
  BY Zenon DEF IInv, Flags, RunLoop
<1>3. LocksHeld'
  BY DEF IInv, TypeOK, LocksHeld, OneWorker, RunLoop
<1>4. OneWorker' /\ InOrder'
  BY DEF IInv, TypeOK, LocksHeld, OneWorker, InOrder, RunLoop
<1>5. Joins' /\ CloseOrder'
  BY DEF IInv, TypeOK, LocksHeld, OneWorker, InOrder, Joins, CloseOrder, RunLoop
<1>6. Debts'
  BY DEF IInv, TypeOK, LocksHeld, OneWorker, InOrder, Joins, Debts, Starting, Unstartable, RunLoop
<1> QED  BY <1>1, <1>2, <1>3, <1>4, <1>5, <1>6 DEF IInv

LEMMA RunPollPreserves ==
  ASSUME IInv, NEW t \in Workers, RunPoll(t)
  PROVE  IInv'
<1>1. TypeOK'
  BY DEF IInv, TypeOK, RunPoll, CheckOpen
<1>2. Flags'
  BY Zenon DEF IInv, Flags, RunPoll, CheckOpen
<1>3. LocksHeld'
  BY DEF IInv, TypeOK, LocksHeld, OneWorker, RunPoll, CheckOpen
<1>4. OneWorker' /\ InOrder'
  BY DEF IInv, TypeOK, LocksHeld, OneWorker, InOrder, RunPoll, CheckOpen
<1>5. Joins' /\ CloseOrder'
  BY DEF IInv, TypeOK, LocksHeld, OneWorker, InOrder, Joins, CloseOrder, RunPoll, CheckOpen
<1>6. Debts'
  BY DEF IInv, TypeOK, LocksHeld, OneWorker, InOrder, Joins, Debts, Starting, Unstartable, RunPoll, CheckOpen
<1> QED  BY <1>1, <1>2, <1>3, <1>4, <1>5, <1>6 DEF IInv

LEMMA RunRefreshedPreserves ==
  ASSUME IInv, NEW t \in Workers, RunRefreshed(t)
  PROVE  IInv'
<1>1. TypeOK'
  BY DEF IInv, TypeOK, RunRefreshed
<1>2. Flags'
  BY Zenon DEF IInv, Flags, RunRefreshed
<1>3. LocksHeld'
  BY DEF IInv, TypeOK, LocksHeld, OneWorker, RunRefreshed
<1>4. OneWorker' /\ InOrder'
  BY DEF IInv, TypeOK, LocksHeld, OneWorker, InOrder, RunRefreshed
<1>5. Joins' /\ CloseOrder'
  BY DEF IInv, TypeOK, LocksHeld, OneWorker, InOrder, Joins, CloseOrder, RunRefreshed
<1>6. Debts'
  BY DEF IInv, TypeOK, LocksHeld, OneWorker, InOrder, Joins, Debts, Starting, Unstartable, RunRefreshed
<1> QED  BY <1>1, <1>2, <1>3, <1>4, <1>5, <1>6 DEF IInv

LEMMA RunCallbackPreserves ==
  ASSUME IInv, NEW t \in Workers, RunCallback(t)
  PROVE  IInv'
<1>1. TypeOK'
  BY DEF IInv, TypeOK, RunCallback, Entry
<1>2. Flags'
  BY Zenon DEF IInv, Flags, RunCallback, Entry
<1>3. LocksHeld'
  BY DEF IInv, TypeOK, LocksHeld, OneWorker, RunCallback, Entry
<1>4. OneWorker' /\ InOrder'
  BY DEF IInv, TypeOK, LocksHeld, OneWorker, InOrder, RunCallback, Entry
<1>5. Joins' /\ CloseOrder'
  BY DEF IInv, TypeOK, LocksHeld, OneWorker, InOrder, Joins, CloseOrder, RunCallback, Entry
<1>6. Debts'
  BY DEF IInv, TypeOK, LocksHeld, OneWorker, InOrder, Joins, Debts, Starting, Unstartable, RunCallback, Entry
<1> QED  BY <1>1, <1>2, <1>3, <1>4, <1>5, <1>6 DEF IInv

LEMMA RunFinishPreserves ==
  ASSUME IInv, NEW t \in Workers, RunFinish(t)
  PROVE  IInv'
<1>1. TypeOK'
  BY DEF IInv, TypeOK, RunFinish
<1>2. Flags'
  BY Zenon DEF IInv, Flags, RunFinish
<1>3. LocksHeld'
  BY DEF IInv, TypeOK, LocksHeld, OneWorker, RunFinish
<1>4. OneWorker' /\ InOrder'
  BY DEF IInv, TypeOK, LocksHeld, OneWorker, InOrder, RunFinish
<1>5. Joins' /\ CloseOrder'
  BY DEF IInv, TypeOK, LocksHeld, OneWorker, InOrder, Joins, CloseOrder, RunFinish
<1>6. Debts'
  BY DEF IInv, TypeOK, LocksHeld, OneWorker, InOrder, Joins, Debts, Starting, Unstartable, RunFinish
<1> QED  BY <1>1, <1>2, <1>3, <1>4, <1>5, <1>6 DEF IInv

LEMMA RunUnregisterPreserves ==
  ASSUME IInv, NEW t \in Workers, RunUnregister(t)
  PROVE  IInv'
<1>1. TypeOK'
  BY DEF IInv, TypeOK, RunUnregister
<1>2. Flags'
  BY Zenon DEF IInv, Flags, RunUnregister
<1>3. LocksHeld'
  BY DEF IInv, TypeOK, LocksHeld, OneWorker, RunUnregister
<1>4. OneWorker' /\ InOrder'
  BY DEF IInv, TypeOK, LocksHeld, OneWorker, InOrder, RunUnregister
<1>5. Joins' /\ CloseOrder'
  BY DEF IInv, TypeOK, LocksHeld, OneWorker, InOrder, Joins, CloseOrder, RunUnregister
<1>6. Debts'
  BY DEF IInv, TypeOK, LocksHeld, OneWorker, InOrder, Joins, Debts, Starting, Unstartable, RunUnregister
<1> QED  BY <1>1, <1>2, <1>3, <1>4, <1>5, <1>6 DEF IInv

\* With the lifecycle lock free nobody is starting: what lives is what is joined.
LEMMA StopLockPreserves ==
  ASSUME IInv, NEW t \in Threads, StopLock(t, "stop.lock", "stop.join", Return(t))
  PROVE  IInv'
<1>1. TypeOK'
  BY DEF IInv, TypeOK, StopLock, RequestStop
<1>2. Flags'
  BY Zenon DEF IInv, Flags, StopLock, RequestStop
<1>3. LocksHeld'
  BY DEF IInv, TypeOK, LocksHeld, OneWorker, StopLock, RequestStop
<1>4. OneWorker' /\ InOrder'
  BY DEF IInv, TypeOK, LocksHeld, OneWorker, InOrder, StopLock, RequestStop
<1>5. Joins' /\ CloseOrder'
  BY DEF IInv, TypeOK, LocksHeld, OneWorker, InOrder, Joins, CloseOrder, StopLock, RequestStop
<1>6. Debts'
  BY DEF IInv, TypeOK, LocksHeld, OneWorker, InOrder, Joins, Debts, Starting, Unstartable, StopLock, RequestStop
<1> QED  BY <1>1, <1>2, <1>3, <1>4, <1>5, <1>6 DEF IInv

LEMMA CloseStopPreserves ==
  ASSUME IInv, NEW t \in Threads, StopLock(t, "close.stop", "close.join", Goto(t, "close.cleanup"))
  PROVE  IInv'
<1>1. TypeOK'
  BY DEF IInv, TypeOK, StopLock, RequestStop
<1>2. Flags'
  BY Zenon DEF IInv, Flags, StopLock, RequestStop
<1>3. LocksHeld'
  BY DEF IInv, TypeOK, LocksHeld, OneWorker, StopLock, RequestStop
<1>4. OneWorker' /\ InOrder'
  BY DEF IInv, TypeOK, LocksHeld, OneWorker, InOrder, StopLock, RequestStop
<1>5. Joins' /\ CloseOrder'
  BY DEF IInv, TypeOK, LocksHeld, OneWorker, InOrder, Joins, CloseOrder, StopLock, RequestStop
<1>6. Debts'
  BY DEF IInv, TypeOK, LocksHeld, OneWorker, InOrder, Joins, Debts, Starting, Unstartable, StopLock, RequestStop
<1> QED  BY <1>1, <1>2, <1>3, <1>4, <1>5, <1>6 DEF IInv

\* The joined thread is dead.
LEMMA StopJoinPreserves ==
  ASSUME IInv, NEW t \in Threads, StopJoin(t, "stop.join", Return(t))
  PROVE  IInv'
<1>1. TypeOK'
  BY DEF IInv, TypeOK, StopJoin
<1>2. Flags'
  BY Zenon DEF IInv, Flags, StopJoin
<1>3. LocksHeld'
  BY DEF IInv, TypeOK, LocksHeld, OneWorker, StopJoin
<1>4. OneWorker' /\ InOrder'
  BY DEF IInv, TypeOK, LocksHeld, OneWorker, InOrder, StopJoin
<1>5. Joins' /\ CloseOrder'
  BY DEF IInv, TypeOK, LocksHeld, OneWorker, InOrder, Joins, CloseOrder, StopJoin
<1>6. Debts'
  BY DEF IInv, TypeOK, LocksHeld, OneWorker, InOrder, Joins, Debts, Starting, Unstartable, StopJoin
<1> QED  BY <1>1, <1>2, <1>3, <1>4, <1>5, <1>6 DEF IInv

LEMMA CloseJoinPreserves ==
  ASSUME IInv, NEW t \in Threads, StopJoin(t, "close.join", Goto(t, "close.cleanup"))
  PROVE  IInv'
<1>1. TypeOK'
  BY DEF IInv, TypeOK, StopJoin
<1>2. Flags'
  BY Zenon DEF IInv, Flags, StopJoin
<1>3. LocksHeld'
  BY DEF IInv, TypeOK, LocksHeld, OneWorker, StopJoin
<1>4. OneWorker' /\ InOrder'
  BY DEF IInv, TypeOK, LocksHeld, OneWorker, InOrder, StopJoin
<1>5. Joins' /\ CloseOrder'
  BY DEF IInv, TypeOK, LocksHeld, OneWorker, InOrder, Joins, CloseOrder, StopJoin
<1>6. Debts'
  BY DEF IInv, TypeOK, LocksHeld, OneWorker, InOrder, Joins, Debts, Starting, Unstartable, StopJoin
<1> QED  BY <1>1, <1>2, <1>3, <1>4, <1>5, <1>6 DEF IInv

\* At most one thread is starting another, so Newest is the last polling
\* thread or the one after it.
LEMMA NewestIs ==
  ASSUME IInv
  PROVE  /\ Newest \in 0 .. MaxStarts
         /\ Newest = started \/ (Newest = started + 1 /\ Starting)
<1> DEFINE S == {t \in Threads : pc[t] \in {"start.register", "start.event"}}
<1>1. CASE S = {}
  <2>1. Cardinality(S) = 0
    BY <1>1, FS_EmptySet
  <2> QED  BY <2>1 DEF Newest, IInv, TypeOK
<1>2. CASE S # {}
  <2>1. PICK u \in Threads : u \in S
    BY <1>2
  <2>2. S = {u} /\ u \in Callers /\ started < MaxStarts
    BY <2>1 DEF IInv, TypeOK, LocksHeld, OneWorker
  <2>3. Cardinality(S) = 1
    BY <2>2, FS_Singleton
  <2> QED  BY <2>1, <2>2, <2>3 DEF Newest, Starting, IInv, TypeOK
<1> QED  BY <1>1, <1>2

\* A call is entered with its debt.
LEMMA CallPreserves ==
  ASSUME IInv, NEW t \in Callers, Call(t)
  PROVE  IInv'
<1>0. PICK label \in {"start.lock", "stop.lock", "poll.lock", "use.lock", "close.lock"} :
        Goto(t, label)
  BY DEF Call, Entry
<1>1. TypeOK'
  <2>1. pc' \in [Threads -> CallerLabels \cup WorkerLabels]
    BY <1>0 DEF IInv, TypeOK
  <2>2. owed' \in [Threads -> 0 .. MaxStarts] /\ calls' \in [Callers -> 0 .. MaxCalls]
    BY NewestIs DEF IInv, TypeOK, Call
  <2> QED  BY <1>0, <2>1, <2>2 DEF IInv, TypeOK, Call
<1>2. Flags'
  BY Zenon DEF IInv, Flags, Call
<1>3. LocksHeld' /\ OneWorker' /\ InOrder'
  BY <1>0 DEF IInv, TypeOK, LocksHeld, OneWorker, InOrder, Call
<1>4. Joins' /\ CloseOrder'
  BY <1>0 DEF IInv, TypeOK, Joins, CloseOrder, Call
<1>5. Debts'
  BY <1>0, NewestIs DEF IInv, TypeOK, Debts, Starting, Unstartable, Call
<1> QED  BY <1>1, <1>2, <1>3, <1>4, <1>5 DEF IInv

LEMMA NextPreserves ==
  ASSUME IInv, [Next]_vars
  PROVE  IInv'
<1>1. ASSUME NEW t \in Threads, Stop(t) \/ Use(t) \/ Close(t) \/ StopGivesUp(t)
      PROVE  IInv'
  BY <1>1, StopLockPreserves, StopJoinPreserves, UseLockPreserves, UseReturnsPreserves,
     CloseLockPreserves, CloseDecidePreserves, CloseRequestPreserves, CloseStopPreserves,
     CloseJoinPreserves, CloseCleanupPreserves, CloseWaitPreserves, StopGivesUpPreserves
  DEF Stop, Use, Close
<1>2. ASSUME NEW c \in Callers, Call(c) \/ Start(c) \/ Poll(c)
      PROVE  IInv'
  BY <1>2, CallPreserves, StartLockPreserves, StartRegisterPreserves, StartEventPreserves,
     StartRunPreserves, StartFailsPreserves, PollLockPreserves, PollRefreshPreserves,
     PollReturnsPreserves
  DEF Start, Poll
<1>3. ASSUME NEW w \in Workers, Run(w)
      PROVE  IInv'
  BY <1>3, RunLoopPreserves, RunPollPreserves, RunRefreshedPreserves, RunCallbackPreserves,
     RunFinishPreserves, RunUnregisterPreserves
  DEF Run
<1>4. CASE UNCHANGED vars
  BY <1>4 DEF vars, IInv, TypeOK, Flags, LocksHeld, OneWorker, InOrder, Joins, CloseOrder, Debts,
     Starting, Unstartable
<1> QED  BY <1>1, <1>2, <1>3, <1>4 DEF Next, CallerStep, WorkerStep, Quiet

-----------------------------------------------------------------------------
(* The theorems.                                                            *)

\* The inductive invariant holds of every behaviour.
THEOREM Invariance == Spec => []IInv
<1>1. Init => IInv
  <2> SUFFICES ASSUME Init  PROVE IInv
    OBVIOUS
  <2>1. TypeOK
    BY DEF Init, TypeOK
  <2>2. Flags
    BY Zenon DEF Init, Flags
  <2>3. LocksHeld /\ OneWorker /\ InOrder
    BY DEF Init, LocksHeld, OneWorker, InOrder
  <2>4. Joins /\ CloseOrder /\ Debts
    BY DEF Init, Joins, CloseOrder, Debts
  <2> QED  BY <2>1, <2>2, <2>3, <2>4 DEF IInv
<1>2. IInv /\ [Next]_vars => IInv'
  BY NextPreserves
<1> QED  BY <1>1, <1>2, PTL DEF Spec

\* However many threads use, poll, stop and close, and whatever joins give up,
\* the mirror directory is there while a thread works in it: who works in it
\* holds the session's lock since the session was open.
THEOREM MirrorOutlivesItsUsers == Spec => []NoUseAfterRemoval
<1>1. IInv => NoUseAfterRemoval
  BY DEF IInv, TypeOK, CloseOrder, NoUseAfterRemoval
<1> QED  BY <1>1, Invariance, PTL

\* Two threads never poll at once, for any number of restarts and direct polls.
THEOREM PollsExclude == Spec => []OnePollAtATime
<1>1. IInv => OnePollAtATime
  BY DEF IInv, TypeOK, LocksHeld, OneWorker, OnePollAtATime
<1> QED  BY <1>1, Invariance, PTL

\* Only its own steps move an application thread, and only a call changes what
\* it owes.
LEMMA OwnSteps ==
  ASSUME IInv, Next, NEW c \in Callers
  PROVE  \/ Call(c) \/ CallerStep(c) \/ StopGivesUp(c)
         \/ pc'[c] = pc[c] /\ owed'[c] = owed[c]
<1>1. ASSUME NEW t \in Threads, t # c, Stop(t) \/ Use(t) \/ Close(t) \/ StopGivesUp(t)
      PROVE  pc'[c] = pc[c] /\ owed'[c] = owed[c]
  BY <1>1 DEF IInv, TypeOK, Stop, StopLock, StopJoin, Use, UseLock, UseReturns, Close, CloseLock,
     CloseDecide, CloseRequest, CloseCleanup, CloseWait, StopGivesUp
<1>2. ASSUME NEW t \in Callers, t # c, Call(t) \/ Poll(t)
      PROVE  pc'[c] = pc[c] /\ owed'[c] = owed[c]
  BY <1>2 DEF IInv, TypeOK, Call, Poll, PollLock, PollRefresh, PollReturns
<1>3. ASSUME NEW t \in Callers, t # c, Start(t)
      PROVE  pc'[c] = pc[c] /\ owed'[c] = owed[c]
  BY <1>3 DEF IInv, TypeOK, OneWorker, Start, StartLock, StartRegister, StartEvent, StartRun,
     StartFails
<1>4. ASSUME NEW w \in Workers, Run(w)
      PROVE  pc'[c] = pc[c] /\ owed'[c] = owed[c]
  BY <1>4 DEF IInv, TypeOK, Run, RunLoop, RunPoll, RunRefreshed, RunCallback, RunFinish,
     RunUnregister
<1>5. CASE Quiet
  BY <1>5 DEF Quiet, vars
<1> QED  BY <1>1, <1>2, <1>3, <1>4, <1>5 DEF Next, CallerStep, WorkerStep

\* The last step of a stop: nothing it owes lives on.
LEMMA StopPays ==
  ASSUME IInv, Next, NEW c \in Callers, pc[c] \in Stopping, pc'[c] = "idle"
  PROVE  \A w \in 1 .. owed[c] : ~Alive(w)' \/ w \in gaveUp'
<1>1. StopLock(c, "stop.lock", "stop.join", Return(c)) \/ StopJoin(c, "stop.join", Return(c))
      \/ StopGivesUp(c)
  BY OwnSteps DEF Stopping, Call, CallerStep, Start, StartLock, StartRegister, StartEvent, StartRun,
     StartFails, Poll, PollLock, PollRefresh, PollReturns, Use, UseLock, UseReturns, Stop, Close,
     CloseLock, CloseDecide, CloseRequest, CloseCleanup, CloseWait, StopLock, StopJoin
<1>2. CASE StopLock(c, "stop.lock", "stop.join", Return(c))
  BY <1>2 DEF StopLock, RequestStop, IInv, TypeOK, LocksHeld, OneWorker, InOrder, Debts, Starting
<1>3. CASE StopJoin(c, "stop.join", Return(c))
  BY <1>3 DEF StopJoin, IInv, TypeOK, InOrder, Debts
<1>4. CASE StopGivesUp(c)
  BY <1>4 DEF StopGivesUp, Stopping, IInv, TypeOK, InOrder, Joins, Debts
<1> QED  BY <1>1, <1>2, <1>3, <1>4

\* The last step of a close: the session is closed and the mirror gone.
LEMMA CloseReturns ==
  ASSUME IInv, Next, NEW c \in Callers, pc[c] \in Closing, pc'[c] = "idle"
  PROVE  complete' /\ ~mirror'
<1>1. CloseDecide(c) \/ CloseCleanup(c) \/ CloseWait(c)
  <2>1. Close(c) \/ StopGivesUp(c)
    BY OwnSteps DEF Call, CallerStep, Start, StartLock, StartRegister, StartEvent, StartRun,
       StartFails, Poll, PollLock, PollRefresh, PollReturns, Use, UseLock, UseReturns, Stop,
       StopLock, StopJoin
  <2>2. ~StopGivesUp(c)
    BY DEF StopGivesUp, IInv, TypeOK
  <2>3. ~CloseLock(c) /\ ~CloseRequest(c)
    BY DEF CloseLock, CloseRequest, IInv, TypeOK
  <2>4. /\ ~StopLock(c, "close.stop", "close.join", Goto(c, "close.cleanup"))
        /\ ~StopJoin(c, "close.join", Goto(c, "close.cleanup"))
    BY DEF StopLock, StopJoin, IInv, TypeOK
  <2> QED  BY <2>1, <2>2, <2>3, <2>4 DEF Close
<1>2. CASE CloseDecide(c)
  BY <1>2 DEF CloseDecide, RunsInWatcherThread, IInv, TypeOK, CloseOrder
<1> QED  BY <1>1, <1>2 DEF CloseCleanup, CloseWait, IInv, CloseOrder

\* A stop or a close leaves no polling thread it owes, whatever starts, fails
\* to start or gives up beside it, and a close returns with the mirror gone.
THEOREM StopsAreComplete == Spec => StopStopsWhatWasStarting
<1>1. ASSUME IInv, IInv', Next, NEW c \in Callers, pc[c] \in Closing, pc'[c] = "close.cleanup"
      PROVE  \A w \in 1 .. owed[c] : ~Alive(w)' \/ w \in gaveUp'
  <2>1. owed'[c] = owed[c]
    BY <1>1, OwnSteps DEF Call, CallerStep, Start, StartLock, StartRegister, StartEvent, StartRun,
       StartFails, Poll, PollLock, PollRefresh, PollReturns, Use, UseLock, UseReturns, Stop, Close,
       CloseLock, CloseDecide, CloseRequest, CloseCleanup, CloseWait, StopLock, StopJoin,
       StopGivesUp
  <2> QED  BY <1>1, <2>1 DEF IInv, TypeOK, InOrder, Joins, Debts
<1>2. IInv /\ IInv' /\ [Next]_vars => [DebtsPaid]_vars
  BY <1>1, StopPays, CloseReturns DEF DebtsPaid
<1> QED  BY <1>2, Invariance, PTL DEF Spec, StopStopsWhatWasStarting
=============================================================================
