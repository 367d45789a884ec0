------------------------ MODULE LanguageServerProofs ------------------------
(***************************************************************************)
(* Proofs about LanguageServer for every workspace, analysis, editor and    *)
(* bound: the server implements the diagnostics feed, and a request about   *)
(* an open document is answered from one text.                              *)
(***************************************************************************)
EXTENDS LanguageServer, TLAPS

Reports == [Paths -> SUBSET Problems]
LoopLabels ==
  {"read", "init", "watcher", "publish", "convert", "request", "result", "stop", "join", "detach",
   "close", "rejoin", "exited"}
WatchLabels == {"off", "poll", "refresh", "callback", "publish", "dead"}
PublishRecord == [at : {"off", "enter", "analyze", "convert", "write"}, todo : SUBSET Paths,
                  found : Reports]

FilesOK == disk \in Files /\ mirror \in Files /\ overlays \in Files
ReportsOK == analysed \in Reports /\ client \in Reports /\ published \in Reports
LoopOK ==
  /\ loop = [at |-> loop.at, path |-> loop.path, calls |-> loop.calls, texts |-> loop.texts]
  /\ loop.at \in LoopLabels /\ loop.path \in Paths \cup {Missing}
WatchOK ==
  /\ watch = [at |-> watch.at, snapshot |-> watch.snapshot, pending |-> watch.pending,
              ready |-> watch.ready]
  /\ watch.at \in WatchLabels
PublishesOK == pub \in [{"loop", "watch"} -> PublishRecord]
FlagsOK == attached \in BOOLEAN /\ closed \in BOOLEAN /\ stop \in BOOLEAN
TypeOK == FilesOK /\ ReportsOK /\ LoopOK /\ WatchOK /\ PublishesOK /\ FlagsOK

\* A publish holds the publish lock from before its analysis, so what it found
\* is what the latest analysis found.
UnderLock == {"analyze", "convert", "write"}
PublishLock ==
  \A t \in {"loop", "watch"} :
    /\ pub[t].at \in UnderLock <=> lock = t
    /\ pub[t].at \in {"convert", "write"} => pub[t].found = analysed

\* A thread publishes exactly while it says so, and the watcher starts once.
Publishers ==
  /\ pub["loop"].at # "off" <=> loop.at = "publish"
  /\ pub["watch"].at # "off" <=> watch.at = "publish"
  /\ life = "new" => watch = NotWatching
  /\ loop.at \in {"init", "watcher"} => life = "new"

FeedInv == TypeOK /\ PublishLock /\ Publishers

\* One request at a time, and while the server serves, the session is open.
TornDown == {"stop", "join", "detach", "close", "rejoin"}
Serial ==
  /\ owed \in {0, 1}
  /\ loop.at \in {"read", "publish", "exited"} => owed = 0
  /\ loop.at \in {"init", "watcher", "convert", "request", "result"} => owed = 1
  /\ loop.at \in {"publish", "convert", "request", "result"} => life = "ready"
  /\ loop.at = "watcher" => ~closed
  /\ life = "ready" =>
       /\ closed => loop.at \in {"rejoin", "exited"}
       /\ loop.at \in TornDown => owed = 0

\* The mirror holds the editor's text of what is open, and no sync of included
\* files touches it.
MirrorsEditor ==
  /\ \A p \in Paths : overlays[p] # Missing => p \in Openable /\ mirror[p] = overlays[p]
  /\ refs \cap Openable = {}

\* A request is about a file, and has read no text of it when its parameters
\* are converted.
RequestOK ==
  /\ loop.at \in {"convert", "request", "result"} => loop.path \in Paths
  /\ loop.at = "convert" => loop.texts = {}

TextInv == FeedInv /\ Serial /\ MirrorsEditor /\ RequestOK /\ OpenDocumentsAnswerFromOneText
-----------------------------------------------------------------------------
(* The operators.                                                           *)

\* What the mirror and the session compute from files are files again, and
\* what an analysis finds is a report.
LEMMA OperatorTypes ==
  ASSUME TypeOK
  PROVE  /\ \A d \in Files : Snapshot(d) \in Files
         /\ \A S : Synced(S) \in Files
         /\ \A p \in Paths : SourceText(p) \in Texts \cup {Missing}
         /\ AnalyzeWorkspace \in Reports
         /\ None \in Files /\ Nothing \in Reports
<1>1. \A d \in Files : Snapshot(d) \in Files
  BY DEF Snapshot, Files
<1>2. \A S : Synced(S) \in Files
  BY <1>1 DEF Synced, TypeOK, FilesOK, Files
<1>3. \A p \in Paths : SourceText(p) \in Texts \cup {Missing}
  BY DEF SourceText, TypeOK, FilesOK, Files
<1>4. AnalyzeWorkspace \in Reports
  BY ServerAssumption DEF AnalyzeWorkspace, Reports, TypeOK, FilesOK
<1>5. None \in Files /\ Nothing \in Reports
  BY DEF None, Nothing, Files, Reports
<1> QED  BY <1>1, <1>2, <1>3, <1>4, <1>5

-----------------------------------------------------------------------------
(* The steps.                                                               *)

USE ServerAssumption DEF session, bounds, RestOfServer, LoopLabels, WatchLabels, PublishRecord,
    UnderLock, Files, Reports, Idle, NoPublish, NotWatching

LEMMA EditDiskFeeds ==
  ASSUME FeedInv, EditDisk
  PROVE  FeedInv'
<1>1. FilesOK'
  BY OperatorTypes DEF FeedInv, TypeOK, FilesOK, EditDisk
<1>2. ReportsOK'
  BY OperatorTypes DEF FeedInv, TypeOK, ReportsOK, PublishesOK, EditDisk
<1>3. LoopOK'
  BY DEF FeedInv, TypeOK, LoopOK, EditDisk
<1>4. WatchOK'
  BY DEF FeedInv, TypeOK, WatchOK, EditDisk
<1>5. PublishesOK'
  BY OperatorTypes DEF FeedInv, TypeOK, ReportsOK, PublishesOK, EditDisk
<1>6. FlagsOK'
  BY Zenon DEF FeedInv, TypeOK, FlagsOK, EditDisk
<1>7. PublishLock'
  BY DEF FeedInv, TypeOK, LoopOK, WatchOK, PublishesOK, ReportsOK, PublishLock, Publishers, EditDisk
<1>8. Publishers'
  BY DEF FeedInv, TypeOK, LoopOK, WatchOK, PublishesOK, PublishLock, Publishers, EditDisk
<1> QED  BY <1>1, <1>2, <1>3, <1>4, <1>5, <1>6, <1>7, <1>8 DEF FeedInv, TypeOK

LEMMA PublishEnterFeeds ==
  ASSUME FeedInv, NEW t \in {"loop", "watch"}, PublishEnter(t)
  PROVE  FeedInv'
<1>1. FilesOK'
  BY OperatorTypes DEF FeedInv, TypeOK, FilesOK, PublishEnter, Available, Leave
<1>2. ReportsOK'
  BY OperatorTypes DEF FeedInv, TypeOK, ReportsOK, PublishesOK, PublishEnter, Available, Leave
<1>3. LoopOK'
  BY DEF FeedInv, TypeOK, LoopOK, PublishEnter, Available, Leave
<1>4. WatchOK'
  BY DEF FeedInv, TypeOK, WatchOK, PublishEnter, Available, Leave
<1>5. PublishesOK'
  BY OperatorTypes DEF FeedInv, TypeOK, ReportsOK, PublishesOK, PublishEnter, Available, Leave
<1>6. FlagsOK'
  BY Zenon DEF FeedInv, TypeOK, FlagsOK, PublishEnter, Available, Leave
<1>7. PublishLock'
  BY DEF FeedInv, TypeOK, LoopOK, WatchOK, PublishesOK, ReportsOK, PublishLock, Publishers, PublishEnter, Available, Leave
<1>8. Publishers'
  BY DEF FeedInv, TypeOK, LoopOK, WatchOK, PublishesOK, PublishLock, Publishers, PublishEnter, Available, Leave
<1> QED  BY <1>1, <1>2, <1>3, <1>4, <1>5, <1>6, <1>7, <1>8 DEF FeedInv, TypeOK

LEMMA PublishAnalyzeFeeds ==
  ASSUME FeedInv, NEW t \in {"loop", "watch"}, PublishAnalyze(t)
  PROVE  FeedInv'
<1>1. FilesOK'
  BY OperatorTypes DEF FeedInv, TypeOK, FilesOK, PublishAnalyze, Due, Leave
<1>2. ReportsOK'
  BY OperatorTypes DEF FeedInv, TypeOK, ReportsOK, PublishesOK, PublishAnalyze, Due, Leave
<1>3. LoopOK'
  BY DEF FeedInv, TypeOK, LoopOK, PublishAnalyze, Due, Leave
<1>4. WatchOK'
  BY DEF FeedInv, TypeOK, WatchOK, PublishAnalyze, Due, Leave
<1>5. PublishesOK'
  BY OperatorTypes DEF FeedInv, TypeOK, ReportsOK, PublishesOK, PublishAnalyze, Due, Leave
<1>6. FlagsOK'
  BY Zenon DEF FeedInv, TypeOK, FlagsOK, PublishAnalyze, Due, Leave
<1>7. PublishLock'
  BY DEF FeedInv, TypeOK, LoopOK, WatchOK, PublishesOK, ReportsOK, PublishLock, Publishers, PublishAnalyze, Due, Leave
<1>8. Publishers'
  BY DEF FeedInv, TypeOK, LoopOK, WatchOK, PublishesOK, PublishLock, Publishers, PublishAnalyze, Due, Leave
<1> QED  BY <1>1, <1>2, <1>3, <1>4, <1>5, <1>6, <1>7, <1>8 DEF FeedInv, TypeOK

LEMMA PublishConvertFeeds ==
  ASSUME FeedInv, NEW t \in {"loop", "watch"}, PublishConvert(t)
  PROVE  FeedInv'
<1>1. FilesOK'
  BY OperatorTypes DEF FeedInv, TypeOK, FilesOK, PublishConvert, Skip, Leave, Rest
<1>2. ReportsOK'
  BY OperatorTypes DEF FeedInv, TypeOK, ReportsOK, PublishesOK, PublishConvert, Skip, Leave, Rest
<1>3. LoopOK'
  BY DEF FeedInv, TypeOK, LoopOK, PublishConvert, Skip, Leave, Rest
<1>4. WatchOK'
  BY DEF FeedInv, TypeOK, WatchOK, PublishConvert, Skip, Leave, Rest
<1>5. PublishesOK'
  BY OperatorTypes DEF FeedInv, TypeOK, ReportsOK, PublishesOK, PublishConvert, Skip, Leave, Rest
<1>6. FlagsOK'
  BY Zenon DEF FeedInv, TypeOK, FlagsOK, PublishConvert, Skip, Leave, Rest
<1>7. PublishLock'
  BY DEF FeedInv, TypeOK, LoopOK, WatchOK, PublishesOK, ReportsOK, PublishLock, Publishers, PublishConvert, Skip, Leave, Rest
<1>8. Publishers'
  BY DEF FeedInv, TypeOK, LoopOK, WatchOK, PublishesOK, PublishLock, Publishers, PublishConvert, Skip, Leave, Rest
<1> QED  BY <1>1, <1>2, <1>3, <1>4, <1>5, <1>6, <1>7, <1>8 DEF FeedInv, TypeOK

LEMMA PublishWriteFeeds ==
  ASSUME FeedInv, NEW t \in {"loop", "watch"}, PublishWrite(t)
  PROVE  FeedInv'
<1>1. FilesOK'
  BY OperatorTypes DEF FeedInv, TypeOK, FilesOK, PublishWrite, Skip, Leave, Rest, Recorded
<1>2. ReportsOK'
  BY OperatorTypes DEF FeedInv, TypeOK, ReportsOK, PublishesOK, PublishWrite, Skip, Leave, Rest, Recorded
<1>3. LoopOK'
  BY DEF FeedInv, TypeOK, LoopOK, PublishWrite, Skip, Leave, Rest, Recorded
<1>4. WatchOK'
  BY DEF FeedInv, TypeOK, WatchOK, PublishWrite, Skip, Leave, Rest, Recorded
<1>5. PublishesOK'
  BY OperatorTypes DEF FeedInv, TypeOK, ReportsOK, PublishesOK, PublishWrite, Skip, Leave, Rest, Recorded
<1>6. FlagsOK'
  BY Zenon DEF FeedInv, TypeOK, FlagsOK, PublishWrite, Skip, Leave, Rest, Recorded
<1>7. PublishLock'
  BY DEF FeedInv, TypeOK, LoopOK, WatchOK, PublishesOK, ReportsOK, PublishLock, Publishers, PublishWrite, Skip, Leave, Rest, Recorded
<1>8. Publishers'
  BY DEF FeedInv, TypeOK, LoopOK, WatchOK, PublishesOK, PublishLock, Publishers, PublishWrite, Skip, Leave, Rest, Recorded
<1> QED  BY <1>1, <1>2, <1>3, <1>4, <1>5, <1>6, <1>7, <1>8 DEF FeedInv, TypeOK

LEMMA PollOnceFeeds ==
  ASSUME FeedInv, PollOnce
  PROVE  FeedInv'
<1>1. FilesOK'
  BY OperatorTypes DEF FeedInv, TypeOK, FilesOK, PollOnce, Ready, Aged
<1>2. ReportsOK'
  BY OperatorTypes DEF FeedInv, TypeOK, ReportsOK, PublishesOK, PollOnce, Ready, Aged
<1>3. LoopOK'
  BY DEF FeedInv, TypeOK, LoopOK, PollOnce, Ready, Aged
<1>4. WatchOK'
  BY DEF FeedInv, TypeOK, WatchOK, PollOnce, Ready, Aged
<1>5. PublishesOK'
  BY OperatorTypes DEF FeedInv, TypeOK, ReportsOK, PublishesOK, PollOnce, Ready, Aged
<1>6. FlagsOK'
  BY Zenon DEF FeedInv, TypeOK, FlagsOK, PollOnce, Ready, Aged
<1>7. PublishLock'
  BY DEF FeedInv, TypeOK, LoopOK, WatchOK, PublishesOK, ReportsOK, PublishLock, Publishers, PollOnce, Ready, Aged
<1>8. Publishers'
  <2>1. life # "new"
    BY DEF FeedInv, Publishers, PollOnce
  <2> QED  BY <2>1 DEF FeedInv, TypeOK, WatchOK, Publishers, PollOnce
<1> QED  BY <1>1, <1>2, <1>3, <1>4, <1>5, <1>6, <1>7, <1>8 DEF FeedInv, TypeOK

LEMMA WatcherRefreshFeeds ==
  ASSUME FeedInv, WatcherRefresh
  PROVE  FeedInv'
<1>1. FilesOK'
  BY OperatorTypes DEF FeedInv, TypeOK, FilesOK, WatcherRefresh, RefreshPaths, SyncPathsFromDisk
<1>2. ReportsOK'
  BY OperatorTypes DEF FeedInv, TypeOK, ReportsOK, PublishesOK, WatcherRefresh, RefreshPaths, SyncPathsFromDisk
<1>3. LoopOK'
  BY DEF FeedInv, TypeOK, LoopOK, WatcherRefresh, RefreshPaths, SyncPathsFromDisk
<1>4. WatchOK'
  BY DEF FeedInv, TypeOK, WatchOK, WatcherRefresh, RefreshPaths, SyncPathsFromDisk
<1>5. PublishesOK'
  BY OperatorTypes DEF FeedInv, TypeOK, ReportsOK, PublishesOK, WatcherRefresh, RefreshPaths, SyncPathsFromDisk
<1>6. FlagsOK'
  BY Zenon DEF FeedInv, TypeOK, FlagsOK, WatcherRefresh, RefreshPaths, SyncPathsFromDisk
<1>7. PublishLock'
  BY DEF FeedInv, TypeOK, LoopOK, WatchOK, PublishesOK, ReportsOK, PublishLock, Publishers, WatcherRefresh, RefreshPaths, SyncPathsFromDisk
<1>8. Publishers'
  <2>1. life # "new"
    BY DEF FeedInv, Publishers, WatcherRefresh
  <2> QED  BY <2>1 DEF FeedInv, TypeOK, WatchOK, Publishers, WatcherRefresh
<1> QED  BY <1>1, <1>2, <1>3, <1>4, <1>5, <1>6, <1>7, <1>8 DEF FeedInv, TypeOK

LEMMA WatcherRefreshFailsFeeds ==
  ASSUME FeedInv, WatcherRefreshFails
  PROVE  FeedInv'
<1>1. FilesOK'
  BY OperatorTypes DEF FeedInv, TypeOK, FilesOK, WatcherRefreshFails, RefreshPaths, SyncPathsFromDisk, Requeued
<1>2. ReportsOK'
  BY OperatorTypes DEF FeedInv, TypeOK, ReportsOK, PublishesOK, WatcherRefreshFails, RefreshPaths, SyncPathsFromDisk, Requeued
<1>3. LoopOK'
  BY DEF FeedInv, TypeOK, LoopOK, WatcherRefreshFails, RefreshPaths, SyncPathsFromDisk, Requeued
<1>4. WatchOK'
  BY DEF FeedInv, TypeOK, WatchOK, WatcherRefreshFails, RefreshPaths, SyncPathsFromDisk, Requeued
<1>5. PublishesOK'
  BY OperatorTypes DEF FeedInv, TypeOK, ReportsOK, PublishesOK, WatcherRefreshFails, RefreshPaths, SyncPathsFromDisk, Requeued
<1>6. FlagsOK'
  BY Zenon DEF FeedInv, TypeOK, FlagsOK, WatcherRefreshFails, RefreshPaths, SyncPathsFromDisk, Requeued
<1>7. PublishLock'
  BY DEF FeedInv, TypeOK, LoopOK, WatchOK, PublishesOK, ReportsOK, PublishLock, Publishers, WatcherRefreshFails, RefreshPaths, SyncPathsFromDisk, Requeued
<1>8. Publishers'
  BY DEF FeedInv, TypeOK, LoopOK, WatchOK, PublishesOK, PublishLock, Publishers, WatcherRefreshFails, RefreshPaths, SyncPathsFromDisk, Requeued
<1> QED  BY <1>1, <1>2, <1>3, <1>4, <1>5, <1>6, <1>7, <1>8 DEF FeedInv, TypeOK

LEMMA WatcherCallbackFeeds ==
  ASSUME FeedInv, WatcherCallback
  PROVE  FeedInv'
<1>1. FilesOK'
  BY OperatorTypes DEF FeedInv, TypeOK, FilesOK, WatcherCallback
<1>2. ReportsOK'
  BY OperatorTypes DEF FeedInv, TypeOK, ReportsOK, PublishesOK, WatcherCallback
<1>3. LoopOK'
  BY DEF FeedInv, TypeOK, LoopOK, WatcherCallback
<1>4. WatchOK'
  BY DEF FeedInv, TypeOK, WatchOK, WatcherCallback
<1>5. PublishesOK'
  BY OperatorTypes DEF FeedInv, TypeOK, ReportsOK, PublishesOK, WatcherCallback
<1>6. FlagsOK'
  BY Zenon DEF FeedInv, TypeOK, FlagsOK, WatcherCallback
<1>7. PublishLock'
  BY DEF FeedInv, TypeOK, LoopOK, WatchOK, PublishesOK, ReportsOK, PublishLock, Publishers, WatcherCallback
<1>8. Publishers'
  BY DEF FeedInv, TypeOK, LoopOK, WatchOK, PublishesOK, PublishLock, Publishers, WatcherCallback
<1> QED  BY <1>1, <1>2, <1>3, <1>4, <1>5, <1>6, <1>7, <1>8 DEF FeedInv, TypeOK

LEMMA RefuseMessageFeeds ==
  ASSUME FeedInv, RefuseMessage
  PROVE  FeedInv'
<1>1. FilesOK'
  BY OperatorTypes DEF FeedInv, TypeOK, FilesOK, RefuseMessage, Reading
<1>2. ReportsOK'
  BY OperatorTypes DEF FeedInv, TypeOK, ReportsOK, PublishesOK, RefuseMessage, Reading
<1>3. LoopOK'
  BY DEF FeedInv, TypeOK, LoopOK, RefuseMessage, Reading
<1>4. WatchOK'
  BY DEF FeedInv, TypeOK, WatchOK, RefuseMessage, Reading
<1>5. PublishesOK'
  BY OperatorTypes DEF FeedInv, TypeOK, ReportsOK, PublishesOK, RefuseMessage, Reading
<1>6. FlagsOK'
  BY Zenon DEF FeedInv, TypeOK, FlagsOK, RefuseMessage, Reading
<1>7. PublishLock'
  BY DEF FeedInv, TypeOK, LoopOK, WatchOK, PublishesOK, ReportsOK, PublishLock, Publishers, RefuseMessage, Reading
<1>8. Publishers'
  BY DEF FeedInv, TypeOK, LoopOK, WatchOK, PublishesOK, PublishLock, Publishers, RefuseMessage, Reading
<1> QED  BY <1>1, <1>2, <1>3, <1>4, <1>5, <1>6, <1>7, <1>8 DEF FeedInv, TypeOK

LEMMA LeaveServerFeeds ==
  ASSUME FeedInv, LeaveServer
  PROVE  FeedInv'
<1>1. FilesOK'
  BY OperatorTypes DEF FeedInv, TypeOK, FilesOK, LeaveServer, Reading, Goto
<1>2. ReportsOK'
  BY OperatorTypes DEF FeedInv, TypeOK, ReportsOK, PublishesOK, LeaveServer, Reading, Goto
<1>3. LoopOK'
  BY DEF FeedInv, TypeOK, LoopOK, LeaveServer, Reading, Goto
<1>4. WatchOK'
  BY DEF FeedInv, TypeOK, WatchOK, LeaveServer, Reading, Goto
<1>5. PublishesOK'
  BY OperatorTypes DEF FeedInv, TypeOK, ReportsOK, PublishesOK, LeaveServer, Reading, Goto
<1>6. FlagsOK'
  BY Zenon DEF FeedInv, TypeOK, FlagsOK, LeaveServer, Reading, Goto
<1>7. PublishLock'
  BY DEF FeedInv, TypeOK, LoopOK, WatchOK, PublishesOK, ReportsOK, PublishLock, Publishers, LeaveServer, Reading, Goto
<1>8. Publishers'
  BY DEF FeedInv, TypeOK, LoopOK, WatchOK, PublishesOK, PublishLock, Publishers, LeaveServer, Reading, Goto
<1> QED  BY <1>1, <1>2, <1>3, <1>4, <1>5, <1>6, <1>7, <1>8 DEF FeedInv, TypeOK

LEMMA ReadInitializeFeeds ==
  ASSUME FeedInv, ReadInitialize
  PROVE  FeedInv'
<1>1. FilesOK'
  BY OperatorTypes DEF FeedInv, TypeOK, FilesOK, ReadInitialize, Reading, Goto
<1>2. ReportsOK'
  BY OperatorTypes DEF FeedInv, TypeOK, ReportsOK, PublishesOK, ReadInitialize, Reading, Goto
<1>3. LoopOK'
  BY DEF FeedInv, TypeOK, LoopOK, ReadInitialize, Reading, Goto
<1>4. WatchOK'
  BY DEF FeedInv, TypeOK, WatchOK, ReadInitialize, Reading, Goto
<1>5. PublishesOK'
  BY OperatorTypes DEF FeedInv, TypeOK, ReportsOK, PublishesOK, ReadInitialize, Reading, Goto
<1>6. FlagsOK'
  BY Zenon DEF FeedInv, TypeOK, FlagsOK, ReadInitialize, Reading, Goto
<1>7. PublishLock'
  BY DEF FeedInv, TypeOK, LoopOK, WatchOK, PublishesOK, ReportsOK, PublishLock, Publishers, ReadInitialize, Reading, Goto
<1>8. Publishers'
  BY DEF FeedInv, TypeOK, LoopOK, WatchOK, PublishesOK, PublishLock, Publishers, ReadInitialize, Reading, Goto
<1> QED  BY <1>1, <1>2, <1>3, <1>4, <1>5, <1>6, <1>7, <1>8 DEF FeedInv, TypeOK

LEMMA InitializeSessionFeeds ==
  ASSUME FeedInv, InitializeSession
  PROVE  FeedInv'
<1>1. FilesOK'
  BY OperatorTypes DEF FeedInv, TypeOK, FilesOK, InitializeSession, Goto, Reply
<1>2. ReportsOK'
  BY OperatorTypes DEF FeedInv, TypeOK, ReportsOK, PublishesOK, InitializeSession, Goto, Reply
<1>3. LoopOK'
  BY DEF FeedInv, TypeOK, LoopOK, InitializeSession, Goto, Reply
<1>4. WatchOK'
  BY DEF FeedInv, TypeOK, WatchOK, InitializeSession, Goto, Reply
<1>5. PublishesOK'
  BY OperatorTypes DEF FeedInv, TypeOK, ReportsOK, PublishesOK, InitializeSession, Goto, Reply
<1>6. FlagsOK'
  BY Zenon DEF FeedInv, TypeOK, FlagsOK, InitializeSession, Goto, Reply
<1>7. PublishLock'
  BY DEF FeedInv, TypeOK, LoopOK, WatchOK, PublishesOK, ReportsOK, PublishLock, Publishers, InitializeSession, Goto, Reply
<1>8. Publishers'
  BY DEF FeedInv, TypeOK, LoopOK, WatchOK, PublishesOK, PublishLock, Publishers, InitializeSession, Goto, Reply
<1> QED  BY <1>1, <1>2, <1>3, <1>4, <1>5, <1>6, <1>7, <1>8 DEF FeedInv, TypeOK

LEMMA InitializeWatcherFeeds ==
  ASSUME FeedInv, InitializeWatcher
  PROVE  FeedInv'
<1>1. FilesOK'
  BY OperatorTypes DEF FeedInv, TypeOK, FilesOK, InitializeWatcher, Goto, Reply, Baseline
<1>2. ReportsOK'
  BY OperatorTypes DEF FeedInv, TypeOK, ReportsOK, PublishesOK, InitializeWatcher, Goto, Reply, Baseline
<1>3. LoopOK'
  BY DEF FeedInv, TypeOK, LoopOK, InitializeWatcher, Goto, Reply, Baseline
<1>4. WatchOK'
  <2>1. CASE watch' = [NotWatching EXCEPT !.at = "poll", !.snapshot = Baseline]
    BY <2>1 DEF WatchOK
  <2>2. CASE watch' = NotWatching
    BY <2>2 DEF WatchOK
  <2> QED  BY <2>1, <2>2 DEF FeedInv, TypeOK, WatchOK, InitializeWatcher
<1>5. PublishesOK'
  BY OperatorTypes DEF FeedInv, TypeOK, ReportsOK, PublishesOK, InitializeWatcher, Goto, Reply, Baseline
<1>6. FlagsOK'
  BY Zenon DEF FeedInv, TypeOK, FlagsOK, InitializeWatcher, Goto, Reply, Baseline
<1>7. PublishLock'
  BY DEF FeedInv, TypeOK, LoopOK, WatchOK, PublishesOK, ReportsOK, PublishLock, Publishers, InitializeWatcher, Goto, Reply, Baseline
<1>8. Publishers'
  <2>1. pub' = pub /\ pub["loop"].at = "off" /\ pub["watch"].at = "off"
    BY DEF FeedInv, Publishers, InitializeWatcher
  <2>2. watch'.at # "publish" /\ loop'.at \notin {"publish", "init", "watcher"}
    <3>1. CASE Goto("stop") /\ UNCHANGED watch
      BY <3>1 DEF FeedInv, TypeOK, LoopOK, Publishers, InitializeWatcher, Goto
    <3>2. CASE Reply /\ watch' = NotWatching
      BY <3>2 DEF Reply
    <3>3. CASE Reply /\ watch' = [NotWatching EXCEPT !.at = "poll", !.snapshot = Baseline]
      BY <3>3 DEF Reply
    <3> QED  BY <3>1, <3>2, <3>3 DEF InitializeWatcher
  <2>3. life' = "new" => watch' = NotWatching
    BY DEF FeedInv, Publishers, InitializeWatcher
  <2> QED  BY <2>1, <2>2, <2>3 DEF Publishers
<1> QED  BY <1>1, <1>2, <1>3, <1>4, <1>5, <1>6, <1>7, <1>8 DEF FeedInv, TypeOK

LEMMA NotifiedFeeds ==
  ASSUME FeedInv, Notified
  PROVE  FeedInv'
<1>1. FilesOK'
  <2>1. ASSUME NEW p \in Openable, NEW text \in TextsOf(p), SetOverlay(p, text)
        PROVE  mirror' \in Files /\ overlays' \in Files
    <3>1. p \in Paths /\ text \in Texts
      OBVIOUS
    <3> QED  BY <2>1, <3>1 DEF SetOverlay, FeedInv, TypeOK, FilesOK
  <2>2. ASSUME NEW p \in Openable, ClearOverlay(p)
        PROVE  mirror' \in Files /\ overlays' \in Files
    BY <2>2, OperatorTypes DEF ClearOverlay, SyncPathsFromDisk, FeedInv, TypeOK, FilesOK
  <2>3. ASSUME NEW p \in Paths, RefreshPaths({p})
        PROVE  mirror' \in Files /\ overlays' \in Files
    BY <2>3, OperatorTypes DEF RefreshPaths, SyncPathsFromDisk, FeedInv, TypeOK, FilesOK
  <2> HIDE DEF Files
  <2> QED  BY <2>1, <2>2, <2>3 DEF Notified, FeedInv, TypeOK, FilesOK
<1>2. ReportsOK'
  BY OperatorTypes DEF FeedInv, TypeOK, ReportsOK, PublishesOK, Notified, Reading, PublishNow, Goto, SetOverlay, ClearOverlay, RefreshPaths, SyncPathsFromDisk
<1>3. LoopOK'
  BY DEF FeedInv, TypeOK, LoopOK, Notified, Reading, PublishNow, Goto, SetOverlay, ClearOverlay, RefreshPaths, SyncPathsFromDisk
<1>4. WatchOK'
  BY DEF FeedInv, TypeOK, WatchOK, Notified, Reading, PublishNow, Goto, SetOverlay, ClearOverlay, RefreshPaths, SyncPathsFromDisk
<1>5. PublishesOK'
  BY OperatorTypes DEF FeedInv, TypeOK, ReportsOK, PublishesOK, Notified, Reading, PublishNow, Goto, SetOverlay, ClearOverlay, RefreshPaths, SyncPathsFromDisk
<1>6. FlagsOK'
  BY Zenon DEF FeedInv, TypeOK, FlagsOK, Notified, Reading, PublishNow, Goto, SetOverlay, ClearOverlay, RefreshPaths, SyncPathsFromDisk
<1>7. PublishLock'
  BY DEF FeedInv, TypeOK, LoopOK, WatchOK, PublishesOK, ReportsOK, PublishLock, Publishers, Notified, Reading, PublishNow, Goto, SetOverlay, ClearOverlay, RefreshPaths, SyncPathsFromDisk
<1>8. Publishers'
  BY DEF FeedInv, TypeOK, LoopOK, WatchOK, PublishesOK, PublishLock, Publishers, Notified, Reading, PublishNow, Goto, SetOverlay, ClearOverlay, RefreshPaths, SyncPathsFromDisk
<1> QED  BY <1>1, <1>2, <1>3, <1>4, <1>5, <1>6, <1>7, <1>8 DEF FeedInv, TypeOK

LEMMA ReadRequestFeeds ==
  ASSUME FeedInv, ReadRequest
  PROVE  FeedInv'
<1>1. FilesOK'
  BY OperatorTypes DEF FeedInv, TypeOK, FilesOK, ReadRequest, Reading
<1>2. ReportsOK'
  BY OperatorTypes DEF FeedInv, TypeOK, ReportsOK, PublishesOK, ReadRequest, Reading
<1>3. LoopOK'
  BY DEF FeedInv, TypeOK, LoopOK, ReadRequest, Reading
<1>4. WatchOK'
  BY DEF FeedInv, TypeOK, WatchOK, ReadRequest, Reading
<1>5. PublishesOK'
  BY OperatorTypes DEF FeedInv, TypeOK, ReportsOK, PublishesOK, ReadRequest, Reading
<1>6. FlagsOK'
  BY Zenon DEF FeedInv, TypeOK, FlagsOK, ReadRequest, Reading
<1>7. PublishLock'
  BY DEF FeedInv, TypeOK, LoopOK, WatchOK, PublishesOK, ReportsOK, PublishLock, Publishers, ReadRequest, Reading
<1>8. Publishers'
  BY DEF FeedInv, TypeOK, LoopOK, WatchOK, PublishesOK, PublishLock, Publishers, ReadRequest, Reading
<1> QED  BY <1>1, <1>2, <1>3, <1>4, <1>5, <1>6, <1>7, <1>8 DEF FeedInv, TypeOK

LEMMA ConvertParamsFeeds ==
  ASSUME FeedInv, ConvertParams
  PROVE  FeedInv'
<1>1. FilesOK'
  BY OperatorTypes DEF FeedInv, TypeOK, FilesOK, ConvertParams, Reply
<1>2. ReportsOK'
  BY OperatorTypes DEF FeedInv, TypeOK, ReportsOK, PublishesOK, ConvertParams, Reply
<1>3. LoopOK'
  <2>1. CASE Reply
    BY <2>1 DEF Reply, LoopOK
  <2>2. CASE loop' = [loop EXCEPT !.at = "request", !.texts = @ \cup {SourceText(loop.path)}]
    BY <2>2 DEF FeedInv, TypeOK, LoopOK
  <2> QED  BY <2>1, <2>2 DEF ConvertParams
<1>4. WatchOK'
  BY DEF FeedInv, TypeOK, WatchOK, ConvertParams, Reply
<1>5. PublishesOK'
  BY OperatorTypes DEF FeedInv, TypeOK, ReportsOK, PublishesOK, ConvertParams, Reply
<1>6. FlagsOK'
  BY Zenon DEF FeedInv, TypeOK, FlagsOK, ConvertParams, Reply
<1>7. PublishLock'
  BY DEF FeedInv, TypeOK, LoopOK, WatchOK, PublishesOK, ReportsOK, PublishLock, Publishers, ConvertParams, Reply
<1>8. Publishers'
  <2>1. loop.at # "publish" /\ loop'.at \in {"read", "request"}
    <3>1. CASE Reply
      BY <3>1 DEF ConvertParams, Reply
    <3>2. CASE loop' = [loop EXCEPT !.at = "request", !.texts = @ \cup {SourceText(loop.path)}]
      BY <3>2 DEF FeedInv, TypeOK, LoopOK, ConvertParams
    <3> QED  BY <3>1, <3>2 DEF ConvertParams
  <2> QED  BY <2>1 DEF FeedInv, Publishers, ConvertParams
<1> QED  BY <1>1, <1>2, <1>3, <1>4, <1>5, <1>6, <1>7, <1>8 DEF FeedInv, TypeOK

LEMMA HandlerCallFeeds ==
  ASSUME FeedInv, HandlerCall
  PROVE  FeedInv'
<1>1. FilesOK'
  BY OperatorTypes DEF FeedInv, TypeOK, FilesOK, HandlerCall, Repaired
<1>2. ReportsOK'
  BY OperatorTypes DEF FeedInv, TypeOK, ReportsOK, PublishesOK, HandlerCall, Repaired
<1>3. LoopOK'
  BY DEF FeedInv, TypeOK, LoopOK, HandlerCall, Repaired
<1>4. WatchOK'
  BY DEF FeedInv, TypeOK, WatchOK, HandlerCall, Repaired
<1>5. PublishesOK'
  BY OperatorTypes DEF FeedInv, TypeOK, ReportsOK, PublishesOK, HandlerCall, Repaired
<1>6. FlagsOK'
  BY Zenon DEF FeedInv, TypeOK, FlagsOK, HandlerCall, Repaired
<1>7. PublishLock'
  BY DEF FeedInv, TypeOK, LoopOK, WatchOK, PublishesOK, ReportsOK, PublishLock, Publishers, HandlerCall, Repaired
<1>8. Publishers'
  BY DEF FeedInv, TypeOK, LoopOK, WatchOK, PublishesOK, PublishLock, Publishers, HandlerCall, Repaired
<1> QED  BY <1>1, <1>2, <1>3, <1>4, <1>5, <1>6, <1>7, <1>8 DEF FeedInv, TypeOK

LEMMA ConvertResultFeeds ==
  ASSUME FeedInv, ConvertResult
  PROVE  FeedInv'
<1>1. FilesOK'
  BY OperatorTypes DEF FeedInv, TypeOK, FilesOK, ConvertResult
<1>2. ReportsOK'
  BY OperatorTypes DEF FeedInv, TypeOK, ReportsOK, PublishesOK, ConvertResult
<1>3. LoopOK'
  BY DEF FeedInv, TypeOK, LoopOK, ConvertResult
<1>4. WatchOK'
  BY DEF FeedInv, TypeOK, WatchOK, ConvertResult
<1>5. PublishesOK'
  BY OperatorTypes DEF FeedInv, TypeOK, ReportsOK, PublishesOK, ConvertResult
<1>6. FlagsOK'
  BY Zenon DEF FeedInv, TypeOK, FlagsOK, ConvertResult
<1>7. PublishLock'
  BY DEF FeedInv, TypeOK, LoopOK, WatchOK, PublishesOK, ReportsOK, PublishLock, Publishers, ConvertResult
<1>8. Publishers'
  BY DEF FeedInv, TypeOK, LoopOK, WatchOK, PublishesOK, PublishLock, Publishers, ConvertResult
<1> QED  BY <1>1, <1>2, <1>3, <1>4, <1>5, <1>6, <1>7, <1>8 DEF FeedInv, TypeOK

LEMMA AnswerRequestFeeds ==
  ASSUME FeedInv, AnswerRequest
  PROVE  FeedInv'
<1>1. FilesOK'
  BY OperatorTypes DEF FeedInv, TypeOK, FilesOK, AnswerRequest, Reply
<1>2. ReportsOK'
  BY OperatorTypes DEF FeedInv, TypeOK, ReportsOK, PublishesOK, AnswerRequest, Reply
<1>3. LoopOK'
  BY DEF FeedInv, TypeOK, LoopOK, AnswerRequest, Reply
<1>4. WatchOK'
  BY DEF FeedInv, TypeOK, WatchOK, AnswerRequest, Reply
<1>5. PublishesOK'
  BY OperatorTypes DEF FeedInv, TypeOK, ReportsOK, PublishesOK, AnswerRequest, Reply
<1>6. FlagsOK'
  BY Zenon DEF FeedInv, TypeOK, FlagsOK, AnswerRequest, Reply
<1>7. PublishLock'
  BY DEF FeedInv, TypeOK, LoopOK, WatchOK, PublishesOK, ReportsOK, PublishLock, Publishers, AnswerRequest, Reply
<1>8. Publishers'
  BY DEF FeedInv, TypeOK, LoopOK, WatchOK, PublishesOK, PublishLock, Publishers, AnswerRequest, Reply
<1> QED  BY <1>1, <1>2, <1>3, <1>4, <1>5, <1>6, <1>7, <1>8 DEF FeedInv, TypeOK

LEMMA ReadShutdownFeeds ==
  ASSUME FeedInv, ReadShutdown
  PROVE  FeedInv'
<1>1. FilesOK'
  BY OperatorTypes DEF FeedInv, TypeOK, FilesOK, ReadShutdown, Reading, Goto
<1>2. ReportsOK'
  BY OperatorTypes DEF FeedInv, TypeOK, ReportsOK, PublishesOK, ReadShutdown, Reading, Goto
<1>3. LoopOK'
  BY DEF FeedInv, TypeOK, LoopOK, ReadShutdown, Reading, Goto
<1>4. WatchOK'
  BY DEF FeedInv, TypeOK, WatchOK, ReadShutdown, Reading, Goto
<1>5. PublishesOK'
  BY OperatorTypes DEF FeedInv, TypeOK, ReportsOK, PublishesOK, ReadShutdown, Reading, Goto
<1>6. FlagsOK'
  BY Zenon DEF FeedInv, TypeOK, FlagsOK, ReadShutdown, Reading, Goto
<1>7. PublishLock'
  BY DEF FeedInv, TypeOK, LoopOK, WatchOK, PublishesOK, ReportsOK, PublishLock, Publishers, ReadShutdown, Reading, Goto
<1>8. Publishers'
  BY DEF FeedInv, TypeOK, LoopOK, WatchOK, PublishesOK, PublishLock, Publishers, ReadShutdown, Reading, Goto
<1> QED  BY <1>1, <1>2, <1>3, <1>4, <1>5, <1>6, <1>7, <1>8 DEF FeedInv, TypeOK

LEMMA TeardownFeeds ==
  ASSUME FeedInv, Teardown
  PROVE  FeedInv'
<1>1. FilesOK'
  BY OperatorTypes DEF FeedInv, TypeOK, FilesOK, Teardown, Goto, Reply
<1>2. ReportsOK'
  BY OperatorTypes DEF FeedInv, TypeOK, ReportsOK, PublishesOK, Teardown, Goto, Reply
<1>3. LoopOK'
  BY DEF FeedInv, TypeOK, LoopOK, Teardown, Goto, Reply
<1>4. WatchOK'
  BY DEF FeedInv, TypeOK, WatchOK, Teardown, Goto, Reply
<1>5. PublishesOK'
  BY OperatorTypes DEF FeedInv, TypeOK, ReportsOK, PublishesOK, Teardown, Goto, Reply
<1>6. FlagsOK'
  BY Zenon DEF FeedInv, TypeOK, FlagsOK, Teardown, Goto, Reply
<1>7. PublishLock'
  BY DEF FeedInv, TypeOK, LoopOK, WatchOK, PublishesOK, ReportsOK, PublishLock, Publishers, Teardown, Goto, Reply
<1>8. Publishers'
  BY DEF FeedInv, TypeOK, LoopOK, WatchOK, PublishesOK, PublishLock, Publishers, Teardown, Goto, Reply
<1> QED  BY <1>1, <1>2, <1>3, <1>4, <1>5, <1>6, <1>7, <1>8 DEF FeedInv, TypeOK

LEMMA JoinGivesUpFeeds ==
  ASSUME FeedInv, JoinGivesUp
  PROVE  FeedInv'
<1>1. FilesOK'
  BY OperatorTypes DEF FeedInv, TypeOK, FilesOK, JoinGivesUp, Goto, Reply
<1>2. ReportsOK'
  BY OperatorTypes DEF FeedInv, TypeOK, ReportsOK, PublishesOK, JoinGivesUp, Goto, Reply
<1>3. LoopOK'
  BY DEF FeedInv, TypeOK, LoopOK, JoinGivesUp, Goto, Reply
<1>4. WatchOK'
  BY DEF FeedInv, TypeOK, WatchOK, JoinGivesUp, Goto, Reply
<1>5. PublishesOK'
  BY OperatorTypes DEF FeedInv, TypeOK, ReportsOK, PublishesOK, JoinGivesUp, Goto, Reply
<1>6. FlagsOK'
  BY Zenon DEF FeedInv, TypeOK, FlagsOK, JoinGivesUp, Goto, Reply
<1>7. PublishLock'
  BY DEF FeedInv, TypeOK, LoopOK, WatchOK, PublishesOK, ReportsOK, PublishLock, Publishers, JoinGivesUp, Goto, Reply
<1>8. Publishers'
  BY DEF FeedInv, TypeOK, LoopOK, WatchOK, PublishesOK, PublishLock, Publishers, JoinGivesUp, Goto, Reply
<1> QED  BY <1>1, <1>2, <1>3, <1>4, <1>5, <1>6, <1>7, <1>8 DEF FeedInv, TypeOK

LEMMA NextFeeds ==
  ASSUME FeedInv, [Next]_vars
  PROVE  FeedInv'
<1>1. ASSUME NEW t \in {"loop", "watch"}, Publish(t)
      PROVE  FeedInv'
  BY <1>1, PublishEnterFeeds, PublishAnalyzeFeeds, PublishConvertFeeds, PublishWriteFeeds
  DEF Publish
<1>2. CASE Read
  BY <1>2, RefuseMessageFeeds, LeaveServerFeeds, ReadInitializeFeeds, NotifiedFeeds,
     ReadRequestFeeds, ReadShutdownFeeds
  DEF Read
<1>3. CASE LoopStep
  BY <1>1, <1>3, InitializeSessionFeeds, InitializeWatcherFeeds, ConvertParamsFeeds,
     HandlerCallFeeds, ConvertResultFeeds, AnswerRequestFeeds, TeardownFeeds
  DEF LoopStep
<1>4. CASE WatcherStep
  BY <1>1, <1>4, PollOnceFeeds, WatcherRefreshFeeds, WatcherCallbackFeeds DEF WatcherStep
<1>5. CASE UNCHANGED vars
  BY <1>5 DEF vars, FeedInv, TypeOK, FilesOK, ReportsOK, LoopOK, WatchOK, PublishesOK, FlagsOK,
     PublishLock, Publishers
<1> QED  BY <1>2, <1>3, <1>4, <1>5, WatcherRefreshFailsFeeds, JoinGivesUpFeeds, EditDiskFeeds
         DEF Next

LEMMA InitFeeds ==
  ASSUME Init
  PROVE  FeedInv
<1>1. FilesOK /\ ReportsOK
  BY DEF Init, FilesOK, ReportsOK, None, Nothing
<1>2. LoopOK /\ WatchOK
  BY DEF Init, LoopOK, WatchOK
<1>3. PublishesOK
  BY DEF Init, PublishesOK, Nothing
<1>4. FlagsOK
  BY Zenon DEF Init, FlagsOK
<1>5. PublishLock /\ Publishers
  BY DEF Init, PublishLock, Publishers
<1> QED  BY <1>1, <1>2, <1>3, <1>4, <1>5 DEF FeedInv, TypeOK

-----------------------------------------------------------------------------
(* The refinement.                                                          *)

\* A step of a publish analyses, tells, or changes nothing the feed shows.
LEMMA PublishRefines ==
  ASSUME FeedInv, NEW t \in {"loop", "watch"}, Publish(t)
  PROVE  [Feed!FeedNext]_(Feed!feedVars)
<1>1. CASE PublishEnter(t) \/ PublishConvert(t)
  BY <1>1 DEF PublishEnter, PublishConvert, Feed!feedVars
<1>2. CASE PublishAnalyze(t)
  BY <1>2, OperatorTypes DEF FeedInv, PublishAnalyze, Feed!FeedNext, Feed!Analyse, Feed!feedVars
<1>3. CASE PublishWrite(t)
  <2> DEFINE p == NextPath(t)
  <2>1. CASE attached /\ p \in Paths
    <3>1. client' = [client EXCEPT ![p] = analysed[p]]
      BY <1>3, <2>1 DEF FeedInv, PublishLock, PublishWrite
    <3>2. Feed!Tell(p)
      BY <1>3, <2>1, <3>1 DEF PublishWrite, Feed!Tell
    <3> QED  BY <2>1, <3>2 DEF Feed!FeedNext
  <2>2. CASE ~attached \/ p \notin Paths
    <3>1. client' = client
      BY <1>3, <2>2 DEF FeedInv, TypeOK, ReportsOK, PublishWrite
    <3> QED  BY <1>3, <3>1 DEF PublishWrite, Feed!feedVars
  <2> QED  BY <2>1, <2>2
<1> QED  BY <1>1, <1>2, <1>3 DEF Publish

\* Every other step leaves the reports alone, and may open or close.
LEMMA OthersRefine ==
  ASSUME FeedInv, [Next]_vars, ~Publish("loop"), ~Publish("watch")
  PROVE  [Feed!FeedNext]_(Feed!feedVars)
<1>1. UNCHANGED <<analysed, client>>
  <2>1. CASE Read
    BY <2>1 DEF Read, RefuseMessage, LeaveServer, ReadInitialize, Notified, ReadRequest,
       ReadShutdown
  <2>2. CASE LoopStep
    BY <2>2 DEF LoopStep, InitializeSession, InitializeWatcher, ConvertParams, HandlerCall,
       ConvertResult, AnswerRequest, Teardown
  <2>3. CASE WatcherStep \/ WatcherRefreshFails
    BY <2>3 DEF WatcherStep, PollOnce, WatcherRefresh, WatcherCallback, WatcherRefreshFails
  <2> QED  BY <2>1, <2>2, <2>3 DEF Next, JoinGivesUp, EditDisk, vars
<1>2. attached' \in BOOLEAN
  BY NextFeeds, Zenon DEF FeedInv, TypeOK, FlagsOK
<1>3. attached' = attached \/ attached' = ~attached
  BY <1>2, Zenon DEF FeedInv, TypeOK, FlagsOK
<1> QED  BY <1>1, <1>3 DEF Feed!FeedNext, Feed!OpenOrClose, Feed!feedVars

\* The server implements the feed, whatever the workspace, the analysis and the
\* interleaving of the request loop, the watcher and people's edits: nothing
\* stale is sent after something newer, nothing once the session is detached.
THEOREM ServerFeeds == Spec => ImplementsTheFeed
<1>1. Init => Feed!FeedInit
  BY DEF Init, Nothing, Feed!FeedInit
<1>2. Init => FeedInv
  BY InitFeeds
<1>3. FeedInv /\ [Next]_vars => FeedInv'
  BY NextFeeds
<1>4. FeedInv /\ [Next]_vars => [Feed!FeedNext]_(Feed!feedVars)
  BY PublishRefines, OthersRefine
<1> QED  BY <1>1, <1>2, <1>3, <1>4, PTL DEF Spec, ImplementsTheFeed, Feed!FeedSpec

-----------------------------------------------------------------------------
(* One text.                                                                *)

\* The include closure stays within what some text includes.
LEMMA IncludedApart ==
  ASSUME OpenApart, NEW d \in Files
  PROVE  RequirementsReferences(d) \cap Openable = {}
<1> DEFINE X == {Requirements} \cup UNION {References(text) : text \in Texts}
<1>1. X \in SUBSET Paths
  OBVIOUS
<1>2. IncludeClosed(d, X)
  <2>1. ASSUME NEW p \in X, d[p] # Missing  PROVE References(d[p]) \subseteq X
    BY <1>1, <2>1
  <2> QED  BY <2>1 DEF IncludeClosed, Reached
<1>3. ASSUME NEW p \in RequirementsReferences(d)  PROVE p \notin Openable
  <2>1. p \in X /\ p # Requirements
    BY <1>1, <1>2, <1>3 DEF RequirementsReferences
  <2> QED  BY <2>1 DEF OpenApart
<1> QED  BY <1>3

\* A sync of paths that are not open, or are being closed, keeps the editor's
\* texts in the mirror.
LEMMA SyncKeeps ==
  ASSUME OpenApart, TextInv, NEW S, SyncPathsFromDisk(S),
         \A p \in Paths : overlays'[p] # Missing => overlays'[p] = overlays[p] /\ p \notin S
  PROVE  MirrorsEditor'
<1>1. RequirementsReferences(disk) \cap Openable = {} /\ refs \cap Openable = {}
  BY IncludedApart DEF TextInv, FeedInv, TypeOK, FilesOK, MirrorsEditor
<1>2. refs' \cap Openable = {}
  BY <1>1 DEF SyncPathsFromDisk
<1>3. ASSUME NEW p \in Paths, overlays'[p] # Missing
      PROVE  p \in Openable /\ mirror'[p] = overlays'[p]
  <2>1. p \in Openable /\ mirror[p] = overlays[p] /\ overlays'[p] = overlays[p] /\ p \notin S
    BY <1>3 DEF TextInv, MirrorsEditor
  <2>2. Synced(S)[p] = mirror[p]
    BY <1>1, <2>1 DEF Synced, AddedReferences, RemovedReferences
  <2> QED  BY <2>1, <2>2 DEF SyncPathsFromDisk
<1> QED  BY <1>2, <1>3 DEF MirrorsEditor

LEMMA RefreshKeeps ==
  ASSUME OpenApart, TextInv, NEW S, RefreshPaths(S)
  PROVE  MirrorsEditor' /\ UNCHANGED <<overlays, closed>>
BY SyncKeeps DEF RefreshPaths, Unopened

\* A step that leaves the loop and its session alone but for the mirror.
LEMMA LoopKeeps ==
  ASSUME TextInv, FeedInv', MirrorsEditor', UNCHANGED <<overlays, closed, life, loop, owed>>
  PROVE  TextInv'
BY DEF TextInv, Serial, RequestOK, OpenDocumentsAnswerFromOneText

LEMMA BesidesTheLoop ==
  ASSUME OpenApart, TextInv, FeedInv',
         WatcherStep \/ WatcherRefreshFails \/ EditDisk \/ RefuseMessage \/ UNCHANGED vars
  PROVE  TextInv'
<1>1. CASE WatcherRefresh /\ ~closed
  BY <1>1, RefreshKeeps, LoopKeeps DEF WatcherRefresh
<1>2. CASE WatcherRefreshFails
  BY <1>2, RefreshKeeps, LoopKeeps DEF WatcherRefreshFails
<1>3. CASE (WatcherRefresh /\ closed) \/ PollOnce \/ WatcherCallback \/ EditDisk \/ RefuseMessage
           \/ UNCHANGED vars
  <2>1. UNCHANGED <<session, life, loop, owed>>
    BY <1>3 DEF WatcherRefresh, PollOnce, WatcherCallback, EditDisk, RefuseMessage, vars
  <2> QED  BY <2>1, LoopKeeps DEF TextInv, MirrorsEditor
<1>4. CASE Publish("watch")
  <2>1. UNCHANGED <<session, life, loop, owed>>
    BY <1>4 DEF Publish, PublishEnter, PublishAnalyze, PublishConvert, PublishWrite, Skip, Leave
  <2> QED  BY <2>1, LoopKeeps DEF TextInv, MirrorsEditor
<1> QED  BY <1>1, <1>2, <1>3, <1>4 DEF WatcherStep

\* The loop goes on to a step of its own that handles no document.
LEMMA LoopMoves ==
  ASSUME TextInv, FeedInv', Serial', UNCHANGED <<mirror, overlays, refs>>,
         loop'.at \notin {"convert", "request", "result"}
  PROVE  TextInv'
BY DEF TextInv, MirrorsEditor, RequestOK, OpenDocumentsAnswerFromOneText

LEMMA ControlTexts ==
  ASSUME TextInv, FeedInv',
         LeaveServer \/ ReadInitialize \/ InitializeWatcher \/ AnswerRequest \/ ReadShutdown
         \/ Teardown \/ JoinGivesUp
  PROVE  TextInv'
<1> USE DEF TextInv, FeedInv, TypeOK, LoopOK, Serial, TornDown, Reading, Goto, Reply
<1>1. CASE LeaveServer
  BY <1>1, LoopMoves DEF LeaveServer
<1>2. CASE ReadInitialize
  BY <1>2, LoopMoves DEF ReadInitialize
<1>3. CASE InitializeWatcher
  BY <1>3, LoopMoves DEF InitializeWatcher, Publishers
<1>4. CASE AnswerRequest
  BY <1>4, LoopMoves DEF AnswerRequest
<1>5. CASE ReadShutdown
  BY <1>5, LoopMoves DEF ReadShutdown
<1>6. CASE Teardown
  BY <1>6, LoopMoves DEF Teardown
<1>7. CASE JoinGivesUp
  BY <1>7, LoopMoves DEF JoinGivesUp
<1> QED  BY <1>1, <1>2, <1>3, <1>4, <1>5, <1>6, <1>7

LEMMA PublishTexts ==
  ASSUME TextInv, FeedInv', Publish("loop")
  PROVE  TextInv'
<1>1. loop.at = "publish" /\ UNCHANGED <<session, life, owed>> /\ loop' \in {loop, Idle}
  BY DEF TextInv, FeedInv, Publishers, Publish, PublishEnter, PublishAnalyze, PublishConvert,
     PublishWrite, Skip, Leave
<1> QED  BY <1>1, LoopMoves DEF TextInv, Serial

\* initialize leaves nothing open; a notification opens, closes or refreshes.
LEMMA SessionTexts ==
  ASSUME OpenApart, TextInv, FeedInv', InitializeSession \/ Notified
  PROVE  TextInv'
<1>1. CASE InitializeSession
  <2>1. CASE Reply /\ UNCHANGED session
    BY <1>1, <2>1, LoopMoves DEF InitializeSession, Reply, TextInv, Serial, FeedInv, Publishers
  <2>2. CASE ~(Reply /\ UNCHANGED session)
    <3>1. /\ overlays' = None /\ refs' = RequirementsReferences(disk) /\ closed' = FALSE
          /\ loop'.at = "watcher" /\ life = "new" /\ owed = 1 /\ UNCHANGED <<life, owed>>
      BY <1>1, <2>2 DEF InitializeSession, Goto, TextInv, Serial, FeedInv, TypeOK, LoopOK,
         Publishers
    <3>2. MirrorsEditor'
      BY <3>1, IncludedApart DEF MirrorsEditor, None, TextInv, FeedInv, TypeOK, FilesOK
    <3> QED  BY <3>1, <3>2 DEF TextInv, Serial, RequestOK, OpenDocumentsAnswerFromOneText
  <2> QED  BY <2>1, <2>2
<1>2. CASE Notified
  <2>1. ASSUME NEW p \in Openable, NEW text \in TextsOf(p), SetOverlay(p, text)
        PROVE  MirrorsEditor' /\ closed' = closed
    BY <2>1 DEF SetOverlay, TextInv, FeedInv, TypeOK, FilesOK, MirrorsEditor
  <2>2. ASSUME NEW p \in Openable, ClearOverlay(p)
        PROVE  MirrorsEditor' /\ closed' = closed
    BY <2>2, SyncKeeps DEF ClearOverlay, TextInv, FeedInv, TypeOK, FilesOK
  <2>3. MirrorsEditor' /\ closed' = closed
    BY <1>2, <2>1, <2>2, RefreshKeeps DEF Notified, TextInv, MirrorsEditor
  <2>4. loop.at = "read" /\ loop'.at = "publish" /\ life = "ready" /\ UNCHANGED <<life, owed>>
    BY <1>2 DEF Notified, Reading, PublishNow, Goto, TextInv, FeedInv, TypeOK, LoopOK
  <2> QED  BY <2>3, <2>4 DEF TextInv, Serial, TornDown, RequestOK, OpenDocumentsAnswerFromOneText
<1> QED  BY <1>1, <1>2

\* The document of a request: no text at first, and then the editor's.
LEMMA RequestTexts ==
  ASSUME TextInv, FeedInv', ReadRequest \/ ConvertParams \/ HandlerCall \/ ConvertResult
  PROVE  TextInv'
<1>1. CASE ReadRequest
  <2>1. /\ loop.at = "read" /\ life = "ready" /\ loop'.at = "convert" /\ loop'.texts = {}
        /\ loop'.path \in Paths
        /\ owed' = owed + 1 /\ UNCHANGED <<session, life>>
    BY <1>1 DEF ReadRequest, Reading
  <2> QED  BY <2>1 DEF TextInv, Serial, TornDown, MirrorsEditor, RequestOK,
              OpenDocumentsAnswerFromOneText
<1>2. CASE ConvertParams /\ Reply
  BY <1>2, LoopMoves DEF ConvertParams, Reply, TextInv, Serial, TornDown
<1>3. CASE (ConvertParams /\ ~Reply) \/ HandlerCall \/ ConvertResult
  <2>1. /\ loop.at \in {"convert", "request"} /\ life = "ready" /\ owed = 1 /\ ~closed
        /\ UNCHANGED <<overlays, refs, closed, life, owed>>
    BY <1>3 DEF ConvertParams, HandlerCall, ConvertResult, TextInv, Serial
  <2>2. /\ loop'.at \in {"request", "result"} /\ loop'.path = loop.path
        /\ loop'.texts \in {loop.texts \cup {SourceText(loop.path)}, loop.texts \cup {mirror[loop.path]}}
    <3>1. CASE ConvertParams /\ ~Reply
      BY <3>1 DEF ConvertParams, TextInv, FeedInv, TypeOK, LoopOK
    <3>2. CASE HandlerCall
      BY <3>2 DEF HandlerCall, TextInv, FeedInv, TypeOK, LoopOK
    <3>3. CASE ConvertResult
      BY <3>3 DEF ConvertResult, TextInv, FeedInv, TypeOK, LoopOK
    <3> QED  BY <1>3, <3>1, <3>2, <3>3
  <2>3. /\ loop.path \in Paths
        /\ overlays[loop.path] # Missing =>
             /\ SourceText(loop.path) = overlays[loop.path]
             /\ mirror[loop.path] = overlays[loop.path]
    BY <2>1 DEF SourceText, TextInv, RequestOK, MirrorsEditor
  <2>4. MirrorsEditor'
    <3>1. CASE mirror' = mirror
      BY <2>1, <3>1 DEF TextInv, MirrorsEditor
    <3>2. CASE mirror' = [mirror EXCEPT ![loop.path] = SourceText(loop.path)]
      BY <2>1, <2>3, <3>2 DEF TextInv, MirrorsEditor, FeedInv, TypeOK, FilesOK
    <3> QED  BY <1>3, <3>1, <3>2 DEF ConvertParams, HandlerCall, ConvertResult, Repaired
  <2>5. OpenDocumentsAnswerFromOneText'
    BY <2>1, <2>2, <2>3 DEF TextInv, RequestOK, OpenDocumentsAnswerFromOneText
  <2> QED  BY <2>1, <2>2, <2>3, <2>4, <2>5 DEF TextInv, Serial, TornDown, RequestOK
<1> QED  BY <1>1, <1>2, <1>3

LEMMA NextTexts ==
  ASSUME OpenApart, TextInv, [Next]_vars
  PROVE  TextInv'
<1>1. FeedInv'
  BY NextFeeds DEF TextInv
<1> QED  BY <1>1, BesidesTheLoop, ControlTexts, PublishTexts, SessionTexts, RequestTexts
         DEF Next, Read, LoopStep

\* A request about a document the editor has open is answered from the editor's
\* text alone, whatever the disk, the watcher and the repairs of completions do
\* meanwhile, as long as the editor opens no included requirements file.
THEOREM OneTextAnswers == ASSUME OpenApart PROVE Spec => []OpenDocumentsAnswerFromOneText
<1>1. Init => TextInv
  <2> SUFFICES ASSUME Init  PROVE TextInv
    OBVIOUS
  <2>1. Serial /\ MirrorsEditor /\ RequestOK /\ OpenDocumentsAnswerFromOneText
    BY DEF Init, Serial, TornDown, MirrorsEditor, RequestOK, None, OpenDocumentsAnswerFromOneText
  <2> QED  BY <2>1, InitFeeds DEF TextInv
<1>2. TextInv /\ [Next]_vars => TextInv'
  BY NextTexts
<1>3. TextInv => OpenDocumentsAnswerFromOneText
  BY DEF TextInv
<1> QED  BY <1>1, <1>2, <1>3, PTL DEF Spec
=============================================================================
