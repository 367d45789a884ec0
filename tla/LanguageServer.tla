--------------------------- MODULE LanguageServer ---------------------------
(***************************************************************************)
(* The language server (pyinc_tools/lsp.py) over its workspace session      *)
(* (session.py) and the mirror directory the session analyses               *)
(* (_workspace.py).  Two threads: the request loop, which handles one       *)
(* message of the client at a time, and the watcher, which polls the disk,   *)
(* refreshes the mirror and publishes.  People edit the disk at any moment.  *)
(*                                                                         *)
(* A method of the session holds the session's lock for all of its work and  *)
(* is one step; source_text, which reads the disk after it let the lock go,  *)
(* and every handler that calls the session more than once, are several.     *)
(* The publish lock is a variable; the write lock covers single steps.       *)
(* A poll looks at the whole disk at once.                                  *)
(***************************************************************************)
EXTENDS Integers, Sequences, FiniteSets, TLC

CONSTANTS
  Paths,            \* files of the workspace
  Named,            \* those the mirror holds by their name or suffix
  Openable,         \* those the editor opens
  Texts,            \* contents of files
  TextsOf(_),       \* those a file may have
  Workspaces,       \* the workspaces on disk to start from
  References(_),    \* text of requirements.txt -> the files it includes
  Requirements,     \* the path of requirements.txt
  Problems,         \* what an analysis can report
  Analysis(_, _),   \* path, files -> what is reported in it
  Fits(_, _),       \* problem, text -> is its range within the text?
  Parses(_),
  Order(_),         \* the place of a path in sorted()
  Methods,          \* requests the client makes
  Reverts,          \* may an edit bring back an earlier content of the file?
  Debounce,         \* polls a change must have settled for
  MaxMessages, MaxEdits, MaxFaults,   \* bounds
  Missing

Files == [Paths -> Texts \cup {Missing}]
None == [p \in Paths |-> Missing]
Nothing == [p \in Paths |-> {}]

VARIABLES
  disk,          \* the workspace on disk
  held,          \* history: the contents each file has had on disk
  mirror,        \* the mirror directory
  overlays,      \* the session's _overlays
  refs,          \* the mirror's _referenced_paths
  closed,        \* the session's _closed
  attached,      \* does the server's _session name the session?
  life,          \* _initialized and _shutdown_requested
  loop,          \* the request loop: where it is, and the message it handles
  watch,         \* the watcher thread
  stop,          \* the watcher's stop event
  lock,          \* who holds the publish lock
  pub,           \* the publish each thread is in
  published,     \* _published_signatures and _published_paths
  analysed,      \* history: what the latest analysis found
  client,        \* what the client was told
  owed,          \* history: requests read and not answered
  announced,     \* history: has the loop published since initialize?
  messages, edits, faults

session == <<mirror, overlays, refs, closed>>
bounds == <<messages, edits, faults>>
vars == <<disk, held, session, attached, life, loop, watch, stop, lock, pub, published,
          analysed, client, owed, announced, bounds>>

-----------------------------------------------------------------------------
(* The mirror.                                                             *)

\* _requirements_reference_paths: files that requirements.txt includes, and
\* that exist; the include closure is the least set with all that it includes.
Reached(d, S) == S \cup UNION {References(d[p]) : p \in {q \in S : d[q] # Missing}}
IncludeClosed(d, S) == Requirements \in S /\ Reached(d, S) \subseteq S
RequirementsReferences(d) ==
  {p \in Paths \ {Requirements} :
     d[p] # Missing /\ \A S \in SUBSET Paths : IncludeClosed(d, S) => p \in S}

Relevant(d, p) == p \in Named \/ p \in RequirementsReferences(d)

\* What the mirror should hold of a disk; also what a poll reads of it
\* (_workspace_files, _collect_filesystem_snapshot).
Snapshot(d) == [p \in Paths |-> IF Relevant(d, p) THEN d[p] ELSE Missing]

\* sync_path_from_disk for each of a set of paths: the file itself, then the
\* files that requirements.txt newly includes or no longer does.
AddedReferences(d) == RequirementsReferences(d) \ refs
RemovedReferences(d) == (refs \ RequirementsReferences(d)) \ Named
Synced(S) ==
  LET T == S \cup (IF S = {} THEN {} ELSE AddedReferences(disk) \cup RemovedReferences(disk))
  IN  [p \in Paths |-> IF p \in T THEN Snapshot(disk)[p] ELSE mirror[p]]

SyncPathsFromDisk(S) ==
  /\ mirror' = Synced(S)
  /\ refs' = IF S = {} THEN refs ELSE RequirementsReferences(disk)

-----------------------------------------------------------------------------
(* The session.                                                            *)

SetOverlay(p, text) ==
  /\ mirror' = [mirror EXCEPT ![p] = text]
  /\ overlays' = [overlays EXCEPT ![p] = text]
  /\ UNCHANGED <<refs, closed>>

ClearOverlay(p) ==
  /\ overlays' = [overlays EXCEPT ![p] = Missing]
  /\ SyncPathsFromDisk({p})
  /\ UNCHANGED closed

Unopened(S) == {p \in S : overlays[p] = Missing}
\* refresh_paths leaves a path that has an overlay alone.
RefreshPaths(S) == SyncPathsFromDisk(Unopened(S)) /\ UNCHANGED <<overlays, closed>>

SourceTextMutant(p) == IF closed THEN Missing ELSE disk[p]
\* source_text: the editor's text, or the one on the disk now.
SourceText(p) == IF closed THEN Missing ELSE IF overlays[p] # Missing THEN overlays[p] ELSE disk[p]

\* completions_at analyses a repaired copy of a text that does not parse, and
\* then writes the text it started from back into the mirror.
Repaired(p) ==
  IF SourceText(p) # Missing /\ ~Parses(SourceText(p))
  THEN mirror' = [mirror EXCEPT ![p] = SourceText(p)]
  ELSE UNCHANGED mirror

AnalyzeWorkspace == [p \in Paths |-> Analysis(p, mirror)]

-----------------------------------------------------------------------------
(* The requests: the session calls of each handler, in order.  "source"      *)
(* reads the document's text, "mirror" analyses it, "repair" completes in it. *)
(* A handler may return early from each of its calls: the file is gone, or    *)
(* there is nothing at the position.                                         *)

DocumentHandlers ==
  [documentSymbol |-> <<"mirror">>, workspaceSymbol |-> <<"mirror">>,
   hover |-> <<"mirror", "mirror">>, completion |-> <<"repair">>, definition |-> <<"mirror">>]
NavigationHandlers ==
  [declaration |-> <<"source", "mirror", "mirror">>,
   typeDefinition |-> <<"source", "mirror", "mirror">>,
   references |-> <<"source", "mirror", "mirror">>,
   documentHighlight |-> <<"source", "mirror", "mirror">>,
   linkedEditingRange |-> <<"source", "mirror", "mirror">>]
EditHandlers ==
  [prepareRename |-> <<"source", "mirror">>,
   rename |-> <<"source", "mirror", "mirror", "mirror">>,
   codeAction |-> <<"mirror">>]
\* selectionRange makes a call for each position of the request, here two.
StructureHandlers ==
  [signatureHelp |-> <<"mirror">>, foldingRange |-> <<"mirror">>,
   selectionRange |-> <<"mirror", "mirror">>, documentLink |-> <<"mirror">>, codeLens |-> <<"mirror">>]
HierarchyHandlers ==
  [prepareCallHierarchy |-> <<"mirror">>, incomingCalls |-> <<"mirror">>,
   outgoingCalls |-> <<"mirror">>, prepareTypeHierarchy |-> <<"mirror">>,
   supertypes |-> <<"mirror">>, subtypes |-> <<"mirror">>]
TokenHandlers ==
  [inlayHint |-> <<"mirror">>, semanticTokens |-> <<"mirror", "source">>,
   willRenameFiles |-> <<"mirror">>, willDeleteFiles |-> <<"mirror">>]
PullHandlers == [documentDiagnostic |-> <<"mirror">>, workspaceDiagnostic |-> <<"mirror">>]

\* _dispatch_request
Handlers == DocumentHandlers @@ NavigationHandlers @@ EditHandlers @@ StructureHandlers
            @@ HierarchyHandlers @@ TokenHandlers @@ PullHandlers
Calls(method) == Handlers[method]

ASSUME ServerAssumption ==
  /\ Missing \notin Texts /\ Requirements \in Named /\ Named \cup Openable \subseteq Paths
  /\ \A t \in Texts : References(t) \subseteq Paths
  /\ \A p \in Paths : TextsOf(p) \subseteq Texts
  /\ Workspaces \subseteq {w \in Files : \A p \in Paths : w[p] \in TextsOf(p) \cup {Missing}}
  /\ \A p \in Paths, files \in Files : Analysis(p, files) \subseteq Problems
  /\ Methods \subseteq DOMAIN Handlers /\ Reverts \in BOOLEAN
  /\ Debounce \in Nat /\ MaxMessages \in Nat /\ MaxEdits \in Nat /\ MaxFaults \in Nat

-----------------------------------------------------------------------------
Idle == [at |-> "read", path |-> Missing, calls |-> <<>>, texts |-> {}]
NoPublish == [at |-> "off", todo |-> {}, found |-> Nothing]
\* pending: for how many polls a change has been settled, -1 for none.
NotWatching == [at |-> "off", snapshot |-> None, pending |-> [p \in Paths |-> -1], ready |-> {}]

Init ==
  /\ disk \in Workspaces
  /\ held = [p \in Paths |-> {disk[p]}]
  /\ mirror = None /\ overlays = None /\ refs = {} /\ closed = FALSE /\ attached = FALSE
  /\ life = "new" /\ loop = Idle /\ watch = NotWatching /\ stop = FALSE
  /\ lock = "nobody" /\ pub = [t \in {"loop", "watch"} |-> NoPublish]
  /\ published = Nothing /\ analysed = Nothing /\ client = Nothing
  /\ owed = 0 /\ announced = FALSE /\ messages = 0 /\ edits = 0 /\ faults = 0

\* People and other programs write, create and delete files.  (What they did
\* before the workspace was opened is in the choice of the workspace.)
EditDisk ==
  /\ attached /\ edits < MaxEdits /\ edits' = edits + 1
  /\ \E p \in Paths : \E text \in TextsOf(p) \cup {Missing} :
       /\ text # disk[p] /\ (~Reverts => text \notin held[p])
       /\ disk' = [disk EXCEPT ![p] = text]
       /\ held' = [held EXCEPT ![p] = @ \cup {text}]
  /\ UNCHANGED <<session, attached, life, loop, watch, stop, lock, pub, published, analysed,
                 client, owed, announced, messages, faults>>

-----------------------------------------------------------------------------
(* publish_workspace_diagnostics, by either thread.                         *)

AvailableMutant(t) == TRUE
\* The lock is held from before the analysis until the last send.
Available(t) == lock = "nobody"

Leave(t) ==
  /\ lock' = "nobody"
  /\ pub' = [pub EXCEPT ![t] = NoPublish]
  /\ IF t = "loop"
     THEN loop' = Idle /\ UNCHANGED watch
     ELSE watch' = [watch EXCEPT !.at = "poll"] /\ UNCHANGED loop

\* The session is read once.
PublishEnter(t) ==
  /\ pub[t].at = "enter"
  /\ Available(t)
  /\ IF attached
     THEN /\ pub' = [pub EXCEPT ![t].at = "analyze"]
          /\ lock' = t /\ UNCHANGED <<loop, watch>>
     ELSE Leave(t)
  /\ UNCHANGED <<disk, held, session, attached, life, stop, published, analysed, client, owed,
                 announced, bounds>>

DueMutant(found) == {p \in Paths : found[p] # {} /\ published[p] # found[p]}
\* A path already published, or one with something found, may need telling.
Due(found) ==
  {p \in Paths : (found[p] # {} \/ published[p] # {}) /\ published[p] # found[p]}

\* A session closed meanwhile answers with an error, and the publish is given up.
PublishAnalyze(t) ==
  /\ pub[t].at = "analyze"
  /\ IF closed
     THEN Leave(t) /\ UNCHANGED analysed
     ELSE /\ analysed' = AnalyzeWorkspace
          /\ IF Due(AnalyzeWorkspace) = {}
             THEN Leave(t)
             ELSE /\ pub' = [pub EXCEPT ![t] = [at |-> "convert", todo |-> Due(AnalyzeWorkspace),
                                                 found |-> AnalyzeWorkspace]]
                  /\ UNCHANGED <<lock, loop, watch>>
  /\ UNCHANGED <<disk, held, session, attached, life, stop, published, client, owed, announced,
                 bounds>>

NextPath(t) == CHOOSE p \in pub[t].todo : \A q \in pub[t].todo : Order(p) <= Order(q)
Rest(t) == pub[t].todo \ {NextPath(t)}
Skip(t) ==
  IF Rest(t) = {} THEN Leave(t)
  ELSE pub' = [pub EXCEPT ![t].at = "convert", ![t].todo = Rest(t)] /\ UNCHANGED <<lock, loop, watch>>

\* Positions are converted against the text the document has now; a path with
\* a range outside that text is skipped and left unrecorded.
Convertible(t) ==
  LET text == SourceText(NextPath(t))
  IN  text = Missing \/ \A d \in pub[t].found[NextPath(t)] : Fits(d, text)

PublishConvert(t) ==
  /\ pub[t].at = "convert"
  /\ IF attached /\ ~Convertible(t)
     THEN Skip(t)
     ELSE pub' = [pub EXCEPT ![t].at = "write"] /\ UNCHANGED <<lock, loop, watch>>
  /\ UNCHANGED <<disk, held, session, attached, life, stop, published, analysed, client, owed,
                 announced, bounds>>

Recorded(t) == [published EXCEPT ![NextPath(t)] = pub[t].found[NextPath(t)]]

\* Written only while the session is still the server's, and recorded only once
\* written.
PublishWrite(t) ==
  /\ pub[t].at = "write"
  /\ IF attached
     THEN /\ client' = [client EXCEPT ![NextPath(t)] = pub[t].found[NextPath(t)]]
          /\ published' = Recorded(t)
          /\ Skip(t)
     ELSE Leave(t) /\ UNCHANGED <<client, published>>
  /\ UNCHANGED <<disk, held, session, attached, life, stop, analysed, owed, announced, bounds>>

Publish(t) ==
  \/ PublishEnter(t)
  \/ PublishAnalyze(t)
  \/ PublishConvert(t)
  \/ PublishWrite(t)

-----------------------------------------------------------------------------
(* The watcher thread.                                                     *)

Changed(d) == {p \in Paths : watch.snapshot[p] # Snapshot(d)[p]}
\* A change seen now starts its debounce again; others have settled a poll longer.
Aged(d) ==
  [p \in Paths |-> IF p \in Changed(d) THEN 0
                   ELSE IF watch.pending[p] \in 0 .. Debounce - 1 THEN watch.pending[p] + 1
                   ELSE watch.pending[p]]
Ready(d) == {p \in Paths : Aged(d)[p] = Debounce}

\* The snapshot matches the disk from here on, so the paths that are due leave
\* the pending map for the refresh.
PollOnce ==
  /\ watch.at = "poll"
  /\ IF stop
     THEN watch' = [watch EXCEPT !.at = "dead"]
     ELSE watch' = [watch EXCEPT
            !.at = IF Ready(disk) = {} THEN "poll" ELSE "refresh",
            !.snapshot = Snapshot(disk),
            !.pending = [p \in Paths |-> IF p \in Ready(disk) THEN -1 ELSE Aged(disk)[p]],
            !.ready = Ready(disk)]
  /\ UNCHANGED <<disk, held, session, attached, life, loop, stop, lock, pub, published, analysed,
                 client, owed, announced, bounds>>

WatcherRefresh ==
  /\ watch.at = "refresh"
  /\ IF closed
     THEN watch' = [watch EXCEPT !.at = "dead", !.ready = {}] /\ UNCHANGED session
     ELSE /\ RefreshPaths(watch.ready)
          /\ watch' = [watch EXCEPT !.at = "callback", !.ready = {}]
  /\ UNCHANGED <<disk, held, attached, life, loop, stop, lock, pub, published, analysed, client,
                 owed, announced, bounds>>

Requeued == [p \in Paths |-> IF p \in watch.ready THEN Debounce ELSE watch.pending[p]]

\* A file of the mirror cannot be written: some paths were synced, and all of
\* them are queued again.
WatcherRefreshFails ==
  /\ watch.at = "refresh" /\ ~closed /\ faults < MaxFaults
  /\ faults' = faults + 1
  /\ \E S \in SUBSET watch.ready : S # watch.ready /\ RefreshPaths(S)
  /\ watch' = [watch EXCEPT !.at = "poll", !.pending = Requeued, !.ready = {}]
  /\ UNCHANGED <<disk, held, attached, life, loop, stop, lock, pub, published, analysed, client,
                 owed, announced, messages, edits>>

\* _on_watcher_change, unless the thread was told to stop meanwhile.
WatcherCallback ==
  /\ watch.at = "callback"
  /\ IF stop
     THEN watch' = [watch EXCEPT !.at = "dead"] /\ UNCHANGED pub
     ELSE watch' = [watch EXCEPT !.at = "publish"] /\ pub' = [pub EXCEPT !["watch"].at = "enter"]
  /\ UNCHANGED <<disk, held, session, attached, life, loop, stop, lock, published, analysed, client,
                 owed, announced, bounds>>

WatcherStep == PollOnce \/ WatcherRefresh \/ WatcherCallback \/ Publish("watch")

-----------------------------------------------------------------------------
(* The request loop.                                                        *)

Reading == loop.at = "read" /\ messages < MaxMessages /\ messages' = messages + 1
Goto(l) == loop' = [loop EXCEPT !.at = l]
Reply == loop' = Idle /\ owed' = owed - 1
RestOfServer == <<disk, held, attached, lock, published, analysed, client, edits, faults>>

\* A message that is no request object, or a request the server is not in the
\* state for, or of an unknown method: an error reply, and on to the next.
RefuseMessage ==
  /\ Reading
  /\ UNCHANGED <<RestOfServer, session, life, loop, watch, stop, pub, owed, announced>>

\* End of input, a frame that does not parse, or exit: the server leaves.
LeaveServer ==
  /\ Reading
  /\ Goto(IF attached THEN "stop" ELSE "exited")
  /\ UNCHANGED <<RestOfServer, session, life, watch, stop, pub, owed, announced>>

ReadInitialize ==
  /\ Reading /\ life = "new"
  /\ Goto("init") /\ owed' = owed + 1
  /\ UNCHANGED <<RestOfServer, session, life, watch, stop, pub, announced>>

\* WorkspaceSession copies the workspace; it may refuse it, and the server
\* stays uninitialised.
InitializeSession ==
  /\ loop.at = "init" /\ Available("loop")
  /\ \/ /\ mirror' = Snapshot(disk) /\ refs' = RequirementsReferences(disk)
        /\ overlays' = None /\ closed' = FALSE
        /\ attached' = TRUE /\ published' = Nothing
        /\ Goto("watcher") /\ UNCHANGED owed
     \/ Reply /\ UNCHANGED <<session, attached, published>>
  /\ UNCHANGED <<disk, held, life, watch, stop, lock, pub, analysed, client, announced, bounds>>

\* What the first poll compares the disk with: what the mirror was copied from.
BaselineMutant == Snapshot(disk)
Baseline == mirror

\* The watcher is started unless an option disables it; a thread that cannot
\* start takes the session down again.
InitializeWatcher ==
  /\ loop.at = "watcher"
  /\ \/ /\ \/ watch' = [NotWatching EXCEPT !.at = "poll", !.snapshot = Baseline] /\ stop' = FALSE
           \/ watch' = NotWatching /\ UNCHANGED stop
        /\ life' = "ready" /\ Reply
     \/ Goto("stop") /\ UNCHANGED <<watch, stop, life, owed>>
  /\ UNCHANGED <<RestOfServer, session, pub, announced, messages>>

PublishNow == Goto("publish") /\ pub' = [pub EXCEPT !["loop"].at = "enter"] /\ announced' = TRUE

\* initialized; didOpen and didChange; didSave and didClose;
\* didChangeWatchedFiles: the session changes, and the loop publishes.
Notified ==
  /\ Reading /\ life = "ready"
  /\ \/ UNCHANGED session
     \/ \E p \in Openable : \E text \in TextsOf(p) : SetOverlay(p, text)
     \/ \E p \in Openable : ClearOverlay(p)
     \/ \E p \in Paths : RefreshPaths({p})
  /\ PublishNow
  /\ UNCHANGED <<RestOfServer, life, watch, stop, owed>>

ReadRequest ==
  /\ Reading /\ life = "ready"
  /\ \E m \in Methods, p \in Openable :
       loop' = [at |-> "convert", path |-> p, calls |-> Calls(m), texts |-> {}]
  /\ owed' = owed + 1
  /\ UNCHANGED <<RestOfServer, session, life, watch, stop, pub, announced>>

\* The positions of the parameters are converted against the document's text;
\* a position outside it is refused.
ConvertParams ==
  /\ loop.at = "convert"
  /\ \/ Reply
     \/ loop' = [loop EXCEPT !.at = "request", !.texts = @ \cup {SourceText(loop.path)}]
        /\ UNCHANGED owed
  /\ UNCHANGED <<RestOfServer, session, life, watch, stop, pub, announced, messages>>

\* One call of the session, after which the handler may return early.
HandlerCall ==
  /\ loop.at = "request" /\ loop.calls # <<>>
  /\ LET call == Head(loop.calls)
         text == IF call = "mirror" THEN mirror[loop.path] ELSE SourceText(loop.path)
     IN  /\ IF call = "repair" THEN Repaired(loop.path) ELSE UNCHANGED mirror
         /\ \E rest \in {<<>>, Tail(loop.calls)} :
              loop' = [loop EXCEPT !.calls = rest, !.texts = @ \cup {text}]
  /\ UNCHANGED <<RestOfServer, overlays, refs, closed, life, watch, stop, pub, owed, announced,
                 messages>>

\* The positions of the result are converted against the text read once more.
\* One that does not fit it makes the request fail; either way it is answered.
ConvertResult ==
  /\ loop.at = "request" /\ loop.calls = <<>>
  /\ loop' = [loop EXCEPT !.at = "result", !.texts = @ \cup {SourceText(loop.path)}]
  /\ UNCHANGED <<RestOfServer, session, life, watch, stop, pub, owed, announced, messages>>

AnswerRequest ==
  /\ loop.at = "result" /\ Reply
  /\ UNCHANGED <<RestOfServer, session, life, watch, stop, pub, announced, messages>>

ReadShutdown ==
  /\ Reading /\ life = "ready"
  /\ life' = "shutdown" /\ owed' = owed + 1 /\ Goto("stop")
  /\ UNCHANGED <<RestOfServer, session, watch, stop, pub, announced>>

WatcherGoneMutant == watch.at = "dead"
WatcherGone == watch.at \in {"off", "dead"}

\* _teardown_session: stop and join the watcher, detach the session, close it.
Teardown ==
  /\ \/ loop.at = "stop" /\ stop' = TRUE /\ Goto("join") /\ UNCHANGED <<closed, attached, owed>>
     \/ loop.at = "join" /\ WatcherGone /\ Goto("detach") /\ UNCHANGED <<stop, closed, attached, owed>>
     \/ loop.at = "detach" /\ attached' = FALSE /\ Goto("close") /\ UNCHANGED <<stop, closed, owed>>
     \/ loop.at = "close" /\ closed' = TRUE /\ Goto("rejoin") /\ UNCHANGED <<stop, attached, owed>>
     \/ /\ loop.at = "rejoin" /\ WatcherGone
        /\ IF owed = 1 THEN Reply ELSE Goto("exited") /\ UNCHANGED owed
        /\ UNCHANGED <<stop, closed, attached>>
  /\ UNCHANGED <<disk, held, mirror, overlays, refs, life, watch, lock, pub, published, analysed,
                 client, announced, bounds>>

\* A join of the watcher gives up after five seconds.
JoinGivesUp ==
  /\ loop.at \in {"join", "rejoin"} /\ ~WatcherGone
  /\ IF loop.at = "join" THEN Goto("detach") /\ UNCHANGED owed
     ELSE IF owed = 1 THEN Reply ELSE Goto("exited") /\ UNCHANGED owed
  /\ UNCHANGED <<RestOfServer, session, life, watch, stop, pub, announced, messages>>

Read ==
  \/ RefuseMessage
  \/ LeaveServer
  \/ ReadInitialize
  \/ Notified
  \/ ReadRequest
  \/ ReadShutdown

LoopStep ==
  \/ InitializeSession
  \/ InitializeWatcher
  \/ Publish("loop")
  \/ ConvertParams
  \/ HandlerCall
  \/ ConvertResult
  \/ AnswerRequest
  \/ Teardown

Next ==
  \/ Read
  \/ LoopStep
  \/ WatcherStep
  \/ WatcherRefreshFails
  \/ JoinGivesUp
  \/ EditDisk

\* Both threads are scheduled.  Nothing obliges the client to send, people to
\* edit, a write to fail, or a join to give up.
Fairness == WF_vars(LoopStep) /\ WF_vars(WatcherStep)

Spec == Init /\ [][Next]_vars /\ Fairness

-----------------------------------------------------------------------------
Feed == INSTANCE DiagnosticsFeed WITH open <- attached, view <- client

\* The server implements the feed: a notification tells what the latest
\* analysis found, and only while the workspace is attached (lsp.py:404-425).
ImplementsTheFeed == Feed!FeedSpec

Truth == [p \in Paths |-> IF overlays[p] # Missing THEN overlays[p] ELSE Snapshot(disk)[p]]

Polled == watch.at \notin {"off", "dead"} /\ attached /\ ~stop
Coming(p) ==
  \/ watch.snapshot[p] # Snapshot(disk)[p]
  \/ watch.pending[p] >= 0
  \/ p \in watch.ready
\* No edit is lost on its way to the mirror.  The mirror holds the editor's text
\* of an open document, whatever is synced from the disk
\* (docs/pyinc-tools-guide.md:213-214); where it is behind the disk, a poll has
\* yet to see it, or has queued it - across a start, a debounce, a failed
\* refresh, an open document and the refreshes the client asks for
\* (_workspace.py:656-690).  (Openable leaves out the files that
\* requirements.txt includes, whose sync does not ask for an overlay, and with
\* Reverts a file that is synced and put back between two polls is missed.)
NoEditIsLost ==
  attached => \A p \in {q \in Paths : mirror[q] # Truth[q]} :
    /\ overlays[p] = Missing
    /\ Polled => \E q \in {p, Requirements} : Coming(q)

\* The editor opens no file that a requirements file includes: the sync of
\* those does not ask for an overlay.
OpenApart == \A text \in Texts : References(text) \cap Openable = {}

\* The editor opens no requirements file, and no file the mirror would not
\* hold: a refresh skips what is open, so that a change of an open
\* requirements.txt brings the files it includes only when it is closed.
OpenNamed == Openable \subseteq Named \ {Requirements}

\* Only requirements.txt includes files.
NoChains ==
  \A text \in Texts : \A p \in References(text) \ {Requirements} :
    \A t \in TextsOf(p) : References(t) = {}

\* The workspaces in which no edit is lost.
Followable == OpenApart /\ OpenNamed /\ NoChains /\ ~Reverts

\* A request about a document the editor has open is answered from one text:
\* the positions it came with, the analyses and the positions it leaves with
\* all refer to the editor's text, whatever the disk and the watcher do.
OpenDocumentsAnswerFromOneText ==
  loop.at \in {"request", "result"} /\ overlays[loop.path] # Missing
  => loop.texts \subseteq {overlays[loop.path]}

\* Every request gets its answer: no lock or join keeps the loop from it.
RequestsAreAnswered == owed = 1 ~> owed = 0

Serving == life = "ready" /\ Polled /\ announced
\* The client ends up with the problems of the files as they are: the editor's
\* texts, and the disk for the others (lsp.py:660-663, 701-705).
ClientConverges ==
  <>[](Serving => client = [p \in Paths |-> Analysis(p, Truth)])
=============================================================================
