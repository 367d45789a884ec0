------------------------------ MODULE EditProofs ------------------------------
(***************************************************************************)
(* No edit is lost on its way to the mirror, for every workspace, editor,   *)
(* bound and debounce: where the mirror is behind the disk, a poll has yet  *)
(* to see it, or what it saw is queued.                                     *)
(***************************************************************************)
EXTENDS LanguageServerProofs

\* What the requirements of d include, there or not.
Included(d) ==
  IF d[Requirements] = Missing THEN {} ELSE References(d[Requirements]) \ {Requirements}

ContentsKept ==
  /\ held \in [Paths -> SUBSET (Texts \cup {Missing})]
  /\ \A p \in Paths : disk[p] \in TextsOf(p) \cup {Missing} /\ disk[p] \in held[p]

\* The mirror holds an included file exactly while it is among the references.
MirrorFollowsRefs == \A p \in Paths \ Named : mirror[p] # Missing <=> p \in refs

\* d was read from disks there have been.
Looked(d) ==
  \A p \in Paths : IF p \in Named \cup Included(d) THEN d[p] \in held[p] ELSE d[p] = Missing

WatchTypes ==
  /\ watch.snapshot \in Files /\ watch.pending \in [Paths -> -1 .. Debounce]
  /\ watch.ready \subseteq Paths
  /\ watch.ready # {} => watch.at = "refresh"

Awaited(p) == watch.pending[p] >= 0 \/ p \in watch.ready

\* A file that the last poll read as it is, and the mirror has otherwise, is
\* queued.
Followed(p) ==
  /\ overlays[p] = Missing /\ mirror[p] # disk[p] /\ watch.snapshot[p] = disk[p]
  /\ p \in Named \/ (mirror[p] # Missing /\ disk[p] # Missing)
  => Awaited(p)

\* So is a file that has become included, or is no longer, unless
\* requirements.txt itself is about to be refreshed.
Listed(p) ==
  /\ ~Coming(Requirements) /\ ~(p \in RequirementsReferences(disk) <=> p \in refs)
  /\ watch.snapshot[p] = Snapshot(disk)[p]
  => Awaited(p)

Following ==
  watch.at \notin {"off", "dead"} =>
    /\ Looked(watch.snapshot)
    /\ \A p \in Paths : Followed(p)
    /\ \A p \in Paths \ Named : Listed(p)

\* The copy the watcher starts from.
Copied == loop.at = "watcher" => Looked(mirror) /\ overlays = None

\* A request is about a file the editor opens.
Asked == loop.at \in {"convert", "request", "result"} => loop.path \in Openable

\* The inductive invariant.
EditInv ==
  TextInv /\ Asked /\ ContentsKept /\ MirrorFollowsRefs /\ WatchTypes /\ Following
  /\ Copied

-----------------------------------------------------------------------------
(* The files that requirements.txt includes.                                *)

USE ServerAssumption DEF session, bounds, RestOfServer, Files

\* Without chains the include closure is what requirements.txt names.
LEMMA FlatReferences ==
  ASSUME Followable, NEW d \in Files, \A p \in Paths : d[p] \in TextsOf(p) \cup {Missing}
  PROVE  RequirementsReferences(d) = {p \in Included(d) : d[p] # Missing}
<1> DEFINE X == {Requirements} \cup Included(d)
<1>1. X \in SUBSET Paths
  BY DEF Included
<1>2. IncludeClosed(d, X)
  <2>1. ASSUME NEW p \in X, d[p] # Missing  PROVE References(d[p]) \subseteq X
    <3>1. CASE p = Requirements
      BY <2>1, <3>1 DEF Included
    <3>2. CASE p # Requirements
      <4>1. p \in References(d[Requirements]) \ {Requirements} /\ d[Requirements] \in Texts
        BY <2>1, <3>2 DEF Included
      <4> QED  BY <2>1, <4>1 DEF Followable, NoChains
    <3> QED  BY <3>1, <3>2
  <2> QED  BY <2>1 DEF IncludeClosed, Reached
<1>3. ASSUME NEW p \in Included(d), NEW S \in SUBSET Paths, IncludeClosed(d, S)
      PROVE  p \in S
  BY <1>3 DEF IncludeClosed, Reached, Included
<1> QED  BY <1>1, <1>2, <1>3 DEF RequirementsReferences, Included

\* What the mirror should hold of a disk.
LEMMA Wanted ==
  ASSUME Followable, NEW d \in Files, \A p \in Paths : d[p] \in TextsOf(p) \cup {Missing}
  PROVE  /\ RequirementsReferences(d) = {p \in Included(d) : d[p] # Missing}
         /\ \A p \in Paths : Snapshot(d)[p] =
              IF p \in Named \cup Included(d) THEN d[p] ELSE Missing
         /\ \A p \in Paths \ Named : p \in RequirementsReferences(d) <=> Snapshot(d)[p] # Missing
         /\ Included(Snapshot(d)) = Included(d) /\ Included(d) \subseteq Paths
<1>1. RequirementsReferences(d) = {p \in Included(d) : d[p] # Missing}
  BY FlatReferences
<1>2. \A p \in Paths : Snapshot(d)[p] = IF p \in Named \cup Included(d) THEN d[p] ELSE Missing
  BY <1>1 DEF Snapshot, Relevant
<1>3. Included(Snapshot(d)) = Included(d) /\ Included(d) \subseteq Paths
  BY <1>2 DEF Included
<1> QED  BY <1>1, <1>2, <1>3

LEMMA DiskTypes ==
  ASSUME EditInv
  PROVE  disk \in Files /\ \A p \in Paths : disk[p] \in TextsOf(p) \cup {Missing}
BY DEF EditInv, ContentsKept, TextInv, FeedInv, TypeOK, FilesOK

\* What has been open is named, and an included file never is open.
LEMMA Unopenable ==
  ASSUME Followable, EditInv, NEW p \in Paths
  PROVE  /\ p \notin Named \/ p = Requirements => overlays[p] = Missing
         /\ p \in RequirementsReferences(disk) \cup refs => overlays[p] = Missing
<1>1. overlays[p] # Missing => p \in Openable
  BY DEF EditInv, TextInv, MirrorsEditor
<1>2. RequirementsReferences(disk) \cap Openable = {} /\ refs \cap Openable = {}
  BY IncludedApart DEF EditInv, TextInv, FeedInv, TypeOK, FilesOK, MirrorsEditor, Followable
<1> QED  BY <1>1, <1>2 DEF Followable, OpenNamed

\* Of what the argument is about, what depends on the disk alone.
LEMMA SameDisk ==
  ASSUME UNCHANGED disk
  PROVE  /\ RequirementsReferences(disk)' = RequirementsReferences(disk)
         /\ Snapshot(disk)' = Snapshot(disk)
BY DEF RequirementsReferences, IncludeClosed, Reached, Snapshot, Relevant

-----------------------------------------------------------------------------
(* The steps.                                                               *)

\* A step that leaves disk, session and queue alone.
LEMMA StandsStill ==
  ASSUME Followable, EditInv, TextInv', Asked', UNCHANGED <<disk, held, mirror, overlays, refs>>,
         watch'.snapshot = watch.snapshot, watch'.pending = watch.pending,
         watch'.ready = watch.ready, watch.ready # {} => watch'.at = "refresh",
         watch'.at \notin {"off", "dead"} => watch.at \notin {"off", "dead"},
         loop'.at = "watcher" => loop.at = "watcher"
  PROVE  EditInv'
<1>1. ContentsKept' /\ MirrorFollowsRefs' /\ WatchTypes'
  BY DEF EditInv, ContentsKept, MirrorFollowsRefs, WatchTypes
<1>2. \A p \in Paths : Followed(p)' <=> Followed(p)
  BY DEF Followed, Awaited
<1>3. \A p \in Paths : Listed(p)' <=> Listed(p)
  BY SameDisk DEF Listed, Awaited, Coming
<1>4. Following' /\ Copied'
  BY <1>2, <1>3 DEF EditInv, Following, Copied, Looked
<1> QED  BY <1>1, <1>4 DEF EditInv

\* A sync of paths that are not open, or are being closed, while the others
\* keep their place in the queue.
LEMMA SyncFollows ==
  ASSUME Followable, EditInv, TextInv', Asked', WatchTypes', Copied', NEW S \in SUBSET Paths,
         SyncPathsFromDisk(S), UNCHANGED <<disk, held>>,
         \A p \in Paths : overlays'[p] = Missing => overlays[p] = Missing \/ p \in S,
         \A p \in Paths : Awaited(p) => Awaited(p)' \/ p \in S \/ overlays[p] # Missing,
         watch'.snapshot = watch.snapshot,
         watch'.at \notin {"off", "dead"} => watch.at \notin {"off", "dead"}
  PROVE  EditInv'
<1> DEFINE RR == RequirementsReferences(disk)
           T == S \cup (IF S = {} THEN {} ELSE AddedReferences(disk) \cup RemovedReferences(disk))
<1>1. ContentsKept'
  BY DEF EditInv, ContentsKept
<1>2. /\ \A p \in Paths : mirror'[p] = IF p \in T THEN Snapshot(disk)[p] ELSE mirror[p]
      /\ refs' = IF S = {} THEN refs ELSE RR
  BY DEF SyncPathsFromDisk, Synced
<1>3. \A p \in Paths \ Named : p \notin T /\ S # {} => (p \in RR <=> p \in refs)
  BY DEF AddedReferences, RemovedReferences
<1>4. \A p \in Paths \ Named : p \in RR <=> Snapshot(disk)[p] # Missing
  BY Wanted, DiskTypes
<1>5. MirrorFollowsRefs'
  <2> SUFFICES ASSUME NEW p \in Paths \ Named  PROVE (mirror[p] # Missing <=> p \in refs)'
    BY DEF MirrorFollowsRefs
  <2>1. mirror[p] # Missing <=> p \in refs
    BY DEF EditInv, MirrorFollowsRefs
  <2> QED  BY <1>2, <1>3, <1>4, <2>1
<1>6. ASSUME watch'.at \notin {"off", "dead"}
      PROVE  Following'
  <2>1. Looked(watch.snapshot)'
    BY <1>6 DEF EditInv, Following, Looked
  <2>2. ASSUME NEW p \in Paths  PROVE Followed(p)'
    <3> SUFFICES ASSUME overlays'[p] = Missing, mirror'[p] # disk[p], watch.snapshot[p] = disk[p],
                        p \in Named \/ (mirror'[p] # Missing /\ disk[p] # Missing)
                 PROVE  Awaited(p)'
      BY DEF Followed
    <3>1. p \notin T
      <4> SUFFICES ASSUME p \in T  PROVE mirror'[p] \in {disk[p], Missing} /\ (p \in Named => mirror'[p] = disk[p])
        OBVIOUS
      <4> QED  BY <1>2, Wanted, DiskTypes
    <3>2. mirror'[p] = mirror[p] /\ overlays[p] = Missing
      BY <1>2, <3>1
    <3>3. Awaited(p)
      BY <1>6, <3>2 DEF EditInv, Following, Followed
    <3> QED  BY <3>1, <3>2, <3>3
  <2>3. ASSUME NEW p \in Paths \ Named  PROVE Listed(p)'
    <3> SUFFICES ASSUME ~Coming(Requirements)', ~(p \in RR <=> p \in refs'),
                        watch.snapshot[p] = Snapshot(disk)[p]
                 PROVE  Awaited(p)'
      BY SameDisk DEF Listed
    <3>1. S = {} /\ refs' = refs
      BY <1>2
    <3>2. ~Coming(Requirements)
      <4>1. overlays[Requirements] = Missing
        BY Unopenable
      <4> QED  BY <3>1, <4>1, SameDisk DEF Coming, Awaited
    <3>3. Awaited(p) /\ overlays[p] = Missing
      BY <1>6, <3>1, <3>2, Unopenable DEF EditInv, Following, Listed
    <3> QED  BY <3>1, <3>3
  <2> QED  BY <2>1, <2>2, <2>3 DEF Following
<1> QED  BY <1>1, <1>5, <1>6 DEF EditInv, Following

\* A refresh by the editor or the watcher.
LEMMA RefreshFollows ==
  ASSUME Followable, EditInv, TextInv', Asked', WatchTypes', NEW S \in SUBSET Paths, RefreshPaths(S),
         UNCHANGED <<disk, held>>, loop'.at # "watcher",
         \A p \in Paths : Awaited(p) => Awaited(p)' \/ p \in S,
         watch'.snapshot = watch.snapshot,
         watch'.at \notin {"off", "dead"} => watch.at \notin {"off", "dead"}
  PROVE  EditInv'
BY SyncFollows DEF RefreshPaths, Unopened, Copied

\* People edit: what a file has never held, no poll has read.
LEMMA EditDiskFollows ==
  ASSUME Followable, EditInv, TextInv', Asked', EditDisk
  PROVE  EditInv'
<1>1. PICK q \in Paths : \E text \in TextsOf(q) \cup {Missing} :
        /\ text \notin held[q]
        /\ disk' = [disk EXCEPT ![q] = text]
        /\ held' = [held EXCEPT ![q] = held[q] \cup {text}]
  BY DEF EditDisk, Followable
<1> PICK text \in TextsOf(q) \cup {Missing} :
      /\ text \notin held[q]
      /\ disk' = [disk EXCEPT ![q] = text]
      /\ held' = [held EXCEPT ![q] = held[q] \cup {text}]
  BY <1>1
<1>2. UNCHANGED <<mirror, overlays, refs, loop, watch>>
  BY DEF EditDisk
<1>3. disk \in Files
  BY DEF EditInv, TextInv, FeedInv, TypeOK, FilesOK
<1>4. /\ disk'[q] = text /\ \A p \in Paths \ {q} : disk'[p] = disk[p]
      /\ \A p \in Paths : disk[p] \in held[p]
  BY <1>1, <1>3 DEF EditInv, ContentsKept
<1>5. MirrorFollowsRefs' /\ WatchTypes'
  BY <1>2 DEF EditInv, MirrorFollowsRefs, WatchTypes
<1>6. ContentsKept' /\ disk' \in Files
  BY <1>1, <1>3, <1>4 DEF EditInv, ContentsKept
<1>7. \A d : Looked(d) => Looked(d)'
  BY <1>1, <1>3 DEF Looked, EditInv, ContentsKept
<1>8. Copied'
  BY <1>2, <1>7 DEF EditInv, Copied
<1>9. ASSUME watch.at \notin {"off", "dead"}
      PROVE  Following'
  <2> DEFINE s == watch.snapshot
  <2>1. Looked(s) /\ Looked(s)'
    BY <1>1, <1>2, <1>3, <1>9 DEF EditInv, Following, Looked, ContentsKept
  <2>2. /\ s[q] = text => q \notin Named \cup Included(s) /\ text = Missing
        /\ s \in Files
    BY <1>1, <2>1 DEF Looked, EditInv, WatchTypes
  <2>3. ASSUME NEW p \in Paths  PROVE Followed(p)'
    <3>1. CASE p = q
      BY <1>2, <1>4, <2>2, <3>1 DEF Followed
    <3>2. CASE p # q
      <4>1. Followed(p)
        BY <1>9 DEF EditInv, Following
      <4> QED  BY <1>2, <1>4, <3>2, <4>1 DEF Followed, Awaited
    <3> QED  BY <3>1, <3>2
  <2>4. ASSUME NEW p \in Paths \ Named  PROVE Listed(p)'
    <3> SUFFICES ASSUME ~Coming(Requirements)',
                        ~(p \in RequirementsReferences(disk') <=> p \in refs),
                        s[p] = Snapshot(disk')[p]
                 PROVE  Awaited(p)'
      BY <1>2 DEF Listed
    <3>1. /\ \A n \in Paths : Snapshot(disk')[n] =
               IF n \in Named \cup Included(disk') THEN disk'[n] ELSE Missing
          /\ \A n \in Paths : Snapshot(disk)[n] =
               IF n \in Named \cup Included(disk) THEN disk[n] ELSE Missing
          /\ \A n \in Paths \ Named : n \in RequirementsReferences(disk') <=> Snapshot(disk')[n] # Missing
          /\ \A n \in Paths \ Named : n \in RequirementsReferences(disk) <=> Snapshot(disk)[n] # Missing
      BY <1>3, <1>6, Wanted, DiskTypes DEF ContentsKept
    <3>2. s[Requirements] = disk'[Requirements] /\ q # Requirements /\ ~Coming(Requirements)
      <4>1. s[Requirements] = disk'[Requirements]
        BY <1>2, <3>1 DEF Coming
      <4>2. q # Requirements
        BY <1>4, <2>2, <4>1
      <4> QED  BY <1>2, <1>4, <3>1, <4>1, <4>2 DEF Coming
    <3>3. Included(disk') = Included(disk) /\ Included(s) = Included(disk)
      BY <1>4, <3>2 DEF Included
    <3>4. Snapshot(disk')[p] = Snapshot(disk)[p]
      <4>1. CASE p = q /\ p \in Included(disk)
        BY <1>4, <2>2, <3>1, <3>3, <4>1
      <4>2. CASE p # q \/ p \notin Included(disk)
        BY <1>4, <3>1, <3>3, <4>2
      <4> QED  BY <4>1, <4>2
    <3>5. Listed(p)
      BY <1>9 DEF EditInv, Following
    <3> QED  BY <1>2, <3>1, <3>2, <3>4, <3>5 DEF Listed, Awaited
  <2> QED  BY <1>2, <2>1, <2>3, <2>4 DEF Following
<1> QED  BY <1>2, <1>5, <1>6, <1>8, <1>9 DEF EditInv, Following

\* A poll: what it finds changed is queued, and what was queued stays so.
LEMMA PollOnceFollows ==
  ASSUME Followable, EditInv, TextInv', Asked', PollOnce
  PROVE  EditInv'
<1>1. CASE stop
  <2>1. watch'.snapshot = watch.snapshot /\ watch'.pending = watch.pending /\ watch'.ready = watch.ready
    BY <1>1 DEF PollOnce, EditInv, TextInv, FeedInv, TypeOK, WatchOK
  <2>2. watch.ready = {} /\ watch'.at = "dead"
    BY <1>1 DEF PollOnce, EditInv, WatchTypes, TextInv, FeedInv, TypeOK, WatchOK
  <2> QED  BY <2>1, <2>2, StandsStill DEF PollOnce
<1>2. CASE ~stop
  <2> DEFINE s == Snapshot(disk)
  <2>1. /\ watch.at = "poll" /\ watch.ready = {} /\ watch.at \notin {"off", "dead"}
        /\ watch'.snapshot = s /\ watch'.ready = Ready(disk)
        /\ watch'.at = IF Ready(disk) = {} THEN "poll" ELSE "refresh"
        /\ watch'.pending = [p \in Paths |-> IF p \in Ready(disk) THEN -1 ELSE Aged(disk)[p]]
        /\ UNCHANGED <<disk, held, mirror, overlays, refs, loop>>
    BY <1>2 DEF PollOnce, EditInv, WatchTypes, TextInv, FeedInv, TypeOK, WatchOK
  <2>2. watch.pending \in [Paths -> -1 .. Debounce] /\ Debounce \in Nat
    BY DEF EditInv, WatchTypes
  <2>3. \A p \in Paths :
          /\ Aged(disk)[p] \in -1 .. Debounce
          /\ watch.snapshot[p] # s[p] \/ watch.pending[p] >= 0 => Aged(disk)[p] >= 0
    BY <2>2 DEF Aged, Changed
  <2>4. ContentsKept' /\ MirrorFollowsRefs' /\ Copied' /\ WatchTypes'
    <3>1. ContentsKept' /\ MirrorFollowsRefs' /\ Copied'
      BY <2>1 DEF EditInv, ContentsKept, MirrorFollowsRefs, Copied, Looked
    <3>2. s \in Files
      BY OperatorTypes, DiskTypes DEF EditInv, TextInv, FeedInv
    <3>3. WatchTypes'
      BY <2>1, <2>3, <3>2 DEF WatchTypes, Ready
    <3> QED  BY <3>1, <3>3
  <2>5. \A p \in Paths : Awaited(p) \/ watch.snapshot[p] # s[p] => Awaited(p)'
    BY <2>1, <2>3 DEF Awaited, Ready
  <2>6. Looked(watch.snapshot)'
    BY <2>1, Wanted, DiskTypes DEF Looked, EditInv, ContentsKept
  <2>7. ASSUME NEW p \in Paths  PROVE Followed(p)'
    <3>1. watch.snapshot[p] = s[p] => Followed(p)
      BY <2>1 DEF EditInv, Following
    <3> QED  BY <2>1, <2>5, <3>1 DEF Followed
  <2>8. ASSUME NEW p \in Paths \ Named  PROVE Listed(p)'
    <3>1. Listed(p)
      BY <2>1 DEF EditInv, Following
    <3>2. Coming(Requirements) => Coming(Requirements)'
      BY <2>5 DEF Coming, Awaited
    <3> QED  BY <2>1, <2>5, <3>1, <3>2, SameDisk DEF Listed
  <2> QED  BY <2>4, <2>6, <2>7, <2>8 DEF EditInv, Following
<1> QED  BY <1>1, <1>2

\* The watcher's refresh: what it does not sync is open, or queued again.
LEMMA WatcherRefreshFollows ==
  ASSUME Followable, EditInv, TextInv', Asked', WatcherRefresh \/ WatcherRefreshFails
  PROVE  EditInv'
<1> USE DEF EditInv, TextInv, FeedInv, TypeOK, WatchOK
<1>1. /\ watch.at = "refresh" /\ loop'.at # "watcher" /\ UNCHANGED <<disk, held, loop>>
      /\ watch.ready \subseteq Paths /\ watch.pending \in [Paths -> -1 .. Debounce]
      /\ Debounce \in Nat
  BY DEF WatcherRefresh, WatcherRefreshFails, WatchTypes, Publishers, Serial
<1>2. CASE WatcherRefresh /\ closed
  <2>1. /\ watch'.snapshot = watch.snapshot /\ watch'.pending = watch.pending
        /\ watch'.ready = {} /\ watch'.at = "dead" /\ UNCHANGED session
    BY <1>2 DEF WatcherRefresh
  <2> QED  BY <1>1, <2>1 DEF ContentsKept, MirrorFollowsRefs, WatchTypes, Following, Copied
<1>3. CASE WatcherRefresh /\ ~closed
  <2>1. /\ watch'.snapshot = watch.snapshot /\ watch'.pending = watch.pending
        /\ watch'.ready = {} /\ RefreshPaths(watch.ready)
    BY <1>3 DEF WatcherRefresh
  <2>2. WatchTypes' /\ \A p \in Paths : Awaited(p) => Awaited(p)' \/ p \in watch.ready
    BY <2>1 DEF WatchTypes, Awaited
  <2> QED  BY <1>1, <2>1, <2>2, RefreshFollows
<1>4. CASE WatcherRefreshFails
  <2>1. PICK S \in SUBSET watch.ready : RefreshPaths(S)
    BY <1>4 DEF WatcherRefreshFails
  <2>2. /\ watch'.snapshot = watch.snapshot /\ watch'.ready = {}
        /\ watch'.pending = [p \in Paths |-> IF p \in watch.ready THEN Debounce ELSE watch.pending[p]]
    BY <1>4 DEF WatcherRefreshFails, Requeued
  <2>3. WatchTypes' /\ \A p \in Paths : Awaited(p) => Awaited(p)'
    BY <1>1, <2>2 DEF WatchTypes, Awaited
  <2> QED  BY <1>1, <2>1, <2>2, <2>3, RefreshFollows
<1> QED  BY <1>2, <1>3, <1>4

\* A session is opened on a copy of the disk, before there is a watcher.
LEMMA InitializeSessionFollows ==
  ASSUME Followable, EditInv, TextInv', Asked', InitializeSession
  PROVE  EditInv'
<1>1. /\ watch = NotWatching /\ UNCHANGED <<disk, held, watch>>
      /\ loop.at = "init" /\ disk \in Files
  BY DEF InitializeSession, EditInv, TextInv, FeedInv, TypeOK, FilesOK, Publishers
<1>2. ContentsKept' /\ WatchTypes' /\ Following'
  BY <1>1 DEF EditInv, ContentsKept, WatchTypes, Following, NotWatching
<1>3. CASE Reply /\ UNCHANGED session
  BY <1>2, <1>3 DEF Reply, Idle, EditInv, MirrorFollowsRefs, Copied
<1>4. CASE ~(Reply /\ UNCHANGED session)
  <2>1. mirror' = Snapshot(disk) /\ refs' = RequirementsReferences(disk) /\ overlays' = None
    BY <1>4 DEF InitializeSession
  <2>2. /\ \A p \in Paths \ Named : p \in RequirementsReferences(disk) <=> Snapshot(disk)[p] # Missing
        /\ Looked(Snapshot(disk))
    BY Wanted, DiskTypes DEF Looked, EditInv, ContentsKept
  <2>3. MirrorFollowsRefs'
    BY <2>1, <2>2 DEF MirrorFollowsRefs
  <2>4. Copied'
    BY <1>1, <2>1, <2>2 DEF Copied, Looked
  <2> QED  BY <1>2, <2>3, <2>4 DEF EditInv
<1> QED  BY <1>3, <1>4

\* The watcher starts with what was copied: an edit since then is seen.
LEMMA InitializeWatcherFollows ==
  ASSUME Followable, EditInv, TextInv', Asked', InitializeWatcher
  PROVE  EditInv'
<1>1. /\ watch = NotWatching /\ UNCHANGED <<disk, held, mirror, overlays, refs>>
      /\ loop.at = "watcher" /\ loop'.at # "watcher" /\ mirror \in Files
  BY DEF InitializeWatcher, Reply, Goto, Idle, EditInv, TextInv, FeedInv, TypeOK, FilesOK, LoopOK,
     Publishers
<1>2. ContentsKept' /\ MirrorFollowsRefs' /\ Copied'
  BY <1>1 DEF EditInv, ContentsKept, MirrorFollowsRefs, Copied
<1>3. CASE watch' = NotWatching
  BY <1>1, <1>2, <1>3 DEF EditInv, WatchTypes, Following, NotWatching
<1>4. CASE watch' = [NotWatching EXCEPT !.at = "poll", !.snapshot = Baseline]
  <2>1. /\ watch'.at = "poll" /\ watch'.snapshot = mirror /\ watch'.ready = {}
        /\ watch'.pending = [p \in Paths |-> -1]
    BY <1>4 DEF NotWatching, Baseline
  <2>2. WatchTypes'
    BY <1>1, <2>1 DEF WatchTypes
  <2>3. Looked(watch.snapshot)'
    BY <1>1, <2>1 DEF EditInv, Copied, Looked
  <2>4. \A p \in Paths : Followed(p)'
    BY <1>1, <2>1 DEF Followed
  <2>5. ASSUME NEW p \in Paths \ Named  PROVE Listed(p)'
    <3>1. /\ p \in RequirementsReferences(disk) <=> Snapshot(disk)[p] # Missing
          /\ mirror[p] # Missing <=> p \in refs
      BY Wanted, DiskTypes DEF EditInv, MirrorFollowsRefs
    <3> QED  BY <1>1, <2>1, <3>1, SameDisk DEF Listed
  <2> QED  BY <1>2, <2>2, <2>3, <2>4, <2>5 DEF EditInv, Following
<1>5. CASE UNCHANGED watch
  BY <1>1, <1>2, <1>5 DEF EditInv, WatchTypes, Following, NotWatching
<1> QED  BY <1>3, <1>4, <1>5 DEF InitializeWatcher

\* The editor opens, closes or asks for a refresh.
LEMMA NotifiedFollows ==
  ASSUME Followable, EditInv, TextInv', Asked', Notified
  PROVE  EditInv'
<1>1. /\ UNCHANGED <<disk, held, watch>> /\ loop'.at # "watcher"
  BY DEF Notified, PublishNow, Goto, EditInv, TextInv, FeedInv, TypeOK, LoopOK
<1>2. WatchTypes' /\ Copied' /\ \A p \in Paths : Awaited(p) => Awaited(p)'
  BY <1>1 DEF EditInv, WatchTypes, Copied, Awaited
<1>3. CASE UNCHANGED session
  BY <1>1, <1>3, StandsStill DEF EditInv, WatchTypes
<1>4. ASSUME NEW q \in Openable, NEW text \in TextsOf(q), SetOverlay(q, text)
      PROVE  EditInv'
  <2>1. /\ mirror' = [mirror EXCEPT ![q] = text] /\ overlays' = [overlays EXCEPT ![q] = text]
        /\ refs' = refs /\ q \in Named /\ q \in Paths /\ text # Missing
        /\ mirror \in Files /\ overlays \in Files
    BY <1>4 DEF SetOverlay, Followable, OpenNamed, EditInv, TextInv, FeedInv, TypeOK, FilesOK
  <2>2. ContentsKept' /\ MirrorFollowsRefs'
    BY <1>1, <2>1 DEF EditInv, ContentsKept, MirrorFollowsRefs
  <2>3. \A p \in Paths : Followed(p) => Followed(p)'
    BY <1>1, <2>1 DEF Followed, Awaited
  <2>4. \A p \in Paths : Listed(p) <=> Listed(p)'
    BY <1>1, <2>1, SameDisk DEF Listed, Awaited, Coming
  <2> QED  BY <1>1, <1>2, <2>2, <2>3, <2>4 DEF EditInv, Following, Looked
<1>5. ASSUME NEW q \in Openable, ClearOverlay(q)
      PROVE  EditInv'
  <2>1. q \in Paths /\ \A p \in Paths : overlays'[p] = Missing => overlays[p] = Missing \/ p \in {q}
    BY <1>5 DEF ClearOverlay, EditInv, TextInv, FeedInv, TypeOK, FilesOK
  <2>2. SyncPathsFromDisk({q})
    BY <1>5 DEF ClearOverlay
  <2> QED  BY <1>1, <1>2, <2>1, <2>2, SyncFollows
<1>6. ASSUME NEW q \in Paths, RefreshPaths({q})
      PROVE  EditInv'
  BY <1>1, <1>2, <1>6, RefreshFollows
<1> QED  BY <1>3, <1>4, <1>5, <1>6 DEF Notified

\* A completion writes the text it began with back into the mirror.
LEMMA HandlerCallFollows ==
  ASSUME Followable, EditInv, TextInv', Asked', HandlerCall
  PROVE  EditInv'
<1>1. /\ UNCHANGED <<disk, held, overlays, refs, watch>> /\ loop'.at # "watcher"
      /\ mirror \in Files /\ loop.path \in Paths
  BY DEF HandlerCall, EditInv, TextInv, FeedInv, TypeOK, FilesOK, LoopOK, RequestOK
<1>2. CASE mirror' = mirror
  BY <1>1, <1>2, StandsStill DEF EditInv, WatchTypes
<1>3. CASE mirror' = [mirror EXCEPT ![loop.path] = SourceText(loop.path)] /\ SourceText(loop.path) # Missing
  <2> DEFINE q == loop.path
  <2>1. SourceText(q) = IF overlays[q] # Missing THEN overlays[q] ELSE disk[q]
    BY <1>3 DEF SourceText
  <2>2. q \in Named /\ mirror'[q] = SourceText(q) /\ \A p \in Paths \ {q} : mirror'[p] = mirror[p]
    BY <1>1, <1>3 DEF EditInv, Asked, Followable, OpenNamed, HandlerCall
  <2>3. ContentsKept' /\ MirrorFollowsRefs' /\ WatchTypes' /\ Copied'
    BY <1>1, <2>2 DEF EditInv, ContentsKept, MirrorFollowsRefs, WatchTypes, Copied
  <2>4. \A p \in Paths : Followed(p) => Followed(p)'
    BY <1>1, <2>1, <2>2 DEF Followed, Awaited
  <2>5. \A p \in Paths : Listed(p) <=> Listed(p)'
    BY <1>1, SameDisk DEF Listed, Awaited, Coming
  <2> QED  BY <1>1, <2>3, <2>4, <2>5 DEF EditInv, Following, Looked
<1> QED  BY <1>2, <1>3 DEF HandlerCall, Repaired

\* A request stays about its document until it is answered.
LEMMA RequestMoves ==
  ASSUME LoopOK, ConvertParams \/ HandlerCall \/ ConvertResult \/ AnswerRequest
  PROVE  loop'.at = "read" \/ (loop'.at \in {"request", "result"} /\ loop'.path = loop.path
                                /\ loop.at \in {"convert", "request"})
<1>1. Reply => loop'.at = "read"
  BY DEF Reply, Idle
<1>2. CASE ConvertParams
  BY <1>1, <1>2 DEF ConvertParams, LoopOK
<1>3. CASE HandlerCall
  BY <1>3 DEF HandlerCall, LoopOK
<1>4. CASE ConvertResult
  BY <1>4 DEF ConvertResult, LoopOK
<1> QED  BY <1>1, <1>2, <1>3, <1>4 DEF AnswerRequest

\* A step of the teardown leads to the next, to the end, or to the next message.
LEMMA TeardownMoves ==
  ASSUME LoopOK, Teardown
  PROVE  loop'.at \in {"join", "detach", "close", "rejoin", "read", "exited"}
<1>1. \A l : Goto(l) => loop'.at = l
  BY DEF Goto, LoopOK
<1>2. Reply => loop'.at = "read"
  BY DEF Reply, Idle
<1> QED  BY <1>1, <1>2 DEF Teardown

\* The other steps, which leave disk, session and queue alone.
LEMMA StutterFollows ==
  ASSUME Followable, EditInv, TextInv', Asked',
         \/ WatcherCallback \/ Publish("watch") \/ Publish("loop") \/ UNCHANGED vars
         \/ RefuseMessage \/ LeaveServer \/ ReadInitialize \/ ReadRequest \/ ReadShutdown
         \/ ConvertParams \/ ConvertResult \/ AnswerRequest \/ Teardown \/ JoinGivesUp
  PROVE  EditInv'
<1>0. LoopOK
  BY DEF EditInv, TextInv, FeedInv, TypeOK
<1>a. Teardown => loop'.at \in {"join", "detach", "close", "rejoin", "read", "exited"}
  BY <1>0, TeardownMoves
<1>b. ConvertParams \/ HandlerCall \/ ConvertResult \/ AnswerRequest =>
        \/ loop'.at = "read"
        \/ /\ loop'.at \in {"request", "result"} /\ loop'.path = loop.path
           /\ loop.at \in {"convert", "request"}
  BY <1>0, RequestMoves
<1> USE DEF EditInv, TextInv, FeedInv, TypeOK, LoopOK, WatchOK
<1>1. UNCHANGED <<disk, held, mirror, overlays, refs>>
  BY DEF vars, WatcherCallback, Publish, PublishEnter, PublishAnalyze, PublishConvert,
     PublishWrite, Skip, Leave, RefuseMessage, LeaveServer, ReadInitialize, ReadRequest,
     ReadShutdown, ConvertParams, ConvertResult, AnswerRequest, Teardown, JoinGivesUp
<1>2. loop'.at = "watcher" => loop.at = "watcher"
  <2>1. CASE Publish("watch") \/ Publish("loop") \/ WatcherCallback \/ UNCHANGED vars
    BY <2>1 DEF vars, WatcherCallback, Publish, PublishEnter, PublishAnalyze, PublishConvert,
       PublishWrite, Skip, Leave, Idle
  <2>2. CASE RefuseMessage \/ LeaveServer \/ ReadInitialize \/ ReadRequest \/ ReadShutdown
    BY <2>2 DEF RefuseMessage, LeaveServer, ReadInitialize, ReadRequest, ReadShutdown, Goto
  <2>3. CASE ConvertParams \/ ConvertResult \/ AnswerRequest
    BY <1>b, <2>3
  <2>4. CASE Teardown
    BY <1>a, <2>4
  <2>5. CASE JoinGivesUp
    BY <2>5 DEF JoinGivesUp, Goto, Reply, Idle
  <2> QED  BY <2>1, <2>2, <2>3, <2>4, <2>5
<1>3. /\ watch'.snapshot = watch.snapshot /\ watch'.pending = watch.pending
      /\ watch'.ready = watch.ready
      /\ watch.ready # {} => watch'.at = "refresh"
      /\ watch'.at \notin {"off", "dead"} => watch.at \notin {"off", "dead"}
  <2>1. CASE WatcherCallback
    BY <2>1 DEF WatcherCallback, WatchTypes
  <2>2. CASE Publish("watch")
    <3>1. watch.at = "publish"
      BY <2>2 DEF Publish, PublishEnter, PublishAnalyze, PublishConvert, PublishWrite, Publishers
    <3>2. UNCHANGED watch \/ watch' = [watch EXCEPT !.at = "poll"]
      BY <2>2 DEF Publish, PublishEnter, PublishAnalyze, PublishConvert, PublishWrite, Skip, Leave
    <3> QED  BY <3>1, <3>2 DEF WatchTypes
  <2>3. CASE ~WatcherCallback /\ ~Publish("watch")
    <3>1. UNCHANGED watch
      BY <2>3 DEF vars, Publish, PublishEnter, PublishAnalyze, PublishConvert, PublishWrite, Skip,
         Leave, RefuseMessage, LeaveServer, ReadInitialize, ReadRequest, ReadShutdown,
         ConvertParams, ConvertResult, AnswerRequest, Teardown, JoinGivesUp
    <3> QED  BY <3>1 DEF WatchTypes
  <2> QED  BY <2>1, <2>2, <2>3
<1> QED  BY <1>1, <1>2, <1>3, StandsStill

\* Only a document the editor opens is asked about.
LEMMA NextAsks ==
  ASSUME EditInv, [Next]_vars
  PROVE  Asked'
<1>0. LoopOK
  BY DEF EditInv, TextInv, FeedInv, TypeOK
<1>a. Teardown => loop'.at \in {"join", "detach", "close", "rejoin", "read", "exited"}
  BY <1>0, TeardownMoves
<1>b. ConvertParams \/ HandlerCall \/ ConvertResult \/ AnswerRequest =>
        \/ loop'.at = "read"
        \/ /\ loop'.at \in {"request", "result"} /\ loop'.path = loop.path
           /\ loop.at \in {"convert", "request"}
  BY <1>0, RequestMoves
<1> USE DEF EditInv, TextInv, FeedInv, TypeOK, LoopOK, Asked
<1>1. CASE Publish("loop") \/ WatcherStep \/ WatcherRefreshFails \/ EditDisk \/ UNCHANGED vars
  BY <1>1 DEF WatcherStep, PollOnce, WatcherRefresh, WatcherCallback, WatcherRefreshFails, EditDisk,
     vars, Publish, PublishEnter, PublishAnalyze, PublishConvert, PublishWrite, Skip, Leave, Idle
<1>2. CASE Read
  BY <1>2 DEF Read, RefuseMessage, LeaveServer, ReadInitialize, Notified, ReadRequest, ReadShutdown,
     Reading, PublishNow, Goto
<1>3. CASE InitializeSession \/ InitializeWatcher \/ AnswerRequest \/ Teardown \/ JoinGivesUp
  <2>1. CASE InitializeSession \/ InitializeWatcher
    BY <2>1 DEF InitializeSession, InitializeWatcher, Goto, Reply, Idle
  <2>2. CASE AnswerRequest \/ JoinGivesUp
    BY <2>2 DEF AnswerRequest, JoinGivesUp, Goto, Reply, Idle
  <2> QED  BY <1>a, <1>3, <2>1, <2>2
<1>4. CASE ConvertParams \/ HandlerCall \/ ConvertResult
  BY <1>b, <1>4
<1> QED  BY <1>1, <1>2, <1>3, <1>4 DEF Next, LoopStep

LEMMA NextFollows ==
  ASSUME Followable, EditInv, [Next]_vars
  PROVE  EditInv'
<1>1. TextInv'
  BY NextTexts DEF EditInv, Followable
<1>2. Asked'
  BY <1>1, NextAsks
<1> QED  BY <1>1, <1>2, EditDiskFollows, PollOnceFollows, WatcherRefreshFollows,
            InitializeSessionFollows, InitializeWatcherFollows, NotifiedFollows,
            HandlerCallFollows, StutterFollows
         DEF Next, Read, LoopStep, WatcherStep

\* Where the mirror is behind, a poll is going to bring it up.
LEMMA BehindIsComing ==
  ASSUME Followable, EditInv
  PROVE  NoEditIsLost
<1> SUFFICES ASSUME NEW p \in Paths, mirror[p] # Truth[p]
             PROVE  /\ overlays[p] = Missing
                    /\ Polled => Coming(p) \/ Coming(Requirements)
  BY DEF NoEditIsLost
<1>1. overlays[p] = Missing /\ mirror[p] # Snapshot(disk)[p]
  BY DEF Truth, EditInv, TextInv, MirrorsEditor
<1>2. ASSUME Polled, ~Coming(p), ~Coming(Requirements)
      PROVE  FALSE
  <2>1. /\ Followed(p) /\ (p \notin Named => Listed(p))
        /\ watch.snapshot[p] = Snapshot(disk)[p] /\ ~Awaited(p)
    BY <1>2 DEF Polled, EditInv, Following, Coming, Awaited
  <2>2. CASE p \in Named
    BY <1>1, <2>1, <2>2, Wanted, DiskTypes DEF Followed
  <2>3. CASE p \notin Named
    <3>1. /\ mirror[p] # Missing <=> p \in refs
          /\ p \in refs <=> p \in RequirementsReferences(disk)
          /\ p \in RequirementsReferences(disk) <=> Snapshot(disk)[p] # Missing
          /\ Snapshot(disk)[p] \in {disk[p], Missing}
      BY <1>2, <2>1, <2>3, Wanted, DiskTypes DEF EditInv, MirrorFollowsRefs, Listed
    <3> QED  BY <1>1, <2>1, <3>1 DEF Followed
  <2> QED  BY <2>2, <2>3
<1> QED  BY <1>1, <1>2

\* The mirror holds the editor's text of what is open, and where it is behind
\* the disk, the watcher has yet to poll, or has queued the file or
\* requirements.txt: across starts, debounces, failed refreshes, open documents
\* and refreshes the client asks for, for files that requirements.txt starts or
\* stops including as well.
THEOREM EditsArrive == ASSUME Followable PROVE Spec => []NoEditIsLost
<1>1. Init => EditInv
  <2> SUFFICES ASSUME Init  PROVE EditInv
    OBVIOUS
  <2>1. TextInv
    <3>1. Serial /\ MirrorsEditor /\ RequestOK /\ OpenDocumentsAnswerFromOneText
      BY DEF Init, Serial, TornDown, MirrorsEditor, RequestOK, None, Idle,
         OpenDocumentsAnswerFromOneText
    <3> QED  BY <3>1, InitFeeds DEF TextInv
  <2>2. /\ disk \in Files /\ \A p \in Paths : disk[p] \in TextsOf(p) \cup {Missing}
        /\ held = [p \in Paths |-> {disk[p]}] /\ refs = {} /\ mirror = None
        /\ loop.at = "read" /\ watch = NotWatching
    BY DEF Init, Idle
  <2> QED  BY <2>1, <2>2 DEF EditInv, Asked, ContentsKept, MirrorFollowsRefs, WatchTypes, Following,
              Copied, None, NotWatching
<1>2. EditInv /\ [Next]_vars => EditInv'
  BY NextFollows
<1>3. EditInv => NoEditIsLost
  BY BehindIsComing
<1> QED  BY <1>1, <1>2, <1>3, PTL DEF Spec
=============================================================================
