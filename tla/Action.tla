------------------------------- MODULE Action -------------------------------
(***************************************************************************)
(* Declared-output reconciliation (src/pyinc/action.py, with the file-system *)
(* steps of _safe_fs.py and the locks of _locking.py): processes converge    *)
(* one root on the outputs they declare, under lock files, with a ledger of  *)
(* what the tool owns.  A run may stop or be killed between any two of its    *)
(* file-system steps, and people edit the root without taking the locks.     *)
(*                                                                         *)
(* The state directory lies outside the root, so the ledger is no path of    *)
(* it.  The looks of a preflight are placed at one instant; every later      *)
(* step looks again before it changes anything, as the code does.            *)
(***************************************************************************)
EXTENDS Integers, Sequences, FiniteSets, SequencesExt

CONSTANTS
  Procs,          \* processes that reconcile
  Paths,          \* root-relative paths, as sequences of names
  Contents,       \* file contents, standing for their SHA-256 digests too
  Layouts,        \* the output sets the desired-set function may return
  Key(_),         \* _portable_path_key, name by name
  Rank(_),        \* the order sorted() puts paths in
  LockPaths,      \* the lock files of root and state directory, sorted
  Incarnations,   \* device and inode numbers the root can get
  RootFates,      \* what deleting the root may leave: another root, or none
  MaxRuns, MaxTouches,  \* bounds on the runs and on the edits by people
  Absent

Locks == {LockPaths[k] : k \in 1 .. Len(LockPaths)}

\* An inode is known by who created it: a file a person puts in the place of
\* an output is another file, whatever it holds.
Nothing == [kind |-> "none", bytes |-> Absent, by |-> Absent]
Dir == [kind |-> "dir", bytes |-> Absent, by |-> Absent]
Link == [kind |-> "link", bytes |-> Absent, by |-> Absent]
File(b, who) == [kind |-> "file", bytes |-> b, by |-> who]

Outputs == UNION {[S -> Contents] : S \in SUBSET Paths}
NoOutputs == [q \in {} |-> Absent]

Ledgers == [outputs : Outputs, incarnation : Incarnations \cup {Absent}, corrupt : BOOLEAN]

ASSUME ConstantsAssumption ==
  /\ Layouts \subseteq Outputs
  /\ \A q \in Paths : Rank(q) \in Nat
  /\ LockPaths \in Seq(Locks) /\ LockPaths # <<>>
  /\ \A k, l \in 1 .. Len(LockPaths) : LockPaths[k] = LockPaths[l] => k = l
  /\ Absent \notin Procs \cup Contents \cup Incarnations \cup Ledgers
  /\ RootFates \subseteq Incarnations \cup {Absent}
  /\ MaxRuns \in Nat /\ MaxTouches \in Nat

\* _ancestors: the directories a path is in.
Ancestors(q) == {SubSeq(q, 1, k) : k \in 1 .. Len(q) - 1}

\* A path is a sequence of names and its directories are paths; the portable
\* spelling (Key) is taken name by name, so a directory's is the front of the path's.
ASSUME PathsAssumption ==
  \A q \in Paths :
    /\ q \in Seq({q[k] : k \in DOMAIN q}) /\ q # <<>> /\ Ancestors(q) \subseteq Paths
    /\ Key(q) \in Seq({Key(q)[k] : k \in DOMAIN Key(q)}) /\ Len(Key(q)) = Len(q)
    /\ \A a \in Ancestors(q) : Key(a) = SubSeq(Key(q), 1, Len(a))

VARIABLES
  fs,            \* what each path of the root names
  temps,         \* temporary files of atomic_write: their directory and owner,
                 \* Absent once the process that wrote one is dead
  incarnation,   \* which directory the root path names now, Absent for none
  ledger,        \* the ownership manifest, Absent before the first
  locks,         \* who holds each lock file
  procs,         \* the local state of each run
  runs, touches, \* how many runs started, how many edits people made
  stopped        \* history: layouts of the runs that stopped after a change,
                 \* since the ledger last described the root

vars == <<fs, temps, incarnation, ledger, locks, procs, runs, touches, stopped>>

-----------------------------------------------------------------------------
(* Paths.                                                                   *)

Directories == UNION {Ancestors(q) : q \in Paths}

\* What recovery needs of the paths: one spelling for each directory, and a
\* path that is the longest.
OneSpelling == \A a, b \in Directories : Key(a) = Key(b) => a = b
DeepestPath == Paths # {} => \E q \in Paths : \A r \in Paths : Len(r) <= Len(q)

Below(q, a) == a \in Ancestors(q)
Parent(q) == Front(q)
Children(a) == {q \in Paths : Len(q) = Len(a) + 1 /\ IsPrefix(a, q)}
HoldsTemp(a) == \E t \in temps : t.dir = a
First(S) == CHOOSE q \in S : \A r \in S : Rank(q) <= Rank(r)
Deepest(S) ==
  CHOOSE q \in S : \A r \in S : Len(q) > Len(r) \/ (Len(q) = Len(r) /\ Rank(q) <= Rank(r))

\* _validate_path_set: no two outputs share a portable spelling, none is a
\* directory of another.
ValidPathSet(S) ==
  \A q \in S, r \in S : q # r => ~IsPrefix(Key(q), Key(r))

IsFile(q) == fs[q].kind = "file"
IsDir(q) == fs[q].kind = "dir"
Exists(q) == fs[q].kind # "none"

\* _safe_target refuses a symbolic link on the way and a parent that is no
\* directory.
Unsafe(q) ==
  \/ fs[q].kind = "link"
  \/ \E a \in Ancestors(q) : fs[a].kind \in {"file", "link"}

-----------------------------------------------------------------------------
(* The preflight of _reconcile_locked, for desired outputs d and the outputs *)
(* o the ledger records.                                                    *)

Orphans(d, o) == DOMAIN o \ DOMAIN d

\* A change of spelling only: one file on a case-insensitive file system.
SpellingClash(d, o) == \E r \in Orphans(d, o), q \in DOMAIN d : Key(r) = Key(q)

\* Directories of the previous layout that stand where a desired file goes.
\* Of two spellings of one directory only the first is recorded.
InTheWay(d, o) ==
  {a \in UNION {Ancestors(r) : r \in Orphans(d, o)} :
     \E q \in DOMAIN d : IsPrefix(Key(q), Key(a))}
Prunable(d, o) ==
  {a \in InTheWay(d, o) : \A b \in InTheWay(d, o) : Key(b) = Key(a) => Rank(a) <= Rank(b)}
PruneKeys(d, o) == {Key(a) : a \in Prunable(d, o)}

\* _orphan_cannot_exist and _holds_only_desired_outputs: what a run that
\* stopped before its ledger has released already.
Unreachable(r) == \E a \in Ancestors(r) : IsFile(a)
HoldsOnlyDesired(r, d) ==
  /\ \A a \in {r} \cup {q \in Paths : Below(q, r)} : ~HoldsTemp(a)
  /\ \A q \in Paths : Below(q, r) /\ Exists(q) => IsDir(q) \/ (IsFile(q) /\ q \in DOMAIN d)
AlreadyReleasedMutant(r, d) == FALSE
AlreadyReleased(r, d) ==
  IsDir(r) /\ (\E q \in DOMAIN d : Below(q, r)) /\ HoldsOnlyDesired(r, d)

OrphanRefused(r, d) ==
  ~Unreachable(r) /\ (Unsafe(r) \/ (IsDir(r) /\ ~AlreadyReleased(r, d)))

OrphanFiles(d, o) == {r \in Orphans(d, o) : IsFile(r)}

\* An orphan is the action's to delete only while it holds the recorded bytes.
Deletable(d, o) == {r \in OrphanFiles(d, o) : fs[r].bytes = o[r]}

DesiredRefused(q, d, o) ==
  LET blocking == Ancestors(q) \cap OrphanFiles(d, o)
  IN IF blocking # {} THEN ~(blocking \subseteq Deletable(d, o))
     ELSE Unsafe(q) \/ (IsDir(q) /\ Key(q) \notin PruneKeys(d, o))

\* _unprunable_entry: something in the directory that the run will not remove.
PruneRefused(a, d, o) ==
  \/ Unsafe(a)
  \/ /\ IsDir(a)
     /\ \/ HoldsTemp(a)
        \/ \E c \in Children(a) :
             /\ Exists(c) /\ c \notin Deletable(d, o)
             /\ ~(IsDir(c) /\ Key(c) \in PruneKeys(d, o))

Refused(d, o) ==
  \/ ~ValidPathSet(DOMAIN d) \/ SpellingClash(d, o)
  \/ \E r \in Orphans(d, o) : OrphanRefused(r, d)
  \/ \E q \in DOMAIN d : DesiredRefused(q, d, o)
  \/ \E a \in Prunable(d, o) : PruneRefused(a, d, o)

StaleMutant(d) == {q \in DOMAIN d : ~IsFile(q)}
Stale(d) == {q \in DOMAIN d : ~(IsFile(q) /\ fs[q].bytes = d[q])}

-----------------------------------------------------------------------------
(* A run: reconcile and plan.                                               *)

Phases == {"idle", "locking", "preflight", "delete", "unlink", "prune", "stage",
           "publish", "ledger", "release"}

Idle == [phase |-> "idle", outcome |-> Absent, dry_run |-> FALSE, held |-> 0,
         desired |-> NoOutputs, previous |-> NoOutputs, voided |-> FALSE,
         deletions |-> {}, prunes |-> {}, writes |-> {}, seen |-> Nothing, calm |-> TRUE]

Run(p) == procs[p]
In(p, phase) == procs[p].phase = phase
Goto(p, run) == procs' = [procs EXCEPT ![p] = run]
End(p, outcome) == Goto(p, [Run(p) EXCEPT !.phase = "release", !.outcome = outcome])

Start(p, dry) ==
  /\ In(p, "idle") /\ runs < MaxRuns
  /\ runs' = runs + 1
  /\ Goto(p, [Idle EXCEPT !.phase = "locking", !.dry_run = dry])
  /\ UNCHANGED <<fs, temps, incarnation, ledger, locks, touches, stopped>>

\* Both lock files, in sorted order whatever the caller's root and state_dir.
NextLock(p) == LockPaths[Run(p).held + 1]

AcquireLock(p) ==
  /\ In(p, "locking") /\ locks[NextLock(p)] = Absent
  /\ locks' = [locks EXCEPT ![NextLock(p)] = p]
  /\ LET held == Run(p).held + 1
     IN Goto(p, [Run(p) EXCEPT !.held = held,
                   !.phase = IF held = Len(LockPaths) THEN "preflight" ELSE "locking"])
  /\ UNCHANGED <<fs, temps, incarnation, ledger, runs, touches, stopped>>

\* The deadline passes while somebody else holds the lock.
LockTimeout(p) ==
  /\ In(p, "locking") /\ locks[NextLock(p)] \notin {Absent, p}
  /\ End(p, "timeout")
  /\ UNCHANGED <<fs, temps, incarnation, ledger, locks, runs, touches, stopped>>

\* _read_manifest: the claims of a ledger that names another incarnation of
\* the root are void.
Voided ==
  /\ ledger # Absent /\ ledger.incarnation # Absent /\ incarnation # Absent
  /\ ledger.incarnation # incarnation
Claims == IF ledger = Absent \/ Voided THEN NoOutputs ELSE ledger.outputs

\* The desired-set function is called under the locks and answers d.
Preflight(p, d) ==
  LET o == Claims
      run == [Run(p) EXCEPT !.desired = d, !.previous = o, !.voided = Voided]
      refused == (ledger # Absent /\ ledger.corrupt) \/ Refused(d, o)
  IN
  /\ In(p, "preflight")
  /\ Goto(p, IF refused \/ run.dry_run
              THEN [run EXCEPT !.phase = "release",
                               !.outcome = IF refused THEN "refused" ELSE "planned"]
              ELSE [run EXCEPT !.phase = "delete", !.deletions = Deletable(d, o),
                               !.prunes = Prunable(d, o), !.writes = Stale(d)])
  /\ UNCHANGED <<fs, temps, incarnation, ledger, locks, runs, touches, stopped>>

\* An orphan that drifted, or is gone, is passed over.
Skip(p, q) == Goto(p, [Run(p) EXCEPT !.phase = "delete", !.deletions = @ \ {q}])

\* The first look at an orphan: its bytes, and which file they came from.
VerifyOrphan(p) ==
  LET q == First(Run(p).deletions)
      owned == IsFile(q) /\ fs[q].bytes = Run(p).previous[q]
  IN
  /\ In(p, "delete")
  /\ IF Run(p).deletions = {} THEN Goto(p, [Run(p) EXCEPT !.phase = "prune"])
     ELSE IF Unsafe(q) \/ IsDir(q) THEN End(p, "refused")
     ELSE IF owned THEN Goto(p, [Run(p) EXCEPT !.phase = "unlink", !.seen = fs[q]])
     ELSE Skip(p, q)
  /\ UNCHANGED <<fs, temps, incarnation, ledger, locks, runs, touches, stopped>>

StillTheFileMutant(p, q) == IsFile(q)
\* unlink_regular_file pins the unlink to the file whose bytes were verified.
StillTheFile(p, q) == fs[q] = Run(p).seen

\* A change to the root that the ledger does not describe yet.
Disturb(p) == stopped' = stopped \cup {Run(p).desired}

UnlinkOrphan(p) ==
  LET q == First(Run(p).deletions)
  IN
  /\ In(p, "unlink")
  /\ IF IsDir(q) \/ Unsafe(q)
     THEN End(p, "refused") /\ UNCHANGED <<fs, stopped>>
     ELSE /\ Goto(p, [Run(p) EXCEPT !.phase = "delete", !.deletions = @ \ {q}])
          /\ IF Exists(q) /\ StillTheFile(p, q)
             THEN fs' = [fs EXCEPT ![q] = Nothing] /\ Disturb(p)
             ELSE UNCHANGED <<fs, stopped>>
  /\ UNCHANGED <<temps, incarnation, ledger, locks, runs, touches>>

PruneDirectory(p) ==
  LET q == Deepest(Run(p).prunes)
      empty == ~HoldsTemp(q) /\ \A c \in Children(q) : ~Exists(c)
  IN
  /\ In(p, "prune")
  /\ IF Run(p).prunes = {}
     THEN Goto(p, [Run(p) EXCEPT !.phase = "stage"]) /\ UNCHANGED <<fs, stopped>>
     ELSE IF Unsafe(q) \/ (IsDir(q) /\ ~empty)
     THEN End(p, "refused") /\ UNCHANGED <<fs, stopped>>
     ELSE /\ Goto(p, [Run(p) EXCEPT !.prunes = @ \ {q}])
          /\ IF IsDir(q) THEN fs' = [fs EXCEPT ![q] = Nothing] /\ Disturb(p)
             ELSE UNCHANGED <<fs, stopped>>
  /\ UNCHANGED <<temps, incarnation, ledger, locks, runs, touches>>

Temp(p) == [dir |-> Parent(First(Run(p).writes)), owner |-> p]

\* The first half of atomic_write: missing parents, and a temporary file.
StageWrite(p) ==
  LET q == First(Run(p).writes)
  IN
  /\ In(p, "stage")
  /\ IF Run(p).writes = {}
     THEN Goto(p, [Run(p) EXCEPT !.phase = "ledger"]) /\ UNCHANGED <<fs, temps, incarnation, stopped>>
     ELSE IF Unsafe(q) \/ IsDir(q)
     THEN End(p, "refused") /\ UNCHANGED <<fs, temps, incarnation, stopped>>
     ELSE /\ fs' = [a \in Paths |-> IF a \in Ancestors(q) THEN Dir ELSE fs[a]]
          /\ incarnation' \in IF incarnation = Absent THEN Incarnations ELSE {incarnation}
          /\ temps' = temps \cup {Temp(p)}
          /\ Disturb(p)
          /\ Goto(p, [Run(p) EXCEPT !.phase = "publish"])
  /\ UNCHANGED <<ledger, locks, runs, touches>>

\* _require_directory_identity: the parent is the one the temporary file is in.
SameParent(p) == Temp(p) \in temps

\* Its second half: the rename, unless the target or its parent changed.
PublishOutput(p) ==
  LET q == First(Run(p).writes)
  IN
  /\ In(p, "publish")
  /\ temps' = temps \ {Temp(p)}
  /\ IF ~SameParent(p) \/ fs[q].kind \in {"dir", "link"}
     THEN End(p, "refused") /\ UNCHANGED fs
     ELSE /\ fs' = [fs EXCEPT ![q] = File(Run(p).desired[q], "action")]
          /\ Goto(p, [Run(p) EXCEPT !.phase = "stage", !.writes = @ \ {q}])
  /\ UNCHANGED <<incarnation, ledger, locks, runs, touches, stopped>>

\* The ledger is left alone when it says so already.
LedgerDue(p) ==
  \/ Run(p).desired # Run(p).previous \/ Run(p).voided
  \/ Run(p).desired # NoOutputs /\ ledger = Absent

WriteManifest(p) ==
  /\ In(p, "ledger")
  /\ ledger' = IF LedgerDue(p)
               THEN [outputs |-> Run(p).desired, incarnation |-> incarnation, corrupt |-> FALSE]
               ELSE ledger
  /\ stopped' = {}
  /\ End(p, "done")
  /\ UNCHANGED <<fs, temps, incarnation, locks, runs, touches>>

UnlockedMutant(p) == [l \in Locks |-> Absent]
Unlocked(p) == [l \in Locks |-> IF locks[l] = p THEN Absent ELSE locks[l]]

Release(p) ==
  /\ In(p, "release")
  /\ locks' = Unlocked(p)
  /\ Goto(p, Idle)
  /\ UNCHANGED <<fs, temps, incarnation, ledger, runs, touches, stopped>>

\* An exception or an I/O error between two steps: atomic_write drops its
\* temporary file, the locks are released.
Stop(p) ==
  /\ Run(p).phase \notin {"idle", "release"}
  /\ temps' = IF In(p, "publish") THEN temps \ {Temp(p)} ELSE temps
  /\ End(p, "stopped")
  /\ UNCHANGED <<fs, incarnation, ledger, locks, runs, touches, stopped>>

\* The process dies: the system releases its locks, its temporary file stays.
Kill(p) ==
  /\ Run(p).phase # "idle"
  /\ locks' = Unlocked(p)
  /\ Goto(p, Idle)
  /\ temps' = {[t EXCEPT !.owner = IF @ = p THEN Absent ELSE @] : t \in temps}
  /\ UNCHANGED <<fs, incarnation, ledger, runs, touches, stopped>>

-----------------------------------------------------------------------------
(* People and other programs, who take no lock.                             *)

Touch ==
  /\ touches < MaxTouches /\ touches' = touches + 1
  /\ procs' = [p \in Procs |-> [procs[p] EXCEPT !.calm = FALSE]]

\* A path that can be replaced: its parents are directories, it holds nothing.
Replaceable(q) ==
  /\ \A a \in Ancestors(q) : IsDir(a)
  /\ \A c \in Children(q) : ~Exists(c)
  /\ ~HoldsTemp(q)

Edit(q, e) ==
  /\ Touch /\ incarnation # Absent /\ Replaceable(q) /\ fs[q] # e
  /\ fs' = [fs EXCEPT ![q] = e]
  /\ UNCHANGED <<temps, incarnation, ledger, locks, runs, stopped>>

\* The root is deleted, and perhaps made anew with its old inode number.
ReplaceRoot(i) ==
  /\ Touch
  /\ incarnation' = i
  /\ fs' = [q \in Paths |-> Nothing] /\ temps' = {}
  /\ UNCHANGED <<ledger, locks, runs, stopped>>

CorruptLedger ==
  /\ Touch
  /\ ledger # Absent
  /\ ledger' = [ledger EXCEPT !.corrupt = TRUE]
  /\ UNCHANGED <<fs, temps, incarnation, locks, runs, stopped>>

-----------------------------------------------------------------------------

Init ==
  /\ fs = [q \in Paths |-> Nothing] /\ temps = {}
  /\ incarnation = Absent /\ ledger = Absent
  /\ locks = [l \in Locks |-> Absent]
  /\ procs = [p \in Procs |-> Idle]
  /\ runs = 0 /\ touches = 0 /\ stopped = {}

Advance(p) ==
  \/ AcquireLock(p) \/ LockTimeout(p) \/ \E d \in Layouts : Preflight(p, d)
  \/ VerifyOrphan(p) \/ UnlinkOrphan(p) \/ PruneDirectory(p)
  \/ StageWrite(p) \/ PublishOutput(p) \/ WriteManifest(p) \/ Release(p)

People ==
  \/ \E q \in Paths, e \in {File(b, "user") : b \in Contents} \cup {Dir, Link, Nothing} :
       Edit(q, e)
  \/ \E i \in RootFates : ReplaceRoot(i)
  \/ CorruptLedger

Next ==
  \/ \E p \in Procs :
       \/ \E dry \in BOOLEAN : Start(p, dry)
       \/ Advance(p) \/ Stop(p) \/ Kill(p)
  \/ People

Spec == Init /\ [][Next]_vars

-----------------------------------------------------------------------------
(* Correctness.                                                             *)

Running == Phases \ {"idle", "locking", "release"}

\* Two runs never work on the root at once, whatever times out, stops or dies
\* on the way to the locks or under them (reconcile, FileLock).
OneRunAtATime ==
  \A p, r \in Procs :
    Run(p).phase \in Running /\ Run(r).phase \in Running => p = r

\* What a run may take from a root: a file at a path it declares, a file that
\* holds the very bytes the ledger recorded for its path, an empty directory.
MayLose(q) ==
  \/ /\ IsFile(q)
     /\ \/ \E p \in Procs : Run(p).phase \in Running /\ q \in DOMAIN Run(p).desired
        \/ ledger # Absent /\ q \in DOMAIN ledger.outputs /\ fs[q].bytes = ledger.outputs[q]
  \/ IsDir(q) /\ ~HoldsTemp(q) /\ \A c \in Children(q) : ~Exists(c)

OnlyOwnedIsLost ==
  touches' = touches => \A q \in Paths : Exists(q) /\ fs'[q] # fs[q] => MayLose(q)

\* Nothing a person put in the root is lost to a run, however the edit is timed
\* against the looks of the preflight and the two looks of a deletion: only
\* people's own steps change anything else.
NothingUnownedIsLost == [][OnlyOwnedIsLost]_vars

\* The run that has just ended well, with nobody else at work in the root.
Completed(p) == In(p, "release") /\ Run(p).outcome = "done" /\ Run(p).calm

\* The soundness boundary of the contract: a completed run leaves every
\* declared output in place with its bytes, of the outputs it recorded before
\* and no longer declares none that it wrote, and a ledger that claims exactly
\* what it declared in the root that is there now, so that the next run can
\* find its orphans.  (A root that is deleted and not made again, RootFates, is
\* known to break the last part.)
RootConverges ==
  \A p \in Procs : Completed(p) =>
    /\ \A q \in DOMAIN Run(p).desired : IsFile(q) /\ fs[q].bytes = Run(p).desired[q]
    /\ \A q \in Orphans(Run(p).desired, Run(p).previous) :
         IsFile(q) => fs[q].bytes # Run(p).previous[q]
    /\ Claims = Run(p).desired

Buried(desired, previous) ==
  \E q \in DOMAIN previous, d \in DOMAIN desired : IsPrefix(d, q) /\ Len(q) > Len(d) + 1

\* Recovery: when all that happened since the last ledger is that runs of this
\* layout stopped, wherever they stopped, the next run of it is not refused.
\* A killed writer's temporary file is another matter, and so is a recorded
\* directory that would lie below a file of the new layout (_safe_target).
StoppedRunsRecover ==
  \A p \in Procs :
    /\ In(p, "release") /\ Run(p).outcome = "refused" /\ touches = 0
    /\ \A t \in temps : t.owner # Absent
    /\ ~Buried(Run(p).desired, Run(p).previous)
    => stopped # {Run(p).desired}

=============================================================================
