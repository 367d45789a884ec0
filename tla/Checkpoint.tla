----------------------------- MODULE Checkpoint -----------------------------
(***************************************************************************)
(* Durable checkpoints (save_checkpoint, load_checkpoint and the warm path  *)
(* of get, src/pyinc/runtime.py) over a content-addressed artifact store    *)
(* (src/pyinc/store.py).  A process evaluates, saves, and ends; a later     *)
(* process, with perhaps other code, other adapters, other inputs, another  *)
(* world and a damaged store, loads what was saved.                         *)
(*                                                                         *)
(* A get runs under the database's lock and is one step here: `Get' is the  *)
(* whole recursive evaluation and its request.  (Kernel interleaves the     *)
(* steps with a world that moves; here the world moves between the calls.)  *)
(***************************************************************************)
EXTENDS Integers, Sequences, FiniteSets

CONSTANTS
  Inputs, Resources, Queries,   \* one node per query and arguments
  Natives, Adapted,             \* values that freeze as they are, and those
                                \* that a registered adapter freezes
  AdapterVersions,              \* the implementations of that adapter
  Encode(_, _), Decode(_, _),   \* its freeze and thaw, by version
  Versions, Editable,           \* versions of a definition; those that change
  Captures(_),                  \* the queries and resources that the function
                                \* of a query captures (not those it imports
                                \* while it runs)
  Body(_, _, _),                \* next step of a query at a version, given
                                \* what it read
  World, LoadOf(_, _),          \* what a version of a resource loads
  Errors, AmbientValues, Settable,   \* (the values that inputs are set to)
  Rank(_),                      \* the order of the node labels
  MaxRevision, MaxManifests, MaxProcesses, MaxFaults,   \* bounds
  Absent

Nodes == Inputs \cup Resources \cup Queries
Values == Natives \cup Adapted
Exceptions == Errors \cup {"CycleError", "KeyError"}

ASSUME ConstantsAssumption ==
  /\ Editable \subseteq Nodes /\ AmbientValues \cup Settable \subseteq Values
  /\ 1 \in Versions /\ AdapterVersions # {}
  /\ \A x \in Adapted, a \in AdapterVersions : Decode(Encode(x, a), a) = x
  /\ \A q \in Queries : Captures(q) \subseteq Queries \cup Resources

VARIABLES
  code, adapter,        \* the definitions and the adapter of this process
  db,                   \* its database: the record table, the counters, what
                        \* it has objects for and what a load has staged
  objects, manifests,   \* the artifact store: payloads and manifests
  world, ambient,       \* what resources and untracked reads observe
  processes, faults     \* how many processes, and how many faults of the
                        \* store, there have been

vars == <<code, adapter, db, objects, manifests, world, ambient, processes, faults>>
process == <<code, adapter, processes>>
store == <<objects, manifests, faults>>
outside == <<world, ambient>>

-----------------------------------------------------------------------------
(* Snapshots and identities.  A digest stands for the bytes it is the hash   *)
(* of, so a snapshot is its own digest.                                      *)

Freeze(v, a) == IF v \in Adapted THEN <<"adapted", Encode(v, a)>> ELSE <<"native", v>>
Thaw(s, a) == IF s[1] = "adapted" THEN Decode(s[2], a) ELSE s[2]
ArgsDigest(n) == <<"call", n>>

Digests ==
  {Freeze(v, a) : v \in Values, a \in AdapterVersions}
    \cup {ArgsDigest(n) : n \in Queries \cup Resources}

\* _collect_pinned_capture_objects: everything a definition captures, and
\* what that captures.
RECURSIVE CapturedFrom(_)
CapturedFrom(S) ==
  LET T == S \cup UNION {Captures(q) : q \in S \cap Queries}
  IN IF T = S THEN S ELSE CapturedFrom(T)
Pinned(q) == CapturedFrom({q})

\* The identity of a node: the fold of a query's definition over everything it
\* captures, of a resource's own definition, of an input's policy.
Identity(n) ==
  IF n \in Queries THEN [m \in Pinned(n) |-> code[m]] ELSE [m \in {n} |-> code[n]]

TrustedMutant(d, s) == TRUE
\* _adapter_keys_trusted: the adapter of an adapted snapshot is still the one
\* the loaded checkpoint was saved with.
Trusted(d, s) == s[1] = "adapted" => d.staged.adapter = adapter

\* `checked' stands for checked_in_request being the request of the running
\* get: no request outlives its get, so no record is checked between two.
NewRecord(s, rev, checked) ==
  [snapshot |-> s, changed_at |-> rev, verified_at |-> rev, dependencies |-> {},
   untracked |-> FALSE, checkpointable |-> TRUE, checked |-> checked,
   probe |-> Absent, failure |-> Absent, checkpoint_loaded |-> FALSE]

NoneStaged == [adapter |-> Absent, entries |-> {}, snapshots |-> {}]
EmptyDatabase ==
  [records |-> [n \in Nodes |-> Absent], revision |-> 0,
   registered |-> {}, staged |-> NoneStaged, ran |-> {}]

Has(d, n) == d.records[n] # Absent
Put(d, n, rec) == [d EXCEPT !.records[n] = rec]
Registered(d, n) == [d EXCEPT !.registered = @ \cup {n}]
\* _discard_uncommitted_query.
Discarded(d, n) == [d EXCEPT !.records[n] = Absent, !.registered = @ \ {n}]
Settle(d, n) ==
  [d EXCEPT !.records[n].verified_at = d.revision,
            !.records[n].checked = TRUE]
Settled(d, n) == Has(d, n) /\ d.records[n].checked
EndRequest(d) ==
  [d EXCEPT !.ran = {},
            !.records = [n \in Nodes |-> IF Has(d, n) THEN [d.records[n] EXCEPT !.checked = FALSE]
                                         ELSE Absent]]
ChangedSince(d, n, since) == d.records[n].untracked \/ d.records[n].changed_at > since

Answer(d, out) == [db |-> d, out |-> out]
ValueOf(d, n) == Thaw(d.records[n].snapshot, adapter)

\* The staged record of a node under the identity it has now.
Entry(d, n) ==
  LET found == {e \in d.staged.entries : e.node = n /\ e.identity = Identity(n)}
  IN IF found = {} THEN Absent ELSE CHOOSE e \in found : TRUE

\* _read_validated_snapshot, _load_snapshot_from_store.
Loadable(d, s) == s \in d.staged.snapshots \/ (d.staged.adapter # Absent /\ objects[s] = "intact")

-----------------------------------------------------------------------------
(* Resources: _observe_resource with its probe hint from a checkpoint.       *)

\* _restore_from_probe_hint: the saved probe still describes the world.
HintHits(d, r) ==
  LET e == Entry(d, r) IN
  e # Absent /\ e.probe = world[r] /\ Loadable(d, e.digest) /\ Trusted(d, e.digest)

\* A load that finds a record moves the revision, a first one does not; a
\* failure that was there before keeps its date.
Loaded(d, r) ==
  LET out == LoadOf(code[r], world[r])
      rec == d.records[r]
      same == Has(d, r) /\ rec.failure # Absent /\ out \in Exceptions /\ rec.probe = world[r]
      rev == IF Has(d, r) /\ ~same THEN d.revision + 1 ELSE d.revision
      new == NewRecord(IF out \in Exceptions THEN Absent ELSE Freeze(out, adapter),
                       rev, TRUE)
  IN [Put(d, r, [new EXCEPT
                   !.changed_at = IF same THEN rec.changed_at ELSE rev,
                   !.probe = world[r],
                   !.failure = IF out \in Exceptions THEN out ELSE Absent])
        EXCEPT !.revision = rev]

Observed(d, r) ==
  LET rec == d.records[r] IN
  IF Settled(d, r) THEN d
  ELSE IF Has(d, r) /\ rec.failure = Absent /\ rec.probe = world[r] THEN Settle(d, r)
  ELSE IF ~Has(d, r) /\ HintHits(d, r)
  THEN Put(d, r, [NewRecord(Entry(d, r).digest, d.revision, TRUE)
                    EXCEPT !.probe = world[r]])
  ELSE Loaded(d, r)

Observe(d, r) ==
  LET e == Observed(Registered(d, r), r)
      failure == e.records[r].failure
  IN Answer(e, IF failure # Absent THEN failure ELSE ValueOf(e, r))

-----------------------------------------------------------------------------
(* Queries: get, _ensure_query, _maybe_changed_after, _execute_query and the *)
(* warm path, one recursion over the queries; path is the execution stack.   *)

First(S) == CHOOSE n \in S : \A m \in S : Rank(n) <= Rank(m)
\* The dependencies of a manifest entry: inputs, then queries, then resources.
KindRank(n) == IF n \in Inputs THEN 0 ELSE IF n \in Queries THEN 1 ELSE 2
FirstDep(deps) ==
  CHOOSE x \in deps : \A y \in deps :
    \/ KindRank(x.node) < KindRank(y.node)
    \/ KindRank(x.node) = KindRank(y.node) /\ Rank(x.node) <= Rank(y.node)

NewFrame == [reads |-> <<>>, dependencies |-> {}, untracked |-> FALSE, checkpointable |-> TRUE]
\* The frame after q read n.  A resource has its edge before it can fail, an
\* input or a query that raised leaves none; a sub-query that raised makes its
\* caller untracked and uncheckpointable, unless it was the caller itself.
Read(frame, q, n, out) ==
  LET impure == n \in Queries /\ out \in Exceptions /\ ~(out = "CycleError" /\ n = q) IN
  [reads |-> Append(frame.reads, out),
   dependencies |-> IF out \in Exceptions /\ n \notin Resources THEN frame.dependencies
                    ELSE frame.dependencies \cup {n},
   untracked |-> frame.untracked \/ impure,
   checkpointable |-> frame.checkpointable /\ ~impure]

\* The end of an execution.  A first record lands at the revision it finds, an
\* equal result keeps its date, a new one moves the revision.
Committed(d, q, v, frame) ==
  LET s == Freeze(v, adapter)
      rec == d.records[q]
      same == Has(d, q) /\ rec.snapshot = s
      rev == IF Has(d, q) /\ ~same THEN d.revision + 1 ELSE d.revision
      new == [NewRecord(s, rev, TRUE) EXCEPT
                !.changed_at = IF same THEN rec.changed_at ELSE rev,
                !.dependencies = frame.dependencies,
                !.untracked = frame.untracked,
                !.checkpointable = frame.checkpointable]
  IN [Put(d, q, new) EXCEPT !.revision = rev, !.ran = @ \cup {q}]

WarmedUnmarked(d, e, loaded) ==
  Put(d, e.node, [NewRecord(e.digest, d.revision, FALSE) EXCEPT
                    !.dependencies = {x.node : x \in e.deps}])
\* A saved record joins this database's timeline, unsettled, so that the get
\* that warmed it still verifies its edges.
Warmed(d, e, loaded) ==
  Put(d, e.node, [NewRecord(e.digest, d.revision, FALSE) EXCEPT
                    !.dependencies = {x.node : x \in e.deps},
                    !.checkpoint_loaded = loaded])

DepsArePinned(e, pinned) == \A x \in e.deps : x.node \in Queries => x.node \in pinned

\* A record that is to be warmed, once its dependencies are verified.
Warm(verified, e, loaded) ==
  IF verified.out /\ Loadable(verified.db, e.digest)
  THEN Answer(Warmed(verified.db, e, loaded), TRUE)
  ELSE Answer(verified.db, FALSE)

RECURSIVE GetNode(_, _, _), Ensure(_, _, _), VerifyEdges(_, _, _, _),
          MaybeChangedAfter(_, _, _, _), RunBody(_, _, _, _),
          VerifyDeps(_, _, _, _), VerifyDep(_, _, _, _)

\* get, nested or outermost: a node without a record is warmed first; a failed
\* evaluation of such a node leaves nothing of it.
TryWarm(d, q, path) ==
  LET e == Entry(d, q) IN
  IF \/ Has(d, q) \/ e = Absent \/ e.untracked \/ ~Trusted(d, e.digest)
     \/ ~DepsArePinned(e, Pinned(q))
  THEN d
  ELSE Warm(VerifyDeps(d, e.deps, Pinned(q), path), e, FALSE).db

Returned(done, q, had_record, path) ==
  IF done.out = "ok" THEN Answer(done.db, ValueOf(done.db, q))
  ELSE Answer(IF ~had_record /\ q \notin path THEN Discarded(done.db, q) ELSE done.db, done.out)

GetNode(d, q, path) ==
  Returned(Ensure(TryWarm(Registered(d, q), q, path), q, path), q, Has(d, q), path)

\* What the edges of a record say, a record that has none to ask included.
Verdict(d, q, path) ==
  IF ~Has(d, q) \/ d.records[q].untracked THEN Answer(d, "changed")
  ELSE VerifyEdges(d, d.records[q].dependencies, d.records[q].verified_at, path)

ReuseOrRun(verdict, q, path) ==
  CASE verdict.out = "same" -> Answer(Settle(verdict.db, q), "ok")
    [] verdict.out = "changed" -> RunBody(verdict.db, q, path \cup {q}, NewFrame)
    [] OTHER -> verdict

Ensure(d, q, path) ==
  IF q \in path THEN Answer(d, "CycleError")
  ELSE IF Settled(d, q) THEN Answer(d, "ok")
  ELSE ReuseOrRun(Verdict(d, q, path), q, path)

NextEdge(verdict, edges, since, path) ==
  IF verdict.out = "same" THEN VerifyEdges(verdict.db, edges, since, path) ELSE verdict

VerifyEdges(d, edges, since, path) ==
  IF edges = {} THEN Answer(d, "same")
  ELSE NextEdge(MaybeChangedAfter(d, First(edges), since, path), edges \ {First(edges)},
                since, path)

\* A dependency that is up to date has changed when its date says so; a query
\* that raises takes the whole loop with it.
Judge(done, n, since) ==
  IF done.out \notin {"ok", "same"} THEN done
  ELSE Answer(done.db, IF ChangedSince(done.db, n, since) THEN "changed" ELSE "same")

\* _verify_checkpoint_loaded_record: a dependency that came out of the
\* checkpoint without an object is verified through its own edges.
Reverified(verdict, n) ==
  IF verdict.out # "same" THEN verdict
  ELSE Answer([verdict.db EXCEPT !.records[n].verified_at = verdict.db.revision], "same")

MaybeChangedAfter(d, n, since, path) ==
  CASE ~Has(d, n) -> Answer(d, "changed")
    [] Has(d, n) /\ n \in Inputs -> Judge(Answer(d, "ok"), n, since)
    [] Has(d, n) /\ n \in Resources ->
         IF n \in d.registered THEN Judge(Answer(Observe(d, n).db, "ok"), n, since)
         ELSE Answer(d, "changed")
    [] Has(d, n) /\ n \in Queries /\ n \in d.registered ->
         Judge(Ensure(d, n, path), n, since)
    [] Has(d, n) /\ n \in Queries /\ n \notin d.registered ->
         IF d.records[n].checkpoint_loaded
         THEN Judge(Reverified(VerifyEdges(d, d.records[n].dependencies,
                                           d.records[n].verified_at, path), n), n, since)
         ELSE Answer(d, "changed")

\* _execute_query: the body against the live graph.
Fetch(d, n, path) ==
  CASE n \in Inputs -> Answer(d, IF Has(d, n) THEN ValueOf(d, n) ELSE "KeyError")
    [] n \in Resources -> Observe(d, n)
    [] n \in Queries -> GetNode(d, n, path)

Resume(got, q, n, path, frame) == RunBody(got.db, q, path, Read(frame, q, n, got.out))

RunBody(d, q, path, frame) ==
  LET step == Body(q, code[q], frame.reads) IN
  CASE step.op = "return" -> Answer(Committed(d, q, step.arg, frame), "ok")
    [] step.op = "raise" -> Answer(d, step.arg)
    [] step.op = "untracked" ->
         RunBody(d, q, path, [frame EXCEPT !.reads = Append(@, ambient), !.untracked = TRUE])
    [] step.op \in {"input", "resource", "query"} ->
         Resume(Fetch(d, step.arg, path), q, step.arg, path, frame)

-----------------------------------------------------------------------------
(* Verification of the saved dependencies of a record that is to be warmed;  *)
(* pinned belongs to the query the get asked for.                            *)

NextDep(verified, deps, pinned, path) ==
  IF verified.out THEN VerifyDeps(verified.db, deps, pinned, path) ELSE verified

VerifyDeps(d, deps, pinned, path) ==
  IF deps = {} THEN Answer(d, TRUE)
  ELSE NextDep(VerifyDep(d, FirstDep(deps), pinned, path), deps \ {FirstDep(deps)},
               pinned, path)

\* The live object for a saved dependency: captured, and still of the saved
\* identity.
Resolves(x, pinned) == x.node \in pinned /\ x.identity = Identity(x.node)
Live(d, x) == Has(d, x.node) /\ x.identity = Identity(x.node)
Matches(d, x) == Has(d, x.node) /\ d.records[x.node].snapshot = x.digest

VerifyInputDep(d, x) ==
  Live(d, x) /\ Trusted(d, d.records[x.node].snapshot) /\ Matches(d, x)

Confirm(done, x, path) ==
  IF done.out = "ok" THEN Answer(done.db, Matches(done.db, x))
  ELSE Answer(IF x.node \in path THEN done.db ELSE Discarded(done.db, x.node), FALSE)

\* _execute_to_verify_query_dep: run the pinned code and compare.
ExecuteToVerify(d, x, pinned, path) ==
  LET e == Entry(d, x.node) IN
  IF ~Resolves(x, pinned) \/ (e # Absent /\ e.untracked) \/ ~Loadable(d, ArgsDigest(x.node))
  THEN Answer(d, FALSE)
  ELSE Confirm(Ensure(Registered(d, x.node), x.node, path), x, path)

\* _warm_checkpoint_dep_query: the record comes back without its object.
WarmDep(d, x, pinned, path) ==
  LET e == Entry(d, x.node) IN
  IF \/ e = Absent \/ ~Resolves(x, pinned) \/ e.untracked \/ ~Trusted(d, e.digest)
     \/ ~Loadable(d, ArgsDigest(x.node)) \/ ~DepsArePinned(e, pinned)
  THEN Answer(d, FALSE)
  ELSE Warm(VerifyDeps(d, e.deps, pinned, path), e, TRUE)

\* A saved record under the dependency is preferred to running it.
WarmedOrRun(warm, x, pinned, path) ==
  IF warm.out THEN Answer(warm.db, Matches(warm.db, x))
  ELSE ExecuteToVerify(warm.db, x, pinned, path)

VerifyQueryDep(d, x, pinned, path) ==
  IF ~Trusted(d, x.digest) THEN Answer(d, FALSE)
  ELSE IF Live(d, x) THEN Answer(d, Matches(d, x))
  ELSE WarmedOrRun(WarmDep(d, x, pinned, path), x, pinned, path)

\* A captured resource without a record is observed now.
VerifyResourceDep(d, x, pinned) ==
  IF ~Loadable(d, x.digest) \/ ~Trusted(d, x.digest) THEN Answer(d, FALSE)
  ELSE IF Live(d, x) THEN Answer(d, Matches(d, x))
  ELSE IF ~Resolves(x, pinned) \/ ~Loadable(d, ArgsDigest(x.node)) THEN Answer(d, FALSE)
  ELSE LET got == Observe(d, x.node)
       IN Answer(got.db, got.out \notin Exceptions /\ Matches(got.db, x))

VerifyDep(d, x, pinned, path) ==
  CASE x.node \in Inputs -> Answer(d, VerifyInputDep(d, x))
    [] x.node \in Queries -> VerifyQueryDep(d, x, pinned, path)
    [] x.node \in Resources -> VerifyResourceDep(d, x, pinned)

-----------------------------------------------------------------------------
(* The calls of a client.                                                    *)

\* The outermost get, in a request of its own.
Ask(q) == GetNode(db, q, {})

Get(q) ==
  /\ db' = EndRequest(Ask(q).db)
  /\ db'.revision <= MaxRevision
  /\ UNCHANGED <<process, store, outside>>

Set(i, v) ==
  LET s == Freeze(v, adapter)
      same == Has(db, i) /\ db.records[i].snapshot = s
      rev == IF same THEN db.revision ELSE db.revision + 1
  IN
  /\ rev <= MaxRevision
  /\ db' = IF same THEN [db EXCEPT !.records[i].verified_at = db.revision]
           ELSE [Put(db, i, NewRecord(s, rev, FALSE)) EXCEPT !.revision = rev]
  /\ UNCHANGED <<process, store, outside>>

\* _record_is_stale_for_save: some edge leads nowhere, to an untracked record,
\* or to one that moved after this record was verified.
StaleForSaveMutant(n) ==
  \E m \in db.records[n].dependencies : ~Has(db, m) \/ db.records[m].untracked
StaleForSave(n) ==
  \E m \in db.records[n].dependencies :
    ~Has(db, m) \/ ChangedSince(db, m, db.records[n].verified_at)

Savable(n) ==
  /\ Has(db, n) /\ db.records[n].failure = Absent /\ db.records[n].checkpointable
  /\ ~StaleForSave(n)
  /\ n \in db.registered \/ ArgsDigest(n) \in db.staged.snapshots

\* What is saved is closed under the edges to queries and resources.
RECURSIVE Closed(_)
Closed(S) ==
  LET T == {n \in S : db.records[n].dependencies \subseteq S \cup Inputs}
  IN IF T = S THEN S ELSE Closed(T)
Eligible == Closed({n \in Queries \cup Resources : Savable(n)})

\* _save_checkpoint_locked: the manifest of the eligible records.
ManifestEntry(n) ==
  LET rec == db.records[n] IN
  [node |-> n, identity |-> Identity(n), digest |-> rec.snapshot,
   deps |-> {[node |-> m, identity |-> Identity(m), digest |-> db.records[m].snapshot] :
               m \in rec.dependencies},
   untracked |-> rec.untracked, probe |-> rec.probe]
Manifest == [adapter |-> adapter, entries |-> {ManifestEntry(n) : n \in Eligible}]
Payloads(m) == UNION {{e.digest, ArgsDigest(e.node)} : e \in m.entries}

\* A put publishes or finds its own bytes; other bytes under the digest end
\* the save.  A save that is cut short, there or by the end of its process,
\* has published some of its payloads.
PublishedManifestMutant(put) == {Manifest}
PublishedManifest(put) ==
  IF put = Payloads(Manifest) THEN {Manifest} ELSE {}

Save(put) ==
  /\ \A s \in put : objects[s] # "damaged"
  /\ manifests' = manifests \cup PublishedManifest(put)
  /\ Cardinality(manifests') <= MaxManifests
  /\ objects' = [s \in Digests |-> IF s \in put THEN "intact" ELSE objects[s]]
  /\ UNCHANGED <<process, db, outside>>

SaveCompletes == Save(Payloads(Manifest)) /\ UNCHANGED faults
SaveStops ==
  /\ faults < MaxFaults /\ faults' = faults + 1
  /\ \E s \in Payloads(Manifest) : Save(Payloads(Manifest) \ {s})

\* _validate_checkpoint_manifest: a record is left out when an input it was
\* computed from is not what it was or a payload is missing or does not hash
\* to its digest, and then so is every record above it.
Unusable(e) ==
  \/ \E x \in e.deps : x.node \in Inputs /\ ~(Live(db, x) /\ Matches(db, x))
  \/ objects[e.digest] # "intact" \/ objects[ArgsDigest(e.node)] # "intact"

RECURSIVE Usable(_)
Usable(S) ==
  LET T == {e \in S : \A x \in e.deps :
                        x.node \in Inputs \/ \E f \in S : f.node = x.node}
  IN IF T = S THEN S ELSE Usable(T)

Load(m) ==
  LET valid == Usable({e \in m.entries : ~Unusable(e)}) IN
  /\ db' = [db EXCEPT !.staged =
       [adapter |-> m.adapter, entries |-> valid,
        snapshots |-> UNION {{e.digest, ArgsDigest(e.node)} : e \in valid}]]
  /\ UNCHANGED <<process, store, outside>>

-----------------------------------------------------------------------------
(* The environment: another process, another world, a damaged store.         *)

Definitions == {c \in [Nodes -> Versions] : \A n \in Nodes \ Editable : c[n] = 1}

Restart(c, a) ==
  /\ processes < MaxProcesses
  /\ processes' = processes + 1
  /\ code' = c /\ adapter' = a
  /\ db' = EmptyDatabase
  /\ UNCHANGED <<store, outside>>

MoveWorld(r, w) ==
  /\ world[r] # w
  /\ world' = [world EXCEPT ![r] = w]
  /\ UNCHANGED <<process, store, db, ambient>>

MoveAmbient(v) ==
  /\ ambient # v /\ ambient' = v
  /\ UNCHANGED <<process, store, db, world>>

Damage(s) ==
  /\ faults < MaxFaults /\ faults' = faults + 1
  /\ objects[s] = "intact"
  /\ objects' = [objects EXCEPT ![s] = "damaged"]
  /\ UNCHANGED <<process, manifests, db, outside>>

Init ==
  /\ code = [n \in Nodes |-> 1] /\ adapter = CHOOSE a \in AdapterVersions : TRUE
  /\ db = EmptyDatabase
  /\ objects = [s \in Digests |-> "missing"] /\ manifests = {}
  /\ world \in [Resources -> World] /\ ambient \in AmbientValues
  /\ processes = 1 /\ faults = 0

Next ==
  \/ \E q \in Queries : Get(q)
  \/ \E i \in Inputs, v \in Settable : Set(i, v)
  \/ SaveCompletes \/ SaveStops
  \/ \E m \in manifests : Load(m)
  \/ \E c \in Definitions, a \in AdapterVersions : Restart(c, a)
  \/ \E r \in Resources, w \in World : MoveWorld(r, w)
  \/ \E v \in AmbientValues : MoveAmbient(v)
  \/ \E s \in Digests : Damage(s)

Spec == Init /\ [][Next]_vars
-----------------------------------------------------------------------------
(* What a checkpoint promises.                                               *)

\* The answer of a database that has nothing recorded and nothing staged: the
\* inputs as they are set, and only the live code, adapter and world.
FreshDatabase ==
  [EmptyDatabase EXCEPT !.records = [n \in Nodes |-> IF n \in Inputs THEN db.records[n] ELSE Absent]]
FreshAnswer(q) == GetNode(FreshDatabase, q, {}).out

\* From-scratch consistency across processes (docs/kernel-contract.md,
\* limitation 4): whatever was loaded, whatever became of code, adapter, store
\* and world in the meantime, a get answers what a fresh database answers.
AnswersAreFresh == \A q \in Queries : Ask(q).out = FreshAnswer(q)

\* The saved record of q and those under it describe the present: same
\* definitions, same adapter, inputs and worlds as saved.
RECURSIVE StillHolds(_, _)
StillHolds(e, pinned) ==
  /\ ~e.untracked /\ Trusted(db, e.digest)
  /\ e.node \in Resources => e.probe = world[e.node]
  /\ \A x \in e.deps :
       \/ x.node \in Inputs /\ Trusted(db, x.digest) /\ Live(db, x) /\ Matches(db, x)
       \/ x.node \in pinned /\ \E f \in db.staged.entries :
            f.node = x.node /\ f.identity = Identity(x.node) /\ StillHolds(f, pinned)

\* What a checkpoint is for (load_checkpoint, the warm path): in a database
\* with no other records, a query whose saved record still holds is answered
\* without running any query.
WarmsWithoutRunning ==
  (\A n \in Queries \cup Resources : ~Has(db, n)) =>
    \A q \in Queries : Entry(db, q) # Absent /\ StillHolds(Entry(db, q), Pinned(q)) =>
                         Ask(q).db.ran = {}

\* A body replayed on the digests its saved record lists.
RECURSIVE ReplaySaved(_, _, _)
ReplaySaved(m, e, reads) ==
  LET step == Body(e.node, e.identity[e.node], reads)
      read == {x \in e.deps : x.node = step.arg}
  IN IF step.op \in {"return", "raise"} THEN step.arg
     ELSE IF read = {} THEN Absent
     ELSE ReplaySaved(m, e, Append(reads, Thaw((CHOOSE x \in read : TRUE).digest, m.adapter)))

\* A save keeps only what is up to date (_record_is_stale_for_save,
\* _save_checkpoint_locked), however dirty the graph: every saved record is
\* what its code returns from the very dependencies the manifest lists for it.
SavedRecordsReplay ==
  \A m \in manifests : \A e \in m.entries :
    e.node \in Queries /\ ~e.untracked =>
      LET v == ReplaySaved(m, e, <<>>) IN v \in Values /\ Freeze(v, m.adapter) = e.digest

\* A manifest is published after everything it refers to
\* (_save_checkpoint_locked), so no interrupted save leaves a manifest in the
\* store with a payload or a record under it missing.
ManifestsAreComplete ==
  \A m \in manifests :
    /\ \A s \in Payloads(m) : objects[s] # "missing"
    /\ \A e \in m.entries : \A x \in e.deps :
         x.node \notin Inputs =>
           \E f \in m.entries : f.node = x.node /\ f.identity = x.identity /\ f.digest = x.digest

=============================================================================
