------------------------------- MODULE Kernel -------------------------------
(***************************************************************************)
(* The red-green evaluation kernel of pyinc (src/pyinc/runtime.py):         *)
(* inputs, resources and queries as nodes of one record table, a revision   *)
(* counter, dependency verification, execution with early cutoff, failing   *)
(* resource loads, request spans and LRU eviction.                          *)
(*                                                                         *)
(* One evaluation runs under the database's lock, so `stack' and `ctl' are  *)
(* the call stack and the pending call of the one thread that holds it.     *)
(* The outside world (`world', `ambient') moves on its own: between the     *)
(* hook calls of an evaluation too.                                         *)
(***************************************************************************)
EXTENDS Integers, Sequences, FiniteSets

CONSTANTS
  Inputs, Resources, Queries,   \* the names of the nodes
  Values,                       \* canonical snapshots
  Errors,                       \* exceptions of bodies and of resource loads
  World,                        \* the states of one resource's outside world
  Unprobeable, Refusing,        \* the worlds whose probe raises / whose load
                                \* reads back into the database
  LoadOf(_),                    \* what a load returns or raises in a world
  Split,                        \* handles that have no probe_and_load
  Body(_, _),                   \* next step of a query, given what it read:
                                \* [op |-> "input", arg |-> i] and so on
  Equal(_, _, _),               \* the eq=/cutoff= policy of a node
  Rank(_),                      \* the order of the node labels
  Threads, SpanThreads,         \* the callers; those that use request_span
  AmbientValues,                \* what an untracked read can observe
  MaxQueryNodes,                \* 0 stands for max_query_nodes=None
  Racy,                         \* the resources whose world also moves while a
                                \* call evaluates
  MaxRevision, MaxRequests, MaxEpoch,   \* bounds on the counters
  Absent                        \* what a missing dict entry reads as

Nodes == Inputs \cup Resources \cup Queries
Exceptions ==
  Errors \cup {"CycleError", "KeyError", "ReentrantDatabaseError"}
Outcomes == Values \cup Exceptions

\* The fields of a NodeRecord that decide anything (labels, reasons,
\* statistics and decisions are for readers).  `failure' keeps the exception
\* itself and `retained' says whether the request may still re-raise it.
NodeRecord ==
  [snapshot : Values \cup {Absent}, changed_at : Nat, verified_at : Nat,
   dependencies : SUBSET Nodes, untracked : BOOLEAN, checkpointable : BOOLEAN,
   checked_in_request : Int, probe : World \cup {Absent},
   failure : Exceptions \cup {Absent}, retained : BOOLEAN,
   probe_unconfirmed : BOOLEAN]

\* One `exec' frame per ExecutionFrame, and one `verify' frame per
\* dependency loop of _ensure_query; `callee' is the node the frame called.
Frame ==
  [kind : {"exec", "verify"}, key : Queries, callee : Nodes \cup {Absent},
   reads : Seq(Outcomes), dependencies : SUBSET Nodes,
   untracked : BOOLEAN, checkpointable : BOOLEAN, pending : SUBSET Nodes]

\* `moved' is a history field: has the world moved under this request?
RequestScope ==
  [request_id : Nat, span : BOOLEAN, span_epoch_seen : Nat,
   failures : SUBSET Resources, moved : BOOLEAN]

Control ==
  [op : {"idle", "run", "ensure", "observe", "load", "split_load",
         "failure_probe", "return", "raise", "answer"},
   key : Nodes \cup {Absent}, result : Outcomes \cup {Absent},
   probe : World \cup {Absent}, recorded : BOOLEAN]

ASSUME ConstantsAssumption ==
  /\ Inputs \cap Resources = {} /\ Inputs \cap Queries = {}
  /\ Resources \cap Queries = {}
  /\ Values \cap Exceptions = {}
  /\ Unprobeable \subseteq World /\ Refusing \subseteq World
  /\ Split \subseteq Resources /\ SpanThreads \subseteq Threads
  /\ AmbientValues \subseteq Values
  /\ \A w \in World : LoadOf(w) \in Outcomes
  /\ \A w \in Unprobeable : LoadOf(w) \in Exceptions
  /\ Absent \notin Nodes \cup Outcomes \cup World \cup Threads
  /\ Absent \notin NodeRecord /\ Absent \notin RequestScope
  /\ MaxQueryNodes \in Nat /\ Racy \subseteq Resources
  /\ MaxRevision \in Nat /\ MaxRequests \in Nat /\ MaxEpoch \in Nat
  /\ \A n \in Nodes : Rank(n) \in Int
  /\ \A m, n \in Nodes : Rank(m) = Rank(n) => m = n   \* one order of the edges
  /\ \A n \in Nodes, u \in Values, v \in Values : Equal(n, u, v) \in BOOLEAN

VARIABLES
  revision,         \* _revision
  records,          \* _records
  lru,              \* _query_last_used: the recorded queries by last use
  stack, ctl,       \* the call stack and the pending call
  holder,           \* the thread that evaluates, under _state_lock
  requests,         \* _request: the request each thread has open
  request_counter,  \* _request_counter
  span_epoch,       \* _span_epoch
  world, ambient    \* what resources observe; what untracked reads observe

evalVars == <<revision, records, lru, stack, ctl, requests>>
scopeVars == <<holder, request_counter, span_epoch>>
worldVars == <<world, ambient>>
vars == <<revision, records, lru, stack, ctl, holder, requests,
          request_counter, span_epoch, world, ambient>>

Known(n) == records[n] # Absent
Failed(n) == records[n].failure # Absent
Top == stack[Len(stack)]
Pop == SubSeq(stack, 1, Len(stack) - 1)
Push(f) == Append(stack, f)
ReplaceTop(f) == [stack EXCEPT ![Len(stack)] = f]

Call(op, n) ==
  [op |-> op, key |-> n, result |-> Absent, probe |-> Absent, recorded |-> FALSE]
Idle == Call("idle", Absent)
Run == Call("run", Absent)
Return(n) == Call("return", n)
Raise(n, e, recorded) ==
  [op |-> "raise", key |-> n, result |-> e, probe |-> Absent, recorded |-> recorded]

NewFrame(kind, q, pending) ==
  [kind |-> kind, key |-> q, callee |-> Absent, reads |-> <<>>,
   dependencies |-> {}, untracked |-> FALSE, checkpointable |-> TRUE,
   pending |-> pending]

NewRecord(v, changed, verified, checked) ==
  [snapshot |-> v, changed_at |-> changed, verified_at |-> verified,
   dependencies |-> {}, untracked |-> FALSE, checkpointable |-> TRUE,
   checked_in_request |-> checked, probe |-> Absent, failure |-> Absent,
   retained |-> FALSE, probe_unconfirmed |-> FALSE]

-----------------------------------------------------------------------------
(* Requests and spans: _request_scope, request_span, _roll_span_request.    *)

\* _current_request_id, for the thread that evaluates.
CurrentRequest == requests[holder].request_id

LockFree == holder = Absent

SpanIsBehindMutant(t) == FALSE
\* Opening a request, or joining the span this thread holds: a joined span
\* first catches up with the changes declared since it last looked.
SpanIsBehind(t) ==
  requests[t].span /\ requests[t].span_epoch_seen # span_epoch

SyncedRequestMutant(t) ==
  IF requests[t] = Absent
  THEN [request_id |-> request_counter, span |-> FALSE,
        span_epoch_seen |-> 0, failures |-> {}, moved |-> FALSE]
  ELSE requests[t]
SyncedRequest(t) ==
  IF requests[t] = Absent
  THEN [request_id |-> request_counter + 1, span |-> FALSE,
        span_epoch_seen |-> 0, failures |-> {}, moved |-> FALSE]
  ELSE IF SpanIsBehind(t)
  THEN [requests[t] EXCEPT !.request_id = request_counter + 1,
                           !.span_epoch_seen = span_epoch, !.moved = FALSE]
  ELSE requests[t]

EnterRequest(t) ==
  /\ requests' = [requests EXCEPT ![t] = SyncedRequest(t)]
  /\ request_counter' =
       IF SyncedRequest(t) = requests[t] THEN request_counter ELSE request_counter + 1
  /\ request_counter' <= MaxRequests

\* _release_failure_exceptions and _evict_query_nodes_if_needed, in that order.
Surplus ==
  IF MaxQueryNodes = 0 \/ Len(lru) <= MaxQueryNodes THEN 0 ELSE Len(lru) - MaxQueryNodes
Evicted == {lru[k] : k \in 1 .. Surplus}

Released(released) ==
  [n \in Nodes |->
     IF n \in Evicted THEN Absent
     ELSE IF n \in released /\ records[n] # Absent
     THEN [records[n] EXCEPT !.retained = FALSE]
     ELSE records[n]]

EndRequest(t) ==
  /\ records' = Released(requests[t].failures)
  /\ lru' = SubSeq(lru, Surplus + 1, Len(lru))
  /\ requests' = [requests EXCEPT ![t] = Absent]

OpenSpan(t) ==
  /\ LockFree /\ requests[t] = Absent /\ request_counter < MaxRequests
  /\ request_counter' = request_counter + 1
  /\ requests' = [requests EXCEPT ![t] =
       [request_id |-> request_counter + 1, span |-> TRUE,
        span_epoch_seen |-> span_epoch, failures |-> {}, moved |-> FALSE]]
  /\ UNCHANGED <<revision, records, lru, stack, ctl, holder, span_epoch, worldVars>>

CloseSpan(t) ==
  /\ LockFree /\ requests[t] # Absent
  /\ EndRequest(t)
  /\ UNCHANGED <<revision, stack, ctl, scopeVars, worldVars>>

\* _roll_span_request by thread t: the epoch moves for every span, t's own
\* span moves at once.
RollSpanRequest(t) ==
  /\ span_epoch' = span_epoch + 1
  /\ IF requests[t] # Absent
     THEN /\ request_counter' = request_counter + 1
          /\ request_counter < MaxRequests
          /\ requests' = [requests EXCEPT
               ![t].request_id = request_counter + 1,
               ![t].span_epoch_seen = span_epoch + 1, ![t].moved = FALSE]
     ELSE UNCHANGED <<request_counter, requests>>

RequestInputsChanged(t) ==
  /\ LockFree /\ span_epoch < MaxEpoch
  /\ RollSpanRequest(t)
  /\ UNCHANGED <<revision, records, lru, stack, ctl, holder, worldVars>>

-----------------------------------------------------------------------------
(* Inputs: set and set_many.  An update the policy calls equal replaces the  *)
(* snapshot and moves nothing else.                                          *)

SetRequestId(t) == IF requests[t] = Absent THEN -1 ELSE requests[t].request_id

InputUnchanged(i, v) == Known(i) /\ Equal(i, records[i].snapshot, v)

CommittedInputsMutant(t, updates) ==
  [n \in Nodes |->
     IF n \notin DOMAIN updates THEN records[n]
     ELSE NewRecord(updates[n], revision, revision, SetRequestId(t))]
\* The commit of a batch: every changed input at one new revision.
CommittedInputs(t, updates) ==
  [n \in Nodes |->
     IF n \notin DOMAIN updates THEN records[n]
     ELSE IF InputUnchanged(n, updates[n])
     THEN [records[n] EXCEPT !.snapshot = updates[n], !.verified_at = revision,
                             !.checked_in_request = SetRequestId(t)]
     ELSE NewRecord(updates[n], revision + 1, revision + 1, SetRequestId(t))]

SetInputs(t, updates) ==
  /\ LockFree
  /\ records' = CommittedInputs(t, updates)
  /\ IF \A i \in DOMAIN updates : InputUnchanged(i, updates[i])
     THEN UNCHANGED <<revision, requests, request_counter, span_epoch>>
     ELSE /\ revision < MaxRevision
          /\ revision' = revision + 1
          /\ RollSpanRequest(t)
  /\ UNCHANGED <<lru, stack, ctl, holder, worldVars>>

Set(t, i, v) == SetInputs(t, [j \in {i} |-> v])
SetMany(t, updates) == Cardinality(DOMAIN updates) > 1 /\ SetInputs(t, updates)

-----------------------------------------------------------------------------
(* Top-level get and read_resource, and the end of their request.           *)

Begin(t, op, n) ==
  /\ LockFree
  /\ EnterRequest(t)
  /\ holder' = t
  /\ ctl' = Call(op, n)
  /\ UNCHANGED <<revision, records, lru, stack, span_epoch, worldVars>>

Get(t, q) == Begin(t, "ensure", q)
ReadResource(t, r) == Begin(t, "observe", r)

\* inspect evaluates only a query that has no record; otherwise the recorded
\* tree is the answer, and the call is a request all the same.
Inspect(t, q) == Begin(t, IF Known(q) THEN "answer" ELSE "ensure", q)

\* The outermost call came back: its value is the record's snapshot.
Deliver ==
  /\ stack = <<>> /\ ctl.op \in {"return", "raise"}
  /\ ctl' = [ctl EXCEPT !.op = "answer",
               !.result = IF ctl.op = "raise" THEN @ ELSE records[ctl.key].snapshot]
  /\ UNCHANGED <<revision, records, lru, stack, requests, scopeVars, worldVars>>

\* The request ends with the call that opened it; a span stays open.
Finish ==
  /\ ctl.op = "answer"
  /\ ctl' = Idle /\ holder' = Absent
  /\ IF requests[holder].span THEN UNCHANGED <<records, lru, requests>>
                              ELSE EndRequest(holder)
  /\ UNCHANGED <<revision, stack, request_counter, span_epoch, worldVars>>

-----------------------------------------------------------------------------
(* Queries: _ensure_query, _maybe_changed_after, _execute_query.             *)

\* _mark_query_used: q becomes the most recently used query.
Touched(q) ==
  LET older == {k \in 1 .. Len(lru) : lru[k] = q}
  IN IF older = {} THEN Append(lru, q)
     ELSE LET k == CHOOSE j \in older : TRUE
          IN Append(SubSeq(lru, 1, k - 1) \o SubSeq(lru, k + 1, Len(lru)), q)

OnExecutionStack(q) ==
  \E k \in 1 .. Len(stack) : stack[k].kind = "exec" /\ stack[k].key = q

SettledInRequestMutant(n) == FALSE
\* A record settled in the open request answers without another look.
SettledInRequest(n) == records[n].checked_in_request = CurrentRequest

EnsureQuery ==
  LET q == ctl.key IN
  /\ ctl.op = "ensure"
  /\ \/ /\ OnExecutionStack(q)
        /\ ctl' = Raise(q, "CycleError", FALSE)
        /\ UNCHANGED <<lru, stack>>
     \/ /\ ~OnExecutionStack(q) /\ Known(q) /\ SettledInRequest(q)
        /\ ctl' = Return(q)
        /\ lru' = Touched(q)
        /\ UNCHANGED stack
     \/ /\ ~OnExecutionStack(q)
        /\ Known(q) => ~SettledInRequest(q)
        /\ stack' = Push(IF Known(q) /\ ~records[q].untracked
                         THEN NewFrame("verify", q, records[q].dependencies)
                         ELSE NewFrame("exec", q, {}))
        /\ ctl' = Run
        /\ UNCHANGED lru
  /\ UNCHANGED <<revision, records, requests, scopeVars, worldVars>>

RemainingMutant(S, n) == S
Remaining(S, n) == S \ {n}

\* The dependency loop walks the edges in label order.
IsFirst(n, S) == \A m \in S : Rank(n) <= Rank(m)

ChangedSinceEvictedMutant(n, since) ==
  Known(n) /\ (records[n].untracked \/ records[n].changed_at > since)
\* _maybe_changed_after for a node that has no record or is up to date.
ChangedSince(n, since) ==
  Known(n) => records[n].untracked \/ records[n].changed_at > since

Verifying == ctl.op = "run" /\ stack # <<>> /\ Top.kind = "verify"

\* A record found unchanged is dated again and settled for this request.
Verified(rec) ==
  [rec EXCEPT !.verified_at = revision, !.checked_in_request = CurrentRequest]

\* Every dependency is unchanged: the record is green at this revision.
ReuseQuery ==
  LET q == Top.key IN
  /\ Verifying /\ Top.pending = {}
  /\ records' = [records EXCEPT ![q] = Verified(@)]
  /\ lru' = Touched(q)
  /\ stack' = Pop
  /\ ctl' = Return(q)
  /\ UNCHANGED <<revision, requests, scopeVars, worldVars>>

\* A dependency changed: the frame of the loop becomes an execution.
Dirty(stk) == [stk EXCEPT ![Len(stk)] = NewFrame("exec", stk[Len(stk)].key, {})]

\* One turn of the loop: an input or a missing record is judged at once, a
\* query or a resource is brought up to date first.
VerifyDependency ==
  /\ Verifying
  /\ \E d \in Top.pending :
       LET since == records[Top.key].verified_at
           rest == [Top EXCEPT !.pending = Remaining(@, d)]
       IN
       /\ IsFirst(d, Top.pending)
       /\ \/ /\ Known(d) => d \in Inputs
             /\ stack' = IF ChangedSince(d, since) THEN Dirty(stack) ELSE ReplaceTop(rest)
             /\ ctl' = Run
          \/ /\ Known(d) /\ d \notin Inputs
             /\ stack' = ReplaceTop([rest EXCEPT !.callee = d])
             /\ ctl' = Call(IF d \in Queries THEN "ensure" ELSE "observe", d)
  /\ UNCHANGED <<revision, records, lru, requests, scopeVars, worldVars>>

\* The dependency is up to date.  A resource that raised is judged by the
\* failure record of this very attempt, and counts as changed without one.
ResumeVerify ==
  LET d == Top.callee
      since == records[Top.key].verified_at
  IN
  /\ stack # <<>> /\ Top.kind = "verify"
  /\ ctl.op = "return" \/ (ctl.op = "raise" /\ d \in Resources)
  /\ stack' = IF (ctl.op = "raise" /\ ~ctl.recorded) \/ ChangedSince(d, since)
              THEN Dirty(stack)
              ELSE ReplaceTop([Top EXCEPT !.callee = Absent])
  /\ ctl' = Run
  /\ UNCHANGED <<revision, records, lru, requests, scopeVars, worldVars>>

\* A query that raises while it is brought up to date takes the loop with it:
\* the exception leaves the _ensure_query call of the dependent.
AbandonVerify ==
  /\ stack # <<>> /\ Top.kind = "verify" /\ ctl.op = "raise" /\ Top.callee \in Queries
  /\ stack' = Pop
  /\ ctl' = Raise(Top.key, ctl.result, FALSE)
  /\ UNCHANGED <<revision, records, lru, requests, scopeVars, worldVars>>

Executing == ctl.op = "run" /\ stack # <<>> /\ Top.kind = "exec"
NextStep == Body(Top.key, Top.reads)
Does(op, n) == Executing /\ NextStep = [op |-> op, arg |-> n]

\* read_input: a key nothing has set raises before an edge is recorded.
BodyReadsInput ==
  /\ \E i \in Inputs :
       /\ Does("input", i)
       /\ LET out == IF Known(i) THEN records[i].snapshot ELSE "KeyError"
              read == IF Known(i) THEN {i} ELSE {}
          IN stack' = ReplaceTop([Top EXCEPT !.reads = Append(@, out),
                                             !.dependencies = @ \cup read])
  /\ UNCHANGED <<revision, records, lru, ctl, requests, scopeVars, worldVars>>

\* report_untracked_read, beside the read it declares.
BodyReadsUntracked ==
  /\ Does("untracked", Absent)
  /\ stack' = ReplaceTop([Top EXCEPT !.reads = Append(@, ambient),
                                     !.untracked = TRUE])
  /\ UNCHANGED <<revision, records, lru, ctl, requests, scopeVars, worldVars>>

BodyCalls ==
  /\ \/ \E q \in Queries : Does("query", q) /\ ctl' = Call("ensure", q)
     \/ \E r \in Resources : Does("resource", r) /\ ctl' = Call("observe", r)
  /\ stack' = ReplaceTop([Top EXCEPT !.callee = NextStep.arg])
  /\ UNCHANGED <<revision, records, lru, requests, scopeVars, worldVars>>

\* The call of the body came back with a value: an edge and a read.
BodyResumes ==
  /\ stack # <<>> /\ Top.kind = "exec" /\ ctl.op = "return"
  /\ stack' = ReplaceTop([Top EXCEPT
                !.callee = Absent, !.dependencies = @ \cup {ctl.key},
                !.reads = Append(@, records[ctl.key].snapshot)])
  /\ ctl' = Run
  /\ UNCHANGED <<revision, records, lru, requests, scopeVars, worldVars>>

CaughtImpureMutant(q, e) ==
  IF ctl.key \in Queries THEN FALSE
  ELSE ~Known(ctl.key) /\ e = "ReentrantDatabaseError"
\* The call of the body raised.  A failed sub-query leaves no edge, so the
\* caller is marked untracked unless it asked for itself; a failed resource
\* leaves an edge when it has a record.
CaughtImpure(q, e) ==
  IF ctl.key \in Queries THEN ~(e = "CycleError" /\ q = ctl.key)
  ELSE ~Known(ctl.key) /\ e = "ReentrantDatabaseError"

BodyCatches ==
  /\ stack # <<>> /\ Top.kind = "exec" /\ ctl.op = "raise"
  /\ LET impure == CaughtImpure(Top.key, ctl.result)
         unrecorded == ctl.key \in Resources /\ ~ctl.recorded
     IN stack' = ReplaceTop([Top EXCEPT
                   !.callee = Absent, !.reads = Append(@, ctl.result),
                   !.untracked = @ \/ impure,
                   !.checkpointable = @ /\ ~impure /\ ~unrecorded,
                   !.dependencies = @ \cup
                     IF ctl.key \in Resources /\ Known(ctl.key) THEN {ctl.key} ELSE {}])
  /\ ctl' = Run
  /\ UNCHANGED <<revision, records, lru, requests, scopeVars, worldVars>>

\* A body that raises commits nothing.
BodyRaises ==
  /\ \E e \in Exceptions : Does("raise", e) /\ ctl' = Raise(Top.key, e, FALSE)
  /\ stack' = Pop
  /\ UNCHANGED <<revision, records, lru, requests, scopeVars, worldVars>>

\* Early cutoff: does the new result leave the node unchanged?  An impure run
\* skips the comparison and keeps changed_at only for an identical snapshot.
KeepsChangedAt(q, v) ==
  /\ Known(q)
  /\ IF Top.untracked THEN v = records[q].snapshot ELSE Equal(q, records[q].snapshot, v)

CommitRevisionMutant(q, v) == revision
\* A re-execution that lands a new value moves the revision; a cold one lands
\* at the revision it finds.
CommitRevision(q, v) ==
  IF Known(q) /\ ~KeepsChangedAt(q, v) THEN revision + 1 ELSE revision

\* The edges of a run replace those of the run before it.
Edges(q) == Top.dependencies

Commit(q, v) ==
  LET rev == CommitRevision(q, v) IN
  /\ revision' = rev
  /\ records' = [records EXCEPT ![q] =
       [NewRecord(v, IF KeepsChangedAt(q, v) THEN records[q].changed_at ELSE rev,
                  rev, CurrentRequest)
          EXCEPT !.dependencies = Edges(q),
                 !.untracked = Top.untracked,
                 !.checkpointable = Top.checkpointable]]
  /\ lru' = Touched(q)
  /\ stack' = Pop
  /\ ctl' = Return(q)

BodyReturns ==
  /\ \E v \in Values : Does("return", v) /\ Commit(Top.key, v)
  /\ UNCHANGED <<requests, scopeVars, worldVars>>

-----------------------------------------------------------------------------
(* Resources: _refresh_resource, _observe_resource and the failure records.  *)

ProbeProvesMutant(r) == Known(r) /\ ~Failed(r)
\* _reuse_on_probe_hit: a stored probe proves "unchanged" only beside a value
\* and while no unrecorded raise has contradicted it.
ProbeProves(r) == Known(r) /\ ~Failed(r) /\ ~records[r].probe_unconfirmed
ProbeHit(r, p) == ProbeProves(r) /\ records[r].probe = p

ReuseOnProbeHit(r) ==
  /\ records' = [records EXCEPT ![r] = Verified(@)]
  /\ ctl' = Return(r)
  /\ UNCHANGED <<revision, requests>>

\* A raise that no record describes retires the stored probe, once.
RaiseUnrecorded(r, e) ==
  /\ revision' = IF Known(r) /\ ~records[r].probe_unconfirmed THEN revision + 1
                 ELSE revision
  /\ records' = IF Known(r) THEN [records EXCEPT ![r].probe_unconfirmed = TRUE]
                ELSE records
  /\ ctl' = Raise(r, e, FALSE)
  /\ UNCHANGED requests

\* An unchanged failing probe keeps the readers green.
FailureUnchanged(r, p) ==
  Known(r) /\ Failed(r) /\ ~records[r].probe_unconfirmed /\ records[r].probe = p

RecordFailure(r, p, e) ==
  LET rev == IF ~Known(r) \/ FailureUnchanged(r, p) THEN revision ELSE revision + 1
      changed == IF FailureUnchanged(r, p) THEN records[r].changed_at ELSE rev
  IN
  /\ revision' = rev
  /\ records' = [records EXCEPT ![r] =
       [NewRecord(Absent, changed, rev, CurrentRequest)
          EXCEPT !.probe = p, !.failure = e, !.retained = TRUE]]
  /\ requests' = [requests EXCEPT ![holder].failures = @ \cup {r}]
  /\ ctl' = Raise(r, e, TRUE)

LoadRevisionMutant(r) == revision
\* A load that succeeded moves the revision; the first one lands at the
\* revision it finds.
LoadRevision(r) == IF Known(r) THEN revision + 1 ELSE revision

RecordLoad(r, p, v) ==
  /\ revision' = LoadRevision(r)
  /\ records' = [records EXCEPT ![r] =
       [NewRecord(v, LoadRevision(r), LoadRevision(r), CurrentRequest) EXCEPT !.probe = p]]
  /\ ctl' = Return(r)
  /\ UNCHANGED requests

\* Entry: a node observed in this request is settled, value or exception; a
\* record that could answer is probed first; otherwise the hook loads.
ObserveResource ==
  LET r == ctl.key
      settled == Known(r) /\ SettledInRequest(r)
      answers == settled /\ (~Failed(r) \/ records[r].retained)
      w == world[r]
  IN
  /\ ctl.op = "observe"
  /\ \/ /\ answers /\ ~Failed(r)
        /\ ctl' = Return(r) /\ UNCHANGED <<revision, records, requests>>
     \/ /\ answers /\ Failed(r)
        /\ ctl' = Raise(r, records[r].failure, TRUE)
        /\ UNCHANGED <<revision, records, requests>>
     \/ /\ ~answers /\ r \in Split
        /\ \/ w \in Unprobeable /\ RaiseUnrecorded(r, LoadOf(w))
           \/ w \notin Unprobeable /\ ProbeHit(r, w) /\ ReuseOnProbeHit(r)
           \/ /\ w \notin Unprobeable /\ ~ProbeHit(r, w)
              /\ ctl' = [ctl EXCEPT !.op = "split_load", !.probe = w]
              /\ UNCHANGED <<revision, records, requests>>
     \/ /\ ~answers /\ r \notin Split
        /\ \/ w \notin Unprobeable /\ ProbeHit(r, w) /\ ReuseOnProbeHit(r)
           \/ /\ w \in Unprobeable \/ ~ProbeHit(r, w)
              /\ ctl' = [ctl EXCEPT !.op = "load"]
              /\ UNCHANGED <<revision, records, requests>>
  /\ UNCHANGED <<lru, stack, scopeVars, worldVars>>

ProbeAndLoadMutant ==
  LET r == ctl.key
      w == world[r]
  IN
  /\ ctl.op = "load"
  /\ RecordLoad(r, w, LoadOf(w))
  /\ UNCHANGED <<lru, stack, scopeVars, worldVars>>
\* probe_and_load: probe and value from one observation.  A load that raised
\* is followed by a probe of its own.
ProbeAndLoad ==
  LET r == ctl.key
      w == world[r]
      out == LoadOf(w)
  IN
  /\ ctl.op = "load"
  /\ \/ w \in Refusing /\ RaiseUnrecorded(r, "ReentrantDatabaseError")
     \/ /\ w \notin Refusing /\ out \in Exceptions
        /\ ctl' = [ctl EXCEPT !.op = "failure_probe", !.result = out]
        /\ UNCHANGED <<revision, records, requests>>
     \/ /\ w \notin Refusing /\ out \in Values
        /\ IF ProbeHit(r, w) THEN ReuseOnProbeHit(r) ELSE RecordLoad(r, w, out)
  /\ UNCHANGED <<lru, stack, scopeVars, worldVars>>

\* _observe_failure_probe, at a later instant than the load that raised.
ObserveFailureProbe ==
  LET r == ctl.key
      w == world[r]
  IN
  /\ ctl.op = "failure_probe"
  /\ IF w \in Unprobeable THEN RaiseUnrecorded(r, ctl.result)
                          ELSE RecordFailure(r, w, ctl.result)
  /\ UNCHANGED <<lru, stack, scopeVars, worldVars>>

\* A handle without probe_and_load is loaded after its probe missed.
SplitLoad ==
  LET r == ctl.key
      w == world[r]
      out == LoadOf(w)
  IN
  /\ ctl.op = "split_load"
  /\ \/ w \in Refusing /\ RaiseUnrecorded(r, "ReentrantDatabaseError")
     \/ w \notin Refusing /\ out \in Exceptions /\ RecordFailure(r, ctl.probe, out)
     \/ w \notin Refusing /\ out \in Values /\ RecordLoad(r, ctl.probe, out)
  /\ UNCHANGED <<lru, stack, scopeVars, worldVars>>

-----------------------------------------------------------------------------
(* The outside world moves, and every open request has been overtaken.      *)
(* An evaluation sees a resource's world only in its hooks, and the ambient  *)
(* state only in an untracked read: a move between two looks is placed right *)
(* before the second, one that nobody looks at again after the call.         *)

Looking(r) ==
  ctl.op \in {"observe", "load", "split_load", "failure_probe"} /\ ctl.key = r

Overtaken ==
  [t \in Threads |-> IF requests[t] = Absent THEN Absent
                     ELSE [requests[t] EXCEPT !.moved = TRUE]]

MoveWorld(r, w) ==
  /\ LockFree \/ (r \in Racy /\ Looking(r))
  /\ world[r] # w
  /\ world' = [world EXCEPT ![r] = w]
  /\ requests' = Overtaken
  /\ UNCHANGED <<revision, records, lru, stack, ctl, scopeVars, ambient>>

MoveAmbient(v) ==
  /\ LockFree \/ Does("untracked", Absent)
  /\ ambient # v
  /\ ambient' = v
  /\ requests' = Overtaken
  /\ UNCHANGED <<revision, records, lru, stack, ctl, scopeVars, world>>

-----------------------------------------------------------------------------

Init ==
  /\ revision = 0
  /\ records = [n \in Nodes |-> Absent]
  /\ lru = <<>>
  /\ stack = <<>> /\ ctl = Idle /\ holder = Absent
  /\ requests = [t \in Threads |-> Absent]
  /\ request_counter = 0 /\ span_epoch = 0
  /\ world \in [Resources -> World]
  /\ ambient \in AmbientValues

Evaluate ==
  \/ EnsureQuery \/ ReuseQuery \/ VerifyDependency \/ ResumeVerify \/ AbandonVerify
  \/ BodyReadsInput \/ BodyReadsUntracked \/ BodyCalls \/ BodyResumes
  \/ BodyCatches \/ BodyRaises \/ BodyReturns
  \/ ObserveResource \/ ProbeAndLoad \/ ObserveFailureProbe \/ SplitLoad
  \/ Deliver \/ Finish

Updates == UNION {[S -> Values] : S \in SUBSET Inputs}

Client ==
  \E t \in Threads :
    \/ \E q \in Queries : Get(t, q) \/ Inspect(t, q)
    \/ \E r \in Resources : ReadResource(t, r)
    \/ \E i \in Inputs, v \in Values : Set(t, i, v)
    \/ \E updates \in Updates : SetMany(t, updates)
    \/ t \in SpanThreads /\ OpenSpan(t)
    \/ CloseSpan(t) \/ RequestInputsChanged(t)

Environment ==
  \/ \E r \in Resources, w \in World : MoveWorld(r, w)
  \/ \E v \in AmbientValues : MoveAmbient(v)

Next == Evaluate \/ Client \/ Environment

Spec == Init /\ [][Next]_vars

-----------------------------------------------------------------------------
(* Invariants.                                                              *)

TypeOK ==
  /\ revision \in Nat
  /\ records \in [Nodes -> NodeRecord \cup {Absent}]
  /\ lru \in Seq(Queries)
  /\ stack \in Seq(Frame)
  /\ ctl \in Control
  /\ holder \in Threads \cup {Absent}
  /\ requests \in [Threads -> RequestScope \cup {Absent}]
  /\ request_counter \in Nat /\ span_epoch \in Nat
  /\ world \in [Resources -> World] /\ ambient \in AmbientValues

\* The lock, the open request and the call stack agree.
LockDiscipline ==
  /\ LockFree <=> ctl.op = "idle"
  /\ ~LockFree => requests[holder] # Absent
  /\ ctl.op \in {"idle", "answer"} => stack = <<>>
  /\ ctl.op = "run" => stack # <<>>

\* What a pending call carries: a call that returned left a record with a
\* value for the caller to read, a call that raised an exception.
CallDiscipline ==
  /\ ctl.op = "ensure" => ctl.key \in Queries
  /\ ctl.op \in {"observe", "load", "split_load", "failure_probe"} => ctl.key \in Resources
  /\ ctl.op = "split_load" => ctl.probe \in World
  /\ ctl.op \in {"return", "raise"} => ctl.key \in Queries \cup Resources
  /\ ctl.op = "return" => Known(ctl.key) /\ ~Failed(ctl.key)
  /\ ctl.op \in {"failure_probe", "raise"} => ctl.result \in Exceptions

\* A record holds a value or, for a resource only, a failure; what a frame
\* verifies has a record until the frame is done.
RecordDiscipline ==
  /\ \A n \in Nodes : Known(n) =>
       /\ Failed(n) <=> records[n].snapshot = Absent
       /\ Failed(n) => n \in Resources
  /\ \A k \in 1 .. Len(stack) : stack[k].kind = "verify" => Known(stack[k].key)

\* Records are dated in order, and no request finds itself on a record before
\* it was opened: a fresh id is on no record and no two requests share one.
RevisionDiscipline ==
  /\ \A n \in Nodes : Known(n) =>
       /\ records[n].changed_at <= records[n].verified_at
       /\ records[n].verified_at <= revision
       /\ records[n].checked_in_request <= request_counter
  /\ \A t \in Threads : requests[t] # Absent =>
       /\ requests[t].request_id <= request_counter
       /\ \A u \in Threads \ {t} :
            requests[u] # Absent => requests[u].request_id # requests[t].request_id

\* Does a new snapshot of n differ from its old one, by n's own policy?
MovesTo(n, v) ==
  /\ v # records[n].snapshot
  /\ ~(v \in Values /\ ~Failed(n) /\ Equal(n, records[n].snapshot, v))
ReadersSeeChanges ==
  \A n \in Nodes : Known(n) /\ records'[n] # Absent /\ MovesTo(n, records'[n].snapshot) =>
    \A q \in Queries : Known(q) => records'[n].changed_at > records[q].verified_at

\* No reader can miss a change (set, _execute_query, _observe_resource): a
\* record that gets a value its policy tells apart, or loses its value to a
\* failure, is dated later than every verification made so far.
NoReaderMissesAChange == [][ReadersSeeChanges]_vars

-----------------------------------------------------------------------------
(* Repeatable reads.                                                        *)

\* What a request has settled: a value, or a failure whose exception it can
\* still raise.  A failure can lose its exception under the request: the end of
\* an overlapping span that met it too releases it, whoever recorded it last
\* (_release_failure_exceptions), and the next read loads again.
Settled(n, id) ==
  Known(n) /\ records[n].checked_in_request = id /\ (Failed(n) => records[n].retained)

SameAnswer(n) ==
  /\ records'[n].snapshot = records[n].snapshot
  /\ records'[n].failure = records[n].failure
  /\ records'[n].changed_at = records[n].changed_at

RereadsAgree ==
  \A t \in Threads, n \in Queries \cup Resources :
    requests[t] # Absent /\ requests'[t] # Absent =>
      LET id == requests[t].request_id IN
      /\ requests'[t].request_id = id /\ Settled(n, id)
      /\ records'[n] # Absent /\ records'[n].checked_in_request = id
      => SameAnswer(n)

\* Repeatable reads (_request_scope, "already checked in current request"): as
\* long as a request keeps its id, what it has settled keeps its value, and a
\* settled resource failure its exception.
SettledStaysPut == [][RereadsAgree]_vars

-----------------------------------------------------------------------------

\* A running evaluation is a thread that is scheduled.
FairSpec == Spec /\ WF_vars(Evaluate)
=============================================================================
