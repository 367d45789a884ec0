------------------------------- MODULE Replay -------------------------------
(***************************************************************************)
(* What a record of a query stands for (docs/kernel-contract.md): the run    *)
(* of its body on the records of the nodes it read.  Nothing here is          *)
(* recursive: a run of a body is the sequence of outcomes it read.           *)
(***************************************************************************)
EXTENDS Kernel

CONSTANT Traces   \* the sequences of outcomes a body may have read

ASSUME TracesAssumption == Traces \subseteq Seq(Outcomes)

\* What a body had read before its k-th read.
Before(reads, k) == SubSeq(reads, 1, k - 1)

\* The step of a body that reads n.
Ask(n) ==
  [op |-> IF n \in Inputs THEN "input" ELSE IF n \in Resources THEN "resource" ELSE "query",
   arg |-> n]
Answer(v) == [op |-> "return", arg |-> v]

\* The outcome a record holds.
Outcome(n) == IF Failed(n) THEN records[n].failure ELSE records[n].snapshot

\* The body of q, run on the records of the nodes it asks for, returns what is
\* recorded for q.
ReplayedFrom(q, reads) ==
  /\ Body(q, reads) = Answer(records[q].snapshot)
  /\ \A k \in 1 .. Len(reads) :
       \E n \in Nodes : Body(q, Before(reads, k)) = Ask(n) /\ Known(n) /\ reads[k] = Outcome(n)

\* No edge of q can make _ensure_query run it again at this revision.
LooksGreen(q) ==
  /\ Known(q) /\ ~records[q].untracked
  /\ \A d \in records[q].dependencies :
       Known(d) /\ ~ChangedSince(d, records[q].verified_at) /\ ~records[d].probe_unconfirmed

\* Red-green soundness of the record table (_ensure_query, _execute_query): a
\* record whose edges all look unchanged holds what its body returns from the
\* records behind those edges.
GreenRecordsReplay ==
  \A q \in Queries : LooksGreen(q) => \E reads \in Traces : ReplayedFrom(q, reads)

-----------------------------------------------------------------------------
(* What the record table needs for that, whatever the bodies compute.        *)

\* The exceptions a load can end with, and those that leave no failure record
\* of this attempt: no probe could be taken, or another world was probed.
Failures == {LoadOf(w) : w \in World \ Refusing} \cap Exceptions
Unrecordable(r) ==
  {LoadOf(w) : w \in Unprobeable} \cup
  IF r \notin Racy THEN {}
  ELSE (IF Unprobeable = {} THEN {} ELSE Failures)
         \cup (IF Refusing = {} THEN {} ELSE {"ReentrantDatabaseError"})

\* The body of q raises when the read after these ends in e.
LetsThrough(q, reads, e) == Body(q, Append(reads, e)).op = "raise"

\* No body handles an exception that no edge can stand for: the KeyError of an
\* unset input, the CycleError of its own call, a failure nothing records, a
\* failure that can turn into another one while the probe stays.
LetThrough ==
  \A q \in Queries, reads \in Traces :
    /\ \A i \in Inputs : Body(q, reads) = Ask(i) => LetsThrough(q, reads, "KeyError")
    /\ Body(q, reads) = Ask(q) => LetsThrough(q, reads, "CycleError")
    /\ \A r \in Resources : Body(q, reads) = Ask(r) =>
         /\ \A e \in Unrecordable(r) : LetsThrough(q, reads, e)
         /\ r \in Racy => \A e, f \in Failures : e # f => LetsThrough(q, reads, e)

\* The policies call nothing equal but equal snapshots.
Exact == \A n \in Nodes, u, v \in Values : Equal(n, u, v) => u = v

-----------------------------------------------------------------------------
(* Cold evaluation: what a fresh database computes from the same inputs and  *)
(* the same world, as the least relation of queries and values.             *)

\* What a first load of a resource yields in world w.
FreshLoad(w) == IF w \in Refusing THEN "ReentrantDatabaseError" ELSE LoadOf(w)

\* What a step of a cold body reads, when its sub-queries return what S says.
FreshOutcome(S, step, out) ==
  \/ \E i \in Inputs :
       step = Ask(i) /\ out = IF Known(i) THEN records[i].snapshot ELSE "KeyError"
  \/ \E r \in Resources : step = Ask(r) /\ out = FreshLoad(world[r])
  \/ \E q \in Queries : step = Ask(q) /\ <<q, out>> \in S
  \/ step = [op |-> "untracked", arg |-> Absent] /\ out = ambient
FreshTrace(S, q, reads) ==
  \A k \in 1 .. Len(reads) : FreshOutcome(S, Body(q, Before(reads, k)), reads[k])

\* A cold evaluation of q that returns v is built from the values of its
\* sub-queries, up from the queries that call none.
Closed(S) ==
  \A q \in Queries, reads \in Traces, v \in Values :
    Body(q, reads) = Answer(v) /\ FreshTrace(S, q, reads) => <<q, v>> \in S
Derived(q, v) == \A S \in SUBSET (Queries \X Values) : Closed(S) => <<q, v>> \in S

\* An evaluated top-level call whose request the world has not overtaken (an
\* inspect of a record carries no result: it does not promise a fresh one).
Answered == ctl.op = "answer" /\ ctl.result # Absent /\ ~requests[holder].moved

\* From-scratch consistency of values (get, read_resource): a value that is
\* answered is the value of a cold evaluation on the inputs and the world as
\* they are, however the records came to be.
ValuesAreDerived ==
  Answered /\ ctl.result \in Values =>
    IF ctl.key \in Queries THEN Derived(ctl.key, ctl.result)
    ELSE ctl.result = FreshLoad(world[ctl.key])

\* No body handles the exception of a query it calls.
RaiseThrough ==
  \A p, q \in Queries, reads \in Traces, e \in Exceptions :
    Body(q, reads) = Ask(p) => LetsThrough(q, reads, e)
=============================================================================
