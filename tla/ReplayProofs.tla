---------------------------- MODULE ReplayProofs ----------------------------
(***************************************************************************)
(* Red-green soundness of the record table for every graph of bodies: what  *)
(* a record holds is what its body returns from the records behind its      *)
(* edges, as long as those edges look unchanged.  The hypotheses are the    *)
(* ones the promise needs: no eviction, policies that tell all values       *)
(* apart, and bodies that let through the exceptions no edge stands for.    *)
(***************************************************************************)
EXTENDS RereadProofs, Replay

\* The failure a node has not been observed out of: a resource whose world
\* reads back into the database, unless its world moves under the call.
Refuses(n) == n \in Resources \ Racy /\ world[n] \in Refusing

\* What a running body read from n still stands: n is an input, or settled in
\* this request, or refuses to load and is known not to be confirmed.
Stands(n, out) ==
  \/ n \in Inputs /\ out = Outcome(n)
  \/ Settled(n, CurrentRequest) /\ out = Outcome(n)
  \/ Refuses(n) /\ records[n].probe_unconfirmed /\ out = "ReentrantDatabaseError"

FrameReads(f) ==
  \A k \in 1 .. Len(f.reads) : \E n \in f.dependencies :
    /\ n \in Nodes /\ Body(f.key, Before(f.reads, k)) = Ask(n)
    /\ Known(n) /\ Stands(n, f.reads[k])

\* A running body that stayed pure has an edge for all it read, or is about
\* to raise; it waits for the node it asked for.
Tracked(f) ==
  f.kind = "exec" =>
    /\ f.callee # Absent => Body(f.key, f.reads) = Ask(f.callee)
    /\ ~f.untracked => FrameReads(f) \/ Body(f.key, f.reads).op = "raise"
Running == \A k \in 1 .. Len(stack) : Tracked(stack[k])

\* What the hook under way has seen of the world.
Hooks ==
  /\ ctl.op = "failure_probe" =>
       /\ ctl.result \in Failures
       /\ ctl.key \notin Racy =>
            world[ctl.key] \notin Refusing /\ ctl.result = LoadOf(world[ctl.key])
  /\ ctl.op = "split_load" /\ ctl.key \notin Racy => ctl.probe = world[ctl.key]
  /\ ctl.op = "raise" /\ ctl.key \in Resources =>
       IF ctl.recorded THEN Known(ctl.key) /\ records[ctl.key].failure = ctl.result
       ELSE \/ ctl.result \in Unrecordable(ctl.key)
            \/ /\ Refuses(ctl.key) /\ ctl.result = "ReentrantDatabaseError"
               /\ Known(ctl.key) => records[ctl.key].probe_unconfirmed

\* A recorded failure is one of a load, of the probed world when the two
\* looks could not differ.
RecordedFailures ==
  \A r \in Resources : Known(r) /\ Failed(r) =>
    /\ records[r].failure \in Failures
    /\ r \notin Racy => records[r].failure = LoadOf(records[r].probe)

\* Every read of a recorded run is the outcome of an edge, or of an edge the
\* next verification will not pass.
Unsure(n) == n \in Resources /\ records[n].probe_unconfirmed
ReadOrDirty(q, n, out) ==
  \/ out = Outcome(n) \/ records[n].changed_at > records[q].verified_at \/ Unsure(n)
RecordedRun(q, reads) ==
  /\ Body(q, reads) = Answer(records[q].snapshot)
  /\ \A k \in 1 .. Len(reads) : \E n \in records[q].dependencies :
       /\ n \in Nodes /\ Body(q, Before(reads, k)) = Ask(n)
       /\ Known(n) /\ ReadOrDirty(q, n, reads[k])
Recorded(q) ==
  Known(q) /\ ~records[q].untracked => \E reads \in Seq(Outcomes) : RecordedRun(q, reads)
Table == \A q \in Queries : Recorded(q)

\* The databases the argument is about.
Replayable == Traces = Seq(Outcomes) /\ MaxQueryNodes = 0 /\ Exact /\ LetThrough

\* The inductive invariant.
Replaying == Running /\ Hooks /\ RecordedFailures /\ Table
PInv == RInv /\ Replaying

-----------------------------------------------------------------------------
(* Runs of a body.                                                          *)

\* The first reads of a run.
LEMMA FirstReads ==
  ASSUME NEW s \in Seq(Outcomes), NEW m \in 0 .. Len(s)
  PROVE  /\ SubSeq(s, 1, m) \in Seq(Outcomes) /\ Len(SubSeq(s, 1, m)) = m
         /\ \A i \in 1 .. m : SubSeq(s, 1, m)[i] = s[i]
<1>1. m \in Int /\ 1 \in Int /\ m >= 0 /\ \A i \in 1 .. m : s[i] \in Outcomes
  BY ElementOfSeq
<1>2. /\ SubSeq(s, 1, m) \in Seq(Outcomes)
      /\ Len(SubSeq(s, 1, m)) = IF 1 <= m THEN m - 1 + 1 ELSE 0
      /\ \A i \in 1 .. m - 1 + 1 : SubSeq(s, 1, m)[i] = s[1 + i - 1]
  BY <1>1, SubSeqProperties
<1> QED  BY <1>1, <1>2

\* One read more leaves the reads before it.
LEMMA Extended ==
  ASSUME NEW s \in Seq(Outcomes), NEW e \in Outcomes
  PROVE  /\ Append(s, e) \in Seq(Outcomes) /\ Len(Append(s, e)) = Len(s) + 1
         /\ Append(s, e)[Len(s) + 1] = e /\ Before(Append(s, e), Len(s) + 1) = s
         /\ \A k \in 1 .. Len(s) :
              Append(s, e)[k] = s[k] /\ Before(Append(s, e), k) = Before(s, k)
<1> DEFINE t == Append(s, e)
           n == Len(s)
<1>1. t \in Seq(Outcomes) /\ Len(t) = n + 1 /\ n \in Nat /\ t[n + 1] = e
  OBVIOUS
<1>2. \A k \in 1 .. n : t[k] = s[k]
  OBVIOUS
<1> HIDE DEF t
<1>3. ASSUME NEW m \in 0 .. n
      PROVE  SubSeq(t, 1, m) = SubSeq(s, 1, m)
  <2>1. m \in 0 .. Len(t)
    BY <1>1
  <2>2. /\ SubSeq(t, 1, m) \in Seq(Outcomes) /\ SubSeq(s, 1, m) \in Seq(Outcomes)
        /\ Len(SubSeq(t, 1, m)) = m /\ Len(SubSeq(s, 1, m)) = m
        /\ \A i \in 1 .. m : SubSeq(t, 1, m)[i] = t[i] /\ SubSeq(s, 1, m)[i] = s[i]
    BY <1>1, <2>1, FirstReads
  <2>3. \A i \in 1 .. m : SubSeq(t, 1, m)[i] = SubSeq(s, 1, m)[i]
    BY <1>1, <1>2, <2>2
  <2> QED  BY <2>2, <2>3, SeqEqual
<1>4. Before(t, n + 1) = s
  <2>1. SubSeq(t, 1, n) = s
    BY <1>1, <1>3, SubSeqFull
  <2>2. n + 1 - 1 = n
    BY <1>1
  <2> QED  BY <2>1, <2>2 DEF Before
<1>5. \A k \in 1 .. n : Before(t, k) = Before(s, k)
  BY <1>1, <1>3 DEF Before
<1> QED  BY <1>1, <1>2, <1>4, <1>5 DEF t

\* The reads before the next read are the reads so far and this one.
LEMMA Continued ==
  ASSUME NEW s \in Seq(Outcomes), NEW k \in 1 .. Len(s)
  PROVE  /\ Before(s, k) \in Seq(Outcomes)
         /\ Append(Before(s, k), s[k]) = IF k = Len(s) THEN s ELSE Before(s, k + 1)
<1> DEFINE a == SubSeq(s, 1, k - 1)
           b == SubSeq(s, 1, k)
<1>1. Len(s) \in Nat /\ s[k] \in Outcomes /\ k - 1 \in 0 .. Len(s) /\ k \in 0 .. Len(s)
  BY ElementOfSeq
<1>2. /\ a \in Seq(Outcomes) /\ Len(a) = k - 1 /\ \A i \in 1 .. k - 1 : a[i] = s[i]
      /\ b \in Seq(Outcomes) /\ Len(b) = k /\ \A i \in 1 .. k : b[i] = s[i]
  BY <1>1, FirstReads
<1>3. Append(a, s[k]) = b
  <2> HIDE DEF a, b
  <2>1. Append(a, s[k]) \in Seq(Outcomes) /\ Len(Append(a, s[k])) = k
    BY <1>1, <1>2
  <2>2. \A i \in 1 .. k : Append(a, s[k])[i] = b[i]
    BY <1>1, <1>2
  <2> QED  BY <1>2, <2>1, <2>2, SeqEqual
<1>4. k = Len(s) => b = s
  BY SubSeqFull
<1>5. k + 1 - 1 = k
  BY <1>1
<1> QED  BY <1>2, <1>3, <1>4, <1>5 DEF Before

-----------------------------------------------------------------------------
(* The table.                                                               *)

\* A run that returned let none of its reads through.
LEMMA RunContinues ==
  ASSUME NEW q, NEW reads \in Seq(Outcomes), RecordedRun(q, reads), NEW k \in 1 .. Len(reads)
  PROVE  Before(reads, k) \in Seq(Outcomes) /\ ~LetsThrough(q, Before(reads, k), reads[k])
<1>1. /\ Before(reads, k) \in Seq(Outcomes)
      /\ Append(Before(reads, k), reads[k]) = IF k = Len(reads) THEN reads ELSE Before(reads, k + 1)
  BY Continued
<1>2. Body(q, reads).op # "raise"
  BY DEF RecordedRun, Answer
<1>3. k # Len(reads) => Body(q, Before(reads, k + 1)).op # "raise"
  <2>1. k # Len(reads) => k + 1 \in 1 .. Len(reads)
    OBVIOUS
  <2> QED  BY <2>1 DEF RecordedRun, Ask
<1> QED  BY <1>1, <1>2, <1>3 DEF LetsThrough

\* A record is left with its outcome, or dated past every verification; a
\* failure of a resource that moves under the call may turn into another one.
Alike(n) ==
  \/ Outcome(n)' = Outcome(n)
  \/ n \in Resources /\ n \in Racy /\ Outcome(n) \in Failures /\ Outcome(n)' \in Failures
Kept(n) ==
  /\ Known(n)'
  /\ \/ records'[n].changed_at > revision
     \/ /\ records'[n].changed_at >= records[n].changed_at
        /\ Unsure(n) => Unsure(n)'
        /\ Alike(n)
SameRun(q) ==
  /\ records'[q].snapshot = records[q].snapshot
  /\ records'[q].dependencies = records[q].dependencies
  /\ records'[q].untracked = records[q].untracked
  /\ records'[q].verified_at = records[q].verified_at

LEMMA RunKept ==
  ASSUME IInv, Replayable, NEW q \in Queries, Recorded(q), Known(q)' => Known(q) /\ SameRun(q),
         \A n \in Nodes : Known(n) => Kept(n), IInv'
  PROVE  Recorded(q)'
<1> SUFFICES ASSUME Known(q)', ~records[q].untracked
             PROVE  \E reads \in Seq(Outcomes) : RecordedRun(q, reads)'
  BY DEF Recorded, SameRun
<1>1. Known(q) /\ SameRun(q) /\ q \in Nodes
  BY DEF Nodes
<1>2. PICK reads \in Seq(Outcomes) : RecordedRun(q, reads)
  BY <1>1 DEF Recorded
<1>3. /\ revision \in Nat /\ records[q].verified_at \in Nat /\ records[q].verified_at <= revision
  BY <1>1, Facts DEF IInv, RevisionDiscipline, TypeOK, NodeRecord
<1>4. ASSUME NEW k \in 1 .. Len(reads)
      PROVE  \E n \in records[q].dependencies :
               /\ n \in Nodes /\ Body(q, Before(reads, k)) = Ask(n)
               /\ Known(n)' /\ ReadOrDirty(q, n, reads[k])'
  <2>1. PICK n \in records[q].dependencies :
          /\ n \in Nodes /\ Body(q, Before(reads, k)) = Ask(n)
          /\ Known(n) /\ ReadOrDirty(q, n, reads[k])
    BY <1>2 DEF RecordedRun
  <2>2. Kept(n) /\ records[n].changed_at \in Nat /\ records'[n].changed_at \in Nat
    BY <2>1, Facts DEF NodeRecord, Kept, Known, IInv, TypeOK
  <2>3. ASSUME reads[k] = Outcome(n), Alike(n), Outcome(n) # Outcome(n)'
        PROVE  FALSE
    <3>1. Before(reads, k) \in Traces /\ ~LetsThrough(q, Before(reads, k), reads[k])
      BY <1>2, RunContinues DEF Replayable
    <3>2. LetsThrough(q, Before(reads, k), Outcome(n))
      BY <2>1, <2>3, <3>1 DEF Replayable, LetThrough, Alike
    <3> QED  BY <2>3, <3>1, <3>2
  <2>4. ReadOrDirty(q, n, reads[k])'
    BY <1>1, <1>3, <2>1, <2>2, <2>3 DEF ReadOrDirty, SameRun, Kept
  <2> QED  BY <2>1, <2>2, <2>4 DEF Kept
<1>5. RecordedRun(q, reads)'
  BY <1>1, <1>2, <1>4 DEF RecordedRun, SameRun
<1> QED  BY <1>5

\* A step that writes one record, of a node that is not among the queries it
\* leaves recorded.
LEMMA TableKept ==
  ASSUME PInv, IInv', Replayable, \A n \in Nodes : Known(n) => Kept(n),
         \A q \in Queries : Recorded(q)' \/ (Known(q)' => Known(q) /\ SameRun(q))
  PROVE  Table'
BY RunKept DEF PInv, Replaying, RInv, Table

\* A step that leaves the records.
LEMMA SameRecords ==
  ASSUME PInv, UNCHANGED records
  PROVE  RecordedFailures' /\ Table'
<1>1. RecordedFailures'
  BY DEF PInv, Replaying, RecordedFailures, Known, Failed
<1>2. ASSUME NEW q \in Queries, NEW reads, RecordedRun(q, reads)
      PROVE  RecordedRun(q, reads)'
  BY <1>2 DEF RecordedRun, ReadOrDirty, Unsure, Outcome, Known, Failed
<1>3. Table'
  BY <1>2 DEF PInv, Replaying, Table, Recorded, Known
<1> QED  BY <1>1, <1>3

-----------------------------------------------------------------------------
(* The running bodies.                                                      *)

SameWorld == \A r \in Resources \ Racy : world'[r] = world[r]

\* What stands goes on standing.
StandsOn == \A n \in Nodes : \A out : Known(n) /\ Stands(n, out) => Known(n)' /\ Stands(n, out)'

LEMMA UnchangedStands ==
  ASSUME UNCHANGED records, CurrentRequest' = CurrentRequest, SameWorld
  PROVE  StandsOn
BY DEF StandsOn, Stands, Refuses, SameWorld, Settled, Outcome, Known, Failed

\* No evaluation writes the record of an input or of a settled node.
LEMMA WrittenStands ==
  ASSUME IInv, NEW m \in Nodes, m \notin Inputs, ~Settled(m, CurrentRequest),
         NEW rec, rec # Absent, records' = [records EXCEPT ![m] = rec],
         CurrentRequest' = CurrentRequest, SameWorld,
         Refuses(m) /\ Known(m) /\ records[m].probe_unconfirmed => rec.probe_unconfirmed
  PROVE  StandsOn
<1> SUFFICES ASSUME NEW n \in Nodes, NEW out, Known(n), Stands(n, out)
             PROVE  Known(n)' /\ Stands(n, out)'
  BY DEF StandsOn
<1>1. records'[n] = IF n = m THEN rec ELSE records[n]
  BY DEF IInv, TypeOK
<1>2. CASE n # m
  BY <1>1, <1>2 DEF Stands, Refuses, SameWorld, Settled, Outcome, Known, Failed
<1>3. CASE n = m
  BY <1>1, <1>3 DEF Stands, Refuses, SameWorld, Known
<1> QED  BY <1>2, <1>3

LEMMA TrackedKept ==
  ASSUME StandsOn, NEW f, Tracked(f)
  PROVE  Tracked(f)'
<1>1. FrameReads(f) => FrameReads(f)'
  BY DEF FrameReads, StandsOn
<1> QED  BY <1>1 DEF Tracked

\* Every frame was there before or is tracked.
LEMMA RunningKept ==
  ASSUME PInv, StandsOn,
         \A k \in 1 .. Len(stack') :
           (\E j \in 1 .. Len(stack) : stack'[k] = stack[j]) \/ Tracked(stack'[k])
  PROVE  Running'
<1>1. ASSUME NEW k \in 1 .. Len(stack'), NEW g, g = stack'[k]
      PROVE  Tracked(g)'
  <2>1. Tracked(g)
    BY <1>1 DEF PInv, Replaying, Running
  <2> QED  BY <2>1, TrackedKept
<1> QED  BY <1>1 DEF Running

LEMMA RunningReplaced ==
  ASSUME PInv, StandsOn, stack # <<>>, NEW f \in Frame, Tracked(f), stack' = ReplaceTop(f)
  PROVE  Running'
<1>1. IInv /\ Len(stack) \in Nat
  BY StackHeight DEF PInv, Replaying, RInv
<1>2. /\ Len(stack') = Len(stack)
      /\ \A k \in 1 .. Len(stack) : stack'[k] = IF k = Len(stack) THEN f ELSE stack[k]
  BY <1>1, ReplacedFrames
<1> QED  BY <1>1, <1>2, RunningKept

LEMMA RunningPopped ==
  ASSUME PInv, StandsOn, stack # <<>>, stack' = Pop
  PROVE  Running'
<1>1. IInv /\ Len(stack) \in Nat
  BY StackHeight DEF PInv, Replaying, RInv
<1>2. Len(stack') = Len(stack) - 1 /\ \A k \in 1 .. Len(stack) - 1 : stack'[k] = stack[k]
  BY <1>1, PoppedFrames
<1> QED  BY <1>1, <1>2, RunningKept

LEMMA RunningPushed ==
  ASSUME PInv, StandsOn, NEW f \in Frame, Tracked(f), stack' = Push(f)
  PROVE  Running'
<1>1. IInv /\ Len(stack) \in Nat
  BY StackHeight DEF PInv, Replaying, RInv
<1>2. /\ Len(stack') = Len(stack) + 1
      /\ \A k \in 1 .. Len(stack) + 1 : stack'[k] = IF k <= Len(stack) THEN stack[k] ELSE f
  BY <1>1, PushedFrames
<1> QED  BY <1>1, <1>2, RunningKept

LEMMA RunningStays ==
  ASSUME PInv, StandsOn, UNCHANGED stack
  PROVE  Running'
BY RunningKept

\* A body that has read nothing.
LEMMA NewTracked ==
  ASSUME NEW kind, NEW q, NEW pending
  PROVE  Tracked(NewFrame(kind, q, pending))
BY DEF Tracked, FrameReads, NewFrame

\* A verification is no body.
LEMMA WalkTracked ==
  ASSUME NEW f, f.kind = "verify"
  PROVE  Tracked(f)
BY DEF Tracked

\* One read more: the read of an edge that stands, one that leaves the body
\* untracked, or one that it lets through.
LEMMA ReadTracked ==
  ASSUME NEW g \in Frame, Tracked(g), g.kind = "exec",
         NEW n \in Nodes, Body(g.key, g.reads) = Ask(n), NEW out \in Outcomes,
         NEW f, f.kind = "exec", f.key = g.key, f.reads = Append(g.reads, out),
         f.callee = Absent, g.dependencies \subseteq f.dependencies, g.untracked => f.untracked,
         \/ f.untracked \/ LetsThrough(g.key, g.reads, out)
         \/ n \in f.dependencies /\ Known(n) /\ Stands(n, out)
  PROVE  Tracked(f)
<1> SUFFICES ASSUME ~f.untracked
             PROVE  FrameReads(f) \/ Body(f.key, f.reads).op = "raise"
  BY DEF Tracked
<1>1. FrameReads(g)
  BY DEF Tracked, Ask
<1>2. CASE LetsThrough(g.key, g.reads, out)
  BY <1>2 DEF LetsThrough
<1>3. CASE n \in f.dependencies /\ Known(n) /\ Stands(n, out)
  <2>1. g.reads \in Seq(Outcomes)
    BY DEF Frame
  <2>2. /\ Len(f.reads) = Len(g.reads) + 1 /\ Len(g.reads) \in Nat
        /\ f.reads[Len(g.reads) + 1] = out /\ Before(f.reads, Len(g.reads) + 1) = g.reads
        /\ \A k \in 1 .. Len(g.reads) :
             f.reads[k] = g.reads[k] /\ Before(f.reads, k) = Before(g.reads, k)
    BY <2>1, Extended
  <2>3. ASSUME NEW k \in 1 .. Len(f.reads)
        PROVE  \E m \in f.dependencies : /\ m \in Nodes /\ Body(f.key, Before(f.reads, k)) = Ask(m)
                                         /\ Known(m) /\ Stands(m, f.reads[k])
    <3>1. CASE k = Len(g.reads) + 1
      BY <1>3, <2>2, <3>1
    <3>2. CASE k \in 1 .. Len(g.reads)
      <4>1. PICK m \in g.dependencies :
              /\ m \in Nodes /\ Body(g.key, Before(g.reads, k)) = Ask(m)
              /\ Known(m) /\ Stands(m, g.reads[k])
        BY <1>1, <3>2 DEF FrameReads
      <4> QED  BY <2>2, <3>2, <4>1
    <3> QED  BY <2>2, <3>1, <3>2
  <2> QED  BY <2>3 DEF FrameReads
<1> QED  BY <1>2, <1>3

-----------------------------------------------------------------------------
(* Steps of a query.                                                        *)

LEMMA LookStands ==
  ASSUME PInv, ctl.op # "idle", UNCHANGED <<records, requests, holder, world>>
  PROVE  StandsOn
<1>1. CurrentRequest' = CurrentRequest
  BY SameAnswers DEF PInv, Replaying
<1> QED  BY <1>1, UnchangedStands DEF SameWorld

LEMMA TopTracked ==
  ASSUME PInv, stack # <<>>
  PROVE  /\ RInv /\ IInv /\ Top \in Frame /\ Top.key \in Queries /\ Tracked(Top)
         /\ Top.callee = IF ctl.op = "run" THEN Absent ELSE ctl.key
<1>1. RInv /\ IInv /\ Len(stack) \in 1 .. Len(stack)
  BY StackHeight DEF PInv, Replaying, RInv
<1> QED  BY <1>1, TopIsOpen DEF PInv, Replaying, Running, Top

\* No hook is under way, and no resource raised.
LEMMA NoHooks ==
  ASSUME \/ ctl'.op \in {"idle", "run", "ensure", "observe", "return", "answer"}
         \/ ctl'.op = "raise" /\ ctl'.key \in Queries
  PROVE  Hooks'
BY ConstantsAssumption DEF Hooks

LEMMA EnsureQueryReplay ==
  ASSUME PInv, EnsureQuery
  PROVE  Running' /\ Hooks'
<1>1. /\ IInv /\ ctl.op # "idle" /\ ctl.key \in Queries /\ ctl.key \in Nodes
      /\ UNCHANGED <<records, requests, holder, world>>
  BY DEF PInv, Replaying, RInv, IInv, Discipline, CallDiscipline, EnsureQuery, Nodes, scopeVars, worldVars
<1>2. StandsOn
  BY <1>1, LookStands
<1>3. Running'
  <2>1. CASE UNCHANGED stack
    BY <1>2, <2>1, RunningStays
  <2>2. CASE stack' = Push(IF Known(ctl.key) /\ ~records[ctl.key].untracked
                           THEN NewFrame("verify", ctl.key, records[ctl.key].dependencies)
                           ELSE NewFrame("exec", ctl.key, {}))
    <3>1. Known(ctl.key) => records[ctl.key].dependencies \in SUBSET Nodes
      BY <1>1, Facts DEF NodeRecord
    <3>2. PICK kind \in {"exec", "verify"}, pending \in SUBSET Nodes :
            stack' = Push(NewFrame(kind, ctl.key, pending))
      BY <2>2, <3>1
    <3> QED  BY <1>1, <1>2, <3>2, NewFrameType, NewTracked, RunningPushed
  <2> QED  BY <2>1, <2>2 DEF EnsureQuery
<1>4. Hooks'
  BY <1>1, NoHooks DEF EnsureQuery, Raise, Return, Run, Call
<1> QED  BY <1>3, <1>4

\* A verification goes on, or turns into an execution.
LEMMA WalkReplay ==
  ASSUME PInv, VerifyDependency \/ ResumeVerify
  PROVE  Running' /\ Hooks'
<1>1. /\ stack # <<>> /\ ctl.op # "idle" /\ Top.kind = "verify"
      /\ UNCHANGED <<records, requests, holder, world>>
  BY DEF VerifyDependency, ResumeVerify, Verifying, scopeVars, worldVars
<1>2. StandsOn /\ IInv /\ Top \in Frame /\ Top.key \in Queries
  BY <1>1, LookStands, TopTracked
<1>3. Running'
  <2>1. CASE stack' = Dirty(stack)
    <3>1. stack' = ReplaceTop(NewFrame("exec", Top.key, {}))
      BY <2>1 DEF Dirty, ReplaceTop, Top
    <3> QED  BY <1>1, <1>2, <3>1, NewFrameType, NewTracked, RunningReplaced
  <2>2. CASE \E pending \in SUBSET Nodes, callee \in Nodes \cup {Absent} :
               stack' = ReplaceTop([Top EXCEPT !.pending = pending, !.callee = callee])
    <3>1. PICK pending \in SUBSET Nodes, callee \in Nodes \cup {Absent} :
            stack' = ReplaceTop([Top EXCEPT !.pending = pending, !.callee = callee])
      BY <2>2
    <3>2. PICK f : f = [Top EXCEPT !.pending = pending, !.callee = callee]
      OBVIOUS
    <3>3. f \in Frame /\ f.kind = "verify"
      BY <1>1, <1>2, <3>2 DEF Frame
    <3> QED  BY <1>1, <1>2, <3>1, <3>2, <3>3, WalkTracked, RunningReplaced
  <2>3. Top.pending \in SUBSET Nodes /\ Top.callee \in Nodes \cup {Absent}
    BY <1>2 DEF Frame
  <2>4. CASE VerifyDependency
    <3>1. PICK d \in Top.pending :
            \/ stack' = Dirty(stack)
            \/ stack' = ReplaceTop([Top EXCEPT !.pending = Remaining(@, d)])
            \/ stack' = ReplaceTop([[Top EXCEPT !.pending = Remaining(@, d)] EXCEPT !.callee = d])
      BY <2>4 DEF VerifyDependency
    <3>2. /\ [Top EXCEPT !.pending = Remaining(@, d)]
               = [Top EXCEPT !.pending = Remaining(Top.pending, d), !.callee = Top.callee]
          /\ [[Top EXCEPT !.pending = Remaining(@, d)] EXCEPT !.callee = d]
               = [Top EXCEPT !.pending = Remaining(Top.pending, d), !.callee = d]
      BY <1>2 DEF Frame
    <3>3. Remaining(Top.pending, d) \in SUBSET Nodes /\ d \in Nodes \cup {Absent}
      BY <2>3 DEF Remaining
    <3> QED  BY <2>1, <2>2, <2>3, <3>1, <3>2, <3>3
  <2>5. CASE ResumeVerify
    <3>1. [Top EXCEPT !.callee = Absent] = [Top EXCEPT !.pending = Top.pending, !.callee = Absent]
      BY <1>2 DEF Frame
    <3> QED  BY <2>1, <2>2, <2>3, <2>5, <3>1 DEF ResumeVerify
  <2> QED  BY <2>4, <2>5
<1>4. Hooks'
  <2>1. ctl' = Run \/ \E op \in {"ensure", "observe"} : \E n : ctl' = Call(op, n)
    BY DEF VerifyDependency, ResumeVerify
  <2>2. ctl'.op \in {"run", "ensure", "observe"}
    BY <2>1 DEF Run, Call
  <2> QED  BY <2>2, NoHooks
<1> QED  BY <1>3, <1>4

LEMMA RaiseReplay ==
  ASSUME PInv, AbandonVerify \/ BodyRaises
  PROVE  Running' /\ Hooks'
<1>1. /\ stack # <<>> /\ ctl.op # "idle" /\ stack' = Pop
      /\ UNCHANGED <<records, requests, holder, world>>
      /\ \E e : ctl' = Raise(Top.key, e, FALSE)
  BY DEF AbandonVerify, BodyRaises, Does, Executing, scopeVars, worldVars
<1>2. StandsOn /\ IInv /\ Top.key \in Queries
  BY <1>1, LookStands, TopTracked
<1>3. ctl'.op = "raise" /\ ctl'.key = Top.key
  BY <1>1 DEF Raise
<1> QED  BY <1>1, <1>2, <1>3, NoHooks, RunningPopped

LEMMA BodyReadsInputReplay ==
  ASSUME PInv, Replayable, BodyReadsInput
  PROVE  Running' /\ Hooks'
<1>1. PICK i \in Inputs :
        /\ Does("input", i)
        /\ stack' = ReplaceTop([Top EXCEPT
              !.reads = Append(@, IF Known(i) THEN records[i].snapshot ELSE "KeyError"),
              !.dependencies = @ \cup IF Known(i) THEN {i} ELSE {}])
  BY DEF BodyReadsInput
<1>2. /\ stack # <<>> /\ Top.kind = "exec" /\ ctl.op = "run" /\ UNCHANGED ctl
      /\ UNCHANGED <<records, requests, holder, world>>
  BY <1>1 DEF BodyReadsInput, Does, Executing, scopeVars, worldVars
<1>3. StandsOn /\ IInv /\ Top \in Frame /\ Tracked(Top) /\ Top.key \in Queries
      /\ Top.callee = Absent
  BY <1>2, LookStands, TopTracked
<1>4. i \in Nodes /\ i \notin Resources /\ Body(Top.key, Top.reads) = Ask(i)
  BY <1>1, ConstantsAssumption DEF Does, NextStep, Ask, Nodes
<1>5. PICK out : out = IF Known(i) THEN records[i].snapshot ELSE "KeyError"
  OBVIOUS
<1>6. out \in Outcomes /\ (Known(i) => out = Outcome(i))
  <2>1. Known(i) => ~Failed(i) /\ records[i].snapshot \in Values
    BY <1>3, <1>4, Facts DEF IInv, Discipline, RecordDiscipline, NodeRecord
  <2> QED  BY <1>5, <2>1 DEF Outcomes, Exceptions, Outcome
<1>7. PICK f : f = [Top EXCEPT !.reads = Append(Top.reads, out),
                               !.dependencies = @ \cup IF Known(i) THEN {i} ELSE {}]
  OBVIOUS
<1>8. /\ f \in Frame /\ f.kind = "exec" /\ f.key = Top.key /\ f.reads = Append(Top.reads, out)
      /\ f.callee = Absent /\ f.dependencies = Top.dependencies \cup IF Known(i) THEN {i} ELSE {}
      /\ f.untracked = Top.untracked
  <2>1. Append(Top.reads, out) \in Seq(Outcomes)
    BY <1>3, <1>6, AppendRead
  <2> QED  BY <1>2, <1>3, <1>4, <1>7, <2>1 DEF Frame
<1>9. Known(i) => Stands(i, out)
  BY <1>6 DEF Stands
<1>10. ~Known(i) => LetsThrough(Top.key, Top.reads, out)
  <2>1. Top.reads \in Traces
    BY <1>3 DEF Replayable, Frame
  <2> QED  BY <1>3, <1>4, <1>5, <2>1 DEF Replayable, LetThrough
<1>11. Tracked(f)
  BY <1>2, <1>3, <1>4, <1>6, <1>8, <1>9, <1>10, ReadTracked
<1>12. stack' = ReplaceTop(f)
  BY <1>1, <1>5, <1>7
<1> QED  BY <1>2, <1>3, <1>8, <1>11, <1>12, RunningReplaced, NoHooks

LEMMA BodyReadsUntrackedReplay ==
  ASSUME PInv, BodyReadsUntracked
  PROVE  Running' /\ Hooks'
<1>1. /\ stack # <<>> /\ Top.kind = "exec" /\ ctl.op = "run" /\ UNCHANGED ctl
      /\ UNCHANGED <<records, requests, holder, world>>
  BY DEF BodyReadsUntracked, Does, Executing, scopeVars, worldVars
<1>2. StandsOn /\ IInv /\ Top \in Frame /\ Top.callee = Absent /\ ambient \in Outcomes
  BY <1>1, LookStands, TopTracked, ConstantsAssumption DEF IInv, TypeOK, Outcomes
<1>3. PICK f : f = [Top EXCEPT !.reads = Append(@, ambient), !.untracked = TRUE]
  OBVIOUS
<1>4. f \in Frame /\ f.callee = Absent /\ f.untracked
  <2>1. Append(Top.reads, ambient) \in Seq(Outcomes)
    BY <1>2, AppendRead
  <2> QED  BY <1>2, <1>3, <2>1 DEF Frame
<1>5. Tracked(f)
  BY <1>4 DEF Tracked
<1> QED  BY <1>1, <1>2, <1>3, <1>4, <1>5, RunningReplaced, NoHooks DEF BodyReadsUntracked

LEMMA BodyCallsReplay ==
  ASSUME PInv, BodyCalls
  PROVE  Running' /\ Hooks'
<1>1. PICK n \in Queries \cup Resources :
        /\ NextStep = [op |-> IF n \in Queries THEN "query" ELSE "resource", arg |-> n]
        /\ ctl' = Call("ensure", n) \/ ctl' = Call("observe", n)
  BY ConstantsAssumption DEF BodyCalls, Does
<1>2. /\ stack # <<>> /\ Top.kind = "exec" /\ ctl.op = "run"
      /\ UNCHANGED <<records, requests, holder, world>>
  BY DEF BodyCalls, Does, Executing, scopeVars, worldVars
<1>3. StandsOn /\ IInv /\ Top \in Frame /\ Tracked(Top)
  BY <1>2, LookStands, TopTracked
<1>4. PICK f : f = [Top EXCEPT !.callee = n]
  OBVIOUS
<1>5. /\ f \in Frame /\ f.kind = "exec" /\ f.key = Top.key /\ f.reads = Top.reads /\ f.callee = n
      /\ f.dependencies = Top.dependencies /\ f.untracked = Top.untracked
  BY <1>2, <1>3, <1>4 DEF Frame, Nodes
<1>6. Body(Top.key, Top.reads) = Ask(n)
  BY <1>1, ConstantsAssumption DEF NextStep, Ask
<1>7. Tracked(f)
  BY <1>2, <1>3, <1>5, <1>6 DEF Tracked, FrameReads
<1>8. stack' = ReplaceTop(f)
  BY <1>1, <1>4 DEF BodyCalls
<1>9. Hooks'
  BY <1>1, <1>3, NoHooks DEF Call
<1> QED  BY <1>2, <1>3, <1>5, <1>7, <1>8, <1>9, RunningReplaced

LEMMA BodyResumesReplay ==
  ASSUME PInv, BodyResumes
  PROVE  Running' /\ Hooks'
<1> DEFINE n == ctl.key
<1>1. /\ stack # <<>> /\ Top.kind = "exec" /\ ctl.op = "return" /\ ctl' = Run
      /\ UNCHANGED <<records, requests, holder, world>>
  BY DEF BodyResumes, scopeVars, worldVars
<1>2. StandsOn /\ RInv /\ IInv /\ Top \in Frame /\ Tracked(Top) /\ Top.callee = n
  BY <1>1, LookStands, TopTracked
<1>3. /\ n \in Nodes /\ Known(n) /\ ~Failed(n) /\ records[n].snapshot \in Values
      /\ Settled(n, CurrentRequest) /\ n # Absent
  BY <1>1, <1>2, ReturnedValue, ConstantsAssumption
     DEF RInv, Reading, Answers, IInv, Discipline, CallDiscipline
<1>4. PICK out : out = records[n].snapshot
  OBVIOUS
<1>5. out \in Outcomes /\ Stands(n, out) /\ Body(Top.key, Top.reads) = Ask(n)
  BY <1>1, <1>2, <1>3, <1>4 DEF Outcomes, Stands, Outcome, Tracked
<1>6. PICK f : f = [Top EXCEPT !.callee = Absent, !.dependencies = @ \cup {n},
                               !.reads = Append(Top.reads, out)]
  OBVIOUS
<1>7. /\ f \in Frame /\ f.kind = "exec" /\ f.key = Top.key /\ f.reads = Append(Top.reads, out)
      /\ f.callee = Absent /\ f.dependencies = Top.dependencies \cup {n}
      /\ f.untracked = Top.untracked
  <2>1. Append(Top.reads, out) \in Seq(Outcomes)
    BY <1>2, <1>5, AppendRead
  <2> QED  BY <1>1, <1>2, <1>3, <1>6, <2>1 DEF Frame
<1>8. Tracked(f)
  BY <1>1, <1>2, <1>3, <1>5, <1>7, ReadTracked
<1>9. stack' = ReplaceTop(f) /\ ctl'.op = "run"
  BY <1>1, <1>2, <1>4, <1>6 DEF BodyResumes, Run, Call
<1> QED  BY <1>1, <1>2, <1>7, <1>8, <1>9, RunningReplaced, NoHooks

LEMMA BodyCatchesReplay ==
  ASSUME PInv, Replayable, BodyCatches
  PROVE  Running' /\ Hooks'
<1> DEFINE n == ctl.key
           e == ctl.result
           q == Top.key
           impure == CaughtImpure(q, e)
           unrecorded == n \in Resources /\ ~ctl.recorded
           deps == IF n \in Resources /\ Known(n) THEN {n} ELSE {}
<1>1. /\ stack # <<>> /\ Top.kind = "exec" /\ ctl.op = "raise" /\ ctl' = Run
      /\ UNCHANGED <<records, requests, holder, world>>
  BY DEF BodyCatches, scopeVars, worldVars
<1>2. StandsOn /\ RInv /\ IInv /\ Top \in Frame /\ q \in Queries /\ Tracked(Top) /\ Top.callee = n
  BY <1>1, LookStands, TopTracked
<1>3. /\ n \in Queries \cup Resources /\ n \in Nodes /\ n # Absent /\ e \in Exceptions
      /\ e \in Outcomes /\ (n \in Queries => n \notin Resources)
  BY <1>1, <1>2, ConstantsAssumption DEF IInv, Discipline, CallDiscipline, Nodes, Outcomes
<1>4. Body(q, Top.reads) = Ask(n) /\ Top.reads \in Traces
  BY <1>1, <1>2, <1>3 DEF Tracked, Replayable, Frame
<1>5. PICK f : f = [Top EXCEPT !.callee = Absent, !.reads = Append(@, e),
                               !.untracked = @ \/ impure,
                               !.checkpointable = @ /\ ~impure /\ ~unrecorded,
                               !.dependencies = @ \cup deps]
  OBVIOUS
<1>6. impure \in BOOLEAN /\ unrecorded \in BOOLEAN
  BY DEF CaughtImpure
<1>7. /\ f \in Frame /\ f.kind = "exec" /\ f.key = q /\ f.reads = Append(Top.reads, e)
      /\ f.callee = Absent /\ f.dependencies = Top.dependencies \cup deps
      /\ f.untracked = (Top.untracked \/ impure)
  <2>1. Append(Top.reads, e) \in Seq(Outcomes) /\ deps \subseteq Nodes
    BY <1>2, <1>3, AppendRead
  <2> HIDE DEF impure, unrecorded, deps, q
  <2>2. Top.untracked \in BOOLEAN /\ Top.checkpointable \in BOOLEAN
    BY <1>2 DEF Frame
  <2>3. /\ (Top.untracked \/ impure) \in BOOLEAN
        /\ (Top.checkpointable /\ ~impure /\ ~unrecorded) \in BOOLEAN
    BY <1>6, <2>2
  <2> QED  BY <1>1, <1>2, <1>5, <2>1, <2>3 DEF Frame, q
<1>8. \/ f.untracked \/ LetsThrough(q, Top.reads, e)
      \/ n \in f.dependencies /\ Known(n) /\ Stands(n, e)
  <2>1. CASE n \in Queries
    <3>1. CASE e = "CycleError" /\ q = n
      BY <1>2, <1>4, <3>1 DEF Replayable, LetThrough
    <3>2. CASE ~(e = "CycleError" /\ q = n)
      BY <1>7, <2>1, <3>2 DEF CaughtImpure
    <3> QED  BY <3>1, <3>2
  <2>2. CASE n \in Resources /\ ctl.recorded
    <3>1. Known(n) /\ records[n].failure = e /\ Settled(n, CurrentRequest)
      BY <1>1, <1>2, <2>2 DEF PInv, Replaying, Hooks, RInv, Reading, Answers
    <3>2. e # Absent
      BY <1>3, ConstantsAssumption
    <3>3. Stands(n, e)
      BY <3>1, <3>2 DEF Stands, Outcome, Failed
    <3> QED  BY <1>7, <2>2, <3>1, <3>3
  <2>3. CASE n \in Resources /\ ~ctl.recorded
    <3>1. CASE e \in Unrecordable(n)
      BY <1>2, <1>4, <2>3, <3>1 DEF Replayable, LetThrough
    <3>2. CASE /\ Refuses(n) /\ e = "ReentrantDatabaseError"
               /\ Known(n) => records[n].probe_unconfirmed
      <4>1. CASE Known(n)
        BY <1>7, <2>3, <3>2, <4>1 DEF Stands
      <4>2. CASE ~Known(n)
        BY <1>3, <1>7, <2>3, <3>2, <4>2 DEF CaughtImpure
      <4> QED  BY <4>1, <4>2
    <3> QED  BY <1>1, <2>3, <3>1, <3>2 DEF PInv, Replaying, Hooks
  <2> QED  BY <1>3, <2>1, <2>2, <2>3
<1>9. Tracked(f)
  BY <1>1, <1>2, <1>3, <1>4, <1>7, <1>8, ReadTracked
<1>10. stack' = ReplaceTop(f) /\ ctl'.op = "run"
  BY <1>1, <1>5 DEF BodyCatches, Run, Call
<1> QED  BY <1>1, <1>2, <1>7, <1>9, <1>10, RunningReplaced, NoHooks

-----------------------------------------------------------------------------
(* Steps that settle a query.                                               *)

\* Writing one record leaves the others.
LEMMA OneRecordKept ==
  ASSUME IInv, NEW m \in Nodes, NEW rec, records' = [records EXCEPT ![m] = rec],
         Known(m) => Kept(m)
  PROVE  /\ records'[m] = rec
         /\ \A n \in Nodes : n # m => records'[n] = records[n]
         /\ \A n \in Nodes : Known(n) => Kept(n)
         /\ \A q \in Queries : q # m => (Known(q)' => Known(q) /\ SameRun(q))
<1>1. records'[m] = rec /\ \A n \in Nodes : n # m => records'[n] = records[n]
  BY DEF IInv, TypeOK
<1>2. ASSUME NEW n \in Nodes, n # m, Known(n)
      PROVE  Kept(n)
  <2>1. records'[n] = records[n] /\ records[n].changed_at \in Nat
    BY <1>1, <1>2, Facts DEF NodeRecord
  <2> QED  BY <1>2, <2>1 DEF Kept, Known, Unsure, Alike, Outcome, Failed
<1>3. \A q \in Queries : q \in Nodes
  BY DEF Nodes
<1> QED  BY <1>1, <1>2, <1>3 DEF SameRun, Known

\* A record that answers as it did, no earlier.
LEMMA SameIsKept ==
  ASSUME IInv, NEW m \in Nodes, Known(m), NEW rec \in NodeRecord, records'[m] = rec,
         rec.snapshot = records[m].snapshot, rec.failure = records[m].failure,
         rec.changed_at = records[m].changed_at,
         records[m].probe_unconfirmed => rec.probe_unconfirmed
  PROVE  Kept(m)
<1>1. rec # Absent /\ records[m].changed_at \in Nat
  BY Facts, ConstantsAssumption DEF NodeRecord
<1> QED  BY <1>1 DEF Kept, Known, Unsure, Alike, Outcome, Failed

LEMMA ReuseQueryReplay ==
  ASSUME PInv, Replayable, ReuseQuery
  PROVE  Running' /\ Hooks' /\ Table'
<1> PICK q : q = Top.key
  OBVIOUS
<1>1. /\ stack # <<>> /\ ctl.op # "idle" /\ Top.kind = "verify" /\ Top.pending = {}
      /\ ctl.op = "run" /\ UNCHANGED <<revision, requests, holder, world>>
      /\ stack' = Pop /\ ctl' = Return(q)
      /\ records' = [records EXCEPT ![q] = Verified(records[q])]
  BY DEF ReuseQuery, Verifying, scopeVars, worldVars
<1>2. /\ RInv /\ IInv /\ IInv' /\ q \in Queries /\ q \in Nodes /\ q \notin Inputs /\ q \notin Resources
      /\ Known(q) /\ Walk(Top) /\ Top.callee = Absent /\ ~Settled(q, CurrentRequest)
  BY <1>1, TopIsOpen, ReuseQueryPreserves, ConstantsAssumption DEF PInv, Replaying, RInv, Open
<1>3. PICK rec : rec = Verified(records[q])
  OBVIOUS
<1>4. /\ rec \in NodeRecord /\ rec # Absent /\ rec.snapshot = records[q].snapshot
      /\ rec.failure = records[q].failure
      /\ rec.changed_at = records[q].changed_at /\ rec.untracked = records[q].untracked
      /\ rec.dependencies = records[q].dependencies
      /\ rec.probe_unconfirmed = records[q].probe_unconfirmed
  <2>1. records[q] \in NodeRecord /\ rec \in NodeRecord
    BY <1>1, <1>2, <1>3, Facts, VerifiedType
  <2> QED  BY <1>3, <2>1, ConstantsAssumption DEF Verified, NodeRecord
<1>5. CurrentRequest' = CurrentRequest
  BY <1>1, <1>2, RequestsKept, RequestKept
<1>6. Running'
  <2>1. StandsOn
    BY <1>1, <1>2, <1>3, <1>4, <1>5, WrittenStands DEF SameWorld, Refuses
  <2> QED  BY <1>1, <2>1, RunningPopped
<1>7. Hooks'
  BY <1>1, NoHooks DEF Return, Call
<1>8. records'[q] = rec
  BY <1>1, <1>2, <1>3 DEF IInv, TypeOK
<1>9. Kept(q)
  BY <1>2, <1>4, <1>8, SameIsKept
<1>10. Recorded(q)'
  <2> SUFFICES ASSUME ~rec.untracked
               PROVE  \E reads \in Seq(Outcomes) : RecordedRun(q, reads)'
    BY <1>2, <1>8 DEF Recorded
  <2>1. PICK reads \in Seq(Outcomes) : RecordedRun(q, reads)
    BY <1>2, <1>4 DEF PInv, Replaying, Table, Recorded
  <2>2. Passed(Top) = records[q].dependencies \ {Absent}
    BY <1>1, <1>2 DEF Passed
  <2>3. ASSUME NEW n \in Nodes, n \in records[q].dependencies, Known(n), NEW out,
               ReadOrDirty(q, n, out)
        PROVE  Known(n)' /\ (out = Outcome(n) \/ Unsure(n))'
    <3>1. ~ChangedSince(n, records[q].verified_at) /\ n # Absent
      BY <1>2, <2>2, <2>3, ConstantsAssumption DEF Walk
    <3>2. out = Outcome(n) \/ Unsure(n)
      <4>1. ~(records[n].changed_at > records[q].verified_at)
        BY <2>3, <3>1 DEF ChangedSince
      <4> QED  BY <2>3, <4>1 DEF ReadOrDirty
    <3>3. records'[n] = IF n = q THEN rec ELSE records[n]
      BY <1>1, <1>2, <1>3 DEF IInv, TypeOK
    <3> QED  BY <1>4, <2>3, <3>2, <3>3 DEF Outcome, Unsure, Known, Failed
  <2>4. RecordedRun(q, reads)'
    BY <1>4, <1>8, <2>1, <2>3 DEF RecordedRun, ReadOrDirty
  <2> QED  BY <2>4
<1>11. Table'
  BY <1>1, <1>2, <1>9, <1>10, OneRecordKept, TableKept
<1> QED  BY <1>6, <1>7, <1>11

LEMMA BodyReturnsReplay ==
  ASSUME PInv, Replayable, BodyReturns
  PROVE  Running' /\ Hooks' /\ Table'
<1>1. PICK v \in Values : Does("return", v) /\ Commit(Top.key, v)
  BY DEF BodyReturns
<1>2. PICK q, reads, edges : q = Top.key /\ reads = Top.reads /\ edges = Top.dependencies
  OBVIOUS
<1> DEFINE rev == CommitRevision(q, v)
           changed == IF KeepsChangedAt(q, v) THEN records[q].changed_at ELSE rev
<1>3. /\ stack # <<>> /\ ctl.op = "run" /\ Top.kind = "exec"
      /\ UNCHANGED <<requests, holder, world>> /\ stack' = Pop /\ ctl' = Return(q)
      /\ Body(q, reads) = Answer(v)
  BY <1>1, <1>2 DEF BodyReturns, Does, Executing, NextStep, Answer, Commit, scopeVars, worldVars
<1>4. /\ RInv /\ IInv /\ IInv' /\ q \in Queries /\ q \in Nodes /\ q \notin Inputs
      /\ q \notin Resources /\ ~Settled(q, CurrentRequest) /\ Tracked(Top)
      /\ reads \in Seq(Outcomes) /\ edges \subseteq Nodes
  BY <1>2, <1>3, TopIsOpen, TopTracked, BodyReturnsPreserves, ConstantsAssumption
     DEF PInv, Replaying, RInv, Open, Frame
<1>5. PICK rec : rec = [NewRecord(v, changed, rev, CurrentRequest)
                          EXCEPT !.dependencies = edges, !.untracked = Top.untracked,
                                 !.checkpointable = Top.checkpointable]
  OBVIOUS
<1>6. records' = [records EXCEPT ![q] = rec]
  BY <1>1, <1>2, <1>5 DEF Commit, Edges
<1>7. /\ rec.snapshot = v /\ rec.failure = Absent /\ rec.changed_at = changed
      /\ rec.dependencies = edges /\ rec.untracked = Top.untracked
  <2> HIDE DEF changed, rev
  <2> QED  BY <1>5 DEF NewRecord
<1>8. records'[q] = rec /\ rec \in NodeRecord /\ rec # Absent
  <2>1. ctl'.op = "return" /\ ctl'.key = q
    BY <1>3 DEF Return, Call
  <2>2. records'[q] = rec
    BY <1>4, <1>6 DEF IInv, TypeOK
  <2>3. records'[q] # Absent
    BY <1>4, <2>1 DEF IInv, Discipline, CallDiscipline, Known
  <2> QED  BY <1>4, <2>2, <2>3 DEF IInv, TypeOK
<1>9. CurrentRequest' = CurrentRequest
  BY <1>3, <1>4, RequestsKept, RequestKept
<1>10. Running'
  <2>1. StandsOn
    BY <1>3, <1>4, <1>6, <1>8, <1>9, WrittenStands DEF SameWorld, Refuses
  <2> QED  BY <1>3, <2>1, RunningPopped
<1>11. Hooks'
  BY <1>3, NoHooks DEF Return, Call
<1>12. Known(q) => Kept(q)
  <2> SUFFICES ASSUME Known(q)  PROVE Kept(q)
    OBVIOUS
  <2>1. /\ ~Failed(q) /\ records[q].snapshot \in Values /\ revision \in Nat
        /\ records[q].changed_at \in Nat
    BY <1>4, Facts DEF IInv, TypeOK, Discipline, RecordDiscipline, NodeRecord
  <2>2. CASE KeepsChangedAt(q, v)
    <3>1. v = records[q].snapshot
      BY <1>4, <2>1, <2>2 DEF KeepsChangedAt, Replayable, Exact
    <3> QED  BY <1>4, <1>7, <1>8, <2>1, <2>2, <3>1
             DEF Kept, Known, Unsure, Alike, Outcome, Failed
  <2>3. CASE ~KeepsChangedAt(q, v)
    <3>1. rec.changed_at = revision + 1
      BY <1>7, <2>3 DEF CommitRevision
    <3> QED  BY <1>8, <2>1, <3>1 DEF Kept, Known
  <2> QED  BY <2>2, <2>3
<1>13. Recorded(q)'
  <2> SUFFICES ASSUME ~rec.untracked
               PROVE  RecordedRun(q, reads)'
    BY <1>4, <1>8 DEF Recorded
  <2>1. FrameReads(Top)
    BY <1>2, <1>3, <1>4, <1>7 DEF Tracked, Answer
  <2>2. ASSUME NEW k \in 1 .. Len(reads)
        PROVE  \E n \in edges : /\ n \in Nodes /\ Body(q, Before(reads, k)) = Ask(n)
                                /\ Known(n)' /\ (reads[k] = Outcome(n)' \/ Unsure(n)')
    <3>1. PICK n \in edges : /\ n \in Nodes /\ Body(q, Before(reads, k)) = Ask(n)
                             /\ Known(n) /\ Stands(n, reads[k])
      BY <1>2, <2>1 DEF FrameReads
    <3>2. n # q
      BY <1>4, <3>1 DEF Stands, Refuses
    <3>3. records'[n] = records[n]
      BY <1>4, <1>6, <3>1, <3>2 DEF IInv, TypeOK
    <3>4. Known(n)' /\ (reads[k] = Outcome(n)' \/ Unsure(n)')
      BY <3>1, <3>3 DEF Stands, Refuses, Outcome, Unsure, Known, Failed
    <3> QED  BY <3>1, <3>4
  <2>3. records'[q].snapshot = v /\ records'[q].dependencies = edges
    BY <1>7, <1>8
  <2>4. ASSUME NEW k \in 1 .. Len(reads)
        PROVE  \E n \in edges : /\ n \in Nodes /\ Body(q, Before(reads, k)) = Ask(n)
                                /\ Known(n)' /\ ReadOrDirty(q, n, reads[k])'
    BY <2>2 DEF ReadOrDirty
  <2> HIDE DEF changed, rev
  <2> QED  BY <1>3, <2>3, <2>4 DEF RecordedRun
<1>14. Table'
  BY <1>4, <1>6, <1>12, <1>13, OneRecordKept, TableKept
<1> QED  BY <1>10, <1>11, <1>14

\* What is written for a query is no failure of a resource.
LEMMA FailuresStay ==
  ASSUME PInv, \A r \in Resources : Known(r)' /\ Failed(r)' =>
           /\ Known(r) /\ Failed(r) /\ records'[r].failure = records[r].failure
           /\ records'[r].probe = records[r].probe
  PROVE  RecordedFailures'
BY DEF PInv, Replaying, RecordedFailures

-----------------------------------------------------------------------------
(* Steps of a hook.                                                         *)

\* The hook of r writes its record.
LEMMA HookWrites ==
  ASSUME PInv, IInv', Replayable, ctl.op \in {"observe", "load", "split_load", "failure_probe"},
         NEW r, r = ctl.key, ~Settled(r, CurrentRequest),
         SameRequests, UNCHANGED <<stack, holder, world>>,
         NEW rec, rec # Absent, records' = [records EXCEPT ![r] = rec],
         Refuses(r) /\ Known(r) /\ records[r].probe_unconfirmed => rec.probe_unconfirmed,
         Known(r) => Kept(r),
         rec.failure # Absent => /\ rec.failure \in Failures
                                 /\ r \notin Racy => rec.failure = LoadOf(rec.probe)
  PROVE  Running' /\ RecordedFailures' /\ Table' /\ records'[r] = rec
<1>1. /\ RInv /\ IInv /\ r \in Resources /\ r \in Nodes /\ r \notin Inputs /\ r \notin Queries
      /\ ctl.op # "idle"
  BY HookFacts, ConstantsAssumption DEF PInv, RInv
<1>2. CurrentRequest' = CurrentRequest
  BY <1>1, RequestKept
<1>3. StandsOn
  BY <1>1, <1>2, WrittenStands DEF SameWorld
<1>4. records'[r] = rec /\ \A n \in Nodes : n # r => records'[n] = records[n]
  BY <1>1, OneRecordKept
<1>5. RecordedFailures'
  <2>1. \A n \in Resources : n \in Nodes
    BY DEF Nodes
  <2> QED  BY <1>4, <2>1 DEF PInv, Replaying, RecordedFailures, Known, Failed
<1>6. Table'
  BY <1>1, OneRecordKept, TableKept
<1> QED  BY <1>3, <1>4, <1>5, <1>6, RunningStays

LEMMA ReuseOnProbeHitReplay ==
  ASSUME PInv, IInv', Replayable, ctl.op \in {"observe", "load", "split_load", "failure_probe"},
         NEW r, r = ctl.key, ~Settled(r, CurrentRequest), UNCHANGED <<stack, holder, world>>,
         ProbeProves(r), ReuseOnProbeHit(r)
  PROVE  Replaying'
<1>1. /\ IInv /\ r \in Resources /\ r \in Nodes /\ ctl.op # "idle" /\ Known(r) /\ ~Failed(r)
      /\ ~records[r].probe_unconfirmed
  BY HookFacts DEF PInv, RInv, ProbeProves
<1>2. PICK rec : rec = Verified(records[r])
  OBVIOUS
<1>3. /\ rec \in NodeRecord /\ rec # Absent /\ rec.snapshot = records[r].snapshot
      /\ rec.failure = records[r].failure /\ rec.changed_at = records[r].changed_at
  <2>1. records[r] \in NodeRecord /\ rec \in NodeRecord
    BY <1>1, <1>2, Facts, VerifiedType
  <2> QED  BY <1>2, <2>1, ConstantsAssumption DEF Verified, NodeRecord
<1>4. records' = [records EXCEPT ![r] = rec] /\ SameRequests /\ ctl'.op = "return"
  BY <1>1, <1>2, RequestsKept DEF ReuseOnProbeHit, Return, Call
<1>5. Kept(r)
  <2>1. records'[r] = rec
    BY <1>1, <1>4 DEF IInv, TypeOK
  <2> QED  BY <1>1, <1>3, <2>1, SameIsKept
<1>6. Running' /\ RecordedFailures' /\ Table'
  BY <1>1, <1>3, <1>4, <1>5, HookWrites DEF Failed
<1> QED  BY <1>4, <1>6, NoHooks DEF Replaying

LEMMA RaiseUnrecordedReplay ==
  ASSUME PInv, IInv', Replayable, ctl.op \in {"observe", "load", "split_load", "failure_probe"},
         NEW r, r = ctl.key, ~Settled(r, CurrentRequest), UNCHANGED <<stack, holder, world>>,
         NEW e, RaiseUnrecorded(r, e),
         e \in Unrecordable(r) \/ (Refuses(r) /\ e = "ReentrantDatabaseError")
  PROVE  Replaying'
<1>1. IInv /\ r \in Resources /\ r \in Nodes /\ ctl.op # "idle"
  BY HookFacts DEF PInv, RInv
<1>2. /\ ctl'.op = "raise" /\ ctl'.key = r /\ ctl'.recorded = FALSE /\ ctl'.result = e
      /\ UNCHANGED requests
  BY DEF RaiseUnrecorded, Raise
<1>3. CASE ~Known(r)
  <2>1. UNCHANGED records
    BY <1>3 DEF RaiseUnrecorded
  <2>2. Running'
    BY <1>1, <1>2, <2>1, LookStands, RunningStays
  <2>3. Hooks'
    BY <1>2, <1>3, <2>1 DEF Hooks, Refuses, Known
  <2> QED  BY <2>1, <2>2, <2>3, SameRecords DEF Replaying
<1>4. CASE Known(r)
  <2>1. PICK rec : rec = [records[r] EXCEPT !.probe_unconfirmed = TRUE]
    OBVIOUS
  <2>2. /\ rec \in NodeRecord /\ rec # Absent /\ rec.failure = records[r].failure
        /\ rec.snapshot = records[r].snapshot /\ rec.changed_at = records[r].changed_at
        /\ rec.probe_unconfirmed = TRUE /\ rec.probe = records[r].probe
    <3>1. records[r] \in NodeRecord
      BY <1>1, <1>4, Facts
    <3>2. rec \in NodeRecord
      BY <2>1, <3>1 DEF NodeRecord
    <3> QED  BY <2>1, <3>1, <3>2, ConstantsAssumption DEF NodeRecord
  <2>3. records' = [records EXCEPT ![r] = rec]
    BY <1>4, <2>1 DEF RaiseUnrecorded
  <2>4. Kept(r)
    <3>1. records'[r] = rec
      BY <1>1, <2>3 DEF IInv, TypeOK
    <3> QED  BY <1>1, <1>4, <2>2, <3>1, SameIsKept
  <2>5. rec.failure # Absent => /\ rec.failure \in Failures
                                /\ r \notin Racy => rec.failure = LoadOf(rec.probe)
    BY <1>1, <1>4, <2>2 DEF PInv, Replaying, RecordedFailures, Failed
  <2>6. Running' /\ RecordedFailures' /\ Table' /\ records'[r] = rec
    BY <1>1, <1>2, <2>2, <2>3, <2>4, <2>5, RequestsKept, HookWrites
  <2>7. Hooks'
    BY <1>2, <2>2, <2>6 DEF Hooks, Refuses
  <2> QED  BY <2>6, <2>7 DEF Replaying
<1> QED  BY <1>3, <1>4

LEMMA RecordFailureReplay ==
  ASSUME PInv, IInv', Replayable, ctl.op \in {"observe", "load", "split_load", "failure_probe"},
         NEW r, r = ctl.key, ~Settled(r, CurrentRequest), UNCHANGED <<stack, holder, world>>,
         NEW p \in World, NEW e \in Failures, RecordFailure(r, p, e),
         r \notin Racy => world[r] \notin Refusing /\ e = LoadOf(p)
  PROVE  Replaying'
<1> DEFINE rev == IF ~Known(r) \/ FailureUnchanged(r, p) THEN revision ELSE revision + 1
           changed == IF FailureUnchanged(r, p) THEN records[r].changed_at ELSE rev
<1>1. /\ IInv /\ r \in Resources /\ r \in Nodes /\ ctl.op # "idle" /\ holder \in Threads
      /\ revision \in Nat /\ e \in Exceptions /\ e # Absent
  BY HookFacts, Facts, ConstantsAssumption DEF PInv, RInv, IInv, TypeOK, Failures, Outcomes
<1>2. PICK rec : rec = [NewRecord(Absent, changed, rev, CurrentRequest)
                          EXCEPT !.probe = p, !.failure = e, !.retained = TRUE]
  OBVIOUS
<1>3. /\ rec.snapshot = Absent /\ rec.failure = e /\ rec.probe = p /\ rec.changed_at = changed
      /\ rec.probe_unconfirmed = FALSE
  <2> HIDE DEF changed, rev
  <2> QED  BY <1>2 DEF NewRecord
<1>4. /\ records' = [records EXCEPT ![r] = rec]
      /\ requests' = [requests EXCEPT ![holder].failures = @ \cup {r}]
      /\ ctl'.op = "raise" /\ ctl'.key = r /\ ctl'.recorded = TRUE /\ ctl'.result = e
  BY <1>2 DEF RecordFailure, Raise
<1>5. records'[r] = rec
  BY <1>1, <1>4 DEF IInv, TypeOK
<1>6. rec # Absent
  <2>1. rev \in Nat /\ changed \in Nat /\ CurrentRequest \in Int
    <3>1. Known(r) => records[r].changed_at \in Nat
      BY <1>1, Facts DEF NodeRecord
    <3> QED  BY <1>1, <3>1, Facts DEF FailureUnchanged
  <2> HIDE DEF changed, rev
  <2>2. rec \in NodeRecord
    BY <1>1, <1>2, <2>1 DEF NewRecord, NodeRecord
  <2> QED  BY <2>2, ConstantsAssumption
<1>7. SameRequests
  <2>1. /\ requests[holder] \in RequestScope
        /\ requests \in [Threads -> RequestScope \cup {Absent}] /\ Absent \notin RequestScope
        /\ requests' \in [Threads -> RequestScope \cup {Absent}]
    BY <1>1, Facts, ConstantsAssumption DEF IInv, TypeOK
  <2>2. PICK sc : sc = [requests[holder] EXCEPT !.failures = @ \cup {r}]
    OBVIOUS
  <2>3. sc \in RequestScope /\ sc.request_id = requests[holder].request_id
    BY <1>1, <2>1, <2>2 DEF RequestScope
  <2>4. requests' = [requests EXCEPT ![holder] = sc]
    BY <1>4, <2>2
  <2> QED  BY <1>1, <2>1, <2>3, <2>4 DEF SameRequests
<1>8. Known(r) => Kept(r)
  <2> SUFFICES ASSUME Known(r)  PROVE Kept(r)
    OBVIOUS
  <2>1. CASE ~FailureUnchanged(r, p)
    <3>1. rec.changed_at = revision + 1
      BY <1>3, <2>1
    <3> QED  BY <1>1, <1>5, <1>6, <3>1 DEF Kept, Known
  <2>2. CASE FailureUnchanged(r, p)
    <3>1. /\ Failed(r) /\ ~records[r].probe_unconfirmed /\ records[r].probe = p
          /\ rec.changed_at = records[r].changed_at /\ records[r].changed_at \in Nat
      BY <1>1, <1>3, <2>2, Facts DEF FailureUnchanged, NodeRecord
    <3>2. /\ Outcome(r) = records[r].failure /\ Outcome(r) \in Failures
          /\ r \notin Racy => Outcome(r) = LoadOf(p)
      BY <1>1, <3>1 DEF PInv, Replaying, RecordedFailures, Outcome
    <3>3. Outcome(r)' = e /\ Known(r)'
      BY <1>1, <1>3, <1>5, <1>6 DEF Outcome, Failed, Known
    <3> QED  BY <1>1, <1>5, <3>1, <3>2, <3>3 DEF Kept, Unsure, Alike
  <2> QED  BY <2>1, <2>2
<1>9. Running' /\ RecordedFailures' /\ Table'
  <2> HIDE DEF changed, rev
  <2>1. ~Refuses(r)
    BY DEF Refuses
  <2> QED  BY <1>1, <1>3, <1>4, <1>6, <1>7, <1>8, <2>1, HookWrites
<1>10. Hooks'
  BY <1>3, <1>4, <1>5, <1>6 DEF Hooks, Known
<1> QED  BY <1>9, <1>10 DEF Replaying

LEMMA RecordLoadReplay ==
  ASSUME PInv, IInv', Replayable, ctl.op \in {"observe", "load", "split_load", "failure_probe"},
         NEW r, r = ctl.key, ~Settled(r, CurrentRequest), UNCHANGED <<stack, holder, world>>,
         NEW p, NEW v, RecordLoad(r, p, v), world[r] \notin Refusing
  PROVE  Replaying'
<1> DEFINE rev == LoadRevision(r)
<1>1. IInv /\ r \in Resources /\ r \in Nodes /\ ctl.op # "idle" /\ revision \in Nat
  BY HookFacts DEF PInv, RInv, IInv, TypeOK
<1>2. PICK rec : rec = [NewRecord(v, rev, rev, CurrentRequest) EXCEPT !.probe = p]
  OBVIOUS
<1>3. rec.failure = Absent /\ rec.changed_at = rev
  <2> HIDE DEF rev
  <2> QED  BY <1>2 DEF NewRecord
<1>4. /\ records' = [records EXCEPT ![r] = rec] /\ UNCHANGED requests
      /\ ctl'.op = "return" /\ ctl'.key = r
  BY <1>2 DEF RecordLoad, Return, Call
<1>5. records'[r] = rec /\ rec # Absent
  BY <1>1, <1>4 DEF IInv, TypeOK, Discipline, CallDiscipline, Known
<1>6. Known(r) => Kept(r)
  BY <1>1, <1>3, <1>5 DEF LoadRevision, Kept, Known
<1>7. Running' /\ RecordedFailures' /\ Table'
  BY <1>1, <1>3, <1>4, <1>5, <1>6, RequestsKept, HookWrites DEF Refuses
<1> QED  BY <1>4, <1>7, NoHooks DEF Replaying

\* The pending hook looks once more, at an unsettled resource.
LEMMA LookAgainReplay ==
  ASSUME PInv, ctl.op # "idle", UNCHANGED <<records, requests, stack, holder, world>>, Hooks'
  PROVE  Replaying'
<1>1. Running'
  BY LookStands, RunningStays
<1> QED  BY <1>1, SameRecords DEF Replaying

LEMMA ObserveResourceReplay ==
  ASSUME PInv, Replayable, ObserveResource
  PROVE  Replaying'
<1> PICK r : r = ctl.key
  OBVIOUS
<1> DEFINE w == world[r]
           settled == Known(r) /\ SettledInRequest(r)
           answers == settled /\ (~Failed(r) \/ records[r].retained)
<1>1. /\ RInv /\ IInv /\ IInv' /\ ctl.op = "observe" /\ r \in Resources
      /\ UNCHANGED <<stack, holder, world>>
  BY HookFacts, ObserveResourcePreserves DEF PInv, RInv, ObserveResource, scopeVars, worldVars
<1>2. answers <=> Settled(r, CurrentRequest)
  BY DEF Settled, SettledInRequest
<1>3. CASE /\ answers /\ Failed(r) /\ UNCHANGED <<records, requests>>
           /\ ctl' = Raise(r, records[r].failure, TRUE)
  <2>1. Hooks'
    BY <1>3 DEF Hooks, Raise, Known
  <2> QED  BY <1>1, <1>3, <2>1, LookAgainReplay
<1>4. CASE UNCHANGED <<records, requests>> /\
           (ctl' = Return(r) \/ ctl' = [ctl EXCEPT !.op = "load"])
  <2>1. ctl'.op \in {"return", "load"}
    BY <1>1, <1>4 DEF Return, Call, IInv, TypeOK, Control
  <2>2. Hooks'
    BY <2>1 DEF Hooks
  <2> QED  BY <1>1, <1>4, <2>2, LookAgainReplay
<1>5. CASE UNCHANGED <<records, requests>> /\
           ctl' = [ctl EXCEPT !.op = "split_load", !.probe = w]
  <2>1. ctl'.op = "split_load" /\ ctl'.probe = world[ctl'.key]
    BY <1>1, <1>5 DEF IInv, TypeOK, Control
  <2>2. Hooks'
    BY <1>1, <2>1 DEF Hooks
  <2> QED  BY <1>1, <1>5, <2>2, LookAgainReplay
<1>6. CASE ~answers /\ w \in Unprobeable /\ RaiseUnrecorded(r, LoadOf(w))
  <2>1. LoadOf(w) \in Unrecordable(r)
    BY <1>6 DEF Unrecordable
  <2> QED  BY <1>1, <1>2, <1>6, <2>1, RaiseUnrecordedReplay
<1>7. CASE ~answers /\ ProbeHit(r, w) /\ ReuseOnProbeHit(r)
  BY <1>1, <1>2, <1>7, ReuseOnProbeHitReplay DEF ProbeHit
<1> QED  BY <1>3, <1>4, <1>5, <1>6, <1>7 DEF ObserveResource

LEMMA ProbeAndLoadReplay ==
  ASSUME PInv, Replayable, ProbeAndLoad
  PROVE  Replaying'
<1> PICK r : r = ctl.key
  OBVIOUS
<1> DEFINE w == world[r]
           out == LoadOf(w)
<1>1. /\ RInv /\ IInv /\ IInv' /\ ctl.op = "load" /\ r \in Resources /\ w \in World
      /\ UNCHANGED <<stack, holder, world>>
  BY HookFacts, ProbeAndLoadPreserves DEF PInv, RInv, ProbeAndLoad, scopeVars, worldVars
<1>2. ~Settled(r, CurrentRequest)
  BY <1>1, HookUnsettled
<1>3. CASE w \in Refusing /\ RaiseUnrecorded(r, "ReentrantDatabaseError")
  <2>1. "ReentrantDatabaseError" \in Unrecordable(r) \/ Refuses(r)
    BY <1>1, <1>3 DEF Unrecordable, Refuses
  <2> QED  BY <1>1, <1>2, <1>3, <2>1, RaiseUnrecordedReplay
<1>4. CASE /\ w \notin Refusing /\ out \in Exceptions
           /\ ctl' = [ctl EXCEPT !.op = "failure_probe", !.result = out]
           /\ UNCHANGED <<records, requests>>
  <2>1. ctl'.op = "failure_probe" /\ ctl'.key = r /\ ctl'.result = out
    BY <1>1, <1>4 DEF IInv, TypeOK, Control
  <2>2. Hooks'
    BY <1>1, <1>4, <2>1 DEF Hooks, Failures
  <2> QED  BY <1>1, <1>4, <2>2, LookAgainReplay
<1>5. CASE ProbeHit(r, w) /\ ReuseOnProbeHit(r)
  BY <1>1, <1>2, <1>5, ReuseOnProbeHitReplay DEF ProbeHit
<1>6. CASE w \notin Refusing /\ RecordLoad(r, w, out)
  BY <1>1, <1>2, <1>6, RecordLoadReplay
<1> QED  BY <1>3, <1>4, <1>5, <1>6 DEF ProbeAndLoad

LEMMA ObserveFailureProbeReplay ==
  ASSUME PInv, Replayable, ObserveFailureProbe
  PROVE  Replaying'
<1> PICK r, e : r = ctl.key /\ e = ctl.result
  OBVIOUS
<1> DEFINE w == world[r]
<1>1. /\ RInv /\ IInv /\ IInv' /\ ctl.op = "failure_probe" /\ r \in Resources /\ w \in World
      /\ UNCHANGED <<stack, holder, world>>
  BY HookFacts, ObserveFailureProbePreserves
     DEF PInv, RInv, ObserveFailureProbe, scopeVars, worldVars
<1>2. ~Settled(r, CurrentRequest)
  BY <1>1, HookUnsettled
<1>3. e \in Failures /\ (r \notin Racy => w \notin Refusing /\ e = LoadOf(w))
  BY <1>1 DEF PInv, Replaying, Hooks
<1>4. CASE w \in Unprobeable /\ RaiseUnrecorded(r, e)
  <2>1. e \in Unrecordable(r)
    BY <1>3, <1>4 DEF Unrecordable
  <2> QED  BY <1>1, <1>2, <1>4, <2>1, RaiseUnrecordedReplay
<1>5. CASE RecordFailure(r, w, e)
  BY <1>1, <1>2, <1>3, <1>5, RecordFailureReplay
<1> QED  BY <1>4, <1>5 DEF ObserveFailureProbe

LEMMA SplitLoadReplay ==
  ASSUME PInv, Replayable, SplitLoad
  PROVE  Replaying'
<1> PICK r, p : r = ctl.key /\ p = ctl.probe
  OBVIOUS
<1> DEFINE w == world[r]
           out == LoadOf(w)
<1>1. /\ RInv /\ IInv /\ IInv' /\ ctl.op = "split_load" /\ r \in Resources /\ w \in World
      /\ p \in World /\ UNCHANGED <<stack, holder, world>>
  BY HookFacts, SplitLoadPreserves
     DEF PInv, RInv, SplitLoad, scopeVars, worldVars, IInv, Discipline, CallDiscipline
<1>2. ~Settled(r, CurrentRequest)
  BY <1>1, HookUnsettled
<1>3. r \notin Racy => p = w
  BY <1>1 DEF PInv, Replaying, Hooks
<1>4. CASE w \in Refusing /\ RaiseUnrecorded(r, "ReentrantDatabaseError")
  <2>1. "ReentrantDatabaseError" \in Unrecordable(r) \/ Refuses(r)
    BY <1>1, <1>4 DEF Unrecordable, Refuses
  <2> QED  BY <1>1, <1>2, <1>4, <2>1, RaiseUnrecordedReplay
<1>5. CASE w \notin Refusing /\ out \in Exceptions /\ RecordFailure(r, p, out)
  <2>1. out \in Failures
    BY <1>1, <1>5 DEF Failures
  <2> QED  BY <1>1, <1>2, <1>3, <1>5, <2>1, RecordFailureReplay
<1>6. CASE w \notin Refusing /\ RecordLoad(r, p, out)
  BY <1>1, <1>2, <1>6, RecordLoadReplay
<1> QED  BY <1>4, <1>5, <1>6 DEF SplitLoad

-----------------------------------------------------------------------------
(* Callers and the world.                                                   *)

\* The end of a request that evicts nothing.
LEMMA ReleasedKept ==
  ASSUME PInv, IInv', Replayable, NEW F, records' = Released(F)
  PROVE  RecordedFailures' /\ Table'
<1>1. RInv /\ IInv /\ Evicted = {}
  BY DEF PInv, RInv, Replayable, Evicted, Surplus
<1>2. ASSUME NEW n \in Nodes
      PROVE  /\ Known(n)' <=> Known(n)
             /\ Known(n) => /\ records'[n].snapshot = records[n].snapshot
                            /\ records'[n].failure = records[n].failure
                            /\ records'[n].probe = records[n].probe
                            /\ records'[n].changed_at = records[n].changed_at
                            /\ records'[n].probe_unconfirmed = records[n].probe_unconfirmed
                            /\ SameRun(n) /\ records[n].changed_at \in Nat
  <2>1. CASE records'[n] = records[n]
    <3>1. Known(n) => records[n].changed_at \in Nat
      BY <1>1, Facts DEF NodeRecord
    <3> QED  BY <2>1, <3>1 DEF Known, SameRun
  <2>2. CASE Known(n) /\ records'[n] = [records[n] EXCEPT !.retained = FALSE]
    <3>1. PICK rec : rec = [records[n] EXCEPT !.retained = FALSE]
      OBVIOUS
    <3>2. records[n] \in NodeRecord
      BY <1>1, <2>2, Facts
    <3>3. rec \in NodeRecord /\ rec # Absent
      <4>1. rec \in NodeRecord
        BY <3>1, <3>2 DEF NodeRecord
      <4> QED  BY <4>1, ConstantsAssumption
    <3> QED  BY <2>2, <3>1, <3>2, <3>3 DEF Known, SameRun, NodeRecord
  <2>3. records'[n] = records[n] \/ (Known(n) /\ records'[n] = [records[n] EXCEPT !.retained = FALSE])
    BY <1>1 DEF Released, Known
  <2> QED  BY <2>1, <2>2, <2>3
<1>3. \A n \in Nodes : Known(n) => Kept(n)
  BY <1>2 DEF Kept, Unsure, Alike, Outcome, Failed
<1>4. \A q \in Queries : Known(q)' => Known(q) /\ SameRun(q)
  BY <1>2 DEF Nodes
<1>5. \A r \in Resources : Known(r)' /\ Failed(r)' =>
        /\ Known(r) /\ Failed(r) /\ records'[r].failure = records[r].failure
        /\ records'[r].probe = records[r].probe
  BY <1>2 DEF Failed, Nodes
<1> QED  BY <1>3, <1>4, <1>5, TableKept, FailuresStay

\* An input that is set.
LEMMA CommittedKept ==
  ASSUME PInv, IInv', Replayable, NEW t \in Threads, NEW S \in SUBSET Inputs,
         NEW updates \in [S -> Values], records' = CommittedInputs(t, updates)
  PROVE  RecordedFailures' /\ Table'
<1>1. /\ RInv /\ IInv /\ revision \in Nat /\ DOMAIN updates = S
      /\ \A n \in Queries \cup Resources : n \notin S
  BY ConstantsAssumption DEF PInv, RInv, IInv, TypeOK
<1>2. \A n \in Nodes : n \notin S => records'[n] = records[n]
  BY <1>1 DEF CommittedInputs
<1>3. ASSUME NEW n \in Nodes, Known(n)
      PROVE  Kept(n)
  <2>1. records[n].changed_at \in Nat /\ records[n] \in NodeRecord
    BY <1>1, <1>3, Facts DEF NodeRecord
  <2>2. CASE n \notin S
    BY <1>2, <1>3, <2>1, <2>2 DEF Kept, Unsure, Alike, Outcome, Failed, Known
  <2>3. CASE n \in S
    <3> PICK id : id = SetRequestId(t)
      OBVIOUS
    <3>1. /\ n \in Inputs /\ n \notin Resources /\ updates[n] \in Values /\ ~Failed(n)
          /\ records[n].snapshot \in Values /\ id \in Int
      <4>1. requests[t] # Absent => requests[t].request_id \in Nat
        BY <1>1, Facts, Tables DEF RequestScope
      <4>2. n \in Inputs /\ n \notin Resources /\ updates[n] \in Values
        BY <2>3, ConstantsAssumption
      <4>3. ~Failed(n) /\ records[n].snapshot # Absent
        BY <1>1, <1>3, <4>2 DEF IInv, Discipline, RecordDiscipline
      <4> QED  BY <2>1, <4>1, <4>2, <4>3 DEF SetRequestId, NodeRecord
    <3>2. CASE InputUnchanged(n, updates[n])
      <4>1. PICK rec : rec = [records[n] EXCEPT !.snapshot = updates[n], !.verified_at = revision,
                                               !.checked_in_request = id]
        OBVIOUS
      <4>2. /\ rec \in NodeRecord /\ rec.snapshot = updates[n] /\ rec.failure = records[n].failure
            /\ rec.changed_at = records[n].changed_at
        <5>1. rec \in NodeRecord
          BY <1>1, <2>1, <3>1, <4>1 DEF NodeRecord
        <5> QED  BY <2>1, <4>1, <5>1 DEF NodeRecord
      <4>3. records'[n] = rec
        BY <1>1, <2>3, <3>2, <4>1 DEF CommittedInputs
      <4>4. updates[n] = records[n].snapshot
        BY <3>1, <3>2 DEF InputUnchanged, Replayable, Exact
      <4>5. rec # Absent
        BY <4>2, ConstantsAssumption
      <4> QED  BY <2>1, <3>1, <4>2, <4>3, <4>4, <4>5 DEF Kept, Unsure, Alike, Outcome, Failed, Known
    <3>3. CASE ~InputUnchanged(n, updates[n])
      <4>1. PICK rec : rec = NewRecord(updates[n], revision + 1, revision + 1, id)
        OBVIOUS
      <4>2. rec \in NodeRecord /\ rec.changed_at = revision + 1
        <5>1. updates[n] \in Values \cup {Absent} /\ revision + 1 \in Nat
          BY <1>1, <3>1
        <5>2. rec \in NodeRecord
          BY <3>1, <4>1, <5>1, NewRecordType
        <5> QED  BY <4>1, <5>2 DEF NewRecord
      <4>3. records'[n] = rec
        BY <1>1, <2>3, <3>3, <4>1 DEF CommittedInputs
      <4>4. rec # Absent
        BY <4>2, ConstantsAssumption
      <4> QED  BY <1>1, <4>2, <4>3, <4>4 DEF Kept, Known
    <3> QED  BY <3>2, <3>3
  <2> QED  BY <2>2, <2>3
<1>4. \A q \in Queries : Known(q)' => Known(q) /\ SameRun(q)
  BY <1>1, <1>2 DEF Nodes, Known, SameRun
<1>5. \A r \in Resources : Known(r)' /\ Failed(r)' =>
        /\ Known(r) /\ Failed(r) /\ records'[r].failure = records[r].failure
        /\ records'[r].probe = records[r].probe
  BY <1>1, <1>2 DEF Nodes, Known, Failed
<1> QED  BY <1>3, <1>4, <1>5, TableKept, FailuresStay

\* Between two evaluations nothing runs.
LEMMA QuietReplay ==
  ASSUME stack' = <<>>, ctl'.op \in {"idle", "ensure", "observe", "answer"}
  PROVE  Running' /\ Hooks'
<1>1. Len(stack') = 0
  OBVIOUS
<1> QED  BY <1>1, NoHooks DEF Running

LEMMA ClientReplay ==
  ASSUME PInv, IInv', Replayable, Client
  PROVE  Replaying'
<1>1. LockFree
  BY DEF Client, Get, Inspect, ReadResource, Begin, Set, SetMany, SetInputs, OpenSpan, CloseSpan,
     RequestInputsChanged
<1>2. stack = <<>> /\ ctl.op = "idle"
  BY <1>1 DEF PInv, RInv, IInv, Discipline, LockDiscipline
<1>3. UNCHANGED stack /\ (UNCHANGED ctl \/ ctl'.op \in {"ensure", "observe", "answer"})
  <2>1. /\ UNCHANGED stack
        /\ UNCHANGED ctl \/ \E op \in {"ensure", "observe", "answer"} : \E n : ctl' = Call(op, n)
    BY DEF Client, Get, Inspect, ReadResource, Begin, Set, SetMany, SetInputs, OpenSpan, CloseSpan,
       RequestInputsChanged
  <2>2. \A op, n : Call(op, n).op = op
    BY DEF Call
  <2> QED  BY <2>1, <2>2
<1>4. PICK t \in Threads :
        \/ UNCHANGED records
        \/ \E i \in Inputs, v \in Values : records' = CommittedInputs(t, [j \in {i} |-> v])
        \/ \E updates \in Updates : records' = CommittedInputs(t, updates)
        \/ \E F : records' = Released(F)
  BY DEF Client, Get, Inspect, ReadResource, Begin, OpenSpan, RequestInputsChanged, Set,
     SetMany, SetInputs, CloseSpan, EndRequest
<1>5. ASSUME NEW i \in Inputs, NEW v \in Values, records' = CommittedInputs(t, [j \in {i} |-> v])
      PROVE  RecordedFailures' /\ Table'
  <2>1. [j \in {i} |-> v] \in [{i} -> Values] /\ {i} \in SUBSET Inputs
    OBVIOUS
  <2> QED  BY <1>5, <2>1, CommittedKept
<1>6. ASSUME NEW updates \in Updates, records' = CommittedInputs(t, updates)
      PROVE  RecordedFailures' /\ Table'
  <2>1. PICK S \in SUBSET Inputs : updates \in [S -> Values]
    BY DEF Updates
  <2> QED  BY <1>6, <2>1, CommittedKept
<1>7. RecordedFailures' /\ Table'
  BY <1>4, <1>5, <1>6, SameRecords, ReleasedKept
<1> QED  BY <1>2, <1>3, <1>7, QuietReplay DEF Replaying

LEMMA EndReplay ==
  ASSUME PInv, IInv', Replayable, Deliver \/ Finish
  PROVE  Replaying'
<1>1. stack' = <<>>
  <2>1. CASE Deliver
    BY <2>1 DEF Deliver
  <2>2. CASE Finish
    BY <2>2 DEF Finish, PInv, RInv, IInv, Discipline, LockDiscipline
  <2> QED  BY <2>1, <2>2
<1>2. ctl'.op \in {"idle", "answer"}
  <2>1. ctl \in Control
    BY DEF PInv, RInv, IInv, TypeOK
  <2>2. CASE Deliver
    BY <2>1, <2>2 DEF Deliver, Control
  <2>3. CASE Finish
    BY <2>3 DEF Finish, Idle, Call
  <2> QED  BY <2>2, <2>3
<1>3. UNCHANGED records \/ \E F : records' = Released(F)
  BY DEF Deliver, Finish, EndRequest
<1> QED  BY <1>1, <1>2, <1>3, QuietReplay, SameRecords, ReleasedKept DEF Replaying

\* Under an evaluation only a resource that races with its hooks moves.
LEMMA EnvironmentReplay ==
  ASSUME PInv, Environment
  PROVE  Replaying'
<1>1. requests' = Overtaken /\ UNCHANGED <<records, stack, ctl, holder>>
  BY DEF Environment, MoveWorld, MoveAmbient, scopeVars
<1>2. RInv /\ IInv
  BY DEF PInv, RInv
<1>3. CASE ctl.op = "idle"
  <2>1. stack = <<>>
    BY <1>2, <1>3 DEF IInv, Discipline, LockDiscipline
  <2> QED  BY <1>1, <1>3, <2>1, QuietReplay, SameRecords DEF Replaying
<1>4. CASE ctl.op # "idle"
  <2>1. SameWorld
    <3>1. ~LockFree
      BY <1>2, <1>4 DEF IInv, Discipline, LockDiscipline
    <3>2. CASE UNCHANGED world
      BY <3>2 DEF SameWorld
    <3>3. CASE \E r \in Racy : \E w : world' = [world EXCEPT ![r] = w]
      BY <1>2, <3>3 DEF SameWorld, IInv, TypeOK
    <3> QED  BY <3>1, <3>2, <3>3 DEF Environment, MoveWorld, MoveAmbient
  <2>2. CurrentRequest' = CurrentRequest
    <3>1. holder \in Threads /\ requests[holder] \in RequestScope
      BY <1>2, <1>4, Facts
    <3>2. Overtaken[holder] = [requests[holder] EXCEPT !.moved = TRUE]
      BY <3>1, ConstantsAssumption DEF Overtaken
    <3> QED  BY <1>1, <3>1, <3>2 DEF CurrentRequest, RequestScope
  <2>3. Running'
    BY <1>1, <2>1, <2>2, UnchangedStands, RunningStays
  <2>4. Hooks'
    <3>1. ctl.op \in {"failure_probe", "split_load"} => ctl.key \in Resources
      BY <1>2 DEF IInv, Discipline, CallDiscipline
    <3>2. ctl.key \in Resources \ Racy => world'[ctl.key] = world[ctl.key]
      BY <2>1 DEF SameWorld
    <3> QED  BY <1>1, <3>1, <3>2 DEF PInv, Replaying, Hooks, Refuses, Known
  <2> QED  BY <1>1, <2>3, <2>4, SameRecords DEF Replaying
<1> QED  BY <1>3, <1>4

\* A step of a query that leaves the resources.
LEMMA QueryStepReplay ==
  ASSUME PInv, IInv', Replayable,
         EnsureQuery \/ ReuseQuery \/ VerifyDependency \/ ResumeVerify \/ AbandonVerify
         \/ BodyReadsInput \/ BodyReadsUntracked \/ BodyCalls \/ BodyResumes
         \/ BodyCatches \/ BodyRaises \/ BodyReturns
  PROVE  Replaying'
<1>1. CASE ReuseQuery \/ BodyReturns
  <2>1. stack # <<>> /\ \E rec : records' = [records EXCEPT ![Top.key] = rec]
    BY <1>1 DEF ReuseQuery, BodyReturns, Commit, Verifying, Does, Executing
  <2>2. Top.key \in Queries /\ Top.key \in Nodes /\ IInv
    BY <2>1, TopTracked DEF Nodes
  <2>3. \A r \in Resources : records'[r] = records[r]
    BY <2>1, <2>2, ConstantsAssumption DEF IInv, TypeOK, Nodes
  <2>4. RecordedFailures'
    BY <2>3, FailuresStay DEF Known, Failed
  <2> QED  BY <1>1, <2>4, ReuseQueryReplay, BodyReturnsReplay DEF Replaying
<1>2. CASE ~(ReuseQuery \/ BodyReturns)
  <2>1. UNCHANGED records
    BY <1>2 DEF EnsureQuery, VerifyDependency, ResumeVerify, AbandonVerify, BodyReadsInput,
       BodyReadsUntracked, BodyCalls, BodyResumes, BodyCatches, BodyRaises
  <2>2. Running' /\ Hooks'
    BY <1>2, EnsureQueryReplay, WalkReplay, RaiseReplay, BodyReadsInputReplay,
       BodyReadsUntrackedReplay, BodyCallsReplay, BodyResumesReplay, BodyCatchesReplay
  <2> QED  BY <2>1, <2>2, SameRecords DEF Replaying
<1> QED  BY <1>1, <1>2

\* Every step preserves the invariant.
LEMMA NextReplay ==
  ASSUME PInv, Replayable, [Next]_vars
  PROVE  PInv'
<1>1. RInv' /\ IInv'
  BY NextReading DEF PInv, RInv
<1> SUFFICES Replaying'
  BY <1>1 DEF PInv
<1>2. CASE UNCHANGED vars
  <2>1. UNCHANGED <<records, stack, ctl, world, CurrentRequest>>
    BY <1>2 DEF vars, CurrentRequest
  <2>2. Running'
    BY <2>1, UnchangedStands, RunningStays DEF SameWorld
  <2>3. Hooks'
    BY <2>1 DEF PInv, Replaying, Hooks, Refuses, Known
  <2> QED  BY <2>1, <2>2, <2>3, SameRecords DEF Replaying
<1>3. CASE Next
  <2>1. CASE ObserveResource \/ ProbeAndLoad \/ ObserveFailureProbe \/ SplitLoad
    BY <2>1, ObserveResourceReplay, ProbeAndLoadReplay, ObserveFailureProbeReplay, SplitLoadReplay
  <2>2. CASE Deliver \/ Finish \/ Client \/ Environment
    BY <1>1, <2>2, EndReplay, ClientReplay, EnvironmentReplay
  <2>3. CASE Evaluate
    BY <1>1, <2>1, <2>2, <2>3, QueryStepReplay DEF Evaluate
  <2> QED  BY <1>3, <2>2, <2>3 DEF Next
<1> QED  BY <1>2, <1>3

LEMMA InitReplay ==
  ASSUME Init
  PROVE  PInv
<1>1. stack = <<>> /\ ctl.op = "idle" /\ Len(stack) = 0 /\ \A n \in Nodes : ~Known(n)
  BY DEF Init, Idle, Call, Known
<1>2. Running /\ Hooks
  BY <1>1 DEF Running, Hooks
<1>3. RecordedFailures /\ Table
  BY <1>1 DEF RecordedFailures, Table, Recorded, Nodes
<1> QED  BY <1>2, <1>3, InitReading DEF PInv, Replaying

\* A record that looks green was read from outcomes that are all still there.
LEMMA ReplayingIsGreen ==
  ASSUME PInv, Replayable
  PROVE  GreenRecordsReplay
<1> SUFFICES ASSUME NEW q \in Queries, LooksGreen(q)
             PROVE  \E reads \in Traces : ReplayedFrom(q, reads)
  BY DEF GreenRecordsReplay
<1>1. PICK reads \in Seq(Outcomes) : RecordedRun(q, reads)
  BY DEF PInv, Replaying, Table, Recorded, LooksGreen
<1>2. ReplayedFrom(q, reads)
  BY <1>1 DEF ReplayedFrom, RecordedRun, ReadOrDirty, Unsure, LooksGreen, ChangedSince
<1> QED  BY <1>1, <1>2 DEF Replayable

\* Red-green soundness, for every graph of bodies, every schedule of callers
\* and of the world, however often records are verified, cut off early or
\* computed anew (_ensure_query, _execute_query, _observe_resource): without
\* eviction, with policies that equate nothing and bodies that let through
\* what no edge stands for, a record whose edges look unchanged holds what its
\* body returns from the records behind them.
THEOREM GreenRecordsAreReplays ==
  ASSUME Traces = Seq(Outcomes), MaxQueryNodes = 0, Exact, LetThrough
  PROVE  Spec => []GreenRecordsReplay
<1>1. Replayable
  BY DEF Replayable
<1>2. Init => PInv
  BY InitReplay
<1>3. PInv /\ [Next]_vars => PInv'
  BY <1>1, NextReplay
<1>4. PInv => GreenRecordsReplay
  BY <1>1, ReplayingIsGreen
<1> QED  BY <1>2, <1>3, <1>4, PTL DEF Spec
=============================================================================
