----------------------------- MODULE FreshProofs -----------------------------
(***************************************************************************)
(* From-scratch consistency of values for every graph of bodies, every set  *)
(* of spans and every schedule of callers and of the world: what a request  *)
(* has settled is what a cold evaluation computes, as long as the request   *)
(* has not been overtaken.  To the hypotheses of ReplayProofs it adds that  *)
(* no body handles the exception of a query it calls, and that no resource  *)
(* whose probe and load are two looks moves between them.                   *)
(***************************************************************************)
EXTENDS ReplayProofs

\* What an open request has settled can still be fresh.
InTouch(t) == requests[t] # Absent /\ ~requests[t].moved /\ ~SpanIsBehind(t)

\* Only a span outlives its call, and no span has seen the epochs to come.
Scopes ==
  /\ \A t \in Threads : requests[t] # Absent =>
       /\ t # holder => requests[t].span
       /\ requests[t].span_epoch_seen <= span_epoch
  /\ holder # Absent => ~SpanIsBehind(holder)

FreshRecord(n) ==
  IF n \in Queries THEN Derived(n, records[n].snapshot)
  ELSE /\ Outcome(n) = FreshLoad(world[n]) /\ ~records[n].probe_unconfirmed
       /\ world[n] \notin Refusing \cup Unprobeable
SettledFresh ==
  \A t \in Threads : InTouch(t) =>
    \A n \in Queries \cup Resources : Settled(n, requests[t].request_id) => FreshRecord(n)

\* A stored probe tells the world of the stored value.
ProbesTell ==
  \A r \in Resources : Known(r) /\ ~Failed(r) =>
    records[r].probe \notin Refusing /\ records[r].snapshot = LoadOf(records[r].probe)

\* What the running bodies read is what they would read in a cold evaluation,
\* or they are about to raise.
FreshFrame(f) ==
  f.kind = "exec" =>
    \/ \A S \in SUBSET (Queries \X Values) : Closed(S) => FreshTrace(S, f.key, f.reads)
    \/ Body(f.key, f.reads).op = "raise"
FreshFrames == \A k \in 1 .. Len(stack) : FreshFrame(stack[k])

FreshCall ==
  /\ ctl.op = "failure_probe" =>
       world[ctl.key] \notin Refusing /\ ctl.result = LoadOf(world[ctl.key])
  /\ ctl.op = "raise" /\ ctl.key \in Resources =>
       ctl.result = FreshLoad(world[ctl.key]) \/ ctl.result \in Unrecordable(ctl.key)
  /\ ctl.op = "answer" /\ ctl.result \in Values =>
       IF ctl.key \in Queries THEN Derived(ctl.key, ctl.result)
       ELSE ctl.result = FreshLoad(world[ctl.key])
SplitProbe == ctl.op = "split_load" => ctl.key \in Split /\ ctl.probe \notin Unprobeable

Evaluating == holder # Absent /\ InTouch(holder) => FreshFrames /\ FreshCall

\* The inductive invariant.
Cold == Scopes /\ SettledFresh /\ ProbesTell /\ SplitProbe /\ Evaluating
FInv == PInv /\ Cold

\* The databases the argument is about.
Repeatable == Replayable /\ RaiseThrough /\ Split \cap Racy = {}

-----------------------------------------------------------------------------
(* Cold evaluation.                                                         *)

\* What a cold evaluation starts from.
SameGround ==
  /\ \A i \in Inputs : /\ Known(i)' <=> Known(i)
                       /\ Known(i) => records'[i].snapshot = records[i].snapshot
  /\ UNCHANGED <<world, ambient>>

LEMMA Grounded ==
  ASSUME SameGround
  PROVE  /\ \A S, q, reads : FreshTrace(S, q, reads)' <=> FreshTrace(S, q, reads)
         /\ \A S : Closed(S)' <=> Closed(S)
         /\ \A q, v : Derived(q, v)' <=> Derived(q, v)
<1>1. ASSUME NEW S, NEW step, NEW out
      PROVE  FreshOutcome(S, step, out)' <=> FreshOutcome(S, step, out)
  BY DEF FreshOutcome, SameGround
<1>2. ASSUME NEW S, NEW q, NEW reads
      PROVE  FreshTrace(S, q, reads)' <=> FreshTrace(S, q, reads)
  BY <1>1 DEF FreshTrace
<1>3. ASSUME NEW S
      PROVE  Closed(S)' <=> Closed(S)
  BY <1>2 DEF Closed
<1>4. ASSUME NEW q, NEW v
      PROVE  Derived(q, v)' <=> Derived(q, v)
  BY <1>3 DEF Derived
<1> QED  BY <1>2, <1>3, <1>4

LEMMA FreshTraceGrows ==
  ASSUME NEW S, NEW q, NEW s \in Seq(Outcomes), NEW e \in Outcomes,
         FreshTrace(S, q, s), FreshOutcome(S, Body(q, s), e)
  PROVE  FreshTrace(S, q, Append(s, e))
<1>1. /\ Len(Append(s, e)) = Len(s) + 1 /\ Len(s) \in Nat
      /\ Append(s, e)[Len(s) + 1] = e /\ Before(Append(s, e), Len(s) + 1) = s
      /\ \A k \in 1 .. Len(s) :
           Append(s, e)[k] = s[k] /\ Before(Append(s, e), k) = Before(s, k)
  BY Extended
<1>2. ASSUME NEW k \in 1 .. Len(Append(s, e))
      PROVE  FreshOutcome(S, Body(q, Before(Append(s, e), k)), Append(s, e)[k])
  <2>1. k = Len(s) + 1 \/ k \in 1 .. Len(s)
    BY <1>1
  <2> QED  BY <1>1, <2>1 DEF FreshTrace
<1> QED  BY <1>2 DEF FreshTrace

\* A run that reads what a cold body reads returns what it returns.
LEMMA DerivedByRun ==
  ASSUME Replayable, NEW q \in Queries, NEW reads \in Seq(Outcomes), NEW v \in Values,
         Body(q, reads) = Answer(v),
         \A S \in SUBSET (Queries \X Values) : Closed(S) => FreshTrace(S, q, reads)
  PROVE  Derived(q, v)
BY DEF Replayable, Derived, Closed

\* The record of an edge that the request has settled.
LEMMA EdgeIsFresh ==
  ASSUME FInv, ctl.op # "idle", InTouch(holder), NEW n \in Nodes, Known(n),
         n \in Inputs \/ Settled(n, CurrentRequest),
         NEW S \in SUBSET (Queries \X Values), Closed(S)
  PROVE  FreshOutcome(S, Ask(n), Outcome(n))
<1>1. IInv /\ holder \in Threads
  BY Facts DEF FInv, PInv, RInv
<1>2. n \notin Inputs => FreshRecord(n)
  BY <1>1 DEF FInv, Cold, SettledFresh, CurrentRequest, Nodes
<1>3. n \notin Resources => Outcome(n) = records[n].snapshot
  BY <1>1 DEF IInv, Discipline, RecordDiscipline, Outcome
<1>4. CASE n \in Inputs
  BY <1>3, <1>4, ConstantsAssumption DEF FreshOutcome
<1>5. CASE n \in Resources
  BY <1>2, <1>5, ConstantsAssumption DEF FreshOutcome, FreshRecord
<1>6. CASE n \in Queries
  BY <1>2, <1>3, <1>6, ConstantsAssumption DEF FreshOutcome, FreshRecord, Derived
<1> QED  BY <1>4, <1>5, <1>6 DEF Nodes

-----------------------------------------------------------------------------
(* The open requests and the records.                                       *)

\* A step that leaves what the requests have seen.
SameScopes ==
  /\ SameRequests /\ UNCHANGED <<holder, span_epoch>>
  /\ \A t \in Threads : requests[t] # Absent =>
       /\ requests'[t].span = requests[t].span /\ requests'[t].moved = requests[t].moved
       /\ requests'[t].span_epoch_seen = requests[t].span_epoch_seen

LEMMA ScopesKept ==
  ASSUME FInv, SameScopes
  PROVE  /\ Scopes'
         /\ \A t \in Threads : InTouch(t)' <=> InTouch(t)
         /\ \A t \in Threads : InTouch(t) => requests'[t].request_id = requests[t].request_id
<1>1. /\ \A t \in Threads : /\ requests'[t] = Absent <=> requests[t] = Absent
                            /\ requests[t] # Absent => requests'[t].request_id = requests[t].request_id
      /\ \A t \in Threads : requests[t] # Absent => (SpanIsBehind(t)' <=> SpanIsBehind(t))
  BY DEF SameScopes, SameRequests, SpanIsBehind
<1>2. holder # Absent => holder \in Threads /\ requests[holder] # Absent
  BY Facts, ConstantsAssumption DEF FInv, PInv, RInv, IInv, Discipline, LockDiscipline, LockFree, TypeOK
<1>3. Scopes'
  BY <1>1, <1>2 DEF FInv, Cold, Scopes, SameScopes
<1>4. \A t \in Threads : InTouch(t)' <=> InTouch(t)
  BY <1>1 DEF SameScopes, InTouch
<1> QED  BY <1>1, <1>3, <1>4 DEF InTouch

\* A step that writes no record anew.
Lapses(n) ==
  Known(n)' =>
    /\ Known(n) /\ records'[n].snapshot = records[n].snapshot
    /\ records'[n].failure = records[n].failure /\ records'[n].probe = records[n].probe
    /\ records'[n].probe_unconfirmed = records[n].probe_unconfirmed
    /\ records'[n].checked_in_request = records[n].checked_in_request
    /\ records'[n].retained => records[n].retained

\* A request keeps what it has settled, or has another id.
Keeps(t) ==
  InTouch(t)' =>
    \/ requests'[t].request_id > request_counter
    \/ InTouch(t) /\ requests'[t].request_id = requests[t].request_id /\ SameGround

LEMMA NothingWritten ==
  ASSUME FInv, \A t \in Threads : Keeps(t), \A n \in Queries \cup Resources : Lapses(n)
  PROVE  SettledFresh' /\ ProbesTell'
<1>1. IInv
  BY DEF FInv, PInv, RInv
<1>2. ProbesTell'
  BY DEF FInv, Cold, ProbesTell, Lapses, Failed
<1>3. ASSUME NEW t \in Threads, InTouch(t)', NEW n \in Queries \cup Resources,
             Settled(n, requests[t].request_id)'
      PROVE  FreshRecord(n)'
  <2>1. n \in Nodes /\ Lapses(n) /\ Known(n)' /\ Known(n)
    BY <1>3 DEF Nodes, Settled, Lapses
  <2>2. records'[n].checked_in_request = requests'[t].request_id
    BY <1>3 DEF Settled
  <2>3. /\ records[n].checked_in_request \in Int /\ records[n].checked_in_request <= request_counter
        /\ request_counter \in Nat
    BY <1>1, <2>1, Facts DEF IInv, TypeOK, RevisionDiscipline, NodeRecord
  <2>4. /\ InTouch(t) /\ requests'[t].request_id = requests[t].request_id /\ SameGround
    BY <1>3, <2>1, <2>2, <2>3 DEF Keeps, Lapses
  <2>5. Settled(n, requests[t].request_id)
    BY <1>3, <2>1, <2>4 DEF Settled, Lapses, Failed
  <2>6. FreshRecord(n)
    BY <2>4, <2>5 DEF FInv, Cold, SettledFresh
  <2>7. \A v : Derived(n, v)' <=> Derived(n, v)
    BY <2>4, Grounded
  <2>8. n \in Queries => FreshRecord(n)'
    BY <2>1, <2>6, <2>7 DEF FreshRecord, Lapses
  <2>9. n \notin Queries => FreshRecord(n)'
    BY <2>1, <2>4, <2>6 DEF FreshRecord, Lapses, Outcome, Failed, SameGround
  <2> QED  BY <2>8, <2>9
<1>4. SettledFresh'
  BY <1>3 DEF SettledFresh
<1> QED  BY <1>2, <1>4

\* The evaluation writes a record and settles it.
LEMMA OneWritten ==
  ASSUME FInv, ctl.op # "idle", SameScopes, SameGround,
         NEW n \in Queries \cup Resources, NEW rec, rec # Absent,
         records' = [records EXCEPT ![n] = rec],
         rec.checked_in_request = CurrentRequest, InTouch(holder) => FreshRecord(n)',
         n \in Resources /\ rec.failure = Absent =>
           rec.probe \notin Refusing /\ rec.snapshot = LoadOf(rec.probe)
  PROVE  SettledFresh' /\ ProbesTell'
<1>1. /\ IInv /\ n \in Nodes /\ holder \in Threads /\ requests[holder] # Absent
      /\ CurrentRequest = requests[holder].request_id
  BY Facts, ConstantsAssumption DEF FInv, PInv, RInv, Nodes, CurrentRequest
<1>2. records'[n] = rec /\ \A m \in Nodes : m # n => records'[m] = records[m]
  BY <1>1 DEF IInv, TypeOK
<1>3. ProbesTell'
  BY <1>1, <1>2 DEF FInv, Cold, ProbesTell, Known, Failed, Nodes
<1>4. ASSUME NEW t \in Threads, InTouch(t)', NEW m \in Queries \cup Resources,
             Settled(m, requests[t].request_id)'
      PROVE  FreshRecord(m)'
  <2>1. InTouch(t) /\ requests'[t].request_id = requests[t].request_id /\ m \in Nodes
    BY <1>4, ScopesKept DEF Nodes
  <2>2. CASE m = n
    <3>1. requests[t].request_id = requests[holder].request_id
      BY <1>1, <1>2, <1>4, <2>1, <2>2 DEF Settled
    <3>2. t = holder
      BY <1>1, <2>1, <3>1 DEF IInv, RevisionDiscipline, InTouch
    <3> QED  BY <2>1, <2>2, <3>2
  <2>3. CASE m # n
    <3>1. records'[m] = records[m]
      BY <1>2, <2>1, <2>3
    <3>2. FreshRecord(m)
      BY <1>4, <2>1, <3>1 DEF FInv, Cold, SettledFresh, Settled, Known, Failed
    <3>3. \A v : Derived(m, v)' <=> Derived(m, v)
      BY Grounded
    <3>4. m \in Queries => FreshRecord(m)'
      BY <3>1, <3>2, <3>3 DEF FreshRecord
    <3>5. m \notin Queries => FreshRecord(m)'
      BY <3>1, <3>2 DEF FreshRecord, Outcome, Failed, SameGround
    <3> QED  BY <3>4, <3>5
  <2> QED  BY <2>2, <2>3
<1>5. SettledFresh'
  BY <1>4 DEF SettledFresh
<1> QED  BY <1>3, <1>5

-----------------------------------------------------------------------------
(* The running bodies.                                                      *)

LEMMA FreshFrameKept ==
  ASSUME SameGround, NEW f, FreshFrame(f)
  PROVE  FreshFrame(f)'
BY Grounded DEF FreshFrame

\* Every frame was there before or is fresh.
LEMMA FramesKept ==
  ASSUME FInv, FreshFrames, SameGround,
         \A k \in 1 .. Len(stack') :
           (\E j \in 1 .. Len(stack) : stack'[k] = stack[j]) \/ FreshFrame(stack'[k])
  PROVE  FreshFrames'
<1>1. ASSUME NEW k \in 1 .. Len(stack'), NEW g, g = stack'[k]
      PROVE  FreshFrame(g)'
  <2>1. FreshFrame(g)
    BY <1>1 DEF FreshFrames
  <2> QED  BY <2>1, FreshFrameKept
<1> QED  BY <1>1 DEF FreshFrames

LEMMA FramesReplaced ==
  ASSUME FInv, FreshFrames, SameGround, stack # <<>>, NEW f \in Frame, FreshFrame(f),
         stack' = ReplaceTop(f)
  PROVE  FreshFrames'
<1>1. IInv /\ Len(stack) \in Nat
  BY StackHeight DEF FInv, PInv, RInv
<1>2. /\ Len(stack') = Len(stack)
      /\ \A k \in 1 .. Len(stack) : stack'[k] = IF k = Len(stack) THEN f ELSE stack[k]
  BY <1>1, ReplacedFrames
<1> QED  BY <1>1, <1>2, FramesKept

LEMMA FramesPopped ==
  ASSUME FInv, FreshFrames, SameGround, stack # <<>>, stack' = Pop
  PROVE  FreshFrames'
<1>1. IInv /\ Len(stack) \in Nat
  BY StackHeight DEF FInv, PInv, RInv
<1>2. Len(stack') = Len(stack) - 1 /\ \A k \in 1 .. Len(stack) - 1 : stack'[k] = stack[k]
  BY <1>1, PoppedFrames
<1> QED  BY <1>1, <1>2, FramesKept

LEMMA FramesPushed ==
  ASSUME FInv, FreshFrames, SameGround, NEW f \in Frame, FreshFrame(f), stack' = Push(f)
  PROVE  FreshFrames'
<1>1. IInv /\ Len(stack) \in Nat
  BY StackHeight DEF FInv, PInv, RInv
<1>2. /\ Len(stack') = Len(stack) + 1
      /\ \A k \in 1 .. Len(stack) + 1 : stack'[k] = IF k <= Len(stack) THEN stack[k] ELSE f
  BY <1>1, PushedFrames
<1> QED  BY <1>1, <1>2, FramesKept

\* A body that has read nothing, and a verification.
LEMMA NewIsFresh ==
  ASSUME NEW f, f.kind = "verify" \/ f.reads = <<>>
  PROVE  FreshFrame(f)
BY DEF FreshFrame, FreshTrace

\* One read more.
LEMMA ReadIsFresh ==
  ASSUME NEW g \in Frame, FreshFrame(g), g.kind = "exec", Body(g.key, g.reads).op # "raise",
         NEW out \in Outcomes,
         NEW f, f.key = g.key, f.reads = Append(g.reads, out),
         \/ LetsThrough(g.key, g.reads, out)
         \/ \A S \in SUBSET (Queries \X Values) :
              Closed(S) => FreshOutcome(S, Body(g.key, g.reads), out)
  PROVE  FreshFrame(f)
<1>1. CASE LetsThrough(g.key, g.reads, out)
  BY <1>1 DEF LetsThrough, FreshFrame
<1>2. CASE \A S \in SUBSET (Queries \X Values) :
              Closed(S) => FreshOutcome(S, Body(g.key, g.reads), out)
  <2>1. g.reads \in Seq(Outcomes)
    BY DEF Frame
  <2>2. ASSUME NEW S \in SUBSET (Queries \X Values), Closed(S)
        PROVE  FreshTrace(S, f.key, f.reads)
    <3>1. FreshTrace(S, g.key, g.reads)
      BY <2>2 DEF FreshFrame
    <3> QED  BY <1>2, <2>1, <2>2, <3>1, FreshTraceGrows
  <2> QED  BY <2>2 DEF FreshFrame
<1> QED  BY <1>1, <1>2

-----------------------------------------------------------------------------
(* Steps that write no record.                                              *)

\* The table, the inputs and the world stay.
LEMMA ColdTableKept ==
  ASSUME FInv, SameScopes, UNCHANGED <<records, world, ambient>>
  PROVE  Scopes' /\ SettledFresh' /\ ProbesTell' /\ SameGround
<1>1. SameGround
  BY DEF SameGround, Known
<1>2. \A t \in Threads : Keeps(t)
  BY <1>1, ScopesKept DEF Keeps
<1>3. \A n : Lapses(n)
  BY DEF Lapses, Known
<1> QED  BY <1>1, <1>2, <1>3, ScopesKept, NothingWritten

LEMMA ScopesUnchanged ==
  ASSUME FInv, UNCHANGED <<requests, holder, span_epoch>>
  PROVE  SameScopes
<1>1. SameRequests
  BY RequestsKept DEF FInv, PInv, RInv
<1> QED  BY <1>1 DEF SameScopes

\* The evaluation goes on under the same request.
LEMMA EvaluationGoesOn ==
  ASSUME FInv, SameScopes, InTouch(holder) /\ FreshFrames /\ FreshCall => FreshFrames' /\ FreshCall'
  PROVE  Evaluating'
<1>1. holder # Absent => holder \in Threads
  BY Facts DEF FInv, PInv, RInv, IInv, TypeOK
<1>2. holder' = holder
  BY DEF SameScopes
<1>3. PICK h : h = holder
  OBVIOUS
<1>4. (holder # Absent /\ InTouch(holder))' => InTouch(holder) /\ FreshFrames /\ FreshCall
  <2>1. h # Absent => (InTouch(h)' <=> InTouch(h))
    BY <1>1, <1>3, ScopesKept
  <2>2. InTouch(holder)' <=> InTouch(h)'
    BY <1>2, <1>3 DEF InTouch, SpanIsBehind
  <2>3. (holder # Absent /\ InTouch(holder))' => holder # Absent /\ InTouch(holder)
    BY <1>2, <1>3, <2>1, <2>2
  <2> QED  BY <2>3 DEF FInv, Cold, Evaluating
<1> QED  BY <1>4 DEF Evaluating

\* No hook is under way, no resource raised and nothing is answered.
LEMMA NoFreshCall ==
  ASSUME \/ ctl'.op \in {"run", "ensure", "observe", "load", "return"}
         \/ ctl'.op = "raise" /\ ctl'.key \in Queries
  PROVE  FreshCall' /\ SplitProbe'
BY ConstantsAssumption DEF FreshCall, SplitProbe

-----------------------------------------------------------------------------
(* Steps of a query.                                                        *)

LEMMA EnsureQueryFresh ==
  ASSUME FInv, FreshFrames, SameGround, EnsureQuery
  PROVE  FreshFrames' /\ FreshCall' /\ SplitProbe'
<1>1. IInv /\ ctl.key \in Queries
  BY DEF FInv, PInv, RInv, IInv, Discipline, CallDiscipline, EnsureQuery
<1>2. ASSUME UNCHANGED stack
      PROVE  FreshFrames'
  BY <1>2, FramesKept
<1>3. ASSUME stack' = Push(IF Known(ctl.key) /\ ~records[ctl.key].untracked
                           THEN NewFrame("verify", ctl.key, records[ctl.key].dependencies)
                           ELSE NewFrame("exec", ctl.key, {}))
      PROVE  FreshFrames'
  <2>1. Known(ctl.key) => records[ctl.key].dependencies \in SUBSET Nodes
    BY <1>1, Facts DEF NodeRecord, Nodes
  <2>2. PICK kind \in {"exec", "verify"}, pending \in SUBSET Nodes :
          stack' = Push(NewFrame(kind, ctl.key, pending))
    BY <1>3, <2>1
  <2>3. PICK f : f = NewFrame(kind, ctl.key, pending)
    OBVIOUS
  <2>4. f \in Frame /\ f.reads = <<>>
    BY <1>1, <2>3, NewFrameType DEF NewFrame
  <2> QED  BY <2>2, <2>3, <2>4, NewIsFresh, FramesPushed
<1>4. FreshFrames'
  BY <1>2, <1>3 DEF EnsureQuery
<1>5. \/ ctl'.op \in {"run", "return"}
      \/ ctl'.op = "raise" /\ ctl'.key \in Queries
  BY <1>1 DEF EnsureQuery, Raise, Return, Run, Call
<1> QED  BY <1>4, <1>5, NoFreshCall

LEMMA WalkFresh ==
  ASSUME FInv, FreshFrames, SameGround, VerifyDependency \/ ResumeVerify
  PROVE  FreshFrames' /\ FreshCall' /\ SplitProbe'
<1>1. /\ stack # <<>> /\ Top.kind = "verify" /\ Top \in Frame /\ Top.key \in Queries /\ IInv
  BY TopTracked DEF FInv, VerifyDependency, ResumeVerify, Verifying
<1>2. ASSUME stack' = Dirty(stack)
      PROVE  FreshFrames'
  <2>1. PICK f : f = NewFrame("exec", Top.key, {})
    OBVIOUS
  <2>2. f \in Frame /\ f.reads = <<>> /\ stack' = ReplaceTop(f)
    BY <1>1, <1>2, <2>1, NewFrameType DEF NewFrame, Dirty, ReplaceTop, Top
  <2> QED  BY <1>1, <2>2, NewIsFresh, FramesReplaced
<1>3. ASSUME \E pending \in SUBSET Nodes, callee \in Nodes \cup {Absent} :
               stack' = ReplaceTop([Top EXCEPT !.pending = pending, !.callee = callee])
      PROVE  FreshFrames'
  <2>1. PICK pending \in SUBSET Nodes, callee \in Nodes \cup {Absent} :
          stack' = ReplaceTop([Top EXCEPT !.pending = pending, !.callee = callee])
    BY <1>3
  <2>2. PICK f : f = [Top EXCEPT !.pending = pending, !.callee = callee]
    OBVIOUS
  <2>3. f \in Frame /\ f.kind = "verify"
    BY <1>1, <2>2 DEF Frame
  <2> QED  BY <1>1, <2>1, <2>2, <2>3, NewIsFresh, FramesReplaced
<1>4. FreshFrames'
  <2>1. Top.pending \in SUBSET Nodes /\ Top.callee \in Nodes \cup {Absent}
    BY <1>1 DEF Frame
  <2>2. CASE VerifyDependency
    <3>1. PICK d \in Top.pending :
            \/ stack' = Dirty(stack)
            \/ stack' = ReplaceTop([Top EXCEPT !.pending = Remaining(@, d)])
            \/ stack' = ReplaceTop([[Top EXCEPT !.pending = Remaining(@, d)] EXCEPT !.callee = d])
      BY <2>2 DEF VerifyDependency
    <3>2. /\ [Top EXCEPT !.pending = Remaining(@, d)]
               = [Top EXCEPT !.pending = Remaining(Top.pending, d), !.callee = Top.callee]
          /\ [[Top EXCEPT !.pending = Remaining(@, d)] EXCEPT !.callee = d]
               = [Top EXCEPT !.pending = Remaining(Top.pending, d), !.callee = d]
      BY <1>1 DEF Frame
    <3>3. Remaining(Top.pending, d) \in SUBSET Nodes /\ d \in Nodes \cup {Absent}
      BY <2>1 DEF Remaining
    <3> QED  BY <1>2, <1>3, <2>1, <3>1, <3>2, <3>3
  <2>3. CASE ResumeVerify
    <3>1. [Top EXCEPT !.callee = Absent] = [Top EXCEPT !.pending = Top.pending, !.callee = Absent]
      BY <1>1 DEF Frame
    <3> QED  BY <1>2, <1>3, <2>1, <2>3, <3>1 DEF ResumeVerify
  <2> QED  BY <2>2, <2>3
<1>5. ctl' = Run \/ \E op \in {"ensure", "observe"} : \E n : ctl' = Call(op, n)
  BY DEF VerifyDependency, ResumeVerify
<1>6. ctl'.op \in {"run", "ensure", "observe"}
  BY <1>5 DEF Run, Call
<1> QED  BY <1>4, <1>6, NoFreshCall

LEMMA RaiseFresh ==
  ASSUME FInv, FreshFrames, SameGround, AbandonVerify \/ BodyRaises
  PROVE  FreshFrames' /\ FreshCall' /\ SplitProbe'
<1>1. stack # <<>> /\ stack' = Pop /\ \E e : ctl' = Raise(Top.key, e, FALSE)
  BY DEF AbandonVerify, BodyRaises, Does, Executing
<1>2. ctl'.op = "raise" /\ ctl'.key \in Queries
  BY <1>1, TopTracked DEF FInv, Raise
<1> QED  BY <1>1, <1>2, FramesPopped, NoFreshCall

LEMMA BodyCallsFresh ==
  ASSUME FInv, FreshFrames, SameGround, BodyCalls
  PROVE  FreshFrames' /\ FreshCall' /\ SplitProbe'
<1>1. PICK n \in Nodes : NextStep.arg = n /\ (ctl' = Call("ensure", n) \/ ctl' = Call("observe", n))
  BY DEF BodyCalls, Does, Nodes
<1>2. stack # <<>> /\ Top \in Frame /\ FreshFrame(Top)
  <2>1. stack # <<>>
    BY DEF BodyCalls, Does, Executing
  <2>2. IInv /\ Top \in Frame /\ Len(stack) \in 1 .. Len(stack)
    BY <2>1, TopTracked, StackHeight DEF FInv
  <2> QED  BY <2>1, <2>2 DEF FreshFrames, Top
<1>3. PICK f : f = [Top EXCEPT !.callee = n]
  OBVIOUS
<1>4. f \in Frame /\ f.kind = Top.kind /\ f.key = Top.key /\ f.reads = Top.reads
  BY <1>2, <1>3 DEF Frame
<1>5. FreshFrame(f) /\ stack' = ReplaceTop(f)
  BY <1>1, <1>2, <1>3, <1>4 DEF FreshFrame, BodyCalls
<1>6. ctl'.op \in {"ensure", "observe"}
  BY <1>1 DEF Call
<1> QED  BY <1>2, <1>4, <1>5, <1>6, FramesReplaced, NoFreshCall

\* The top body reads out.
LEMMA OneReadFresh ==
  ASSUME FInv, FreshFrames, SameGround, stack # <<>>, Top.kind = "exec",
         Body(Top.key, Top.reads).op # "raise", NEW out \in Outcomes,
         NEW f \in Frame, f.key = Top.key, f.reads = Append(Top.reads, out),
         stack' = ReplaceTop(f),
         \/ LetsThrough(Top.key, Top.reads, out)
         \/ \A S \in SUBSET (Queries \X Values) :
              Closed(S) => FreshOutcome(S, Body(Top.key, Top.reads), out)
  PROVE  FreshFrames'
<1>1. IInv /\ Top \in Frame /\ Len(stack) \in 1 .. Len(stack)
  BY TopTracked, StackHeight DEF FInv
<1>2. FreshFrame(Top)
  BY <1>1 DEF FreshFrames, Top
<1>3. FreshFrame(f)
  BY <1>1, <1>2, ReadIsFresh
<1> QED  BY <1>3, FramesReplaced

LEMMA BodyReadsInputFresh ==
  ASSUME FInv, FreshFrames, SameGround, BodyReadsInput
  PROVE  FreshFrames' /\ FreshCall' /\ SplitProbe'
<1>1. PICK i \in Inputs :
        /\ Does("input", i)
        /\ stack' = ReplaceTop([Top EXCEPT
              !.reads = Append(@, IF Known(i) THEN records[i].snapshot ELSE "KeyError"),
              !.dependencies = @ \cup IF Known(i) THEN {i} ELSE {}])
  BY DEF BodyReadsInput
<1>2. /\ stack # <<>> /\ Top.kind = "exec" /\ ctl.op = "run" /\ UNCHANGED ctl
      /\ IInv /\ Top \in Frame
  BY <1>1, TopTracked DEF BodyReadsInput, Does, Executing, FInv
<1>3. i \in Nodes /\ i \notin Resources /\ Body(Top.key, Top.reads) = Ask(i)
  BY <1>1, ConstantsAssumption DEF Does, NextStep, Ask, Nodes
<1>4. PICK out : out = IF Known(i) THEN records[i].snapshot ELSE "KeyError"
  OBVIOUS
<1>5. out \in Outcomes
  <2>1. Known(i) => records[i].snapshot \in Values
    BY <1>2, <1>3, Facts DEF IInv, Discipline, RecordDiscipline, NodeRecord
  <2> QED  BY <1>4, <2>1 DEF Outcomes, Exceptions
<1>6. PICK f : f = [Top EXCEPT !.reads = Append(Top.reads, out),
                               !.dependencies = @ \cup IF Known(i) THEN {i} ELSE {}]
  OBVIOUS
<1>7. f \in Frame /\ f.key = Top.key /\ f.reads = Append(Top.reads, out) /\ stack' = ReplaceTop(f)
  <2>1. Append(Top.reads, out) \in Seq(Outcomes)
    BY <1>2, <1>5, AppendRead
  <2> QED  BY <1>1, <1>2, <1>3, <1>4, <1>6, <2>1 DEF Frame
<1>8. \A S : FreshOutcome(S, Ask(i), out)
  BY <1>4 DEF FreshOutcome
<1>9. FreshFrames'
  BY <1>2, <1>3, <1>5, <1>7, <1>8, OneReadFresh DEF Ask
<1> QED  BY <1>2, <1>9, NoFreshCall

LEMMA BodyReadsUntrackedFresh ==
  ASSUME FInv, FreshFrames, SameGround, BodyReadsUntracked
  PROVE  FreshFrames' /\ FreshCall' /\ SplitProbe'
<1>1. /\ stack # <<>> /\ Top.kind = "exec" /\ ctl.op = "run" /\ UNCHANGED ctl
      /\ Top \in Frame /\ Body(Top.key, Top.reads) = [op |-> "untracked", arg |-> Absent]
      /\ ambient \in Outcomes
  BY TopTracked, ConstantsAssumption
     DEF BodyReadsUntracked, Does, Executing, NextStep, FInv, IInv, TypeOK, Outcomes
<1>2. PICK f : f = [Top EXCEPT !.reads = Append(@, ambient), !.untracked = TRUE]
  OBVIOUS
<1>3. f \in Frame /\ f.key = Top.key /\ f.reads = Append(Top.reads, ambient) /\ stack' = ReplaceTop(f)
  <2>1. Append(Top.reads, ambient) \in Seq(Outcomes)
    BY <1>1, AppendRead
  <2> QED  BY <1>1, <1>2, <2>1 DEF Frame, BodyReadsUntracked
<1>4. \A S : FreshOutcome(S, Body(Top.key, Top.reads), ambient)
  BY <1>1 DEF FreshOutcome
<1>5. FreshFrames'
  BY <1>1, <1>3, <1>4, OneReadFresh
<1> QED  BY <1>1, <1>5, NoFreshCall

LEMMA BodyResumesFresh ==
  ASSUME FInv, FreshFrames, InTouch(holder), SameGround, BodyResumes
  PROVE  FreshFrames' /\ FreshCall' /\ SplitProbe'
<1> PICK n : n = ctl.key
  OBVIOUS
<1>1. /\ stack # <<>> /\ Top.kind = "exec" /\ ctl.op = "return" /\ ctl' = Run
      /\ PInv /\ RInv /\ IInv /\ Top \in Frame /\ Tracked(Top) /\ Top.callee = n
  BY TopTracked DEF BodyResumes, FInv
<1>2. /\ n \in Nodes /\ Known(n) /\ ~Failed(n) /\ records[n].snapshot \in Values
      /\ Settled(n, CurrentRequest) /\ n # Absent
  BY <1>1, ReturnedValue, ConstantsAssumption
     DEF RInv, Reading, Answers, IInv, Discipline, CallDiscipline
<1>3. PICK out : out = records[n].snapshot
  OBVIOUS
<1>4. out \in Outcomes /\ out = Outcome(n) /\ Body(Top.key, Top.reads) = Ask(n)
  BY <1>1, <1>2, <1>3 DEF Outcomes, Outcome, Tracked
<1>5. PICK f : f = [Top EXCEPT !.callee = Absent, !.dependencies = @ \cup {n},
                               !.reads = Append(Top.reads, out)]
  OBVIOUS
<1>6. f \in Frame /\ f.key = Top.key /\ f.reads = Append(Top.reads, out) /\ stack' = ReplaceTop(f)
  <2>1. Append(Top.reads, out) \in Seq(Outcomes)
    BY <1>1, <1>4, AppendRead
  <2> QED  BY <1>1, <1>2, <1>3, <1>5, <2>1 DEF Frame, BodyResumes
<1>7. \A S \in SUBSET (Queries \X Values) : Closed(S) => FreshOutcome(S, Ask(n), out)
  BY <1>1, <1>2, <1>4, EdgeIsFresh
<1>8. FreshFrames'
  BY <1>1, <1>4, <1>6, <1>7, OneReadFresh DEF Ask
<1>9. ctl'.op = "run"
  BY <1>1 DEF Run, Call
<1> QED  BY <1>8, <1>9, NoFreshCall

LEMMA BodyCatchesFresh ==
  ASSUME FInv, Repeatable, FreshFrames, FreshCall, SameGround, BodyCatches
  PROVE  FreshFrames' /\ FreshCall' /\ SplitProbe'
<1> DEFINE n == ctl.key
           e == ctl.result
           q == Top.key
           impure == CaughtImpure(q, e)
           unrecorded == n \in Resources /\ ~ctl.recorded
           deps == IF n \in Resources /\ Known(n) THEN {n} ELSE {}
<1>1. /\ stack # <<>> /\ Top.kind = "exec" /\ ctl.op = "raise" /\ ctl' = Run
      /\ RInv /\ IInv /\ Top \in Frame /\ q \in Queries /\ Tracked(Top) /\ Top.callee = n
  BY TopTracked DEF BodyCatches, FInv
<1>2. /\ n \in Queries \cup Resources /\ n \in Nodes /\ n # Absent /\ e \in Exceptions
      /\ e \in Outcomes
  BY <1>1, ConstantsAssumption DEF IInv, Discipline, CallDiscipline, Nodes, Outcomes
<1>3. Body(q, Top.reads) = Ask(n) /\ Top.reads \in Traces
  BY <1>1, <1>2 DEF Tracked, Repeatable, Replayable, Frame
<1>4. PICK f : f = [Top EXCEPT !.callee = Absent, !.reads = Append(@, e),
                               !.untracked = @ \/ impure,
                               !.checkpointable = @ /\ ~impure /\ ~unrecorded,
                               !.dependencies = @ \cup deps]
  OBVIOUS
<1>5. f \in Frame /\ f.key = q /\ f.reads = Append(Top.reads, e)
  <2>1. Append(Top.reads, e) \in Seq(Outcomes) /\ deps \subseteq Nodes
    BY <1>1, <1>2, AppendRead
  <2>2. impure \in BOOLEAN /\ unrecorded \in BOOLEAN
    BY DEF CaughtImpure
  <2> HIDE DEF impure, unrecorded, deps, q
  <2>3. Top.untracked \in BOOLEAN /\ Top.checkpointable \in BOOLEAN
    BY <1>1 DEF Frame
  <2>4. /\ (Top.untracked \/ impure) \in BOOLEAN
        /\ (Top.checkpointable /\ ~impure /\ ~unrecorded) \in BOOLEAN
    BY <2>2, <2>3
  <2> QED  BY <1>1, <1>4, <2>1, <2>4 DEF Frame, q
<1>6. \/ LetsThrough(q, Top.reads, e)
      \/ \A S : FreshOutcome(S, Ask(n), e)
  <2>1. CASE n \in Queries
    BY <1>1, <1>2, <1>3, <2>1 DEF Repeatable, RaiseThrough
  <2>2. CASE n \in Resources /\ e = FreshLoad(world[n])
    BY <2>2 DEF FreshOutcome
  <2>3. CASE n \in Resources /\ e \in Unrecordable(n)
    BY <1>1, <1>3, <2>3 DEF Repeatable, Replayable, LetThrough
  <2> QED  BY <1>1, <1>2, <2>1, <2>2, <2>3 DEF FreshCall
<1>7. stack' = ReplaceTop(f) /\ ctl'.op = "run"
  BY <1>1, <1>4 DEF BodyCatches, Run, Call
<1>8. FreshFrames'
  BY <1>1, <1>2, <1>3, <1>5, <1>6, <1>7, OneReadFresh DEF Ask
<1> QED  BY <1>7, <1>8, NoFreshCall

-----------------------------------------------------------------------------
(* Steps that settle a query.                                               *)

\* A cold evaluation starts from no record of a query or a resource.
LEMMA GroundKept ==
  ASSUME FInv, NEW n \in Queries \cup Resources, NEW rec,
         records' = [records EXCEPT ![n] = rec], UNCHANGED <<world, ambient>>
  PROVE  SameGround
<1>1. \A i \in Inputs : i \in Nodes /\ i # n
  BY ConstantsAssumption DEF Nodes
<1>2. records \in [Nodes -> NodeRecord \cup {Absent}]
  BY DEF FInv, PInv, RInv, IInv, TypeOK
<1>3. \A i \in Inputs : records'[i] = records[i]
  BY <1>1, <1>2
<1> QED  BY <1>3 DEF SameGround, Known

\* A query is settled with a value that a cold evaluation derives.
LEMMA QuerySettled ==
  ASSUME FInv, ctl.op = "run", stack # <<>>, UNCHANGED <<requests, holder, span_epoch, world, ambient>>,
         NEW q \in Queries, NEW rec, rec # Absent, records' = [records EXCEPT ![q] = rec],
         rec.checked_in_request = CurrentRequest, stack' = Pop, ctl'.op = "return",
         FreshFrames /\ InTouch(holder) => Derived(q, rec.snapshot)
  PROVE  Cold'
<1>1. SameScopes /\ SameGround
  BY ScopesUnchanged, GroundKept
<1>2. holder # Absent /\ (InTouch(holder) => FreshFrames)
  <2>1. holder # Absent
    BY DEF FInv, PInv, RInv, IInv, Discipline, LockDiscipline, LockFree
  <2> QED  BY <2>1 DEF FInv, Cold, Evaluating
<1>3. records'[q] = rec
  BY DEF FInv, PInv, RInv, IInv, TypeOK, Nodes
<1>4. InTouch(holder) => FreshRecord(q)'
  BY <1>1, <1>2, <1>3, Grounded DEF FreshRecord
<1>5. SettledFresh' /\ ProbesTell'
  <2>1. q \notin Resources
    BY ConstantsAssumption
  <2> QED  BY <1>1, <1>4, <2>1, OneWritten
<1>6. InTouch(holder) /\ FreshFrames /\ FreshCall => FreshFrames' /\ FreshCall'
  BY <1>1, FramesPopped, NoFreshCall
<1> QED  BY <1>1, <1>5, <1>6, ScopesKept, EvaluationGoesOn, NoFreshCall DEF Cold

LEMMA ReuseQueryFresh ==
  ASSUME FInv, Repeatable, ReuseQuery
  PROVE  Cold'
<1> PICK q : q = Top.key
  OBVIOUS
<1>1. /\ stack # <<>> /\ Top.kind = "verify" /\ Top.pending = {}
      /\ ctl.op = "run" /\ UNCHANGED <<requests, holder, span_epoch, world, ambient>>
      /\ stack' = Pop /\ ctl' = Return(q)
      /\ records' = [records EXCEPT ![q] = Verified(records[q])]
  BY DEF ReuseQuery, Verifying, scopeVars, worldVars
<1>2. /\ PInv /\ RInv /\ IInv /\ q \in Queries /\ q \in Nodes /\ q \notin Resources
      /\ Known(q) /\ Walk(Top) /\ Top.callee = Absent
  BY <1>1, TopIsOpen, ConstantsAssumption DEF FInv, PInv
<1>3. PICK rec : rec = Verified(records[q])
  OBVIOUS
<1>4. /\ rec # Absent /\ rec.snapshot = records[q].snapshot
      /\ rec.checked_in_request = CurrentRequest /\ records[q].snapshot \in Values
  <2>1. records[q] \in NodeRecord /\ rec \in NodeRecord
    BY <1>1, <1>2, <1>3, Facts, VerifiedType
  <2>2. records[q].snapshot \in Values
    BY <1>2, <2>1 DEF IInv, Discipline, RecordDiscipline, NodeRecord
  <2> QED  BY <1>3, <2>1, <2>2, ConstantsAssumption DEF Verified, NodeRecord
<1>5. ASSUME InTouch(holder)
      PROVE  Derived(q, rec.snapshot)
  <2>1. ~records[q].untracked
    BY <1>2 DEF Walk
  <2>2. PICK reads \in Seq(Outcomes) : RecordedRun(q, reads)
    BY <1>2, <2>1 DEF PInv, Replaying, Table, Recorded
  <2>3. Passed(Top) = records[q].dependencies \ {Absent}
    BY <1>1, <1>2 DEF Passed
  <2>4. ASSUME NEW S \in SUBSET (Queries \X Values), Closed(S), NEW k \in 1 .. Len(reads)
        PROVE  FreshOutcome(S, Body(q, Before(reads, k)), reads[k])
    <3>1. PICK n \in records[q].dependencies :
            /\ n \in Nodes /\ Body(q, Before(reads, k)) = Ask(n)
            /\ Known(n) /\ ReadOrDirty(q, n, reads[k])
      BY <2>2 DEF RecordedRun
    <3>2. /\ ~ChangedSince(n, records[q].verified_at)
          /\ n \in Inputs \/ Settled(n, CurrentRequest)
      <4>1. n # Absent
        BY <3>1, ConstantsAssumption
      <4> QED  BY <1>2, <2>3, <3>1, <4>1 DEF Walk
    <3>3. ~Unsure(n)
      <4>1. n \in Resources => Settled(n, CurrentRequest) /\ holder \in Threads
        BY <1>1, <1>2, <3>2, Facts, ConstantsAssumption
      <4>2. n \in Resources => FreshRecord(n) /\ n \notin Queries
        BY <1>5, <4>1, ConstantsAssumption DEF FInv, Cold, SettledFresh, CurrentRequest
      <4> QED  BY <4>2 DEF Unsure, FreshRecord
    <3>4. reads[k] = Outcome(n)
      BY <3>1, <3>2, <3>3 DEF ReadOrDirty, ChangedSince
    <3> QED  BY <1>1, <1>5, <2>4, <3>1, <3>2, <3>4, EdgeIsFresh
  <2>5. Body(q, reads) = Answer(rec.snapshot)
    BY <1>4, <2>2 DEF RecordedRun
  <2>6. \A S \in SUBSET (Queries \X Values) : Closed(S) => FreshTrace(S, q, reads)
    BY <2>4 DEF FreshTrace
  <2> QED  BY <1>2, <1>4, <2>5, <2>6, DerivedByRun DEF Repeatable
<1>6. ctl'.op = "return"
  BY <1>1 DEF Return, Call
<1> QED  BY <1>1, <1>2, <1>3, <1>4, <1>5, <1>6, QuerySettled

LEMMA BodyReturnsFresh ==
  ASSUME FInv, Repeatable, BodyReturns
  PROVE  Cold'
<1>1. PICK v \in Values : Does("return", v) /\ Commit(Top.key, v)
  BY DEF BodyReturns
<1>2. PICK q, reads, edges : q = Top.key /\ reads = Top.reads /\ edges = Top.dependencies
  OBVIOUS
<1> DEFINE rev == CommitRevision(q, v)
           changed == IF KeepsChangedAt(q, v) THEN records[q].changed_at ELSE rev
<1>3. /\ stack # <<>> /\ ctl.op = "run" /\ Top.kind = "exec"
      /\ UNCHANGED <<requests, holder, span_epoch, world, ambient>> /\ stack' = Pop
      /\ ctl' = Return(q) /\ Body(q, reads) = Answer(v)
  BY <1>1, <1>2 DEF BodyReturns, Does, Executing, NextStep, Answer, Commit, scopeVars, worldVars
<1>4. /\ PInv /\ IInv /\ IInv' /\ q \in Queries /\ q \in Nodes /\ reads \in Seq(Outcomes)
      /\ Top \in Frame /\ Len(stack) \in 1 .. Len(stack)
  BY <1>2, <1>3, TopIsOpen, TopTracked, StackHeight, BodyReturnsPreserves
     DEF FInv, PInv, RInv, Frame
<1>5. PICK rec : rec = [NewRecord(v, changed, rev, CurrentRequest)
                          EXCEPT !.dependencies = edges, !.untracked = Top.untracked,
                                 !.checkpointable = Top.checkpointable]
  OBVIOUS
<1>6. records' = [records EXCEPT ![q] = rec]
  BY <1>1, <1>2, <1>5 DEF Commit, Edges
<1>7. rec.snapshot = v /\ rec.checked_in_request = CurrentRequest
  <2> HIDE DEF changed, rev
  <2> QED  BY <1>5 DEF NewRecord
<1>8. ctl'.op = "return" /\ ctl'.key = q
  BY <1>3 DEF Return, Call
<1>9. rec # Absent
  BY <1>4, <1>6, <1>8 DEF IInv, TypeOK, Discipline, CallDiscipline, Known
<1>10. ASSUME FreshFrames
       PROVE  Derived(q, rec.snapshot)
  <2>1. FreshFrame(Top)
    BY <1>4, <1>10 DEF FreshFrames, Top
  <2>2. \A S \in SUBSET (Queries \X Values) : Closed(S) => FreshTrace(S, q, reads)
    BY <1>2, <1>3, <2>1 DEF FreshFrame, Answer
  <2>3. Derived(q, v)
    BY <1>3, <1>4, <2>2, DerivedByRun DEF Repeatable
  <2> QED  BY <1>7, <2>3
<1> HIDE DEF changed, rev
<1> QED  BY <1>3, <1>4, <1>6, <1>7, <1>8, <1>9, <1>10, QuerySettled

-----------------------------------------------------------------------------
(* Steps of a hook.                                                         *)

\* The hook of r settles it with what a cold load yields.
LEMMA ResourceSettled ==
  ASSUME FInv, NEW r, r = ctl.key,
         ctl.op \in {"observe", "load", "split_load", "failure_probe"}, SameScopes,
         UNCHANGED <<stack, world, ambient>>,
         NEW rec, rec # Absent, records' = [records EXCEPT ![r] = rec],
         rec.checked_in_request = CurrentRequest, ~rec.probe_unconfirmed,
         rec.failure = Absent => rec.probe \notin Refusing /\ rec.snapshot = LoadOf(rec.probe),
         InTouch(holder) /\ FreshCall =>
           /\ (IF rec.failure # Absent THEN rec.failure ELSE rec.snapshot) = LoadOf(world[r])
           /\ world[r] \notin Refusing \cup Unprobeable,
         \/ ctl'.op = "return"
         \/ ctl'.op = "raise" /\ ctl'.key = r /\ rec.failure # Absent /\ ctl'.result = rec.failure
  PROVE  Cold'
<1>1. IInv /\ r \in Resources /\ r \notin Queries /\ r \in Nodes /\ ctl.op # "idle"
  BY HookFacts, ConstantsAssumption DEF FInv, PInv, RInv
<1>2. SameGround /\ records'[r] = rec
  BY <1>1, GroundKept DEF IInv, TypeOK
<1>3. InTouch(holder) => FreshCall /\ FreshFrames
  <2>1. holder # Absent
    BY <1>1 DEF IInv, Discipline, LockDiscipline, LockFree
  <2> QED  BY <2>1 DEF FInv, Cold, Evaluating
<1>4. InTouch(holder) => FreshRecord(r)'
  BY <1>1, <1>2, <1>3 DEF FreshRecord, Outcome, Failed, FreshLoad
<1>5. SettledFresh' /\ ProbesTell'
  BY <1>1, <1>2, <1>4, OneWritten
<1>6. InTouch(holder) => FreshCall'
  BY <1>1, <1>3 DEF FreshCall, FreshLoad
<1>7. SplitProbe'
  BY DEF SplitProbe
<1>8. InTouch(holder) => FreshFrames'
  BY <1>2, <1>3, FramesKept
<1> QED  BY <1>5, <1>6, <1>7, <1>8, ScopesKept, EvaluationGoesOn DEF Cold

LEMMA ReuseOnProbeHitFresh ==
  ASSUME FInv, NEW r, r = ctl.key,
         ctl.op \in {"observe", "load", "split_load", "failure_probe"},
         UNCHANGED <<stack, holder, span_epoch, world, ambient>>,
         ProbeHit(r, world[r]), ReuseOnProbeHit(r)
  PROVE  Cold'
<1>1. /\ IInv /\ r \in Resources /\ r \in Nodes /\ ctl.op # "idle" /\ Known(r) /\ ~Failed(r)
      /\ ~records[r].probe_unconfirmed /\ records[r].probe = world[r] /\ world[r] \in World
  BY HookFacts DEF FInv, PInv, RInv, ProbeHit, ProbeProves
<1>2. PICK rec : rec = Verified(records[r])
  OBVIOUS
<1>3. /\ rec # Absent /\ rec.snapshot = records[r].snapshot /\ rec.failure = Absent
      /\ rec.probe = world[r] /\ ~rec.probe_unconfirmed
      /\ rec.checked_in_request = CurrentRequest /\ records[r].snapshot \in Values
  <2>1. records[r] \in NodeRecord /\ rec \in NodeRecord
    BY <1>1, <1>2, Facts, VerifiedType
  <2>2. records[r].snapshot \in Values
    BY <1>1, <2>1 DEF IInv, Discipline, RecordDiscipline, NodeRecord
  <2> QED  BY <1>1, <1>2, <2>1, <2>2, ConstantsAssumption DEF Verified, NodeRecord, Failed
<1>4. world[r] \notin Refusing \cup Unprobeable /\ rec.snapshot = LoadOf(world[r])
  <2>1. world[r] \notin Refusing /\ records[r].snapshot = LoadOf(world[r])
    BY <1>1 DEF FInv, Cold, ProbesTell
  <2> QED  BY <1>3, <2>1, ConstantsAssumption
<1>5. records' = [records EXCEPT ![r] = rec] /\ ctl'.op = "return" /\ SameScopes
  BY <1>2, ScopesUnchanged DEF ReuseOnProbeHit, Return, Call
<1> QED  BY <1>3, <1>4, <1>5, ResourceSettled

LEMMA RecordLoadFresh ==
  ASSUME FInv, NEW r, r = ctl.key,
         ctl.op \in {"observe", "load", "split_load", "failure_probe"},
         UNCHANGED <<stack, holder, span_epoch, world, ambient>>,
         IInv', world[r] \notin Refusing, LoadOf(world[r]) \in Values,
         RecordLoad(r, world[r], LoadOf(world[r]))
  PROVE  Cold'
<1> DEFINE rev == LoadRevision(r)
<1>1. IInv /\ r \in Resources /\ r \in Nodes /\ world[r] \in World
  BY HookFacts DEF FInv, PInv, RInv
<1>2. PICK v, p : v = LoadOf(world[r]) /\ p = world[r]
  OBVIOUS
<1>3. PICK rec : rec = [NewRecord(v, rev, rev, CurrentRequest) EXCEPT !.probe = p]
  OBVIOUS
<1>4. /\ rec.failure = Absent /\ rec.snapshot = v /\ rec.probe = p
      /\ rec.checked_in_request = CurrentRequest /\ rec.probe_unconfirmed = FALSE
  <2> HIDE DEF rev
  <2> QED  BY <1>3 DEF NewRecord
<1>5. /\ records' = [records EXCEPT ![r] = rec] /\ UNCHANGED requests
      /\ ctl'.op = "return" /\ ctl'.key = r
  BY <1>2, <1>3 DEF RecordLoad, Return, Call
<1>6. rec # Absent
  BY <1>1, <1>5 DEF IInv, TypeOK, Discipline, CallDiscipline, Known
<1>7. world[r] \notin Refusing \cup Unprobeable
  BY <1>1, ConstantsAssumption
<1> HIDE DEF rev
<1> QED  BY <1>2, <1>4, <1>5, <1>6, <1>7, ScopesUnchanged, ResourceSettled

LEMMA RecordFailureFresh ==
  ASSUME FInv, NEW r, r = ctl.key,
         ctl.op \in {"observe", "load", "split_load", "failure_probe"},
         UNCHANGED <<stack, holder, span_epoch, world, ambient>>,
         NEW p \in World, NEW e \in Exceptions, RecordFailure(r, p, e),
         InTouch(holder) /\ FreshCall =>
           e = LoadOf(world[r]) /\ world[r] \notin Refusing \cup Unprobeable
  PROVE  Cold'
<1> DEFINE rev == IF ~Known(r) \/ FailureUnchanged(r, p) THEN revision ELSE revision + 1
           changed == IF FailureUnchanged(r, p) THEN records[r].changed_at ELSE rev
<1>1. /\ IInv /\ r \in Resources /\ r \in Nodes /\ ctl.op # "idle" /\ holder \in Threads
      /\ revision \in Nat /\ e # Absent
  BY HookFacts, Facts, ConstantsAssumption DEF FInv, PInv, RInv, IInv, TypeOK, Outcomes
<1>2. PICK rec : rec = [NewRecord(Absent, changed, rev, CurrentRequest)
                          EXCEPT !.probe = p, !.failure = e, !.retained = TRUE]
  OBVIOUS
<1>3. /\ rec.failure = e /\ rec.probe_unconfirmed = FALSE
      /\ rec.checked_in_request = CurrentRequest
  <2> HIDE DEF changed, rev
  <2> QED  BY <1>2 DEF NewRecord
<1>4. /\ records' = [records EXCEPT ![r] = rec]
      /\ requests' = [requests EXCEPT ![holder].failures = @ \cup {r}]
      /\ ctl'.op = "raise" /\ ctl'.key = r /\ ctl'.result = e
  BY <1>2 DEF RecordFailure, Raise
<1>5. rec # Absent
  <2>1. rev \in Nat /\ changed \in Nat /\ CurrentRequest \in Int
    <3>1. Known(r) => records[r].changed_at \in Nat
      BY <1>1, Facts DEF NodeRecord
    <3> QED  BY <1>1, <3>1, Facts DEF FailureUnchanged
  <2> HIDE DEF changed, rev
  <2>2. rec \in NodeRecord
    BY <1>1, <1>2, <2>1 DEF NewRecord, NodeRecord
  <2> QED  BY <2>2, ConstantsAssumption
<1>6. SameScopes
  <2>1. /\ requests[holder] \in RequestScope
        /\ requests \in [Threads -> RequestScope \cup {Absent}] /\ Absent \notin RequestScope
    BY <1>1, Facts, ConstantsAssumption DEF IInv, TypeOK
  <2>2. PICK sc : sc = [requests[holder] EXCEPT !.failures = @ \cup {r}]
    OBVIOUS
  <2>3. /\ sc \in RequestScope /\ sc.request_id = requests[holder].request_id
        /\ sc.span = requests[holder].span /\ sc.moved = requests[holder].moved
        /\ sc.span_epoch_seen = requests[holder].span_epoch_seen
    BY <1>1, <2>1, <2>2 DEF RequestScope
  <2>4. requests' = [requests EXCEPT ![holder] = sc]
    BY <1>4, <2>2
  <2>5. requests' \in [Threads -> RequestScope \cup {Absent}]
    BY <2>1, <2>3, <2>4
  <2> QED  BY <1>1, <2>1, <2>3, <2>4, <2>5 DEF SameScopes, SameRequests
<1> HIDE DEF changed, rev
<1> QED  BY <1>1, <1>3, <1>4, <1>5, <1>6, ResourceSettled

\* A load that leaves no record of this attempt: no request has settled r.
LEMMA RaiseUnrecordedFresh ==
  ASSUME FInv, NEW r, r = ctl.key,
         ctl.op \in {"observe", "load", "split_load", "failure_probe"},
         UNCHANGED <<stack, holder, span_epoch, world, ambient>>,
         NEW e, RaiseUnrecorded(r, e), world[r] \in Refusing \cup Unprobeable,
         InTouch(holder) /\ FreshCall => e = FreshLoad(world[r]) \/ e \in Unrecordable(r)
  PROVE  Cold'
<1>1. IInv /\ r \in Resources /\ r \in Nodes /\ r \notin Queries /\ ctl.op # "idle"
  BY HookFacts, ConstantsAssumption DEF FInv, PInv, RInv
<1>2. /\ ctl'.op = "raise" /\ ctl'.key = r /\ ctl'.result = e /\ UNCHANGED requests
  BY DEF RaiseUnrecorded, Raise
<1>3. SameScopes
  BY <1>2, ScopesUnchanged
<1>4. PICK rec : rec = IF Known(r) THEN [records[r] EXCEPT !.probe_unconfirmed = TRUE] ELSE Absent
  OBVIOUS
<1>5. records' = [records EXCEPT ![r] = rec]
  <2>1. CASE Known(r)
    BY <1>4, <2>1 DEF RaiseUnrecorded
  <2>2. CASE ~Known(r)
    <3>1. records \in [Nodes -> NodeRecord \cup {Absent}] /\ records[r] = rec /\ UNCHANGED records
      BY <1>1, <1>4, <2>2 DEF RaiseUnrecorded, Known, IInv, TypeOK
    <3> QED  BY <1>1, <3>1
  <2> QED  BY <2>1, <2>2
<1>6. Known(r) => /\ rec # Absent /\ rec.failure = records[r].failure
                  /\ rec.snapshot = records[r].snapshot /\ rec.probe = records[r].probe
                  /\ rec.retained = records[r].retained
                  /\ rec.checked_in_request = records[r].checked_in_request
  <2> SUFFICES ASSUME Known(r)
               PROVE  /\ rec # Absent /\ rec.failure = records[r].failure
                      /\ rec.snapshot = records[r].snapshot /\ rec.probe = records[r].probe
                      /\ rec.retained = records[r].retained
                      /\ rec.checked_in_request = records[r].checked_in_request
    OBVIOUS
  <2>1. records[r] \in NodeRecord
    BY <1>1, Facts
  <2>2. rec \in NodeRecord
    BY <1>4, <2>1 DEF NodeRecord
  <2> QED  BY <1>4, <2>1, <2>2, ConstantsAssumption DEF NodeRecord
<1>7. SameGround
  BY <1>1, <1>5, GroundKept
<1>8. /\ records'[r] = rec
      /\ \A n \in Queries \cup Resources : n # r => records'[n] = records[n]
  BY <1>1, <1>5 DEF IInv, TypeOK, Nodes
<1>9. Known(r)' <=> Known(r)
  BY <1>4, <1>6, <1>8 DEF Known
<1>10. ProbesTell'
  BY <1>6, <1>8, <1>9 DEF FInv, Cold, ProbesTell, Known, Failed
<1>11. SettledFresh'
  <2> SUFFICES ASSUME NEW t \in Threads, InTouch(t)', NEW n \in Queries \cup Resources,
                      Settled(n, requests[t].request_id)'
               PROVE  FreshRecord(n)'
    BY DEF SettledFresh
  <2>1. InTouch(t) /\ requests'[t].request_id = requests[t].request_id
    BY <1>3, ScopesKept
  <2>2. Settled(n, requests[t].request_id)
    <3>1. CASE n = r
      BY <1>6, <1>8, <1>9, <2>1, <3>1 DEF Settled, Known, Failed
    <3>2. CASE n # r
      BY <1>8, <2>1, <3>2 DEF Settled, Known, Failed
    <3> QED  BY <3>1, <3>2
  <2>3. FreshRecord(n)
    BY <2>1, <2>2 DEF FInv, Cold, SettledFresh
  <2>4. n # r /\ records'[n] = records[n]
    BY <1>1, <1>8, <2>3 DEF FreshRecord
  <2>5. \A v : Derived(n, v)' <=> Derived(n, v)
    BY <1>7, Grounded
  <2>6. n \in Queries => FreshRecord(n)'
    BY <2>3, <2>4, <2>5 DEF FreshRecord
  <2>7. n \notin Queries => FreshRecord(n)'
    BY <2>3, <2>4 DEF FreshRecord, Outcome, Failed
  <2> QED  BY <2>6, <2>7
<1>12. InTouch(holder) /\ FreshFrames /\ FreshCall => FreshFrames' /\ FreshCall'
  <2>1. FreshFrames => FreshFrames'
    BY <1>7, FramesKept
  <2>2. Unrecordable(r)' = Unrecordable(r)
    BY DEF Unrecordable, Failures
  <2>3. InTouch(holder) /\ FreshCall => FreshCall'
    BY <1>1, <1>2, <2>2 DEF FreshCall, FreshLoad
  <2> QED  BY <2>1, <2>3
<1>13. SplitProbe'
  BY <1>2 DEF SplitProbe
<1> QED  BY <1>3, <1>10, <1>11, <1>12, <1>13, ScopesKept, EvaluationGoesOn DEF Cold

\* The hook has looked, and is not done.
LEMMA LookAgainFresh ==
  ASSUME FInv, UNCHANGED <<records, requests, stack, holder, span_epoch, world, ambient>>,
         InTouch(holder) /\ FreshCall => FreshCall', SplitProbe'
  PROVE  Cold'
<1>1. SameScopes
  BY ScopesUnchanged
<1>2. Scopes' /\ SettledFresh' /\ ProbesTell' /\ SameGround
  BY <1>1, ColdTableKept
<1>3. FreshFrames => FreshFrames'
  BY <1>2, FramesKept
<1> QED  BY <1>1, <1>2, <1>3, EvaluationGoesOn DEF Cold

LEMMA ObserveResourceFresh ==
  ASSUME FInv, ObserveResource
  PROVE  Cold'
<1> PICK r : r = ctl.key
  OBVIOUS
<1> DEFINE w == world[r]
           settled == Known(r) /\ SettledInRequest(r)
           answers == settled /\ (~Failed(r) \/ records[r].retained)
<1>1. /\ RInv /\ IInv /\ ctl.op = "observe" /\ r \in Resources /\ r \notin Queries /\ w \in World
      /\ UNCHANGED <<stack, holder, span_epoch, world, ambient>>
  BY HookFacts, ConstantsAssumption
     DEF FInv, PInv, RInv, ObserveResource, scopeVars, worldVars
<1>2. CASE /\ answers /\ Failed(r) /\ UNCHANGED <<records, requests>>
           /\ ctl' = Raise(r, records[r].failure, TRUE)
  <2>1. ctl'.op = "raise" /\ ctl'.key = r /\ ctl'.result = records[r].failure
    BY <1>2 DEF Raise
  <2>2. Settled(r, CurrentRequest) /\ holder \in Threads
    BY <1>1, <1>2, Facts DEF Settled, SettledInRequest
  <2>3. InTouch(holder) => records[r].failure = FreshLoad(world[r])
    BY <1>1, <1>2, <2>2 DEF FInv, Cold, SettledFresh, FreshRecord, Outcome, CurrentRequest
  <2>4. InTouch(holder) /\ FreshCall => FreshCall'
    BY <1>1, <2>1, <2>3 DEF FreshCall, FreshLoad
  <2>5. SplitProbe'
    BY <2>1 DEF SplitProbe
  <2> QED  BY <1>1, <1>2, <2>4, <2>5, LookAgainFresh
<1>3. CASE UNCHANGED <<records, requests>> /\
           (ctl' = Return(r) \/ ctl' = [ctl EXCEPT !.op = "load"])
  <2>1. ctl'.op \in {"return", "load"}
    BY <1>1, <1>3 DEF Return, Call, IInv, TypeOK, Control
  <2> QED  BY <1>1, <1>3, <2>1, NoFreshCall, LookAgainFresh
<1>4. CASE /\ r \in Split /\ w \notin Unprobeable /\ UNCHANGED <<records, requests>>
           /\ ctl' = [ctl EXCEPT !.op = "split_load", !.probe = w]
  <2>1. ctl'.op = "split_load" /\ ctl'.probe = w /\ ctl'.key = r
    BY <1>1, <1>4 DEF IInv, TypeOK, Control
  <2>2. FreshCall' /\ SplitProbe'
    BY <1>4, <2>1 DEF FreshCall, SplitProbe
  <2> QED  BY <1>1, <1>4, <2>2, LookAgainFresh
<1>5. CASE w \in Unprobeable /\ RaiseUnrecorded(r, LoadOf(w))
  <2>1. LoadOf(w) \in Unrecordable(r)
    BY <1>5 DEF Unrecordable
  <2> QED  BY <1>1, <1>5, <2>1, RaiseUnrecordedFresh
<1>6. CASE ProbeHit(r, w) /\ ReuseOnProbeHit(r)
  BY <1>1, <1>6, ReuseOnProbeHitFresh
<1> QED  BY <1>2, <1>3, <1>4, <1>5, <1>6 DEF ObserveResource

LEMMA ProbeAndLoadFresh ==
  ASSUME FInv, ProbeAndLoad
  PROVE  Cold'
<1> PICK r : r = ctl.key
  OBVIOUS
<1> DEFINE w == world[r]
           out == LoadOf(w)
<1>1. /\ IInv /\ IInv' /\ ctl.op = "load" /\ r \in Resources /\ w \in World
      /\ UNCHANGED <<stack, holder, span_epoch, world, ambient>>
  BY HookFacts, ProbeAndLoadPreserves DEF FInv, PInv, RInv, ProbeAndLoad, scopeVars, worldVars
<1>2. CASE w \in Refusing /\ RaiseUnrecorded(r, "ReentrantDatabaseError")
  <2>1. FreshLoad(world[r]) = "ReentrantDatabaseError"
    BY <1>2 DEF FreshLoad
  <2> QED  BY <1>1, <1>2, <2>1, RaiseUnrecordedFresh
<1>3. CASE /\ w \notin Refusing /\ out \in Exceptions
           /\ ctl' = [ctl EXCEPT !.op = "failure_probe", !.result = out]
           /\ UNCHANGED <<records, requests>>
  <2>1. ctl'.op = "failure_probe" /\ ctl'.key = r /\ ctl'.result = out
    BY <1>1, <1>3 DEF IInv, TypeOK, Control
  <2>2. FreshCall' /\ SplitProbe'
    BY <1>1, <1>3, <2>1 DEF FreshCall, SplitProbe
  <2> QED  BY <1>1, <1>3, <2>2, LookAgainFresh
<1>4. CASE ProbeHit(r, w) /\ ReuseOnProbeHit(r)
  BY <1>1, <1>4, ReuseOnProbeHitFresh
<1>5. CASE w \notin Refusing /\ out \in Values /\ RecordLoad(r, w, out)
  BY <1>1, <1>5, RecordLoadFresh
<1> QED  BY <1>2, <1>3, <1>4, <1>5 DEF ProbeAndLoad

LEMMA ObserveFailureProbeFresh ==
  ASSUME FInv, ObserveFailureProbe
  PROVE  Cold'
<1> PICK r, e : r = ctl.key /\ e = ctl.result
  OBVIOUS
<1> DEFINE w == world[r]
<1>1. /\ IInv /\ ctl.op = "failure_probe" /\ r \in Resources /\ w \in World /\ e \in Exceptions
      /\ UNCHANGED <<stack, holder, span_epoch, world, ambient>>
  BY HookFacts DEF FInv, PInv, RInv, IInv, Discipline, CallDiscipline,
                   ObserveFailureProbe, scopeVars, worldVars
<1>2. FreshCall => world[r] \notin Refusing /\ e = LoadOf(world[r])
  BY <1>1 DEF FreshCall
<1>3. CASE w \in Unprobeable /\ RaiseUnrecorded(r, e)
  <2>1. LoadOf(w) \in Unrecordable(r)
    BY <1>3 DEF Unrecordable
  <2> QED  BY <1>1, <1>2, <1>3, <2>1, RaiseUnrecordedFresh
<1>4. CASE w \notin Unprobeable /\ RecordFailure(r, w, e)
  BY <1>1, <1>2, <1>4, RecordFailureFresh
<1> QED  BY <1>3, <1>4 DEF ObserveFailureProbe

LEMMA SplitLoadFresh ==
  ASSUME FInv, Repeatable, SplitLoad
  PROVE  Cold'
<1> PICK r : r = ctl.key
  OBVIOUS
<1> DEFINE w == world[r]
           out == LoadOf(w)
<1>1. /\ IInv /\ IInv' /\ ctl.op = "split_load" /\ r \in Resources /\ w \in World
      /\ UNCHANGED <<stack, holder, span_epoch, world, ambient>>
  BY HookFacts, SplitLoadPreserves DEF FInv, PInv, RInv, SplitLoad, scopeVars, worldVars
<1>2. ctl.probe = w /\ w \notin Unprobeable
  BY <1>1 DEF FInv, Cold, SplitProbe, PInv, Replaying, Hooks, Repeatable
<1>3. CASE w \in Refusing /\ RaiseUnrecorded(r, "ReentrantDatabaseError")
  <2>1. FreshLoad(world[r]) = "ReentrantDatabaseError"
    BY <1>3 DEF FreshLoad
  <2> QED  BY <1>1, <1>3, <2>1, RaiseUnrecordedFresh
<1>4. CASE w \notin Refusing /\ out \in Exceptions /\ RecordFailure(r, w, out)
  BY <1>1, <1>2, <1>4, RecordFailureFresh
<1>5. CASE w \notin Refusing /\ out \in Values /\ RecordLoad(r, w, out)
  BY <1>1, <1>5, RecordLoadFresh
<1> QED  BY <1>2, <1>3, <1>4, <1>5 DEF SplitLoad

-----------------------------------------------------------------------------
(* Callers and the world.                                                   *)

\* Nothing runs, and nothing but a settled value is answered.
LEMMA QuietFresh ==
  ASSUME FInv, Scopes', \A t \in Threads : Keeps(t), \A n \in Queries \cup Resources : Lapses(n),
         stack' = <<>>,
         \/ ctl'.op \in {"idle", "ensure", "observe"}
         \/ ctl'.op = "answer" /\ ctl'.result = Absent
  PROVE  Cold'
<1>1. Len(stack') = 0
  OBVIOUS
<1>2. FreshFrames' /\ SplitProbe'
  BY <1>1 DEF FreshFrames, SplitProbe
<1>3. Absent \notin Values
  BY ConstantsAssumption DEF Outcomes
<1>4. FreshCall'
  BY <1>3 DEF FreshCall
<1> QED  BY <1>2, <1>4, NothingWritten DEF Cold, Evaluating

LEMMA DeliverFresh ==
  ASSUME FInv, Deliver
  PROVE  Cold'
<1> PICK n : n = ctl.key
  OBVIOUS
<1>1. /\ stack = <<>> /\ ctl.op \in {"return", "raise"}
      /\ UNCHANGED <<records, requests, stack, holder, span_epoch, world, ambient>>
  BY DEF Deliver, scopeVars, worldVars
<1>2. /\ RInv /\ IInv /\ ctl \in Control /\ n \in Queries \cup Resources /\ holder \in Threads
  BY <1>1, Facts DEF FInv, PInv, RInv, IInv, TypeOK, Discipline, CallDiscipline
<1>3. /\ ctl'.op = "answer" /\ ctl'.key = n
      /\ ctl'.result = IF ctl.op = "raise" THEN ctl.result ELSE records[n].snapshot
  BY <1>2 DEF Deliver, Control
<1>4. CASE ctl.op = "raise"
  <2>1. ctl.result \notin Values
    BY <1>2, <1>4, ConstantsAssumption DEF IInv, Discipline, CallDiscipline
  <2>2. FreshCall' /\ SplitProbe'
    BY <1>3, <1>4, <2>1 DEF FreshCall, SplitProbe
  <2> QED  BY <1>1, <2>2, LookAgainFresh
<1>5. CASE ctl.op = "return"
  <2>1. Settled(n, CurrentRequest) /\ ~Failed(n)
    BY <1>2, <1>5 DEF RInv, Reading, Answers, IInv, Discipline, CallDiscipline
  <2>2. InTouch(holder) => FreshRecord(n)
    BY <1>2, <2>1 DEF FInv, Cold, SettledFresh, CurrentRequest
  <2>3. PICK v : v = records[n].snapshot
    OBVIOUS
  <2>4. ctl'.result = v
    BY <1>3, <1>5, <2>3
  <2>5. InTouch(holder) => IF n \in Queries THEN Derived(n, v) ELSE v = FreshLoad(world[n])
    BY <2>1, <2>2, <2>3 DEF FreshRecord, Outcome
  <2>6. Derived(n, v)' <=> Derived(n, v)
    BY <1>1, Grounded DEF SameGround, Known
  <2>7. InTouch(holder) => FreshCall'
    BY <1>1, <1>3, <2>4, <2>5, <2>6 DEF FreshCall, FreshLoad
  <2>8. SplitProbe'
    BY <1>3 DEF SplitProbe
  <2> QED  BY <1>1, <2>7, <2>8, LookAgainFresh
<1> QED  BY <1>1, <1>4, <1>5

\* The end of a request drops exceptions and no answer.
LEMMA ReleasedLapses ==
  ASSUME FInv, Repeatable, NEW F, records' = Released(F), UNCHANGED <<world, ambient>>
  PROVE  SameGround /\ \A n \in Queries \cup Resources : Lapses(n)
<1>1. IInv /\ Evicted = {}
  BY DEF FInv, PInv, RInv, Repeatable, Replayable, Evicted, Surplus
<1>2. ASSUME NEW n \in Nodes
      PROVE  Lapses(n) /\ (Known(n)' <=> Known(n))
  <2>1. CASE records'[n] = records[n]
    BY <2>1 DEF Lapses, Known
  <2>2. CASE Known(n) /\ records'[n] = [records[n] EXCEPT !.retained = FALSE]
    <3>1. PICK rec : rec = [records[n] EXCEPT !.retained = FALSE]
      OBVIOUS
    <3>2. records[n] \in NodeRecord
      BY <1>1, <2>2, Facts
    <3>3. rec \in NodeRecord /\ rec # Absent
      <4>1. rec \in NodeRecord
        BY <3>1, <3>2 DEF NodeRecord
      <4> QED  BY <4>1, ConstantsAssumption
    <3> QED  BY <2>2, <3>1, <3>2, <3>3 DEF Known, Lapses, NodeRecord
  <2>3. records'[n] = records[n] \/ (Known(n) /\ records'[n] = [records[n] EXCEPT !.retained = FALSE])
    BY <1>1 DEF Released, Known
  <2> QED  BY <2>1, <2>2, <2>3
<1>3. \A n \in Queries \cup Resources : Lapses(n)
  BY <1>2 DEF Nodes
<1>4. SameGround
  BY <1>2 DEF SameGround, Lapses, Nodes
<1> QED  BY <1>3, <1>4

LEMMA FinishFresh ==
  ASSUME FInv, Repeatable, Finish
  PROVE  Cold'
<1>1. /\ IInv /\ stack' = <<>> /\ ctl'.op = "idle" /\ holder' = Absent
      /\ UNCHANGED <<span_epoch, world, ambient>>
      /\ holder \in Threads /\ requests[holder] # Absent
  BY Facts, ConstantsAssumption
     DEF FInv, PInv, RInv, IInv, Discipline, LockDiscipline, Finish, Idle, Call, worldVars, LockFree
<1>2. /\ requests \in [Threads -> RequestScope \cup {Absent}]
  BY <1>1 DEF IInv, TypeOK
<1>3. /\ SameGround /\ \A n \in Queries \cup Resources : Lapses(n)
  <2>1. CASE UNCHANGED records
    BY <1>1, <2>1 DEF SameGround, Lapses, Known
  <2>2. CASE \E F : records' = Released(F)
    BY <1>1, <2>2, ReleasedLapses
  <2> QED  BY <2>1, <2>2 DEF Finish, EndRequest
<1>4. \A t \in Threads : requests'[t] # Absent => requests'[t] = requests[t] /\ requests[t].span
  <2>1. \A t \in Threads : t # holder /\ requests[t] # Absent => requests[t].span
    BY DEF FInv, Cold, Scopes
  <2>2. CASE requests[holder].span
    BY <1>1, <2>1, <2>2 DEF Finish
  <2>3. CASE requests' = [requests EXCEPT ![holder] = Absent]
    BY <1>1, <1>2, <2>1, <2>3
  <2> QED  BY <2>2, <2>3 DEF Finish, EndRequest
<1>5. Scopes'
  BY <1>1, <1>4 DEF FInv, Cold, Scopes
<1>6. \A t \in Threads : Keeps(t)
  BY <1>1, <1>3, <1>4 DEF Keeps, InTouch, SpanIsBehind
<1> QED  BY <1>1, <1>3, <1>5, <1>6, QuietFresh

\* A request that is opened, or that joins its span.
LEMMA BeginFresh ==
  ASSUME FInv, NEW t \in Threads, NEW op \in {"ensure", "observe", "answer"}, NEW n, Begin(t, op, n)
  PROVE  Cold'
<1>1. /\ IInv /\ holder = Absent /\ holder' = t /\ stack' = <<>>
      /\ UNCHANGED <<records, span_epoch, world, ambient>>
      /\ requests' = [requests EXCEPT ![t] = SyncedRequest(t)]
      /\ ctl'.op = op /\ ctl'.result = Absent
  BY DEF FInv, PInv, RInv, IInv, Discipline, LockDiscipline, Begin, LockFree, EnterRequest, Call,
         worldVars
<1>2. /\ requests \in [Threads -> RequestScope \cup {Absent}] /\ Absent \notin RequestScope
      /\ request_counter \in Nat /\ span_epoch \in Nat /\ t # Absent
  BY <1>1, ConstantsAssumption DEF IInv, TypeOK
<1>3. /\ \A u \in Threads : requests[u] # Absent =>
           requests[u].span /\ requests[u].span_epoch_seen <= span_epoch
  BY <1>1, ConstantsAssumption DEF FInv, Cold, Scopes
<1>4. PICK sc : sc = SyncedRequest(t)
  OBVIOUS
<1>5. /\ requests'[t] = sc /\ \A u \in Threads : u # t => requests'[u] = requests[u]
  BY <1>1, <1>2, <1>4
<1>6. /\ sc.span_epoch_seen <= span_epoch /\ (sc.span => sc.span_epoch_seen = span_epoch)
      /\ \/ sc.request_id = request_counter + 1
         \/ sc = requests[t] /\ requests[t] # Absent /\ ~SpanIsBehind(t)
  <2>1. CASE requests[t] = Absent
    BY <1>2, <1>4, <2>1 DEF SyncedRequest
  <2>2. CASE requests[t] # Absent /\ SpanIsBehind(t)
    <3>1. requests[t] \in RequestScope
      BY <1>2, <2>2
    <3>2. /\ sc.request_id = request_counter + 1 /\ sc.span_epoch_seen = span_epoch
      BY <1>4, <2>2, <3>1 DEF SyncedRequest, RequestScope
    <3> QED  BY <1>2, <3>2
  <2>3. CASE requests[t] # Absent /\ ~SpanIsBehind(t)
    <3>1. sc = requests[t]
      BY <1>4, <2>3 DEF SyncedRequest
    <3>2. requests[t].span => requests[t].span_epoch_seen = span_epoch
      BY <2>3 DEF SpanIsBehind
    <3> QED  BY <1>3, <2>3, <3>1, <3>2
  <2> QED  BY <2>1, <2>2, <2>3
<1>7. Scopes'
  <2>1. \A u \in Threads : requests'[u] # Absent =>
          (u # t => requests'[u].span) /\ requests'[u].span_epoch_seen <= span_epoch
    BY <1>3, <1>5, <1>6
  <2>2. sc.span => sc.span_epoch_seen = span_epoch
    BY <1>6
  <2> QED  BY <1>1, <1>5, <2>1, <2>2 DEF Scopes, SpanIsBehind
<1>8. ASSUME NEW u \in Threads
      PROVE  Keeps(u)
  <2>1. SameGround
    BY <1>1 DEF SameGround, Known
  <2>2. CASE requests'[u] = requests[u]
    BY <1>1, <2>1, <2>2 DEF Keeps, InTouch, SpanIsBehind
  <2>3. CASE u = t /\ sc.request_id = request_counter + 1
    BY <1>2, <1>5, <2>3 DEF Keeps
  <2> QED  BY <1>5, <1>6, <2>2, <2>3
<1>9. \A m : Lapses(m)
  BY <1>1 DEF Lapses, Known
<1> QED  BY <1>1, <1>7, <1>8, <1>9, QuietFresh

\* A change overtakes every open request but the one that gets a new id.
LEMMA RolledFresh ==
  ASSUME FInv, LockFree, NEW t \in Threads, RollSpanRequest(t),
         \A n \in Queries \cup Resources : Lapses(n), UNCHANGED <<stack, ctl, holder>>
  PROVE  Cold'
<1>1. /\ IInv /\ holder = Absent /\ stack' = <<>> /\ ctl'.op = "idle" /\ span_epoch' = span_epoch + 1
  BY DEF FInv, PInv, RInv, IInv, Discipline, LockDiscipline, LockFree, RollSpanRequest
<1>2. /\ requests \in [Threads -> RequestScope \cup {Absent}] /\ Absent \notin RequestScope
      /\ request_counter \in Nat /\ span_epoch \in Nat
  BY <1>1, ConstantsAssumption DEF IInv, TypeOK
<1>3. /\ \A u \in Threads : requests[u] # Absent =>
           /\ requests[u].span /\ requests[u].span_epoch_seen <= span_epoch
           /\ requests[u].span_epoch_seen \in Nat
  BY <1>1, <1>2, ConstantsAssumption DEF FInv, Cold, Scopes, RequestScope
<1>4. ASSUME NEW u \in Threads, requests'[u] # Absent
      PROVE  /\ requests'[u].span /\ requests'[u].span_epoch_seen <= span_epoch + 1
             /\ Keeps(u)
  <2>1. CASE requests'[u] = requests[u]
    <3>1. requests[u].span /\ requests[u].span_epoch_seen # span_epoch + 1
          /\ requests[u].span_epoch_seen <= span_epoch + 1
      BY <1>2, <1>3, <1>4, <2>1
    <3> QED  BY <1>1, <2>1, <3>1 DEF Keeps, InTouch, SpanIsBehind
  <2>2. CASE /\ u = t /\ requests[t] # Absent
             /\ requests' = [requests EXCEPT ![t].request_id = request_counter + 1,
                   ![t].span_epoch_seen = span_epoch + 1, ![t].moved = FALSE]
    <3>1. PICK sc : sc = [requests[t] EXCEPT !.request_id = request_counter + 1,
                            !.span_epoch_seen = span_epoch + 1, !.moved = FALSE]
      OBVIOUS
    <3>2. requests' = [requests EXCEPT ![t] = sc] /\ requests[t] \in RequestScope
      BY <1>2, <2>2, <3>1
    <3>3. /\ requests'[t] = sc /\ sc.request_id = request_counter + 1
          /\ sc.span_epoch_seen = span_epoch + 1 /\ sc.span = requests[t].span
      BY <1>2, <3>1, <3>2 DEF RequestScope
    <3> QED  BY <1>2, <1>3, <2>2, <3>3 DEF Keeps
  <2>3. requests'[u] = requests[u] \/ u = t
    BY <1>2 DEF RollSpanRequest
  <2> QED  BY <1>4, <2>1, <2>2, <2>3 DEF RollSpanRequest
<1>5. Scopes'
  BY <1>1, <1>4 DEF Scopes
<1>6. \A u \in Threads : Keeps(u)
  BY <1>4 DEF Keeps, InTouch
<1> QED  BY <1>1, <1>5, <1>6, QuietFresh

LEMMA SetInputsFresh ==
  ASSUME FInv, Repeatable, NEW t \in Threads, NEW S \in SUBSET Inputs,
         NEW updates \in [S -> Values], SetInputs(t, updates)
  PROVE  Cold'
<1>1. /\ IInv /\ LockFree /\ holder = Absent /\ DOMAIN updates = S
      /\ stack = <<>> /\ ctl.op = "idle" /\ UNCHANGED <<stack, ctl, holder, world, ambient>>
      /\ records' = CommittedInputs(t, updates)
      /\ \A n \in Queries \cup Resources : n \in Nodes /\ n \notin S
  BY ConstantsAssumption
     DEF FInv, PInv, RInv, IInv, Discipline, LockDiscipline, SetInputs, LockFree, worldVars, Nodes
<1>2. \A n \in Nodes : n \notin S => records'[n] = records[n]
  BY <1>1 DEF CommittedInputs
<1>3. \A n \in Queries \cup Resources : Lapses(n)
  BY <1>1, <1>2 DEF Lapses, Known
<1>4. CASE RollSpanRequest(t)
  BY <1>1, <1>3, <1>4, RolledFresh
<1>5. CASE /\ \A i \in S : InputUnchanged(i, updates[i])
           /\ UNCHANGED <<requests, span_epoch>>
  <2>1. ASSUME NEW i \in Inputs
        PROVE  /\ Known(i)' <=> Known(i)
               /\ Known(i) => records'[i].snapshot = records[i].snapshot
    <3>1. CASE i \notin S
      BY <1>2, <3>1 DEF Known, Nodes
    <3>2. CASE i \in S
      <4> PICK rec : rec = [records[i] EXCEPT !.snapshot = updates[i], !.verified_at = revision,
                                              !.checked_in_request = SetRequestId(t)]
        OBVIOUS
      <4>1. /\ i \in Nodes /\ i \notin Resources /\ Known(i) /\ records[i] \in NodeRecord
            /\ updates[i] \in Values /\ Equal(i, records[i].snapshot, updates[i])
        BY <1>1, <1>5, <3>2, Facts, ConstantsAssumption DEF InputUnchanged, Nodes
      <4>2. records[i].snapshot \in Values
        BY <1>1, <4>1 DEF IInv, Discipline, RecordDiscipline, NodeRecord
      <4>3. records[i].snapshot = updates[i]
        BY <4>1, <4>2 DEF Repeatable, Replayable, Exact
      <4>4. records'[i] = rec
        BY <1>1, <1>5, <3>2, <4>1 DEF CommittedInputs
      <4>5. rec.snapshot = updates[i]
        BY <4>1 DEF NodeRecord
      <4>6. rec # Absent
        <5>1. revision \in Nat /\ SetRequestId(t) \in Int
          <6>1. requests[t] # Absent => requests[t].request_id \in Nat
            BY <1>1, Facts DEF RequestScope
          <6> QED  BY <1>1, <6>1 DEF SetRequestId, IInv, TypeOK
        <5>2. rec \in NodeRecord
          BY <4>1, <5>1 DEF NodeRecord
        <5> QED  BY <5>2, ConstantsAssumption
      <4> QED  BY <4>1, <4>3, <4>4, <4>5, <4>6 DEF Known
    <3> QED  BY <3>1, <3>2
  <2>2. SameGround
    BY <1>1, <2>1 DEF SameGround
  <2>3. SameScopes
    BY <1>1, <1>5, ScopesUnchanged
  <2>4. Scopes' /\ \A u \in Threads : Keeps(u)
    BY <2>2, <2>3, ScopesKept DEF Keeps
  <2> QED  BY <1>1, <1>3, <2>4, QuietFresh
<1> QED  BY <1>1, <1>4, <1>5 DEF SetInputs

LEMMA OpenSpanFresh ==
  ASSUME FInv, NEW t \in Threads, OpenSpan(t)
  PROVE  Cold'
<1>1. /\ IInv /\ holder = Absent /\ stack' = <<>> /\ ctl'.op = "idle"
      /\ UNCHANGED <<records, holder, span_epoch, world, ambient>>
  BY DEF FInv, PInv, RInv, IInv, Discipline, LockDiscipline, LockFree, OpenSpan, worldVars
<1>2. PICK sc : sc = [request_id |-> request_counter + 1, span |-> TRUE,
                      span_epoch_seen |-> span_epoch, failures |-> {}, moved |-> FALSE]
  OBVIOUS
<1>3. /\ requests'[t] = sc /\ \A u \in Threads : u # t => requests'[u] = requests[u]
      /\ request_counter \in Nat /\ span_epoch \in Nat
  BY <1>1, <1>2 DEF OpenSpan, IInv, TypeOK
<1>4. SameGround /\ \A n : Lapses(n)
  BY <1>1 DEF SameGround, Lapses, Known
<1>5. Scopes'
  BY <1>1, <1>2, <1>3, ConstantsAssumption DEF FInv, Cold, Scopes
<1>6. ASSUME NEW u \in Threads
      PROVE  Keeps(u)
  <2>1. CASE u = t
    BY <1>2, <1>3, <2>1 DEF Keeps
  <2>2. CASE u # t
    BY <1>1, <1>3, <1>4, <2>2 DEF Keeps, InTouch, SpanIsBehind
  <2> QED  BY <2>1, <2>2
<1> QED  BY <1>1, <1>4, <1>5, <1>6, QuietFresh

LEMMA CloseSpanFresh ==
  ASSUME FInv, Repeatable, NEW t \in Threads, CloseSpan(t)
  PROVE  Cold'
<1>1. /\ IInv /\ holder = Absent /\ stack' = <<>> /\ ctl'.op = "idle"
      /\ UNCHANGED <<holder, span_epoch, world, ambient>>
      /\ records' = Released(requests[t].failures) /\ requests' = [requests EXCEPT ![t] = Absent]
  BY DEF FInv, PInv, RInv, IInv, Discipline, LockDiscipline, LockFree, CloseSpan, EndRequest,
         scopeVars, worldVars
<1>2. SameGround /\ \A n \in Queries \cup Resources : Lapses(n)
  BY <1>1, ReleasedLapses
<1>3. \A u \in Threads : requests'[u] # Absent => requests'[u] = requests[u]
  BY <1>1 DEF IInv, TypeOK
<1>4. Scopes'
  BY <1>1, <1>3, ConstantsAssumption DEF FInv, Cold, Scopes
<1>5. \A u \in Threads : Keeps(u)
  BY <1>1, <1>2, <1>3 DEF Keeps, InTouch, SpanIsBehind
<1> QED  BY <1>1, <1>2, <1>4, <1>5, QuietFresh

LEMMA ClientFresh ==
  ASSUME FInv, Repeatable, Client
  PROVE  Cold'
<1>1. PICK t \in Threads :
        \/ \E q \in Queries : Get(t, q) \/ Inspect(t, q)
        \/ \E r \in Resources : ReadResource(t, r)
        \/ \E i \in Inputs, v \in Values : Set(t, i, v)
        \/ \E updates \in Updates : SetMany(t, updates)
        \/ OpenSpan(t) \/ CloseSpan(t) \/ RequestInputsChanged(t)
  BY DEF Client
<1>2. CASE \/ \E q \in Queries : Get(t, q) \/ Inspect(t, q)
           \/ \E r \in Resources : ReadResource(t, r)
  BY <1>2, BeginFresh DEF Get, Inspect, ReadResource
<1>3. CASE \E i \in Inputs, v \in Values : Set(t, i, v)
  <2>1. PICK i \in Inputs, v \in Values : SetInputs(t, [j \in {i} |-> v])
    BY <1>3 DEF Set
  <2>2. [j \in {i} |-> v] \in [{i} -> Values] /\ {i} \in SUBSET Inputs
    OBVIOUS
  <2> QED  BY <2>1, <2>2, SetInputsFresh
<1>4. CASE \E updates \in Updates : SetMany(t, updates)
  <2>1. PICK updates \in Updates : SetInputs(t, updates)
    BY <1>4 DEF SetMany
  <2>2. PICK S \in SUBSET Inputs : updates \in [S -> Values]
    BY DEF Updates
  <2> QED  BY <2>1, <2>2, SetInputsFresh
<1>5. CASE RequestInputsChanged(t)
  <2>1. /\ LockFree /\ RollSpanRequest(t) /\ UNCHANGED <<records, stack, ctl, holder>>
    BY <1>5 DEF RequestInputsChanged
  <2>2. \A n : Lapses(n)
    BY <2>1 DEF Lapses, Known
  <2> QED  BY <2>1, <2>2, RolledFresh
<1> QED  BY <1>1, <1>2, <1>3, <1>4, <1>5, OpenSpanFresh, CloseSpanFresh

\* The world has overtaken every open request.
LEMMA EnvironmentFresh ==
  ASSUME FInv, Environment
  PROVE  Cold'
<1>1. requests' = Overtaken /\ UNCHANGED <<records, stack, ctl, holder, span_epoch>>
  BY DEF Environment, MoveWorld, MoveAmbient, scopeVars
<1>2. IInv /\ requests \in [Threads -> RequestScope \cup {Absent}]
  BY DEF FInv, PInv, RInv, IInv, TypeOK
<1>3. ASSUME NEW t \in Threads
      PROVE  /\ requests[t] = Absent => requests'[t] = Absent
             /\ requests[t] # Absent =>
                  /\ requests'[t].moved /\ requests'[t].span = requests[t].span
                  /\ requests'[t].span_epoch_seen = requests[t].span_epoch_seen
  <2>1. requests'[t] = IF requests[t] = Absent THEN Absent ELSE [requests[t] EXCEPT !.moved = TRUE]
    BY <1>1 DEF Overtaken
  <2>2. requests[t] # Absent => requests[t] \in RequestScope
    BY <1>2
  <2> QED  BY <2>1, <2>2 DEF RequestScope
<1>4. \A t \in Threads : ~InTouch(t)'
  BY <1>3 DEF InTouch
<1>5. SettledFresh'
  BY <1>4 DEF SettledFresh
<1>6. holder # Absent => holder \in Threads /\ requests[holder] # Absent
  BY <1>2 DEF IInv, TypeOK, Discipline, LockDiscipline, LockFree
<1>7. Scopes'
  BY <1>1, <1>3, <1>6 DEF FInv, Cold, Scopes, SpanIsBehind
<1>8. Evaluating'
  <2>1. (holder # Absent)' => (holder \in Threads)'
    BY <1>1, <1>6
  <2> QED  BY <1>4, <2>1 DEF Evaluating, InTouch
<1>9. ProbesTell' /\ SplitProbe'
  BY <1>1 DEF FInv, Cold, ProbesTell, SplitProbe, Known, Failed
<1> QED  BY <1>5, <1>7, <1>8, <1>9 DEF Cold

\* A step of a query that settles nothing.
LEMMA QueryStepFresh ==
  ASSUME FInv, Repeatable,
         EnsureQuery \/ VerifyDependency \/ ResumeVerify \/ AbandonVerify
         \/ BodyReadsInput \/ BodyReadsUntracked \/ BodyCalls \/ BodyResumes
         \/ BodyCatches \/ BodyRaises
  PROVE  Cold'
<1>1. UNCHANGED <<records, requests, holder, span_epoch, world, ambient>>
  BY DEF EnsureQuery, VerifyDependency, ResumeVerify, AbandonVerify, BodyReadsInput,
     BodyReadsUntracked, BodyCalls, BodyResumes, BodyCatches, BodyRaises, scopeVars, worldVars
<1>2. SameScopes
  BY <1>1, ScopesUnchanged
<1>3. Scopes' /\ SettledFresh' /\ ProbesTell' /\ SameGround
  BY <1>1, <1>2, ColdTableKept
<1>4. InTouch(holder) /\ FreshFrames /\ FreshCall => FreshFrames' /\ FreshCall'
  BY <1>3, EnsureQueryFresh, WalkFresh, RaiseFresh, BodyReadsInputFresh, BodyReadsUntrackedFresh,
     BodyCallsFresh, BodyResumesFresh, BodyCatchesFresh
<1>5. ctl'.op # "split_load"
  <2>1. \/ UNCHANGED ctl /\ ctl.op = "run"
        \/ \E op \in {"ensure", "observe", "run", "return"} : \E n : ctl' = Call(op, n)
        \/ \E n, e, b : ctl' = Raise(n, e, b)
    BY DEF EnsureQuery, VerifyDependency, ResumeVerify, AbandonVerify, BodyReadsInput,
       BodyReadsUntracked, BodyCalls, BodyResumes, BodyCatches, BodyRaises, Run, Return,
       Does, Executing
  <2> QED  BY <2>1 DEF Call, Raise
<1> QED  BY <1>2, <1>3, <1>4, <1>5, EvaluationGoesOn DEF Cold, SplitProbe

\* Every step preserves the invariant.
LEMMA NextFresh ==
  ASSUME FInv, Repeatable, [Next]_vars
  PROVE  FInv'
<1> SUFFICES Cold'
  BY NextReplay DEF FInv, Repeatable
<1>1. CASE UNCHANGED vars
  <2>1. UNCHANGED <<records, requests, stack, ctl, holder, span_epoch, world, ambient>>
    BY <1>1 DEF vars
  <2>2. SameGround
    BY <2>1 DEF SameGround, Known
  <2>3. SplitProbe'
    BY <2>1 DEF SplitProbe, FInv, Cold
  <2>4. FreshCall => FreshCall'
    <3>1. \A q, v : Derived(q, v)' <=> Derived(q, v)
      BY <2>2, Grounded
    <3>2. \A r : Unrecordable(r)' = Unrecordable(r)
      BY DEF Unrecordable, Failures
    <3> QED  BY <2>1, <3>1, <3>2 DEF FreshCall, FreshLoad
  <2> QED  BY <2>1, <2>3, <2>4, LookAgainFresh
<1>2. CASE Next
  <2>1. CASE Evaluate
    BY <2>1, QueryStepFresh, ReuseQueryFresh, BodyReturnsFresh, ObserveResourceFresh,
       ProbeAndLoadFresh, ObserveFailureProbeFresh, SplitLoadFresh, DeliverFresh, FinishFresh
       DEF Evaluate
  <2> QED  BY <1>2, <2>1, ClientFresh, EnvironmentFresh DEF Next
<1> QED  BY <1>1, <1>2

LEMMA InitFresh ==
  ASSUME Init
  PROVE  FInv
<1>1. /\ holder = Absent /\ ctl.op = "idle"
      /\ \A n \in Queries \cup Resources : ~Known(n)
      /\ \A t \in Threads : requests[t] = Absent
  BY DEF Init, Idle, Call, Known, Nodes
<1>2. Scopes /\ SettledFresh /\ ProbesTell /\ SplitProbe /\ Evaluating
  BY <1>1 DEF Scopes, SettledFresh, InTouch, ProbesTell, SplitProbe, Evaluating
<1> QED  BY <1>2, InitReplay DEF FInv, Cold

\* From-scratch consistency, for every graph of bodies, every set of spans and
\* every schedule of callers and of the world, however often records are
\* reused, verified, cut off early or computed anew (get, read_resource): an
\* answer of a request that the world has not overtaken is what a cold
\* evaluation derives from the inputs and the world as they are.
THEOREM ValuesAreFresh ==
  ASSUME Traces = Seq(Outcomes), MaxQueryNodes = 0, Exact, LetThrough, RaiseThrough,
         Split \cap Racy = {}
  PROVE  Spec => []ValuesAreDerived
<1>1. Repeatable
  BY DEF Repeatable, Replayable
<1>2. Init => FInv
  BY InitFresh
<1>3. FInv /\ [Next]_vars => FInv'
  BY <1>1, NextFresh
<1>4. FInv => ValuesAreDerived
  <2> SUFFICES ASSUME FInv, Answered, ctl.result \in Values
               PROVE  IF ctl.key \in Queries THEN Derived(ctl.key, ctl.result)
                      ELSE ctl.result = FreshLoad(world[ctl.key])
    BY DEF ValuesAreDerived
  <2>1. holder \in Threads /\ holder # Absent /\ requests[holder] # Absent
    BY Facts, ConstantsAssumption DEF FInv, PInv, RInv, Answered
  <2>2. InTouch(holder)
    BY <2>1 DEF InTouch, Answered, FInv, Cold, Scopes
  <2> QED  BY <2>1, <2>2 DEF FInv, Cold, Evaluating, FreshCall, Answered
<1> QED  BY <1>2, <1>3, <1>4, PTL DEF Spec
=============================================================================
