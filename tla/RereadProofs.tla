---------------------------- MODULE RereadProofs ----------------------------
(***************************************************************************)
(* Repeatable reads, for every database and every set of callers: what a    *)
(* request has settled is not computed again while it is open.  A frame of   *)
(* the call stack stands for an unsettled query, and although a query can be *)
(* on the stack twice (asked for again while it is being verified), no step  *)
(* settles it or turns it into an execution while another frame waits for it.*)
(***************************************************************************)
EXTENDS KernelProofs

\* The edges a verification has found unchanged.
Passed(f) == records[f.key].dependencies \ (f.pending \cup {f.callee})

\* A verification walks the edges of its record in order; what it has passed
\* is an input or is settled, and did not change.
Walk(f) ==
  /\ ~records[f.key].untracked
  /\ f.pending \subseteq records[f.key].dependencies
  /\ f.callee # Absent =>
       /\ f.callee \in records[f.key].dependencies \ f.pending
       /\ Known(f.callee)
       /\ IsFirst(f.callee, f.pending)
  /\ \A d \in Passed(f) :
       /\ Known(d) /\ ~ChangedSince(d, records[f.key].verified_at)
       /\ d \in Inputs \/ Settled(d, CurrentRequest)

\* What is on the stack is still to be settled in the open request.
Open(f) == ~Settled(f.key, CurrentRequest) /\ (f.kind = "verify" => Walk(f))
Frames == \A k \in 1 .. Len(stack) : Open(stack[k])

\* Every frame waits for the one above it, the top one for the pending call.
Waits ==
  \A k \in 1 .. Len(stack) :
    stack[k].callee = IF k < Len(stack) THEN stack[k + 1].key
                      ELSE IF ctl.op = "run" THEN Absent ELSE ctl.key

\* A query that is on the stack twice is being verified in both places.
Twice ==
  \A j, k \in 1 .. Len(stack) : k < j /\ stack[k].key = stack[j].key =>
    stack[k].kind = "verify" /\ stack[j].kind = "verify"

\* A call that returned settled its node; a resource that is being loaded, or
\* raised without a record, is not settled.
Answers ==
  /\ ctl.op \in {"load", "split_load", "failure_probe"} => ~Settled(ctl.key, CurrentRequest)
  /\ ctl.op = "return" => Settled(ctl.key, CurrentRequest)
  /\ ctl.op = "raise" /\ ctl.key \in Resources =>
       (ctl.recorded <=> Settled(ctl.key, CurrentRequest))

\* The inductive invariant.
Reading == Frames /\ Waits /\ Twice /\ Answers
RInv == IInv /\ Reading

-----------------------------------------------------------------------------
(* The open request.                                                        *)

\* The request of the thread that evaluates keeps its id.
LEMMA RequestKept ==
  ASSUME IInv, ctl.op # "idle", SameRequests, UNCHANGED holder
  PROVE  CurrentRequest' = CurrentRequest
<1>1. holder \in Threads /\ requests[holder] # Absent
  BY Facts, ConstantsAssumption
<1> QED  BY <1>1 DEF SameRequests, CurrentRequest

\* A query has no failure: it is settled as soon as the request checked it.
LEMMA SettledQuery ==
  ASSUME IInv, NEW q \in Queries
  PROVE  Settled(q, CurrentRequest) <=> Known(q) /\ SettledInRequest(q)
<1>1. q \in Nodes /\ q \notin Resources
  BY ConstantsAssumption DEF Nodes
<1>2. Known(q) => ~Failed(q)
  BY <1>1 DEF IInv, Discipline, RecordDiscipline
<1> QED  BY <1>2 DEF Settled, SettledInRequest

-----------------------------------------------------------------------------
(* What the records say of a frame.                                         *)

LEMMA SettledKept ==
  ASSUME UNCHANGED records, CurrentRequest' = CurrentRequest, NEW n
  PROVE  Settled(n, CurrentRequest)' <=> Settled(n, CurrentRequest)
BY DEF Settled, Known, Failed

LEMMA OpenKept ==
  ASSUME UNCHANGED records, CurrentRequest' = CurrentRequest, NEW f
  PROVE  Open(f)' <=> Open(f)
BY SettledKept DEF Open, Walk, Passed, Known, ChangedSince

\* Writing the record of a node that was not settled disturbs only the
\* frames of that node.
LEMMA OpenBesideWrite ==
  ASSUME IInv, NEW n \in Queries \cup Resources, ~Settled(n, CurrentRequest),
         NEW rec, rec # Absent, records' = [records EXCEPT ![n] = rec],
         CurrentRequest' = CurrentRequest,
         NEW f \in Frame, f.key # n, Open(f), f.kind = "verify" => Known(f.key)
  PROVE  Open(f)'
<1>1. n \in Nodes /\ n \notin Inputs /\ f.key \in Nodes /\ f.callee \in Nodes \cup {Absent}
  BY ConstantsAssumption DEF Nodes, Frame
<1>2. \A m \in Nodes : records'[m] = IF m = n THEN rec ELSE records[m]
  BY <1>1 DEF IInv, TypeOK
<1>3. \A m \in Nodes : m # n => /\ Settled(m, CurrentRequest)' <=> Settled(m, CurrentRequest)
                                /\ Known(m)' <=> Known(m)
                                /\ \A s : ChangedSince(m, s)' <=> ChangedSince(m, s)
  BY <1>2 DEF Settled, Known, Failed, ChangedSince
<1>4. ASSUME f.kind = "verify"  PROVE Walk(f)'
  <2>1. Walk(f) /\ records'[f.key] = records[f.key] /\ records[f.key] \in NodeRecord
    BY <1>1, <1>2, <1>4, Facts DEF Open
  <2>2. records[f.key].dependencies \subseteq Nodes /\ Passed(f)' = Passed(f)
    BY <2>1 DEF NodeRecord, Passed
  <2>3. f.callee # Absent => Known(f.callee)'
    BY <1>1, <1>2, <2>1 DEF Walk, Known
  <2>4. ASSUME NEW d \in Passed(f)
        PROVE  /\ Known(d)' /\ ~ChangedSince(d, records[f.key].verified_at)'
               /\ d \in Inputs \/ Settled(d, CurrentRequest)'
    <3>1. d \in Nodes /\ d # n
      BY <1>1, <2>1, <2>2 DEF Walk, Passed
    <3> QED  BY <1>3, <2>1, <3>1 DEF Walk
  <2> QED  BY <2>1, <2>2, <2>3, <2>4 DEF Walk, IsFirst
<1> QED  BY <1>1, <1>3, <1>4 DEF Open

-----------------------------------------------------------------------------
(* The three ways the stack moves, and the steps that leave none.            *)

\* No other frame stands for the query on top.
Alone == \A k \in 1 .. Len(stack) - 1 : stack[k].key # Top.key

LEMMA Replaced ==
  ASSUME RInv, ctl.op # "idle", stack # <<>>, UNCHANGED <<records, requests, holder>>,
         NEW f \in Frame, f.key = Top.key, Open(f), f.kind = Top.kind \/ Alone,
         stack' = ReplaceTop(f),
         f.callee = IF ctl'.op = "run" THEN Absent ELSE ctl'.key,
         Answers'
  PROVE  Reading'
<1> DEFINE n == Len(stack)
<1>1. IInv /\ n \in Nat /\ n > 0 /\ Top = stack[n]
  BY StackHeight DEF RInv, Top
<1>2. Len(stack') = n /\ \A k \in 1 .. n : stack'[k] = IF k = n THEN f ELSE stack[k]
  BY <1>1, ReplacedFrames
<1>3. CurrentRequest' = CurrentRequest
  BY <1>1, RequestsKept, RequestKept
<1>4. \A k \in 1 .. n : stack'[k].key = stack[k].key
  BY <1>1, <1>2
<1>5. Frames'
  <2>1. \A k \in 1 .. n : Open(stack[k])
    BY DEF RInv, Reading, Frames
  <2>2. \A k \in 1 .. n : \A g : g = stack'[k] => Open(g)
    BY <1>2, <2>1
  <2>3. \A k \in 1 .. n : \A g : g = stack'[k] => Open(g)'
    BY <1>3, <2>2, OpenKept
  <2> QED  BY <1>2, <2>3 DEF Frames
<1>6. Waits'
  <2>1. \A k \in 1 .. n : k < n => stack[k].callee = stack[k + 1].key
    BY <1>1 DEF RInv, Reading, Waits
  <2> QED  BY <1>1, <1>2, <1>4, <2>1 DEF Waits
<1>7. Twice'
  <2>1. \A j, k \in 1 .. n : k < j /\ stack[k].key = stack[j].key =>
          stack[k].kind = "verify" /\ stack[j].kind = "verify"
    BY DEF RInv, Reading, Twice
  <2>2. CASE f.kind = Top.kind
    <3>1. \A k \in 1 .. n : stack'[k].kind = stack[k].kind
      BY <1>1, <1>2, <2>2
    <3> QED  BY <1>2, <1>4, <2>1, <3>1 DEF Twice
  <2>3. CASE Alone
    <3>1. \A k \in 1 .. n - 1 : stack[k].key # stack[n].key /\ stack'[k] = stack[k]
      BY <1>1, <1>2, <2>3 DEF Alone
    <3> QED  BY <1>1, <1>2, <1>4, <2>1, <3>1 DEF Twice
  <2> QED  BY <2>2, <2>3
<1> QED  BY <1>5, <1>6, <1>7 DEF Reading

LEMMA Popped ==
  ASSUME RInv, stack # <<>>, stack' = Pop,
         \A k \in 1 .. Len(stack) - 1 : \A g : g = stack[k] => Open(g)',
         ctl'.op # "run", ctl'.key = Top.key, Answers'
  PROVE  Reading'
<1> DEFINE n == Len(stack)
<1>1. IInv /\ n \in Nat /\ n > 0 /\ Top = stack[n]
  BY StackHeight DEF RInv, Top
<1>2. Len(stack') = n - 1 /\ \A k \in 1 .. n - 1 : stack'[k] = stack[k]
  BY <1>1, PoppedFrames
<1>3. Frames'
  <2>1. \A k \in 1 .. n - 1 : \A g : g = stack'[k] => Open(g)'
    BY <1>2
  <2> QED  BY <1>2, <2>1 DEF Frames
<1>4. Waits'
  <2>1. \A k \in 1 .. n - 1 : stack[k].callee = stack[k + 1].key
    BY <1>1 DEF RInv, Reading, Waits
  <2> QED  BY <1>1, <1>2, <2>1 DEF Waits
<1>5. Twice'
  <2>1. \A j, k \in 1 .. n : k < j /\ stack[k].key = stack[j].key =>
          stack[k].kind = "verify" /\ stack[j].kind = "verify"
    BY DEF RInv, Reading, Twice
  <2> QED  BY <1>1, <1>2, <2>1 DEF Twice
<1> QED  BY <1>3, <1>4, <1>5 DEF Reading

\* The pending call moves on and the stack stays.
LEMMA Standing ==
  ASSUME RInv, UNCHANGED stack,
         \A k \in 1 .. Len(stack) : \A g : g = stack[k] => Open(g)',
         (ctl.op # "run" /\ ctl'.op # "run" /\ ctl'.key = ctl.key) \/ UNCHANGED ctl, Answers'
  PROVE  Reading'
<1>1. Frames'
  <2>1. \A k \in 1 .. Len(stack) : \A g : g = stack'[k] => Open(g)'
    OBVIOUS
  <2> QED  BY <2>1 DEF Frames
<1>2. Waits' /\ Twice'
  BY DEF RInv, Reading, Waits, Twice
<1> QED  BY <1>1, <1>2 DEF Reading

\* Nothing is on the stack, and nothing has been answered yet.
LEMMA Quiet ==
  ASSUME stack' = <<>>, ctl'.op \in {"idle", "ensure", "observe", "answer"}
  PROVE  Reading'
<1>1. Len(stack') = 0
  OBVIOUS
<1>2. Frames' /\ Waits' /\ Twice'
  BY <1>1 DEF Frames, Waits, Twice
<1>3. Answers'
  BY DEF Answers
<1> QED  BY <1>2, <1>3 DEF Reading

-----------------------------------------------------------------------------
(* The uniqueness argument.                                                  *)

\* The top of the stack: an open frame that waits for the pending call.
LEMMA TopIsOpen ==
  ASSUME RInv, stack # <<>>
  PROVE  /\ IInv /\ Top \in Frame /\ Top.key \in Queries /\ Top.key \in Nodes
         /\ Open(Top) /\ (Top.kind = "verify" => Known(Top.key) /\ Walk(Top))
         /\ Top.callee = IF ctl.op = "run" THEN Absent ELSE ctl.key
<1>1. IInv /\ Len(stack) \in 1 .. Len(stack) /\ Top = stack[Len(stack)]
  BY StackHeight DEF RInv, Top
<1>2. Open(Top)
  BY <1>1 DEF RInv, Reading, Frames
<1>3. Top.callee = IF ctl.op = "run" THEN Absent ELSE ctl.key
  BY <1>1 DEF RInv, Reading, Waits
<1> QED  BY <1>1, <1>2, <1>3, TopFrame DEF Open

\* An execution is the only frame of its query.
LEMMA ExecutionAlone ==
  ASSUME RInv, stack # <<>>, Top.kind = "exec"
  PROVE  Alone
<1>1. IInv /\ Len(stack) \in 1 .. Len(stack) /\ Top = stack[Len(stack)]
  BY StackHeight DEF RInv, Top
<1> QED  BY <1>1 DEF RInv, Reading, Twice, Alone

\* A query that is verified on top and further down: the lower frame waits for
\* an unsettled query, an edge that the upper walk has not passed.
LEMMA LowerFrame ==
  ASSUME RInv, stack # <<>>, Top.kind = "verify", NEW k \in 1 .. Len(stack) - 1,
         stack[k].key = Top.key
  PROVE  \E f \in Frame : \E x \in Queries :
           /\ f.key = Top.key /\ f.callee = x /\ Walk(f)
           /\ x \in records[Top.key].dependencies /\ Known(x)
           /\ ~Settled(x, CurrentRequest)
           /\ x \in Top.pending \/ x = Top.callee
<1> DEFINE n == Len(stack)
           f == stack[k]
           x == stack[k + 1].key
<1>1. IInv /\ n \in Nat /\ k \in 1 .. n /\ k + 1 \in 1 .. n /\ k < n /\ n \in 1 .. n /\ Top = stack[n]
  BY StackHeight DEF RInv, Top
<1>2. f \in Frame /\ x \in Queries /\ x # Absent
  BY <1>1, FrameAt, ConstantsAssumption DEF Nodes
<1>3. f.kind = "verify"
  BY <1>1 DEF RInv, Reading, Twice
<1>4. Open(f) /\ Walk(f) /\ ~Settled(x, CurrentRequest)
  <2>1. Open(f) /\ Open(stack[k + 1])
    BY <1>1 DEF RInv, Reading, Frames
  <2> QED  BY <1>3, <2>1 DEF Open
<1>5. f.callee = x
  BY <1>1 DEF RInv, Reading, Waits
<1>6. x \in records[Top.key].dependencies /\ Known(x)
  BY <1>2, <1>4, <1>5 DEF Walk
<1>7. x \in Top.pending \/ x = Top.callee
  <2>1. Walk(Top) /\ x \notin Inputs
    BY <1>2, TopIsOpen, ConstantsAssumption
  <2> QED  BY <1>4, <1>6, <2>1 DEF Walk, Passed
<1> QED  BY <1>2, <1>4, <1>5, <1>6, <1>7

\* A verification that has passed every edge is the only one of its query.
LEMMA ReuseAlone ==
  ASSUME RInv, ReuseQuery
  PROVE  Alone
<1>1. stack # <<>> /\ Top.kind = "verify" /\ Top.pending = {} /\ Top.callee = Absent
  BY TopIsOpen DEF ReuseQuery, Verifying
<1>2. Absent \notin Queries
  BY ConstantsAssumption DEF Nodes
<1> QED  BY <1>1, <1>2, LowerFrame DEF Alone

\* So is one that finds its current edge d changed: a lower frame of the same
\* query would have passed d unchanged, or still wait before d.
LEMMA ChangeAlone ==
  ASSUME RInv, stack # <<>>, Top.kind = "verify",
         NEW d \in records[Top.key].dependencies, IsFirst(d, Top.pending),
         Top.callee \in {d, Absent},
         ~(d \in Queries /\ Known(d) /\ ~Settled(d, CurrentRequest)),
         ~(/\ Known(d) /\ ~ChangedSince(d, records[Top.key].verified_at)
           /\ d \in Inputs \/ Settled(d, CurrentRequest))
  PROVE  Alone
<1> SUFFICES ASSUME NEW k \in 1 .. Len(stack) - 1, stack[k].key = Top.key
             PROVE  FALSE
  BY DEF Alone
<1>1. PICK f \in Frame, x \in Queries :
        /\ f.key = Top.key /\ f.callee = x /\ Walk(f)
        /\ x \in records[Top.key].dependencies /\ Known(x)
        /\ ~Settled(x, CurrentRequest)
        /\ x \in Top.pending \/ x = Top.callee
  BY LowerFrame
<1>2. x # d /\ x # Absent
  BY <1>1, ConstantsAssumption DEF Nodes
<1>3. x \in Top.pending /\ Rank(d) <= Rank(x)
  BY <1>1, <1>2 DEF IsFirst
<1>4. d \in f.pending
  BY <1>1, <1>2 DEF Walk, Passed
<1>5. Rank(x) <= Rank(d)
  BY <1>1, <1>2, <1>4 DEF Walk, IsFirst
<1>6. d \in Nodes /\ x \in Nodes
  BY TopIsOpen, Facts DEF NodeRecord, Nodes
<1>7. Rank(d) \in Int /\ Rank(x) \in Int
  BY <1>6, ConstantsAssumption
<1>8. Rank(d) = Rank(x)
  BY <1>3, <1>5, <1>7
<1> QED  BY <1>2, <1>6, <1>8, ConstantsAssumption

-----------------------------------------------------------------------------
(* Queries.                                                                 *)

\* The table and the requests stay.
LEMMA SameAnswers ==
  ASSUME RInv, ctl.op # "idle", UNCHANGED <<records, requests, holder>>
  PROVE  /\ CurrentRequest' = CurrentRequest
         /\ \A k \in 1 .. Len(stack) : \A g : g = stack[k] => Open(g)'
         /\ \A n : Settled(n, CurrentRequest)' <=> Settled(n, CurrentRequest)
<1>1. CurrentRequest' = CurrentRequest
  BY RequestsKept, RequestKept DEF RInv
<1>2. \A k \in 1 .. Len(stack) : \A g : g = stack[k] => Open(g)
  BY DEF RInv, Reading, Frames
<1> QED  BY <1>1, <1>2, OpenKept, SettledKept

LEMMA EnsureQueryReading ==
  ASSUME RInv, EnsureQuery
  PROVE  Reading'
<1> DEFINE q == ctl.key
           n == Len(stack)
<1>1. IInv /\ n \in Nat /\ ctl.op = "ensure" /\ q \in Queries /\ q \in Nodes /\ q \notin Resources
  BY StackHeight, ConstantsAssumption
     DEF RInv, IInv, Discipline, CallDiscipline, EnsureQuery, Nodes
<1>2. UNCHANGED <<records, requests, holder>> /\ ctl.op # "idle"
  BY <1>1 DEF EnsureQuery, scopeVars
<1>3. CASE UNCHANGED stack /\ ctl' = Raise(q, "CycleError", FALSE)
  <2>1. ctl'.op = "raise" /\ ctl'.key = q /\ Answers'
    BY <1>1, <1>3 DEF Raise, Answers
  <2> QED  BY <1>1, <1>2, <1>3, <2>1, SameAnswers, Standing
<1>4. CASE UNCHANGED stack /\ ctl' = Return(q) /\ Known(q) /\ SettledInRequest(q)
  <2>1. ctl'.op = "return" /\ ctl'.key = q
    BY <1>4 DEF Return, Call
  <2>2. Settled(q, CurrentRequest)
    BY <1>1, <1>4, SettledQuery
  <2>3. Answers'
    <3>1. CurrentRequest' = CurrentRequest /\ UNCHANGED records
      BY <1>2, SameAnswers
    <3> QED  BY <2>1, <2>2, <3>1 DEF Answers, Settled, Known, Failed
  <2> QED  BY <1>1, <1>2, <1>4, <2>1, <2>3, SameAnswers, Standing
<1>5. CASE /\ ~OnExecutionStack(q)
           /\ Known(q) => ~SettledInRequest(q)
           /\ stack' = Push(IF Known(q) /\ ~records[q].untracked
                            THEN NewFrame("verify", q, records[q].dependencies)
                            ELSE NewFrame("exec", q, {}))
           /\ ctl' = Run
  <2> DEFINE walk == NewFrame("verify", q, records[q].dependencies)
             exec == NewFrame("exec", q, {})
  <2>1. PICK f : f = IF Known(q) /\ ~records[q].untracked THEN walk ELSE exec
    OBVIOUS
  <2>2. f \in Frame
    <3>1. Known(q) => records[q].dependencies \in SUBSET Nodes
      BY <1>1, Facts DEF NodeRecord
    <3> QED  BY <1>1, <2>1, <3>1, NewFrameType
  <2>3. f.key = q /\ f.callee = Absent
    BY <2>1 DEF NewFrame
  <2>4. f.kind = "verify" => /\ Known(q) /\ ~records[q].untracked
                             /\ f.pending = records[q].dependencies
    BY <2>1 DEF NewFrame
  <2>5. Known(q) /\ ~records[q].untracked => f.kind = "verify"
    BY <2>1 DEF NewFrame
  <2>6. ~Settled(q, CurrentRequest)
    BY <1>1, <1>5, SettledQuery
  <2>7. Open(f)
    BY <2>3, <2>4, <2>6 DEF Open, Walk, Passed
  <2>8. Len(stack') = n + 1 /\ \A k \in 1 .. n + 1 : stack'[k] = IF k <= n THEN stack[k] ELSE f
    BY <1>1, <1>5, <2>1, <2>2, PushedFrames
  <2>9. ctl'.op = "run"
    BY <1>5 DEF Run, Call
  <2>10. Frames'
    <3>1. \A k \in 1 .. n + 1 : \A g : g = stack'[k] => Open(g)'
      BY <1>1, <1>2, <2>7, <2>8, SameAnswers, OpenKept
    <3> QED  BY <2>8, <3>1 DEF Frames
  <2>11. Waits'
    <3>1. \A k \in 1 .. n : stack[k].callee = IF k < n THEN stack[k + 1].key ELSE q
      BY <1>1 DEF RInv, Reading, Waits
    <3> QED  BY <1>1, <2>3, <2>8, <2>9, <3>1 DEF Waits
  <2>12. Twice'
    <3>1. \A j, k \in 1 .. n : k < j /\ stack[k].key = stack[j].key =>
            stack[k].kind = "verify" /\ stack[j].kind = "verify"
      BY DEF RInv, Reading, Twice
    <3>2. ASSUME NEW k \in 1 .. n, stack[k].key = q
          PROVE  stack[k].kind = "verify" /\ f.kind = "verify"
      <4>1. stack[k].kind = "verify"
        <5>1. stack[k] \in Frame
          BY <1>1, FrameAt
        <5> QED  BY <1>5, <3>2, <5>1 DEF OnExecutionStack, Frame
      <4>2. Known(q) /\ Open(stack[k])
        BY <1>1, <3>2, <4>1 DEF RInv, Reading, Frames, IInv, Discipline, RecordDiscipline
      <4>3. ~records[q].untracked
        BY <3>2, <4>1, <4>2 DEF Open, Walk
      <4> QED  BY <2>5, <4>1, <4>2, <4>3
    <3> QED  BY <1>1, <2>3, <2>8, <3>1, <3>2 DEF Twice
  <2>13. Answers'
    BY <2>9 DEF Answers
  <2> QED  BY <2>10, <2>11, <2>12, <2>13 DEF Reading
<1> QED  BY <1>3, <1>4, <1>5 DEF EnsureQuery

\* A verification turns into an execution.
LEMMA DirtyReading ==
  ASSUME RInv, ctl.op # "idle", stack # <<>>, UNCHANGED <<records, requests, holder>>,
         Alone, stack' = Dirty(stack), ctl' = Run
  PROVE  Reading'
<1> DEFINE f == NewFrame("exec", Top.key, {})
<1>1. f \in Frame /\ f.key = Top.key /\ f.kind = "exec" /\ f.callee = Absent
  BY TopIsOpen, NewFrameType DEF NewFrame
<1>2. stack' = ReplaceTop(f)
  BY DEF Dirty, ReplaceTop, Top
<1>3. ctl'.op = "run" /\ Answers'
  BY DEF Run, Call, Answers
<1> HIDE DEF f
<1>4. Open(f)
  BY <1>1, TopIsOpen DEF Open
<1> QED  BY <1>1, <1>2, <1>3, <1>4, Replaced

LEMMA VerifyDependencyReading ==
  ASSUME RInv, VerifyDependency
  PROVE  Reading'
<1> DEFINE since == records[Top.key].verified_at
<1>1. /\ stack # <<>> /\ ctl.op = "run" /\ ctl.op # "idle" /\ Top.kind = "verify"
      /\ UNCHANGED <<records, requests, holder>>
  BY DEF VerifyDependency, Verifying, scopeVars
<1>2. /\ IInv /\ Top \in Frame /\ Open(Top) /\ Walk(Top) /\ Known(Top.key) /\ Top.callee = Absent
      /\ Top.key \in Nodes
  BY <1>1, TopIsOpen
<1>3. PICK d \in Top.pending :
        /\ IsFirst(d, Top.pending)
        /\ \/ /\ Known(d) => d \in Inputs
              /\ ctl' = Run
              /\ \/ ChangedSince(d, since) /\ stack' = Dirty(stack)
                 \/ /\ ~ChangedSince(d, since)
                    /\ stack' = ReplaceTop([Top EXCEPT !.pending = Remaining(@, d)])
           \/ /\ Known(d) /\ d \notin Inputs
              /\ stack' = ReplaceTop([[Top EXCEPT !.pending = Remaining(@, d)] EXCEPT !.callee = d])
              /\ ctl' = Call(IF d \in Queries THEN "ensure" ELSE "observe", d)
  BY DEF VerifyDependency
<1>4. d \in records[Top.key].dependencies /\ d \in Nodes /\ d # Absent
  BY <1>2, ConstantsAssumption DEF Walk, Frame
<1>5. CASE /\ Known(d) => d \in Inputs
           /\ ctl' = Run /\ ChangedSince(d, since) /\ stack' = Dirty(stack)
  <2>1. d \in Queries => d \notin Inputs
    BY ConstantsAssumption
  <2>2. Alone
    BY <1>1, <1>2, <1>3, <1>4, <1>5, <2>1, ChangeAlone
  <2> QED  BY <1>1, <1>5, <2>2, DirtyReading
<1>6. CASE /\ Known(d) => d \in Inputs
           /\ ctl' = Run /\ ~ChangedSince(d, since)
           /\ stack' = ReplaceTop([Top EXCEPT !.pending = Remaining(@, d)])
  <2>1. PICK f : f = [Top EXCEPT !.pending = Remaining(@, d)]
    OBVIOUS
  <2>2. /\ f \in Frame /\ f.key = Top.key /\ f.kind = "verify" /\ f.callee = Absent
        /\ f.pending = Top.pending \ {d}
    BY <1>1, <1>2, <2>1 DEF Frame, Remaining
  <2>3. Known(d) /\ d \in Inputs
    BY <1>6 DEF ChangedSince
  <2>4. Passed(f) = Passed(Top) \cup {d}
    BY <1>2, <1>4, <2>2 DEF Passed
  <2>5. Walk(f)
    BY <1>2, <1>6, <2>2, <2>3, <2>4 DEF Walk
  <2>6. Open(f)
    BY <1>2, <2>2, <2>5 DEF Open
  <2>7. ctl'.op = "run" /\ Answers'
    BY <1>6 DEF Run, Call, Answers
  <2>8. stack' = ReplaceTop(f)
    BY <1>6, <2>1
  <2> QED  BY <1>1, <2>2, <2>6, <2>7, <2>8, Replaced
<1>7. CASE /\ Known(d) /\ d \notin Inputs
           /\ stack' = ReplaceTop([[Top EXCEPT !.pending = Remaining(@, d)] EXCEPT !.callee = d])
           /\ ctl' = Call(IF d \in Queries THEN "ensure" ELSE "observe", d)
  <2>1. PICK f : f = [[Top EXCEPT !.pending = Remaining(@, d)] EXCEPT !.callee = d]
    OBVIOUS
  <2>2. /\ f \in Frame /\ f.key = Top.key /\ f.kind = "verify" /\ f.callee = d
        /\ f.pending = Top.pending \ {d}
    BY <1>1, <1>2, <1>4, <2>1 DEF Frame, Remaining
  <2>3. Passed(f) = Passed(Top)
    <3>1. records[Top.key].dependencies \subseteq Nodes /\ Absent \notin Nodes
      BY <1>2, Facts, ConstantsAssumption DEF NodeRecord
    <3> QED  BY <1>2, <1>4, <2>2, <3>1 DEF Passed
  <2>4. IsFirst(f.callee, f.pending)
    BY <1>3, <2>2 DEF IsFirst
  <2>5. Walk(f)
    BY <1>2, <1>4, <1>7, <2>2, <2>3, <2>4 DEF Walk
  <2>6. Open(f)
    BY <1>2, <2>2, <2>5 DEF Open
  <2>7. ctl'.op \in {"ensure", "observe"} /\ ctl'.key = d /\ Answers'
    BY <1>7 DEF Call, Answers
  <2> QED  BY <1>1, <1>7, <2>1, <2>2, <2>6, <2>7, Replaced
<1> QED  BY <1>3, <1>5, <1>6, <1>7

LEMMA ResumeVerifyReading ==
  ASSUME RInv, ResumeVerify
  PROVE  Reading'
<1> DEFINE d == Top.callee
           since == records[Top.key].verified_at
<1>1. /\ stack # <<>> /\ ctl.op \in {"return", "raise"} /\ ctl.op # "idle" /\ Top.kind = "verify"
      /\ ctl.op = "raise" => d \in Resources
      /\ ctl' = Run /\ UNCHANGED <<records, requests, holder>>
  BY DEF ResumeVerify, scopeVars
<1>2. /\ IInv /\ Top \in Frame /\ Open(Top) /\ Walk(Top) /\ d = ctl.key
  BY <1>1, TopIsOpen
<1>3. d \in Queries \cup Resources /\ d # Absent /\ d \notin Inputs
  BY <1>1, <1>2, ConstantsAssumption DEF IInv, Discipline, CallDiscipline, Nodes
<1>4. d \in records[Top.key].dependencies \ Top.pending /\ Known(d) /\ IsFirst(d, Top.pending)
  BY <1>2, <1>3 DEF Walk
<1>5. /\ ctl.op = "return" => Settled(d, CurrentRequest)
      /\ ctl.op = "raise" => (ctl.recorded <=> Settled(d, CurrentRequest))
  BY <1>1, <1>2 DEF RInv, Reading, Answers
<1>6. CASE /\ (ctl.op = "raise" /\ ~ctl.recorded) \/ ChangedSince(d, since)
           /\ stack' = Dirty(stack)
  <2>1. ~(d \in Queries /\ Known(d) /\ ~Settled(d, CurrentRequest))
    BY <1>1, <1>5, ConstantsAssumption
  <2>2. ~(/\ Known(d) /\ ~ChangedSince(d, records[Top.key].verified_at)
          /\ d \in Inputs \/ Settled(d, CurrentRequest))
    BY <1>3, <1>5, <1>6
  <2>3. Alone
    BY <1>1, <1>4, <2>1, <2>2, ChangeAlone
  <2> QED  BY <1>1, <1>6, <2>3, DirtyReading
<1>7. CASE /\ ~((ctl.op = "raise" /\ ~ctl.recorded) \/ ChangedSince(d, since))
           /\ stack' = ReplaceTop([Top EXCEPT !.callee = Absent])
  <2>1. PICK f : f = [Top EXCEPT !.callee = Absent]
    OBVIOUS
  <2>2. /\ f \in Frame /\ f.key = Top.key /\ f.kind = "verify" /\ f.callee = Absent
        /\ f.pending = Top.pending
    BY <1>1, <1>2, <2>1 DEF Frame
  <2>3. Passed(f) \subseteq Passed(Top) \cup {d}
    BY <2>2 DEF Passed
  <2>4. Settled(d, CurrentRequest) /\ ~ChangedSince(d, since)
    BY <1>1, <1>5, <1>7
  <2>5. Walk(f)
    BY <1>2, <1>4, <2>2, <2>3, <2>4 DEF Walk
  <2>6. Open(f)
    BY <1>2, <2>2, <2>5 DEF Open
  <2>7. ctl'.op = "run" /\ Answers'
    BY <1>1 DEF Run, Call, Answers
  <2> QED  BY <1>1, <1>7, <2>1, <2>2, <2>6, <2>7, Replaced
<1> QED  BY <1>6, <1>7 DEF ResumeVerify

\* The top frame goes with an exception.
LEMMA RaiseReading ==
  ASSUME RInv, ctl.op # "idle", stack # <<>>, UNCHANGED <<records, requests, holder>>,
         stack' = Pop, NEW e, ctl' = Raise(Top.key, e, FALSE)
  PROVE  Reading'
<1>1. Top.key \in Queries /\ Top.key \notin Resources
  BY TopIsOpen, ConstantsAssumption
<1>2. ctl'.op = "raise" /\ ctl'.key = Top.key
  BY DEF Raise
<1>3. Answers'
  BY <1>1, <1>2 DEF Answers
<1>4. \A k \in 1 .. Len(stack) - 1 : k \in 1 .. Len(stack)
  BY StackHeight DEF RInv
<1> QED  BY <1>2, <1>3, <1>4, SameAnswers, Popped

\* The top frame goes and its query has a record of this request.
LEMMA SettleReading ==
  ASSUME RInv, ctl.op # "idle", stack # <<>>, UNCHANGED <<requests, holder>>, Alone,
         NEW rec \in NodeRecord, records' = [records EXCEPT ![Top.key] = rec],
         rec.checked_in_request = CurrentRequest, rec.failure = Absent,
         stack' = Pop, ctl' = Return(Top.key)
  PROVE  Reading'
<1> DEFINE q == Top.key
<1>1. IInv /\ q \in Queries /\ q \in Nodes /\ ~Settled(q, CurrentRequest)
  BY TopIsOpen DEF Open
<1>2. CurrentRequest' = CurrentRequest
  BY <1>1, RequestsKept, RequestKept
<1>3. rec # Absent
  BY ConstantsAssumption
<1>4. ASSUME NEW k \in 1 .. Len(stack) - 1, NEW g, g = stack[k]
      PROVE  Open(g)'
  <2>1. k \in 1 .. Len(stack)
    BY <1>1, StackHeight
  <2>2. g \in Frame /\ Open(g) /\ g.key # q /\ (g.kind = "verify" => Known(g.key))
    BY <1>1, <1>4, <2>1, FrameAt DEF RInv, Reading, Frames, Alone, IInv, Discipline, RecordDiscipline
  <2> QED  BY <1>1, <1>2, <1>3, <2>2, OpenBesideWrite
<1>5. ctl'.op = "return" /\ ctl'.key = q
  BY DEF Return, Call
<1>6. records'[q] = rec
  BY <1>1 DEF IInv, TypeOK
<1>7. Answers'
  BY <1>2, <1>3, <1>5, <1>6 DEF Answers, Settled, Known, Failed
<1> QED  BY <1>4, <1>5, <1>7, Popped

LEMMA ReuseQueryReading ==
  ASSUME RInv, ReuseQuery
  PROVE  Reading'
<1> DEFINE q == Top.key
<1>1. /\ stack # <<>> /\ ctl.op # "idle" /\ Top.kind = "verify"
      /\ UNCHANGED <<requests, holder>> /\ stack' = Pop /\ ctl' = Return(q)
      /\ records' = [records EXCEPT ![q] = Verified(records[q])]
  BY DEF ReuseQuery, Verifying, scopeVars
<1>2. IInv /\ q \in Queries /\ q \in Nodes /\ q \notin Resources /\ Known(q)
  BY <1>1, TopIsOpen, ConstantsAssumption
<1>3. PICK rec : rec = Verified(records[q])
  OBVIOUS
<1>4. rec \in NodeRecord /\ rec.failure = Absent
  BY <1>1, <1>2, <1>3, VerifiedType
<1>5. rec.checked_in_request = CurrentRequest
  BY <1>2, <1>3, Facts DEF Verified, NodeRecord
<1> QED  BY <1>1, <1>3, <1>4, <1>5, ReuseAlone, SettleReading

LEMMA BodyReturnsReading ==
  ASSUME RInv, BodyReturns
  PROVE  Reading'
<1>1. PICK v \in Values : Does("return", v) /\ Commit(Top.key, v)
  BY DEF BodyReturns
<1> DEFINE q == Top.key
           rev == CommitRevision(q, v)
           changed == IF KeepsChangedAt(q, v) THEN records[q].changed_at ELSE rev
<1>2. /\ stack # <<>> /\ ctl.op # "idle" /\ Top.kind = "exec"
      /\ UNCHANGED <<requests, holder>> /\ stack' = Pop /\ ctl' = Return(q)
  BY <1>1 DEF BodyReturns, Does, Executing, Commit, scopeVars
<1>3. PICK rec : rec = [NewRecord(v, changed, rev, CurrentRequest)
                          EXCEPT !.dependencies = Edges(q), !.untracked = Top.untracked,
                                 !.checkpointable = Top.checkpointable]
  OBVIOUS
<1>4. records' = [records EXCEPT ![q] = rec] /\ q \in Nodes /\ IInv
  BY <1>1, <1>2, <1>3, TopIsOpen DEF Commit
<1>5. rec.checked_in_request = CurrentRequest /\ rec.failure = Absent
  <2> HIDE DEF changed, rev, q
  <2> QED  BY <1>3 DEF NewRecord
<1>6. rec \in NodeRecord
  <2>1. IInv' /\ ctl'.op = "return" /\ ctl'.key = q
    BY <1>2, <1>4, BodyReturnsPreserves DEF Return, Call
  <2>2. records'[q] = rec
    BY <1>4 DEF IInv, TypeOK
  <2>3. records'[q] # Absent
    BY <2>1 DEF IInv, Discipline, CallDiscipline, Known
  <2> QED  BY <1>4, <2>1, <2>2, <2>3 DEF IInv, TypeOK
<1> QED  BY <1>2, <1>4, <1>5, <1>6, ExecutionAlone, SettleReading

\* A body that reads, calls or is answered goes on in the same frame.
LEMMA ExecReading ==
  ASSUME RInv, IInv', ctl.op # "idle", stack # <<>>, Top.kind = "exec",
         UNCHANGED <<records, requests, holder>>,
         NEW f, f.key = Top.key, f.kind = "exec", stack' = ReplaceTop(f),
         f.callee = IF ctl'.op = "run" THEN Absent ELSE ctl'.key,
         ctl'.op \in {"run", "ensure", "observe"}
  PROVE  Reading'
<1>1. f \in Frame
  <2>1. stack \in Seq(Frame) /\ stack' \in Seq(Frame) /\ Len(stack) \in 1 .. Len(stack)
    BY StackHeight DEF RInv, IInv, TypeOK
  <2>2. DOMAIN stack' = DOMAIN stack /\ stack'[Len(stack)] = f
    BY <2>1 DEF ReplaceTop
  <2> QED  BY <2>1, <2>2
<1>2. Open(f)
  BY TopIsOpen DEF Open
<1>3. Answers'
  BY DEF Answers
<1> QED  BY <1>1, <1>2, <1>3, Replaced

LEMMA BodyReadsInputReading ==
  ASSUME RInv, BodyReadsInput
  PROVE  Reading'
<1>1. PICK i \in Inputs :
        /\ Does("input", i)
        /\ stack' = ReplaceTop([Top EXCEPT
              !.reads = Append(@, IF Known(i) THEN records[i].snapshot ELSE "KeyError"),
              !.dependencies = @ \cup IF Known(i) THEN {i} ELSE {}])
  BY DEF BodyReadsInput
<1>2. PICK reads, deps : stack' = ReplaceTop([Top EXCEPT !.reads = reads, !.dependencies = deps])
  BY <1>1
<1>3. /\ stack # <<>> /\ Top.kind = "exec" /\ ctl.op = "run" /\ UNCHANGED ctl
      /\ UNCHANGED <<records, requests, holder>>
  BY <1>1 DEF BodyReadsInput, Does, Executing, scopeVars
<1>4. PICK f : f = [Top EXCEPT !.reads = reads, !.dependencies = deps]
  OBVIOUS
<1>5. f.key = Top.key /\ f.kind = "exec" /\ f.callee = Absent
  BY <1>3, <1>4, TopIsOpen DEF Frame
<1>6. IInv' /\ stack' = ReplaceTop(f)
  BY <1>2, <1>4, BodyReadsInputPreserves DEF RInv
<1> QED  BY <1>3, <1>5, <1>6, ExecReading

LEMMA BodyReadsUntrackedReading ==
  ASSUME RInv, BodyReadsUntracked
  PROVE  Reading'
<1>1. /\ stack # <<>> /\ Top.kind = "exec" /\ ctl.op = "run" /\ UNCHANGED ctl
      /\ UNCHANGED <<records, requests, holder>>
  BY DEF BodyReadsUntracked, Does, Executing, scopeVars
<1>2. PICK f : f = [Top EXCEPT !.reads = Append(@, ambient), !.untracked = TRUE]
  OBVIOUS
<1>3. f.key = Top.key /\ f.kind = "exec" /\ f.callee = Absent
  BY <1>1, <1>2, TopIsOpen DEF Frame
<1>4. IInv' /\ stack' = ReplaceTop(f)
  BY <1>2, BodyReadsUntrackedPreserves DEF RInv, BodyReadsUntracked
<1> QED  BY <1>1, <1>3, <1>4, ExecReading

LEMMA BodyCallsReading ==
  ASSUME RInv, BodyCalls
  PROVE  Reading'
<1>1. PICK n : /\ \E op : Does(op, n)
               /\ ctl' = Call("ensure", n) \/ ctl' = Call("observe", n)
  BY DEF BodyCalls
<1>2. /\ stack # <<>> /\ Top.kind = "exec" /\ ctl.op = "run" /\ NextStep.arg = n
      /\ UNCHANGED <<records, requests, holder>>
  BY <1>1 DEF BodyCalls, Does, Executing, scopeVars
<1>3. PICK f : f = [Top EXCEPT !.callee = n]
  OBVIOUS
<1>4. f.key = Top.key /\ f.kind = "exec" /\ f.callee = n
  BY <1>2, <1>3, TopIsOpen DEF Frame
<1>5. IInv' /\ stack' = ReplaceTop(f)
  BY <1>2, <1>3, BodyCallsPreserves DEF RInv, BodyCalls
<1>6. ctl'.op \in {"ensure", "observe"} /\ ctl'.key = n
  BY <1>1 DEF Call
<1> QED  BY <1>2, <1>4, <1>5, <1>6, ExecReading

LEMMA BodyResumesReading ==
  ASSUME RInv, BodyResumes
  PROVE  Reading'
<1>1. /\ stack # <<>> /\ Top.kind = "exec" /\ ctl.op = "return" /\ ctl' = Run
      /\ UNCHANGED <<records, requests, holder>>
  BY DEF BodyResumes, scopeVars
<1>2. PICK f : f = [Top EXCEPT !.callee = Absent, !.dependencies = @ \cup {ctl.key},
                               !.reads = Append(@, records[ctl.key].snapshot)]
  OBVIOUS
<1>3. f.key = Top.key /\ f.kind = "exec" /\ f.callee = Absent
  BY <1>1, <1>2, TopIsOpen DEF Frame
<1>4. IInv' /\ stack' = ReplaceTop(f) /\ ctl'.op = "run"
  BY <1>1, <1>2, BodyResumesPreserves DEF RInv, BodyResumes, Run, Call
<1> QED  BY <1>1, <1>3, <1>4, ExecReading

LEMMA BodyCatchesReading ==
  ASSUME RInv, BodyCatches
  PROVE  Reading'
<1>1. /\ stack # <<>> /\ Top.kind = "exec" /\ ctl.op = "raise" /\ ctl' = Run
      /\ UNCHANGED <<records, requests, holder>>
  BY DEF BodyCatches, scopeVars
<1>2. PICK reads, untracked, checkpointable, deps :
        stack' = ReplaceTop([Top EXCEPT !.callee = Absent, !.reads = reads,
                   !.untracked = untracked, !.checkpointable = checkpointable,
                   !.dependencies = deps])
  BY DEF BodyCatches
<1>3. PICK f : f = [Top EXCEPT !.callee = Absent, !.reads = reads,
                   !.untracked = untracked, !.checkpointable = checkpointable,
                   !.dependencies = deps]
  OBVIOUS
<1>4. f.key = Top.key /\ f.kind = "exec" /\ f.callee = Absent
  BY <1>1, <1>3, TopIsOpen DEF Frame
<1>5. IInv' /\ stack' = ReplaceTop(f) /\ ctl'.op = "run"
  BY <1>1, <1>2, <1>3, BodyCatchesPreserves DEF RInv, Run, Call
<1> QED  BY <1>1, <1>4, <1>5, ExecReading

-----------------------------------------------------------------------------
(* Resources.                                                               *)

\* The hook writes the record of a resource that was not settled.
LEMMA HookReading ==
  ASSUME RInv, ctl.op \in {"observe", "load", "split_load", "failure_probe"},
         ~Settled(ctl.key, CurrentRequest), SameRequests, UNCHANGED <<stack, holder>>,
         NEW rec, rec # Absent, records' = [records EXCEPT ![ctl.key] = rec],
         ctl'.op # "run", ctl'.key = ctl.key, Answers'
  PROVE  Reading'
<1> DEFINE r == ctl.key
<1>1. IInv /\ r \in Resources /\ r \in Nodes /\ ctl.op # "idle" /\ ctl.op # "run"
  BY HookFacts DEF RInv
<1>2. CurrentRequest' = CurrentRequest
  BY <1>1, RequestKept
<1>3. ASSUME NEW k \in 1 .. Len(stack), NEW g, g = stack[k]
      PROVE  Open(g)'
  <2>1. g \in Frame /\ Open(g) /\ (g.kind = "verify" => Known(g.key))
    BY <1>1, <1>3, FrameAt DEF RInv, Reading, Frames, IInv, Discipline, RecordDiscipline
  <2>2. g.key # r
    BY <1>1, <1>3, FrameAt, ConstantsAssumption
  <2> QED  BY <1>1, <1>2, <2>1, <2>2, OpenBesideWrite
<1> QED  BY <1>1, <1>3, Standing

\* The hook leaves the table alone.
LEMMA LookReading ==
  ASSUME RInv, ctl.op \in {"observe", "load", "split_load", "failure_probe"},
         UNCHANGED <<stack, holder, records, requests>>,
         ctl'.op # "run", ctl'.key = ctl.key, Answers'
  PROVE  Reading'
BY SameAnswers, Standing

LEMMA ReuseOnProbeHitReading ==
  ASSUME RInv, ctl.op \in {"observe", "load", "split_load", "failure_probe"},
         ~Settled(ctl.key, CurrentRequest), UNCHANGED <<stack, holder>>,
         Known(ctl.key), ~Failed(ctl.key), ReuseOnProbeHit(ctl.key)
  PROVE  Reading'
<1> DEFINE r == ctl.key
<1>1. IInv /\ r \in Resources /\ r \in Nodes /\ ctl.op # "idle"
  BY HookFacts DEF RInv
<1>2. PICK rec : rec = Verified(records[r])
  OBVIOUS
<1>3. /\ rec \in NodeRecord /\ rec.failure = Absent /\ rec # Absent
      /\ rec.checked_in_request = CurrentRequest
  <2>1. rec \in NodeRecord /\ rec.failure = Absent
    BY <1>1, <1>2, VerifiedType DEF Failed
  <2>2. rec.checked_in_request = CurrentRequest
    BY <1>1, <1>2, Facts DEF Verified, NodeRecord
  <2> QED  BY <2>1, <2>2, ConstantsAssumption
<1>4. /\ records' = [records EXCEPT ![r] = rec] /\ SameRequests
      /\ ctl'.op = "return" /\ ctl'.key = r
  BY <1>1, <1>2, RequestsKept DEF ReuseOnProbeHit, Return, Call
<1>5. records'[r] = rec /\ CurrentRequest' = CurrentRequest
  BY <1>1, <1>4, RequestKept DEF IInv, TypeOK
<1>6. Answers'
  BY <1>3, <1>4, <1>5 DEF Answers, Settled, Known, Failed
<1> QED  BY <1>3, <1>4, <1>6, HookReading

LEMMA RaiseUnrecordedReading ==
  ASSUME RInv, ctl.op \in {"observe", "load", "split_load", "failure_probe"},
         ~Settled(ctl.key, CurrentRequest), UNCHANGED <<stack, holder>>,
         NEW e, RaiseUnrecorded(ctl.key, e)
  PROVE  Reading'
<1> DEFINE r == ctl.key
<1>1. IInv /\ r \in Resources /\ r \in Nodes /\ ctl.op # "idle"
  BY HookFacts DEF RInv
<1>2. ctl'.op = "raise" /\ ctl'.key = r /\ ctl'.recorded = FALSE /\ UNCHANGED requests
  BY DEF RaiseUnrecorded, Raise
<1>3. SameRequests /\ CurrentRequest' = CurrentRequest
  BY <1>1, <1>2, RequestsKept, RequestKept
<1>4. CASE ~Known(r)
  <2>1. UNCHANGED records
    BY <1>4 DEF RaiseUnrecorded
  <2>2. Answers'
    BY <1>2, <1>3, <2>1 DEF Answers, Settled, Known, Failed
  <2> QED  BY <1>2, <2>1, <2>2, LookReading
<1>5. CASE Known(r)
  <2>1. PICK rec : rec = [records[r] EXCEPT !.probe_unconfirmed = TRUE]
    OBVIOUS
  <2>2. /\ rec \in NodeRecord /\ rec # Absent /\ rec.failure = records[r].failure
        /\ rec.checked_in_request = records[r].checked_in_request
        /\ rec.retained = records[r].retained
    <3>1. records[r] \in NodeRecord
      BY <1>1, <1>5, Facts
    <3>2. rec \in NodeRecord
      BY <2>1, <3>1 DEF NodeRecord
    <3> QED  BY <2>1, <3>1, <3>2, ConstantsAssumption DEF NodeRecord
  <2>3. records' = [records EXCEPT ![r] = rec]
    BY <1>5, <2>1 DEF RaiseUnrecorded
  <2>4. records'[r] = rec
    BY <1>1, <2>3 DEF IInv, TypeOK
  <2>5. Answers'
    BY <1>2, <1>3, <1>5, <2>2, <2>4 DEF Answers, Settled, Known, Failed
  <2> QED  BY <1>2, <1>3, <2>2, <2>3, <2>5, HookReading
<1> QED  BY <1>4, <1>5

\* The record a failed attempt writes.
LEMMA RecordFailureReading ==
  ASSUME RInv, ctl.op \in {"observe", "load", "split_load", "failure_probe"},
         ~Settled(ctl.key, CurrentRequest), UNCHANGED <<stack, holder>>,
         NEW p \in World, NEW e \in Exceptions, RecordFailure(ctl.key, p, e), IInv'
  PROVE  Reading'
<1> DEFINE r == ctl.key
           rev == IF ~Known(r) \/ FailureUnchanged(r, p) THEN revision ELSE revision + 1
           changed == IF FailureUnchanged(r, p) THEN records[r].changed_at ELSE rev
<1>1. IInv /\ r \in Resources /\ r \in Nodes /\ ctl.op # "idle"
  BY HookFacts DEF RInv
<1>2. PICK rec : rec = [NewRecord(Absent, changed, rev, CurrentRequest)
                          EXCEPT !.probe = p, !.failure = e, !.retained = TRUE]
  OBVIOUS
<1>3. /\ records' = [records EXCEPT ![r] = rec]
      /\ requests' = [requests EXCEPT ![holder].failures = @ \cup {r}]
      /\ ctl'.op = "raise" /\ ctl'.key = r /\ ctl'.recorded = TRUE
  BY <1>2 DEF RecordFailure, Raise
<1>4. /\ rec.checked_in_request = CurrentRequest /\ rec.failure = e /\ rec.retained = TRUE
  <2> HIDE DEF changed, rev
  <2> QED  BY <1>2 DEF NewRecord
<1>5. SameRequests
  <2>1. holder \in Threads /\ requests[holder] \in RequestScope
    BY <1>1, Facts
  <2>2. requests \in [Threads -> RequestScope \cup {Absent}] /\ Absent \notin RequestScope
        /\ requests' \in [Threads -> RequestScope \cup {Absent}]
    BY <1>1, ConstantsAssumption DEF IInv, TypeOK
  <2>3. PICK sc : sc = [requests[holder] EXCEPT !.failures = @ \cup {r}]
    OBVIOUS
  <2>4. sc \in RequestScope /\ sc.request_id = requests[holder].request_id
    BY <1>1, <2>1, <2>3 DEF RequestScope
  <2>5. requests' = [requests EXCEPT ![holder] = sc]
    BY <1>3, <2>3
  <2> QED  BY <2>1, <2>2, <2>4, <2>5 DEF SameRequests
<1>6. records'[r] = rec /\ CurrentRequest' = CurrentRequest
  BY <1>1, <1>3, <1>5, RequestKept DEF IInv, TypeOK
<1>7. rec # Absent
  <2>1. rev \in Nat /\ changed \in Nat /\ CurrentRequest \in Int
    <3>1. Known(r) => records[r].changed_at \in Nat
      BY <1>1, Facts DEF NodeRecord
    <3> QED  BY <1>1, <3>1, Facts DEF IInv, TypeOK, FailureUnchanged
  <2> HIDE DEF changed, rev
  <2>2. rec \in NodeRecord
    BY <1>2, <2>1 DEF NewRecord, NodeRecord
  <2> QED  BY <2>2, ConstantsAssumption
<1>8. Answers'
  BY <1>3, <1>4, <1>6, <1>7 DEF Answers, Settled, Known, Failed
<1> QED  BY <1>3, <1>5, <1>7, <1>8, HookReading

LEMMA RecordLoadReading ==
  ASSUME RInv, ctl.op \in {"observe", "load", "split_load", "failure_probe"},
         ~Settled(ctl.key, CurrentRequest), UNCHANGED <<stack, holder>>,
         NEW p, NEW v, RecordLoad(ctl.key, p, v), IInv'
  PROVE  Reading'
<1> DEFINE r == ctl.key
           rev == LoadRevision(r)
<1>1. IInv /\ r \in Resources /\ r \in Nodes /\ ctl.op # "idle"
  BY HookFacts DEF RInv
<1>2. PICK rec : rec = [NewRecord(v, rev, rev, CurrentRequest) EXCEPT !.probe = p]
  OBVIOUS
<1>3. /\ records' = [records EXCEPT ![r] = rec] /\ UNCHANGED requests
      /\ ctl'.op = "return" /\ ctl'.key = r
  BY <1>2 DEF RecordLoad, Return, Call
<1>4. rec.checked_in_request = CurrentRequest /\ rec.failure = Absent
  <2> HIDE DEF rev
  <2> QED  BY <1>2 DEF NewRecord
<1>5. SameRequests
  BY <1>1, <1>3, RequestsKept
<1>6. records'[r] = rec /\ CurrentRequest' = CurrentRequest
  BY <1>1, <1>3, <1>5, RequestKept DEF IInv, TypeOK
<1>7. rec # Absent
  BY <1>3, <1>6 DEF IInv, Discipline, CallDiscipline, Known
<1>8. Answers'
  BY <1>3, <1>4, <1>6, <1>7 DEF Answers, Settled, Known, Failed
<1> QED  BY <1>3, <1>5, <1>7, <1>8, HookReading

\* What the pending hook finds: an unsettled resource, once it is past the
\* entry of _observe_resource.
LEMMA ObserveResourceReading ==
  ASSUME RInv, ObserveResource
  PROVE  Reading'
<1> DEFINE r == ctl.key
           w == world[r]
           settled == Known(r) /\ SettledInRequest(r)
           answers == settled /\ (~Failed(r) \/ records[r].retained)
<1>1. IInv /\ ctl.op = "observe" /\ ctl.op # "idle" /\ r \in Resources /\ UNCHANGED <<stack, holder>>
  BY HookFacts DEF RInv, ObserveResource, scopeVars
<1>2. answers <=> Settled(r, CurrentRequest)
  BY DEF Settled, SettledInRequest
<1>3. CASE answers /\ UNCHANGED <<records, requests>> /\
           (ctl' = Return(r) \/ ctl' = Raise(r, records[r].failure, TRUE))
  <2>1. CurrentRequest' = CurrentRequest
    BY <1>1, <1>3, SameAnswers
  <2>2. ctl'.op \in {"return", "raise"} /\ ctl'.key = r /\ (ctl'.op = "raise" => ctl'.recorded = TRUE)
    BY <1>3 DEF Return, Call, Raise
  <2>3. Answers'
    BY <1>2, <1>3, <2>1, <2>2 DEF Answers, Settled, Known, Failed
  <2> QED  BY <1>1, <1>3, <2>2, <2>3, LookReading
<1>4. CASE ~answers /\ UNCHANGED <<records, requests>> /\
           (\E op \in {"load", "split_load"} : ctl'.op = op /\ ctl'.key = r)
  <2>1. CurrentRequest' = CurrentRequest
    BY <1>1, <1>4, SameAnswers
  <2>2. Answers'
    BY <1>2, <1>4, <2>1 DEF Answers, Settled, Known, Failed
  <2> QED  BY <1>1, <1>4, <2>2, LookReading
<1>5. CASE ~answers /\ \E e : RaiseUnrecorded(r, e)
  BY <1>1, <1>2, <1>5, RaiseUnrecordedReading
<1>6. CASE ~answers /\ ProbeHit(r, w) /\ ReuseOnProbeHit(r)
  BY <1>1, <1>2, <1>6, ReuseOnProbeHitReading DEF ProbeHit, ProbeProves
<1>7. ctl \in Control
  BY <1>1 DEF IInv, TypeOK
<1>8. /\ ctl' = [ctl EXCEPT !.op = "load"] => ctl'.op = "load" /\ ctl'.key = r
      /\ ctl' = [ctl EXCEPT !.op = "split_load", !.probe = w] => ctl'.op = "split_load" /\ ctl'.key = r
  BY <1>7 DEF Control
<1> QED  BY <1>3, <1>4, <1>5, <1>6, <1>8 DEF ObserveResource

\* A hook that has been called is on an unsettled resource.
LEMMA HookUnsettled ==
  ASSUME RInv, ctl.op \in {"load", "split_load", "failure_probe"}
  PROVE  ~Settled(ctl.key, CurrentRequest)
BY DEF RInv, Reading, Answers

LEMMA ProbeAndLoadReading ==
  ASSUME RInv, ProbeAndLoad
  PROVE  Reading'
<1> DEFINE r == ctl.key
           w == world[r]
           out == LoadOf(w)
<1>1. /\ IInv /\ IInv' /\ ctl.op = "load" /\ ctl.op # "idle" /\ r \in Resources
      /\ UNCHANGED <<stack, holder>>
  BY HookFacts, ProbeAndLoadPreserves DEF RInv, ProbeAndLoad, scopeVars
<1>2. ~Settled(r, CurrentRequest)
  BY <1>1, HookUnsettled
<1>3. CASE RaiseUnrecorded(r, "ReentrantDatabaseError")
  BY <1>1, <1>2, <1>3, RaiseUnrecordedReading
<1>4. CASE /\ ctl' = [ctl EXCEPT !.op = "failure_probe", !.result = out]
           /\ UNCHANGED <<revision, records, requests>>
  <2>1. ctl'.op = "failure_probe" /\ ctl'.key = r
    BY <1>1, <1>4 DEF IInv, TypeOK, Control
  <2>2. CurrentRequest' = CurrentRequest
    BY <1>1, <1>4, SameAnswers
  <2>3. Answers'
    BY <1>2, <1>4, <2>1, <2>2 DEF Answers, Settled, Known, Failed
  <2> QED  BY <1>1, <1>4, <2>1, <2>3, LookReading
<1>5. CASE ProbeHit(r, w) /\ ReuseOnProbeHit(r)
  BY <1>1, <1>2, <1>5, ReuseOnProbeHitReading DEF ProbeHit, ProbeProves
<1>6. CASE RecordLoad(r, w, out)
  BY <1>1, <1>2, <1>6, RecordLoadReading
<1> QED  BY <1>3, <1>4, <1>5, <1>6 DEF ProbeAndLoad

LEMMA ObserveFailureProbeReading ==
  ASSUME RInv, ObserveFailureProbe
  PROVE  Reading'
<1> DEFINE r == ctl.key
           w == world[r]
<1>1. /\ IInv /\ IInv' /\ ctl.op = "failure_probe" /\ r \in Resources /\ w \in World
      /\ ctl.result \in Exceptions /\ UNCHANGED <<stack, holder>>
  BY HookFacts, ObserveFailureProbePreserves
     DEF RInv, ObserveFailureProbe, scopeVars, IInv, Discipline, CallDiscipline
<1>2. ~Settled(r, CurrentRequest)
  BY <1>1, HookUnsettled
<1>3. CASE RaiseUnrecorded(r, ctl.result)
  BY <1>1, <1>2, <1>3, RaiseUnrecordedReading
<1>4. CASE RecordFailure(r, w, ctl.result)
  BY <1>1, <1>2, <1>4, RecordFailureReading
<1> QED  BY <1>3, <1>4 DEF ObserveFailureProbe

LEMMA SplitLoadReading ==
  ASSUME RInv, SplitLoad
  PROVE  Reading'
<1> DEFINE r == ctl.key
           out == LoadOf(world[r])
<1>1. /\ IInv /\ IInv' /\ ctl.op = "split_load" /\ r \in Resources /\ ctl.probe \in World
      /\ UNCHANGED <<stack, holder>>
  BY HookFacts, SplitLoadPreserves
     DEF RInv, SplitLoad, scopeVars, IInv, Discipline, CallDiscipline
<1>2. ~Settled(r, CurrentRequest)
  BY <1>1, HookUnsettled
<1>3. CASE RaiseUnrecorded(r, "ReentrantDatabaseError")
  BY <1>1, <1>2, <1>3, RaiseUnrecordedReading
<1>4. CASE out \in Exceptions /\ RecordFailure(r, ctl.probe, out)
  BY <1>1, <1>2, <1>4, RecordFailureReading
<1>5. CASE RecordLoad(r, ctl.probe, out)
  BY <1>1, <1>2, <1>5, RecordLoadReading
<1> QED  BY <1>3, <1>4, <1>5 DEF SplitLoad

-----------------------------------------------------------------------------
(* Callers and the world.                                                   *)

\* No client step meets a call stack.
LEMMA ClientReading ==
  ASSUME RInv, Client
  PROVE  Reading'
<1>1. LockFree
  BY DEF Client, Get, Inspect, ReadResource, Begin, Set, SetMany, SetInputs, OpenSpan, CloseSpan,
     RequestInputsChanged
<1>2. stack = <<>> /\ ctl.op = "idle"
  BY <1>1 DEF RInv, IInv, Discipline, LockDiscipline
<1>3. UNCHANGED stack /\ (UNCHANGED ctl \/ ctl'.op \in {"ensure", "observe", "answer"})
  <2>1. /\ UNCHANGED stack
        /\ UNCHANGED ctl \/ \E op \in {"ensure", "observe", "answer"} : \E n : ctl' = Call(op, n)
    BY DEF Client, Get, Inspect, ReadResource, Begin, Set, SetMany, SetInputs, OpenSpan, CloseSpan,
       RequestInputsChanged
  <2>2. \A op, n : Call(op, n).op = op
    BY DEF Call
  <2> QED  BY <2>1, <2>2
<1> QED  BY <1>2, <1>3, Quiet

LEMMA EndReading ==
  ASSUME RInv, Deliver \/ Finish
  PROVE  Reading'
<1>1. stack' = <<>>
  <2>1. CASE Deliver
    BY <2>1 DEF Deliver
  <2>2. CASE Finish
    BY <2>2 DEF Finish, RInv, IInv, Discipline, LockDiscipline
  <2> QED  BY <2>1, <2>2
<1>2. ctl'.op \in {"idle", "answer"}
  <2>1. ctl \in Control
    BY DEF RInv, IInv, TypeOK
  <2>2. CASE Deliver
    BY <2>1, <2>2 DEF Deliver, Control
  <2>3. CASE Finish
    BY <2>3 DEF Finish, Idle, Call
  <2> QED  BY <2>2, <2>3
<1> QED  BY <1>1, <1>2, Quiet

\* The world moves under an evaluation: the requests only note that it did.
LEMMA EnvironmentReading ==
  ASSUME RInv, Environment
  PROVE  Reading'
<1>1. requests' = Overtaken /\ UNCHANGED <<records, stack, ctl, holder>>
  BY DEF Environment, MoveWorld, MoveAmbient, scopeVars
<1>2. CASE ctl.op = "idle"
  <2>1. stack = <<>>
    BY <1>2 DEF RInv, IInv, Discipline, LockDiscipline
  <2> QED  BY <1>1, <1>2, <2>1, Quiet
<1>3. CASE ctl.op # "idle"
  <2>1. holder \in Threads /\ requests[holder] \in RequestScope
    BY <1>3, Facts DEF RInv
  <2>2. CurrentRequest' = CurrentRequest
    <3>1. Overtaken[holder] = [requests[holder] EXCEPT !.moved = TRUE]
      BY <2>1, ConstantsAssumption DEF Overtaken
    <3> QED  BY <1>1, <2>1, <3>1 DEF CurrentRequest, RequestScope
  <2>3. \A k \in 1 .. Len(stack) : \A g : g = stack[k] => Open(g)'
    BY <1>1, <2>2, OpenKept DEF RInv, Reading, Frames
  <2>4. Answers'
    BY <1>1, <2>2 DEF RInv, Reading, Answers, Settled, Known, Failed
  <2> QED  BY <1>1, <2>3, <2>4, Standing
<1> QED  BY <1>2, <1>3

LEMMA StutterReading ==
  ASSUME RInv, UNCHANGED vars
  PROVE  Reading'
<1>1. UNCHANGED <<records, stack, ctl, holder, requests>>
  BY DEF vars
<1> QED  BY <1>1 DEF RInv, Reading, Frames, Waits, Twice, Answers, Open, Walk, Passed, Settled,
            Known, Failed, ChangedSince, CurrentRequest

\* Every step preserves the invariant.
LEMMA NextReading ==
  ASSUME RInv, [Next]_vars
  PROVE  RInv'
<1>1. CASE AbandonVerify \/ BodyRaises
  <2>1. PICK e : /\ ctl.op # "idle" /\ stack # <<>> /\ UNCHANGED <<records, requests, holder>>
                 /\ stack' = Pop /\ ctl' = Raise(Top.key, e, FALSE)
    BY <1>1 DEF AbandonVerify, BodyRaises, Does, Executing, scopeVars
  <2> QED  BY <2>1, RaiseReading, NextPreserves DEF RInv
<1>2. CASE Evaluate /\ ~(AbandonVerify \/ BodyRaises)
  <2>1. Reading'
    BY <1>2, EnsureQueryReading, ReuseQueryReading, VerifyDependencyReading, ResumeVerifyReading,
       BodyReadsInputReading, BodyReadsUntrackedReading, BodyCallsReading, BodyResumesReading,
       BodyCatchesReading, BodyReturnsReading, ObserveResourceReading, ProbeAndLoadReading,
       ObserveFailureProbeReading, SplitLoadReading, EndReading DEF Evaluate
  <2> QED  BY <2>1, NextPreserves DEF RInv
<1>3. CASE Client \/ Environment \/ UNCHANGED vars
  BY <1>3, ClientReading, EnvironmentReading, StutterReading, NextPreserves DEF RInv
<1> QED  BY <1>1, <1>2, <1>3 DEF Next

LEMMA InitReading ==
  ASSUME Init
  PROVE  RInv
<1>1. stack = <<>> /\ ctl.op = "idle" /\ Len(stack) = 0
  BY DEF Init, Idle, Call
<1>2. Frames /\ Waits /\ Twice
  BY <1>1 DEF Frames, Waits, Twice
<1>3. Answers
  BY <1>1 DEF Answers
<1> QED  BY <1>2, <1>3, InitEstablishes DEF RInv, Reading

\* The invariant of the walk holds in every reachable state.
THEOREM ReadingInvariance == Spec => []RInv
<1>1. Init => RInv
  BY InitReading
<1>2. RInv /\ [Next]_vars => RInv'
  BY NextReading
<1> QED  BY <1>1, <1>2, PTL DEF Spec

-----------------------------------------------------------------------------
(* No step answers a settled read anew.                                      *)

\* A record that is written is settled now and was not before, or answers as
\* it did.
LEMMA WriteAgrees ==
  ASSUME IInv, NEW n \in Queries \cup Resources, NEW rec, records' = [records EXCEPT ![n] = rec],
         \/ ~Settled(n, CurrentRequest) /\ rec.checked_in_request = CurrentRequest
         \/ /\ rec.snapshot = records[n].snapshot /\ rec.failure = records[n].failure
            /\ rec.changed_at = records[n].changed_at
  PROVE  RereadsAgree
<1>1. n \in Nodes
  BY DEF Nodes
<1>2. \A m \in Nodes : records'[m] = IF m = n THEN rec ELSE records[m]
  BY <1>1 DEF IInv, TypeOK
<1>3. ASSUME NEW m \in Queries \cup Resources, NEW id, Settled(m, id),
             records'[m].checked_in_request = id
      PROVE  SameAnswer(m)
  <2>1. m \in Nodes
    BY DEF Nodes
  <2>2. CASE m # n
    BY <1>2, <2>1, <2>2 DEF SameAnswer
  <2>3. CASE m = n
    BY <1>2, <1>3, <2>1, <2>3 DEF SameAnswer
  <2> QED  BY <2>2, <2>3
<1> QED  BY <1>3 DEF RereadsAgree

LEMMA KeptAgrees ==
  ASSUME \A n \in Queries \cup Resources : records'[n] # Absent => records'[n] = records[n]
  PROVE  RereadsAgree
BY DEF RereadsAgree, SameAnswer

\* A verified record keeps its value and its date of change.
LEMMA VerifiedAgrees ==
  ASSUME IInv, ctl.op # "idle", NEW n \in Queries \cup Resources, Known(n),
         records' = [records EXCEPT ![n] = Verified(@)]
  PROVE  RereadsAgree
<1>1. PICK rec : rec = Verified(records[n])
  OBVIOUS
<1>2. records[n] \in NodeRecord
  BY Facts DEF Nodes
<1>3. /\ rec.snapshot = records[n].snapshot /\ rec.failure = records[n].failure
      /\ rec.changed_at = records[n].changed_at
  BY <1>1, <1>2 DEF Verified, NodeRecord
<1> QED  BY <1>1, <1>3, WriteAgrees

LEMMA CommitAgrees ==
  ASSUME RInv, BodyReturns
  PROVE  RereadsAgree
<1>1. PICK v \in Values : Does("return", v) /\ Commit(Top.key, v)
  BY DEF BodyReturns
<1> DEFINE q == Top.key
           rev == CommitRevision(q, v)
           changed == IF KeepsChangedAt(q, v) THEN records[q].changed_at ELSE rev
<1>2. IInv /\ q \in Queries /\ ~Settled(q, CurrentRequest)
  BY <1>1, TopIsOpen DEF Does, Executing, Open
<1>3. PICK rec : rec = [NewRecord(v, changed, rev, CurrentRequest)
                          EXCEPT !.dependencies = Edges(q), !.untracked = Top.untracked,
                                 !.checkpointable = Top.checkpointable]
  OBVIOUS
<1>4. records' = [records EXCEPT ![q] = rec]
  BY <1>1, <1>3 DEF Commit
<1>5. rec.checked_in_request = CurrentRequest
  <2> HIDE DEF changed, rev, q
  <2> QED  BY <1>3 DEF NewRecord
<1> QED  BY <1>2, <1>4, <1>5, WriteAgrees

LEMMA UnrecordedAgrees ==
  ASSUME IInv, NEW r \in Resources, NEW e, RaiseUnrecorded(r, e)
  PROVE  RereadsAgree
<1>1. CASE ~Known(r)
  BY <1>1, KeptAgrees DEF RaiseUnrecorded
<1>2. CASE Known(r)
  <2>1. PICK rec : rec = [records[r] EXCEPT !.probe_unconfirmed = TRUE]
    OBVIOUS
  <2>2. records[r] \in NodeRecord
    BY <1>2, Facts DEF Nodes
  <2>3. /\ rec.snapshot = records[r].snapshot /\ rec.failure = records[r].failure
        /\ rec.changed_at = records[r].changed_at
    BY <2>1, <2>2 DEF NodeRecord
  <2>4. records' = [records EXCEPT ![r] = rec]
    BY <1>2, <2>1 DEF RaiseUnrecorded
  <2> QED  BY <2>3, <2>4, WriteAgrees
<1> QED  BY <1>1, <1>2

LEMMA FailureAgrees ==
  ASSUME IInv, NEW r \in Resources, NEW p, NEW e, RecordFailure(r, p, e),
         ~Settled(r, CurrentRequest)
  PROVE  RereadsAgree
<1> DEFINE rev == IF ~Known(r) \/ FailureUnchanged(r, p) THEN revision ELSE revision + 1
           changed == IF FailureUnchanged(r, p) THEN records[r].changed_at ELSE rev
<1>1. PICK rec : rec = [NewRecord(Absent, changed, rev, CurrentRequest)
                          EXCEPT !.probe = p, !.failure = e, !.retained = TRUE]
  OBVIOUS
<1>2. records' = [records EXCEPT ![r] = rec]
  BY <1>1 DEF RecordFailure
<1>3. rec.checked_in_request = CurrentRequest
  <2> HIDE DEF changed, rev
  <2> QED  BY <1>1 DEF NewRecord
<1> QED  BY <1>2, <1>3, WriteAgrees

LEMMA LoadAgrees ==
  ASSUME IInv, NEW r \in Resources, NEW p, NEW v, RecordLoad(r, p, v),
         ~Settled(r, CurrentRequest)
  PROVE  RereadsAgree
<1> DEFINE rev == LoadRevision(r)
<1>1. PICK rec : rec = [NewRecord(v, rev, rev, CurrentRequest) EXCEPT !.probe = p]
  OBVIOUS
<1>2. records' = [records EXCEPT ![r] = rec]
  BY <1>1 DEF RecordLoad
<1>3. rec.checked_in_request = CurrentRequest
  <2> HIDE DEF rev
  <2> QED  BY <1>1 DEF NewRecord
<1> QED  BY <1>2, <1>3, WriteAgrees

\* The end of a request drops records and exceptions, and changes no answer.
LEMMA EndAgrees ==
  ASSUME IInv, NEW F, records' = Released(F)
  PROVE  RereadsAgree
<1> SUFFICES ASSUME NEW n \in Queries \cup Resources, Known(n), records'[n] # Absent
             PROVE  SameAnswer(n)
  BY DEF RereadsAgree, Settled
<1>1. n \in Nodes /\ records[n] \in NodeRecord
  BY Facts DEF Nodes
<1>2. \/ records'[n] = records[n]
      \/ records'[n] = [records[n] EXCEPT !.retained = FALSE]
  BY <1>1 DEF Released
<1> QED  BY <1>1, <1>2 DEF SameAnswer, NodeRecord

LEMMA NextAgrees ==
  ASSUME RInv, [Next]_vars
  PROVE  RereadsAgree
<1> USE DEF RInv
<1>1. CASE ReuseQuery
  <2>1. ctl.op # "idle" /\ Top.key \in Queries /\ Known(Top.key)
    BY <1>1, TopFrame DEF ReuseQuery, Verifying
  <2> QED  BY <1>1, <2>1, VerifiedAgrees DEF ReuseQuery
<1>2. CASE ObserveResource \/ ProbeAndLoad \/ ObserveFailureProbe \/ SplitLoad
  <2> DEFINE r == ctl.key
  <2>1. r \in Resources /\ ctl.op # "idle"
    BY <1>2, HookFacts DEF ObserveResource, ProbeAndLoad, ObserveFailureProbe, SplitLoad
  <2>2. \/ UNCHANGED records
        \/ ProbeHit(r, world[r]) /\ ReuseOnProbeHit(r)
        \/ \E e : RaiseUnrecorded(r, e)
        \/ /\ ctl.op \in {"load", "split_load", "failure_probe"}
           /\ \/ \E pr, e : RecordFailure(r, pr, e)
              \/ \E pr, v : RecordLoad(r, pr, v)
    BY <1>2 DEF ObserveResource, ProbeAndLoad, ObserveFailureProbe, SplitLoad
  <2>3. ASSUME ProbeHit(r, world[r]), ReuseOnProbeHit(r)  PROVE RereadsAgree
    BY <2>1, <2>3, VerifiedAgrees DEF ProbeHit, ProbeProves, ReuseOnProbeHit
  <2> QED  BY <2>1, <2>2, <2>3, KeptAgrees, UnrecordedAgrees, FailureAgrees, LoadAgrees,
              HookUnsettled
<1>3. CASE Finish
  <2>1. UNCHANGED records \/ \E F : records' = Released(F)
    BY <1>3 DEF Finish, EndRequest
  <2> QED  BY <2>1, KeptAgrees, EndAgrees
<1>4. CASE Client
  <2>1. PICK t \in Threads :
          \/ UNCHANGED records
          \/ \E i \in Inputs, v \in Values : records' = CommittedInputs(t, [j \in {i} |-> v])
          \/ \E updates \in Updates : records' = CommittedInputs(t, updates)
          \/ \E F : records' = Released(F)
    BY <1>4 DEF Client, Get, Inspect, ReadResource, Begin, OpenSpan, RequestInputsChanged, Set,
       SetMany, SetInputs, CloseSpan, EndRequest
  <2>2. ASSUME NEW S \in SUBSET Inputs, NEW updates \in [S -> Values],
               records' = CommittedInputs(t, updates)
        PROVE  RereadsAgree
    <3>1. \A n \in Queries \cup Resources : n \in Nodes /\ n \notin DOMAIN updates
      BY ConstantsAssumption DEF Nodes
    <3> QED  BY <2>2, <3>1, KeptAgrees DEF CommittedInputs
  <2>3. ASSUME NEW i \in Inputs, NEW v \in Values, records' = CommittedInputs(t, [j \in {i} |-> v])
        PROVE  RereadsAgree
    <3>1. [j \in {i} |-> v] \in [{i} -> Values] /\ {i} \in SUBSET Inputs
      OBVIOUS
    <3> QED  BY <2>2, <2>3, <3>1
  <2>4. ASSUME NEW updates \in Updates, records' = CommittedInputs(t, updates)
        PROVE  RereadsAgree
    <3>1. PICK S \in SUBSET Inputs : updates \in [S -> Values]
      BY DEF Updates
    <3> QED  BY <2>2, <2>4, <3>1
  <2> QED  BY <2>1, <2>3, <2>4, KeptAgrees, EndAgrees
<1>5. CASE BodyReturns
  BY <1>5, CommitAgrees
<1>6. CASE EnsureQuery \/ VerifyDependency \/ ResumeVerify \/ AbandonVerify \/ BodyReadsInput
           \/ BodyReadsUntracked \/ BodyCalls \/ BodyResumes \/ BodyCatches \/ BodyRaises
           \/ Deliver \/ Environment \/ UNCHANGED vars
  BY <1>6, KeptAgrees DEF EnsureQuery, VerifyDependency, ResumeVerify, AbandonVerify,
     BodyReadsInput, BodyReadsUntracked, BodyCalls, BodyResumes, BodyCatches, BodyRaises,
     Deliver, Environment, MoveWorld, MoveAmbient, vars
<1> QED  BY <1>1, <1>2, <1>3, <1>4, <1>5, <1>6 DEF Next, Evaluate

\* Repeatable reads, for every graph of queries, every schedule of the world
\* and every set of open requests: what a request has settled is not computed,
\* loaded or dated again while the request keeps its id (_ensure_query,
\* _observe_resource; "already checked in current request").
THEOREM SettledReadsRepeat == Spec => SettledStaysPut
<1>1. RInv /\ [Next]_vars => [RereadsAgree]_vars
  BY NextAgrees
<1> QED  BY <1>1, ReadingInvariance, PTL DEF Spec, SettledStaysPut
=============================================================================
