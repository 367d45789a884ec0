---------------------------- MODULE KernelProofs ----------------------------
(***************************************************************************)
(* Proofs about Kernel for every database, every set of callers and every   *)
(* bound: type correctness, the discipline of locks, calls, records and     *)
(* revisions, and that no reader can miss a change.                         *)
(***************************************************************************)
EXTENDS Kernel, SequenceTheorems, TLAPS

\* The inductive invariant.  Type correctness alone is not inductive: a step
\* reads the record behind a returned call, the request of the lock holder
\* and the record of the query it verifies, so those must exist.
Discipline ==
  /\ LockDiscipline
  /\ CallDiscipline
  /\ RecordDiscipline
IInv == TypeOK /\ Discipline /\ RevisionDiscipline

-----------------------------------------------------------------------------
(* Typing of the helpers.                                                   *)

\* NewRecord builds a NodeRecord with no edges.
LEMMA NewRecordType ==
  ASSUME NEW v \in Values \cup {Absent}, NEW c \in Nat, NEW d \in Nat, NEW k \in Int
  PROVE  NewRecord(v, c, d, k) \in NodeRecord
BY DEF NewRecord, NodeRecord

\* A pending call and an exception under way are controls.
LEMMA ControlType ==
  /\ Idle \in Control /\ Run \in Control
  /\ \A n \in Nodes : /\ Call("ensure", n) \in Control /\ Call("observe", n) \in Control
                      /\ Call("answer", n) \in Control /\ Return(n) \in Control
  /\ \A n \in Nodes, e \in Outcomes, b \in BOOLEAN : Raise(n, e, b) \in Control
BY DEF Idle, Run, Call, Return, Raise, Control

\* Pushing, popping and replacing frames keeps the stack a stack of frames.
LEMMA StackType ==
  ASSUME stack \in Seq(Frame), NEW f \in Frame
  PROVE  /\ Push(f) \in Seq(Frame)
         /\ stack # <<>> => /\ Top \in Frame /\ Pop \in Seq(Frame)
                            /\ ReplaceTop(f) \in Seq(Frame)
BY DEF Push, Top, Pop, ReplaceTop

\* A new frame has read nothing.
LEMMA NewFrameType ==
  ASSUME NEW kind \in {"exec", "verify"}, NEW q \in Queries, NEW P \in SUBSET Nodes
  PROVE  NewFrame(kind, q, P) \in Frame
BY DEF NewFrame, Frame

\* A part of a sequence is a sequence over the same set.
LEMMA SubSeqType ==
  ASSUME NEW S, NEW s \in Seq(S), NEW m \in Nat \ {0}, NEW n \in Int, n <= Len(s)
  PROVE  SubSeq(s, m, n) \in Seq(S)
<1>1. \A i \in m .. n : s[i] \in S
  BY ElementOfSeq
<1> QED  BY <1>1, SubSeqProperties, Z3

\* Marking a query used keeps the list one of queries.
LEMMA TouchedType ==
  ASSUME lru \in Seq(Queries), NEW q \in Queries
  PROVE  Touched(q) \in Seq(Queries)
<1> DEFINE older == {k \in 1 .. Len(lru) : lru[k] = q}
<1>1. CASE older = {}
  BY <1>1 DEF Touched
<1>2. CASE older # {}
  <2> DEFINE k == CHOOSE j \in older : TRUE
  <2>1. k \in 1 .. Len(lru)
    BY <1>2
  <2>2. SubSeq(lru, 1, k - 1) \in Seq(Queries) /\ SubSeq(lru, k + 1, Len(lru)) \in Seq(Queries)
    <3> HIDE DEF k
    <3> QED  BY <2>1, SubSeqType
  <2> HIDE DEF k
  <2>3. SubSeq(lru, 1, k - 1) \o SubSeq(lru, k + 1, Len(lru)) \in Seq(Queries)
    BY <2>2
  <2> QED  BY <1>2, <2>3 DEF Touched, k
<1> QED  BY <1>1, <1>2

-----------------------------------------------------------------------------
(* What the invariant gives every step.                                     *)

\* The records, the requests and the request of the thread that evaluates.
LEMMA Facts ==
  ASSUME IInv
  PROVE  /\ \A n \in Nodes : Known(n) => records[n] \in NodeRecord
         /\ \A t \in Threads : requests[t] # Absent => requests[t] \in RequestScope
         /\ ctl.op # "idle" => /\ holder \in Threads
                              /\ requests[holder] \in RequestScope
                              /\ CurrentRequest \in Nat
                              /\ CurrentRequest <= request_counter
BY ConstantsAssumption DEF IInv, TypeOK, Discipline, LockDiscipline, RevisionDiscipline,
   LockFree, Known, CurrentRequest, RequestScope

\* A step that leaves the records, the revision and the requests alone keeps
\* their discipline as long as what it verifies has a record.
LEMMA TableUnchanged ==
  ASSUME IInv, UNCHANGED <<revision, records, requests, request_counter>>
  PROVE  /\ RevisionDiscipline'
         /\ (\A k \in 1 .. Len(stack') : stack'[k].kind = "verify" => Known(stack'[k].key))
              => RecordDiscipline'
BY DEF IInv, Discipline, RecordDiscipline, RevisionDiscipline, Known, Failed

\* The stack, frame by frame, and what pushing, popping and replacing leave.
LEMMA FrameAt ==
  ASSUME IInv, NEW k \in 1 .. Len(stack)
  PROVE  stack[k] \in Frame /\ stack[k].key \in Queries /\ stack[k].key \in Nodes
<1>1. stack[k] \in Frame
  BY ElementOfSeq DEF IInv, TypeOK
<1> QED  BY <1>1 DEF Frame, Nodes

LEMMA PushedFrames ==
  ASSUME IInv, NEW f \in Frame
  PROVE  /\ Len(Push(f)) = Len(stack) + 1
         /\ \A k \in 1 .. Len(stack) + 1 :
              Push(f)[k] = IF k <= Len(stack) THEN stack[k] ELSE f
BY DEF Push, IInv, TypeOK

LEMMA PoppedFrames ==
  ASSUME IInv, stack # <<>>
  PROVE  /\ Len(Pop) = Len(stack) - 1
         /\ \A k \in 1 .. Len(stack) - 1 : Pop[k] = stack[k]
<1>1. stack \in Seq(Frame) /\ Len(stack) \in Nat /\ Len(stack) > 0
  BY DEF IInv, TypeOK
<1>2. \A i \in 1 .. Len(stack) - 1 : stack[i] \in Frame
  BY <1>1, ElementOfSeq
<1> DEFINE n == Len(stack) - 1
           s == SubSeq(stack, 1, n)
<1>3. n \in Int /\ 1 \in Int
  BY <1>1
<1> HIDE DEF n
<1>4. /\ Len(s) = IF 1 <= n THEN n - 1 + 1 ELSE 0
      /\ \A i \in 1 .. n - 1 + 1 : s[i] = stack[1 + i - 1]
  <2>1. \A i \in 1 .. n : stack[i] \in Frame
    BY <1>2 DEF n
  <2> QED  BY <1>3, <2>1, SubSeqProperties
<1>5. n - 1 + 1 = n /\ n >= 0 /\ \A i \in 1 .. n : 1 + i - 1 = i
  BY <1>1, <1>3 DEF n
<1>6. Pop = s
  BY DEF Pop, n
<1> QED  BY <1>3, <1>4, <1>5, <1>6 DEF n

LEMMA ReplacedFrames ==
  ASSUME IInv, stack # <<>>, NEW f \in Frame
  PROVE  /\ Len(ReplaceTop(f)) = Len(stack)
         /\ \A k \in 1 .. Len(stack) :
              ReplaceTop(f)[k] = IF k = Len(stack) THEN f ELSE stack[k]
BY DEF ReplaceTop, IInv, TypeOK

LEMMA StackHeight ==
  ASSUME IInv
  PROVE  Len(stack) \in Nat /\ (stack # <<>> => Len(stack) > 0)
BY DEF IInv, TypeOK

\* The frames below the top are the ones that were there.
LEMMA VerifyFrames ==
  ASSUME IInv, NEW f \in Frame, f.kind = "verify" => Known(f.key)
  PROVE  /\ \A k \in 1 .. Len(Push(f)) :
              Push(f)[k].kind = "verify" => Known(Push(f)[k].key)
         /\ stack # <<>> =>
              /\ \A k \in 1 .. Len(Pop) : Pop[k].kind = "verify" => Known(Pop[k].key)
              /\ \A k \in 1 .. Len(ReplaceTop(f)) :
                   ReplaceTop(f)[k].kind = "verify" => Known(ReplaceTop(f)[k].key)
<1>1. \A k \in 1 .. Len(stack) : stack[k].kind = "verify" => Known(stack[k].key)
  BY DEF IInv, Discipline, RecordDiscipline
<1>2. Len(stack) \in Nat
  BY StackHeight
<1>3. \A k \in 1 .. Len(Push(f)) : Push(f)[k].kind = "verify" => Known(Push(f)[k].key)
  BY <1>1, <1>2, PushedFrames
<1>4. ASSUME stack # <<>>, NEW k \in 1 .. Len(Pop)
      PROVE  Pop[k].kind = "verify" => Known(Pop[k].key)
  BY <1>1, <1>2, <1>4, PoppedFrames
<1>5. ASSUME stack # <<>>, NEW k \in 1 .. Len(ReplaceTop(f))
      PROVE  ReplaceTop(f)[k].kind = "verify" => Known(ReplaceTop(f)[k].key)
  BY <1>1, <1>2, <1>5, ReplacedFrames
<1> QED  BY <1>3, <1>4, <1>5

\* A step of the evaluation that only moves the stack, the pending call and
\* the order of use.
LEMMA ControlStep ==
  ASSUME IInv, ctl.op # "idle",
         UNCHANGED <<revision, records, requests, holder, request_counter, span_epoch,
                     world, ambient>>,
         lru' \in Seq(Queries), stack' \in Seq(Frame), ctl' \in Control,
         CallDiscipline', ctl'.op # "idle",
         ctl'.op = "answer" => stack' = <<>>, ctl'.op = "run" => stack' # <<>>,
         \A k \in 1 .. Len(stack') : stack'[k].kind = "verify" => Known(stack'[k].key)
  PROVE  IInv'
<1>1. TypeOK'
  BY DEF IInv, TypeOK
<1>2. LockDiscipline'
  BY DEF IInv, Discipline, LockDiscipline, LockFree
<1>3. RecordDiscipline' /\ RevisionDiscipline'
  BY TableUnchanged
<1> QED  BY <1>1, <1>2, <1>3 DEF IInv, Discipline

\* The same step with the top frame replaced.
LEMMA ReplaceStep ==
  ASSUME IInv, ctl.op # "idle", stack # <<>>, NEW f \in Frame,
         f.kind = "verify" => Known(f.key),
         UNCHANGED <<revision, records, lru, requests, holder, request_counter, span_epoch,
                     world, ambient>>,
         stack' = ReplaceTop(f), ctl' \in Control,
         CallDiscipline', ctl'.op \notin {"idle", "answer"}
  PROVE  IInv'
<1>1. stack' \in Seq(Frame) /\ lru' \in Seq(Queries)
  BY StackType DEF IInv, TypeOK
<1>2. \A k \in 1 .. Len(stack') : stack'[k].kind = "verify" => Known(stack'[k].key)
  BY VerifyFrames
<1>3. stack' # <<>>
  BY DEF IInv, TypeOK, ReplaceTop
<1> QED  BY <1>1, <1>2, <1>3, ControlStep

-----------------------------------------------------------------------------
(* Every step of the evaluation preserves the invariant.                     *)

LEMMA EnsureQueryPreserves ==
  ASSUME IInv, EnsureQuery
  PROVE  IInv'
<1> DEFINE q == ctl.key
<1> USE ConstantsAssumption
<1>1. q \in Queries /\ q \in Nodes /\ ctl.op = "ensure"
  BY DEF IInv, Discipline, CallDiscipline, EnsureQuery, Nodes
<1>2. UNCHANGED <<revision, records, requests, holder, request_counter, span_epoch, world, ambient>>
  BY DEF EnsureQuery, scopeVars, worldVars
<1>3. \A k \in 1 .. Len(stack) : stack[k].kind = "verify" => Known(stack[k].key)
  BY DEF IInv, Discipline, RecordDiscipline
<1>4. CASE UNCHANGED stack /\ lru' = Touched(q) /\ ctl' = Return(q) /\ Known(q)
  <2>1. lru' \in Seq(Queries) /\ stack' \in Seq(Frame) /\ ctl' \in Control
    BY <1>1, <1>4, TouchedType, ControlType DEF IInv, TypeOK
  <2>2. CallDiscipline' /\ ctl'.op = "return"
    BY <1>1, <1>2, <1>4 DEF IInv, Discipline, CallDiscipline, RecordDiscipline, Return, Call,
       Known, Failed
  <2> QED  BY <1>1, <1>2, <1>3, <1>4, <2>1, <2>2, ControlStep
<1>5. CASE UNCHANGED <<stack, lru>> /\ ctl' = Raise(q, "CycleError", FALSE)
  <2>1. lru' \in Seq(Queries) /\ stack' \in Seq(Frame) /\ ctl' \in Control
    BY <1>1, <1>5, ControlType DEF IInv, TypeOK, Outcomes, Exceptions
  <2>2. CallDiscipline' /\ ctl'.op = "raise"
    BY <1>1, <1>2, <1>5 DEF CallDiscipline, Raise, Exceptions
  <2> QED  BY <1>1, <1>2, <1>3, <1>5, <2>1, <2>2, ControlStep
<1>6. CASE /\ UNCHANGED lru /\ ctl' = Run
           /\ stack' = Push(IF Known(q) /\ ~records[q].untracked
                            THEN NewFrame("verify", q, records[q].dependencies)
                            ELSE NewFrame("exec", q, {}))
  <2> DEFINE f == IF Known(q) /\ ~records[q].untracked
                  THEN NewFrame("verify", q, records[q].dependencies)
                  ELSE NewFrame("exec", q, {})
  <2>1. f \in Frame
    <3>1. Known(q) => records[q].dependencies \in SUBSET Nodes
      BY <1>1, Facts DEF NodeRecord
    <3> QED  BY <1>1, <3>1, NewFrameType
  <2>2. f.kind = "verify" => Known(f.key)
    BY DEF NewFrame
  <2> HIDE DEF f
  <2>3. stack' = Push(f)
    BY <1>6 DEF f
  <2>4. lru' \in Seq(Queries) /\ ctl' \in Control
    BY <1>6, ControlType DEF IInv, TypeOK
  <2>7. stack' \in Seq(Frame) /\ stack' # <<>>
    BY <2>1, <2>3 DEF IInv, TypeOK, Push
  <2>5. CallDiscipline' /\ ctl'.op = "run"
    BY <1>6 DEF CallDiscipline, Run, Call
  <2>6. \A k \in 1 .. Len(stack') : stack'[k].kind = "verify" => Known(stack'[k].key)
    BY <2>1, <2>2, <2>3, VerifyFrames
  <2> QED  BY <1>1, <1>2, <2>4, <2>5, <2>6, <2>7, ControlStep
<1> QED  BY <1>4, <1>5, <1>6 DEF EnsureQuery

\* The frame on top of a running verification or execution.
LEMMA TopFrame ==
  ASSUME IInv, stack # <<>>
  PROVE  /\ Top \in Frame /\ Top.key \in Queries /\ Top.key \in Nodes
         /\ Top.kind = "verify" => Known(Top.key)
<1>1. Len(stack) \in 1 .. Len(stack)
  BY DEF IInv, TypeOK
<1>2. Top \in Frame
  BY <1>1 DEF IInv, TypeOK, Top
<1>3. Top.kind = "verify" => Known(Top.key)
  BY <1>1 DEF IInv, Discipline, RecordDiscipline, Top
<1> QED  BY <1>2, <1>3 DEF Frame, Nodes

\* A verification that turns into an execution.
LEMMA DirtyFrame ==
  ASSUME IInv, stack # <<>>
  PROVE  \E f \in Frame : f.kind = "exec" /\ Dirty(stack) = ReplaceTop(f)
<1> DEFINE f == NewFrame("exec", Top.key, {})
<1>1. f \in Frame
  BY TopFrame, NewFrameType
<1>2. f.kind = "exec" /\ Dirty(stack) = ReplaceTop(f)
  BY DEF NewFrame, Dirty, ReplaceTop, Top
<1> QED  BY <1>1, <1>2

LEMMA VerifyDependencyPreserves ==
  ASSUME IInv, VerifyDependency
  PROVE  IInv'
<1> USE ConstantsAssumption
<1>1. UNCHANGED <<revision, records, lru, requests, holder, request_counter, span_epoch,
                  world, ambient>>
  BY DEF VerifyDependency, scopeVars, worldVars
<1>2. stack # <<>> /\ ctl.op = "run" /\ Top.kind = "verify"
  BY DEF VerifyDependency, Verifying
<1>3. Top \in Frame /\ Known(Top.key)
  BY <1>2, TopFrame
<1>4. PICK d \in Top.pending :
        \/ /\ ctl' = Run
           /\ \/ stack' = Dirty(stack)
              \/ stack' = ReplaceTop([Top EXCEPT !.pending = Remaining(@, d)])
        \/ /\ d \notin Inputs
           /\ stack' = ReplaceTop([[Top EXCEPT !.pending = Remaining(@, d)] EXCEPT !.callee = d])
           /\ ctl' = Call(IF d \in Queries THEN "ensure" ELSE "observe", d)
  BY DEF VerifyDependency
<1> DEFINE rest == [Top EXCEPT !.pending = Remaining(@, d)]
           call == [rest EXCEPT !.callee = d]
<1>5. /\ d \in Nodes /\ rest \in Frame /\ call \in Frame
      /\ rest.kind = "verify" /\ rest.key = Top.key /\ call.kind = "verify" /\ call.key = Top.key
  BY <1>2, <1>3 DEF Frame, Remaining
<1>6. CASE ctl' = Run /\ stack' = Dirty(stack)
  <2>1. PICK f \in Frame : f.kind = "exec" /\ stack' = ReplaceTop(f)
    BY <1>2, <1>6, DirtyFrame
  <2>2. CallDiscipline' /\ ctl' \in Control /\ ctl'.op = "run"
    BY <1>6, ControlType DEF CallDiscipline, Run, Call
  <2> QED  BY <1>1, <1>2, <2>1, <2>2, ReplaceStep
<1>7. CASE ctl' = Run /\ stack' = ReplaceTop(rest)
  <2>1. CallDiscipline' /\ ctl' \in Control /\ ctl'.op = "run"
    BY <1>7, ControlType DEF CallDiscipline, Run, Call
  <2> QED  BY <1>1, <1>2, <1>3, <1>5, <1>7, <2>1, ReplaceStep
<1>8. CASE /\ d \notin Inputs /\ stack' = ReplaceTop(call)
           /\ ctl' = Call(IF d \in Queries THEN "ensure" ELSE "observe", d)
  <2>1. ctl' \in Control
    BY <1>5, <1>8, ControlType
  <2>2. CallDiscipline' /\ ctl'.op \in {"ensure", "observe"}
    BY <1>5, <1>8 DEF CallDiscipline, Call, Nodes
  <2> QED  BY <1>1, <1>2, <1>3, <1>5, <1>8, <2>1, <2>2, ReplaceStep
<1> QED  BY <1>4, <1>6, <1>7, <1>8

LEMMA ResumeVerifyPreserves ==
  ASSUME IInv, ResumeVerify
  PROVE  IInv'
<1>1. UNCHANGED <<revision, records, lru, requests, holder, request_counter, span_epoch,
                  world, ambient>>
  BY DEF ResumeVerify, scopeVars, worldVars
<1>2. stack # <<>> /\ ctl.op # "idle" /\ Top.kind = "verify" /\ ctl' = Run
  BY DEF ResumeVerify
<1>3. Top \in Frame /\ Known(Top.key)
  BY <1>2, TopFrame
<1>4. CallDiscipline' /\ ctl' \in Control /\ ctl'.op = "run"
  BY <1>2, ControlType DEF CallDiscipline, Run, Call
<1>5. PICK f \in Frame : (f.kind = "verify" => Known(f.key)) /\ stack' = ReplaceTop(f)
  <2>1. CASE stack' = Dirty(stack)
    BY <1>2, <2>1, DirtyFrame
  <2>2. CASE stack' = ReplaceTop([Top EXCEPT !.callee = Absent])
    <3>1. [Top EXCEPT !.callee = Absent] \in Frame /\ [Top EXCEPT !.callee = Absent].key = Top.key
      BY <1>3 DEF Frame
    <3> QED  BY <1>3, <2>2, <3>1
  <2> QED  BY <2>1, <2>2 DEF ResumeVerify
<1> QED  BY <1>1, <1>2, <1>4, <1>5, ReplaceStep

\* The top frame goes and an exception goes on.
LEMMA RaiseStep ==
  ASSUME IInv, ctl.op # "idle", stack # <<>>,
         UNCHANGED <<revision, records, lru, requests, holder, request_counter, span_epoch,
                     world, ambient>>,
         stack' = Pop, NEW e \in Exceptions, ctl' = Raise(Top.key, e, FALSE)
  PROVE  IInv'
<1>1. stack' \in Seq(Frame) /\ lru' \in Seq(Queries)
  BY TopFrame, StackType DEF IInv, TypeOK
<1>2. \A k \in 1 .. Len(stack') : stack'[k].kind = "verify" => Known(stack'[k].key)
  BY TopFrame, VerifyFrames
<1>3. ctl' \in Control
  BY TopFrame, ControlType DEF Outcomes
<1>4. CallDiscipline' /\ ctl'.op = "raise"
  BY TopFrame DEF CallDiscipline, Raise
<1> QED  BY <1>1, <1>2, <1>3, <1>4, ControlStep

LEMMA AbandonVerifyPreserves ==
  ASSUME IInv, AbandonVerify
  PROVE  IInv'
<1>1. ctl.result \in Exceptions
  BY DEF IInv, Discipline, CallDiscipline, AbandonVerify
<1> QED  BY <1>1, RaiseStep DEF AbandonVerify, scopeVars, worldVars

LEMMA BodyRaisesPreserves ==
  ASSUME IInv, BodyRaises
  PROVE  IInv'
BY RaiseStep DEF BodyRaises, Does, Executing, scopeVars, worldVars

\* An execution that reads on.
LEMMA ExecStep ==
  ASSUME IInv, ctl.op # "idle", stack # <<>>, Top.kind = "exec",
         UNCHANGED <<revision, records, lru, requests, holder, request_counter, span_epoch,
                     world, ambient>>,
         NEW f \in Frame, f.kind = "exec", stack' = ReplaceTop(f),
         ctl' = Run
  PROVE  IInv'
<1>1. CallDiscipline' /\ ctl' \in Control /\ ctl'.op = "run"
  BY ControlType DEF CallDiscipline, Run, Call
<1> QED  BY <1>1, ReplaceStep

\* An execution that is running has Run as its pending call.
LEMMA RunningIsRun ==
  ASSUME IInv, ctl.op = "run", UNCHANGED ctl
  PROVE  CallDiscipline' /\ ctl' \in Control /\ ctl'.op = "run"
BY DEF IInv, TypeOK, CallDiscipline

\* A read is appended to what the body has read.
LEMMA AppendRead ==
  ASSUME NEW g \in Frame, NEW out \in Outcomes
  PROVE  Append(g.reads, out) \in Seq(Outcomes)
<1>1. g.reads \in Seq(Outcomes)
  BY DEF Frame
<1> QED  BY <1>1

LEMMA BodyReadsInputPreserves ==
  ASSUME IInv, BodyReadsInput
  PROVE  IInv'
<1>1. PICK i \in Inputs :
        /\ Does("input", i)
        /\ stack' = ReplaceTop([Top EXCEPT
              !.reads = Append(@, IF Known(i) THEN records[i].snapshot ELSE "KeyError"),
              !.dependencies = @ \cup IF Known(i) THEN {i} ELSE {}])
  BY DEF BodyReadsInput
<1>2. stack # <<>> /\ Top.kind = "exec" /\ ctl.op = "run" /\ Top \in Frame
  BY <1>1, TopFrame DEF Does, Executing
<1> DEFINE out == IF Known(i) THEN records[i].snapshot ELSE "KeyError"
           deps == IF Known(i) THEN {i} ELSE {}
           reads == Append(Top.reads, out)
           f == [Top EXCEPT !.reads = reads, !.dependencies = @ \cup deps]
<1>3. out \in Outcomes
  <2>1. CASE Known(i)
    <3>1. i \in Nodes /\ i \notin Resources
      BY ConstantsAssumption DEF Nodes
    <3>2. records[i] \in NodeRecord /\ records[i].snapshot # Absent
      BY <2>1, <3>1, Facts DEF IInv, Discipline, RecordDiscipline
    <3> QED  BY <2>1, <3>2 DEF NodeRecord, Outcomes
  <2> QED  BY <2>1 DEF Outcomes, Exceptions
<1>4. deps \in SUBSET Nodes
  BY DEF Nodes
<1> HIDE DEF out, deps, reads
<1>5. f \in Frame /\ f.kind = "exec"
  <2>1. reads \in Seq(Outcomes)
    BY <1>2, <1>3, AppendRead DEF reads
  <2> QED  BY <1>2, <1>4, <2>1 DEF Frame
<1>6. UNCHANGED <<revision, records, lru, requests, holder, request_counter, span_epoch,
                  world, ambient, ctl>>
  BY DEF BodyReadsInput, scopeVars, worldVars
<1>7. stack' = ReplaceTop(f)
  BY <1>1 DEF out, deps, reads
<1> QED  BY <1>2, <1>5, <1>6, <1>7, RunningIsRun, ReplaceStep

LEMMA BodyReadsUntrackedPreserves ==
  ASSUME IInv, BodyReadsUntracked
  PROVE  IInv'
<1> DEFINE reads == Append(Top.reads, ambient)
           f == [Top EXCEPT !.reads = reads, !.untracked = TRUE]
<1>1. stack # <<>> /\ Top.kind = "exec" /\ ctl.op = "run" /\ Top \in Frame
  BY TopFrame DEF BodyReadsUntracked, Does, Executing
<1>2. ambient \in Outcomes
  BY ConstantsAssumption DEF IInv, TypeOK, Outcomes
<1>3. reads \in Seq(Outcomes)
  BY <1>1, <1>2, AppendRead
<1>4. stack' = ReplaceTop(f) /\
      UNCHANGED <<revision, records, lru, requests, holder, request_counter, span_epoch,
                  world, ambient, ctl>>
  BY DEF BodyReadsUntracked, scopeVars, worldVars
<1> HIDE DEF reads
<1>5. f \in Frame /\ f.kind = "exec"
  BY <1>1, <1>3 DEF Frame
<1> QED  BY <1>1, <1>4, <1>5, RunningIsRun, ReplaceStep

LEMMA BodyCallsPreserves ==
  ASSUME IInv, BodyCalls
  PROVE  IInv'
<1>1. PICK n \in Queries \cup Resources :
        /\ \E op \in {"query", "resource"} : Does(op, n)
        /\ \/ n \in Queries /\ ctl' = Call("ensure", n)
           \/ n \in Resources /\ ctl' = Call("observe", n)
  BY DEF BodyCalls
<1> DEFINE f == [Top EXCEPT !.callee = n]
<1>2. stack # <<>> /\ Top.kind = "exec" /\ ctl.op = "run" /\ Top \in Frame
  BY <1>1, TopFrame DEF Does, Executing
<1>3. n \in Nodes /\ f \in Frame /\ f.kind = "exec"
  BY <1>2 DEF Frame, Nodes
<1>4. stack' = ReplaceTop(f)
  <2>1. NextStep.arg = n
    BY <1>1 DEF Does
  <2> QED  BY <2>1 DEF BodyCalls
<1>5. UNCHANGED <<revision, records, lru, requests, holder, request_counter, span_epoch,
                  world, ambient>>
  BY DEF BodyCalls, scopeVars, worldVars
<1>6. ctl' \in Control
  BY <1>1, <1>3, ControlType
<1>7. CallDiscipline' /\ ctl'.op \in {"ensure", "observe"}
  BY <1>1 DEF CallDiscipline, Call
<1> QED  BY <1>2, <1>3, <1>4, <1>5, <1>6, <1>7, ReplaceStep

\* A call that returned left a value to read.
LEMMA ReturnedValue ==
  ASSUME IInv, ctl.op = "return"
  PROVE  ctl.key \in Nodes /\ records[ctl.key] \in NodeRecord /\ records[ctl.key].snapshot \in Values
<1>1. ctl.key \in Nodes /\ Known(ctl.key) /\ ~Failed(ctl.key)
  BY DEF IInv, Discipline, CallDiscipline, Nodes
<1>2. records[ctl.key] \in NodeRecord /\ records[ctl.key].snapshot # Absent
  BY <1>1, Facts DEF IInv, Discipline, RecordDiscipline
<1> QED  BY <1>1, <1>2 DEF NodeRecord

LEMMA BodyResumesPreserves ==
  ASSUME IInv, BodyResumes
  PROVE  IInv'
<1> DEFINE reads == Append(Top.reads, records[ctl.key].snapshot)
           f == [Top EXCEPT !.callee = Absent, !.dependencies = @ \cup {ctl.key},
                            !.reads = reads]
<1>1. stack # <<>> /\ Top.kind = "exec" /\ ctl.op = "return" /\ Top \in Frame
  BY TopFrame DEF BodyResumes
<1>2. reads \in Seq(Outcomes)
  BY <1>1, ReturnedValue, AppendRead DEF Outcomes
<1>3. stack' = ReplaceTop(f) /\ ctl' = Run /\
      UNCHANGED <<revision, records, lru, requests, holder, request_counter, span_epoch,
                  world, ambient>>
  BY DEF BodyResumes, scopeVars, worldVars
<1> HIDE DEF reads
<1>4. f \in Frame /\ f.kind = "exec"
  BY <1>1, <1>2, ReturnedValue DEF Frame
<1> QED  BY <1>1, <1>3, <1>4, ExecStep

LEMMA BodyCatchesPreserves ==
  ASSUME IInv, BodyCatches
  PROVE  IInv'
<1> DEFINE impure == CaughtImpure(Top.key, ctl.result)
           unrecorded == ctl.key \in Resources /\ ~ctl.recorded
           deps == IF ctl.key \in Resources /\ Known(ctl.key) THEN {ctl.key} ELSE {}
           reads == Append(Top.reads, ctl.result)
           f == [Top EXCEPT !.callee = Absent, !.reads = reads,
                            !.untracked = @ \/ impure,
                            !.checkpointable = @ /\ ~impure /\ ~unrecorded,
                            !.dependencies = @ \cup deps]
<1>1. stack # <<>> /\ Top.kind = "exec" /\ ctl.op = "raise" /\ Top \in Frame
  BY TopFrame DEF BodyCatches
<1>2. ctl.result \in Outcomes /\ deps \in SUBSET Nodes
  BY <1>1 DEF IInv, Discipline, CallDiscipline, Outcomes, Nodes
<1>3. impure \in BOOLEAN /\ unrecorded \in BOOLEAN
  BY DEF CaughtImpure
<1>4. stack' = ReplaceTop(f) /\ ctl' = Run /\
      UNCHANGED <<revision, records, lru, requests, holder, request_counter, span_epoch,
                  world, ambient>>
  BY DEF BodyCatches, scopeVars, worldVars
<1>6. reads \in Seq(Outcomes)
  BY <1>1, <1>2, AppendRead
<1> HIDE DEF impure, unrecorded, deps, reads
<1>5. f \in Frame /\ f.kind = "exec"
  BY <1>1, <1>2, <1>3, <1>6 DEF Frame
<1> QED  BY <1>1, <1>4, <1>5, ExecStep

LEMMA DeliverPreserves ==
  ASSUME IInv, Deliver
  PROVE  IInv'
<1>1. UNCHANGED <<revision, records, lru, stack, requests, holder, request_counter, span_epoch,
                  world, ambient>>
  BY DEF Deliver, scopeVars, worldVars
<1>2. stack = <<>> /\ ctl.op \in {"return", "raise"} /\ ctl \in Control
  BY DEF Deliver, IInv, TypeOK
<1>3. ctl' \in Control /\ ctl'.op = "answer"
  <2> DEFINE out == IF ctl.op = "raise" THEN ctl.result ELSE records[ctl.key].snapshot
  <2>1. out \in Outcomes \cup {Absent}
    BY <1>2, ReturnedValue DEF Outcomes, Control
  <2>2. ctl' = [ctl EXCEPT !.op = "answer", !.result = out]
    BY DEF Deliver
  <2> HIDE DEF out
  <2> QED  BY <1>2, <2>1, <2>2 DEF Control
<1>4. CallDiscipline'
  BY <1>3 DEF CallDiscipline
<1>5. lru' \in Seq(Queries) /\ stack' \in Seq(Frame)
  BY <1>1 DEF IInv, TypeOK
<1> QED  BY <1>1, <1>2, <1>3, <1>4, <1>5, ControlStep

\* The open requests are the same ones, whatever else they note.
SameRequests ==
  /\ requests' \in [Threads -> RequestScope \cup {Absent}]
  /\ \A t \in Threads : /\ requests'[t] = Absent <=> requests[t] = Absent
                        /\ requests[t] # Absent => requests'[t].request_id = requests[t].request_id

\* A step of the evaluation that writes one record.
LEMMA RecordStep ==
  ASSUME IInv, ctl.op # "idle",
         NEW n \in Nodes, NEW rec \in NodeRecord, records' = [records EXCEPT ![n] = rec],
         revision' \in Nat, revision <= revision',
         rec.changed_at <= rec.verified_at, rec.verified_at <= revision',
         rec.checked_in_request <= request_counter,
         rec.failure # Absent <=> rec.snapshot = Absent,
         rec.failure # Absent => n \in Resources,
         SameRequests, UNCHANGED <<holder, request_counter, span_epoch, world, ambient>>,
         lru' \in Seq(Queries), stack' \in Seq(Frame), ctl' \in Control,
         ctl'.op \notin {"idle", "answer", "run"}, CallDiscipline',
         \A k \in 1 .. Len(stack') : stack'[k].kind = "verify" => Known(stack'[k].key)
  PROVE  IInv'
<1> USE ConstantsAssumption
<1>1. TypeOK'
  BY DEF IInv, TypeOK, SameRequests
<1>2. LockDiscipline'
  BY Facts DEF IInv, Discipline, LockDiscipline, LockFree, SameRequests
<1>3. \A m \in Nodes : records'[m] = IF m = n THEN rec ELSE records[m]
  BY DEF IInv, TypeOK
<1>4. RecordDiscipline'
  <2>1. \A m \in Nodes : Known(m)' => /\ Failed(m)' <=> records'[m].snapshot = Absent
                                      /\ Failed(m)' => m \in Resources
    BY <1>3 DEF IInv, Discipline, RecordDiscipline, Known, Failed
  <2>2. \A k \in 1 .. Len(stack') : stack'[k].kind = "verify" => records'[stack'[k].key] # Absent
    <3> SUFFICES ASSUME NEW k \in 1 .. Len(stack'), stack'[k].kind = "verify"
                 PROVE  records'[stack'[k].key] # Absent
      OBVIOUS
    <3>1. stack'[k] \in Frame
      BY ElementOfSeq
    <3>2. stack'[k].key \in Nodes
      BY <3>1 DEF Frame, Nodes
    <3> QED  BY <1>3, <3>2 DEF Known
  <2> QED  BY <2>1, <2>2 DEF RecordDiscipline, Known, Failed
<1>5. RevisionDiscipline'
  <2>1. \A m \in Nodes : Known(m)' => /\ records'[m].changed_at <= records'[m].verified_at
                                      /\ records'[m].verified_at <= revision'
                                      /\ records'[m].checked_in_request <= request_counter'
    <3> SUFFICES ASSUME NEW m \in Nodes, records'[m] # Absent
                 PROVE  /\ records'[m].changed_at <= records'[m].verified_at
                        /\ records'[m].verified_at <= revision'
                        /\ records'[m].checked_in_request <= request_counter'
      BY DEF Known
    <3>1. CASE m = n
      BY <1>3, <3>1
    <3>2. CASE m # n
      <4>1. records'[m] = records[m] /\ records[m] \in NodeRecord
        BY <1>3, <3>2, Facts DEF Known
      <4> QED  BY <4>1 DEF IInv, TypeOK, RevisionDiscipline, Known, NodeRecord
    <3> QED  BY <3>1, <3>2
  <2>2. \A t \in Threads : requests'[t] # Absent =>
          /\ requests'[t].request_id <= request_counter'
          /\ \A u \in Threads \ {t} :
               requests'[u] # Absent => requests'[u].request_id # requests'[t].request_id
    BY DEF IInv, RevisionDiscipline, SameRequests
  <2> QED  BY <2>1, <2>2 DEF RevisionDiscipline
<1> QED  BY <1>1, <1>2, <1>4, <1>5 DEF IInv, Discipline

\* Unchanged requests are the same requests.
LEMMA RequestsKept ==
  ASSUME IInv, UNCHANGED requests
  PROVE  SameRequests
BY DEF IInv, TypeOK, SameRequests

\* A record found unchanged keeps its value and its date of change.
LEMMA VerifiedType ==
  ASSUME IInv, ctl.op # "idle", NEW n \in Nodes, Known(n)
  PROVE  /\ Verified(records[n]) \in NodeRecord
         /\ Verified(records[n]).snapshot = records[n].snapshot
         /\ Verified(records[n]).failure = records[n].failure
         /\ Verified(records[n]).changed_at <= Verified(records[n]).verified_at
         /\ Verified(records[n]).verified_at <= revision
         /\ Verified(records[n]).checked_in_request <= request_counter
         /\ Verified(records[n]).failure # Absent <=> Verified(records[n]).snapshot = Absent
         /\ Verified(records[n]).failure # Absent => n \in Resources
<1>1. records[n] \in NodeRecord /\ CurrentRequest \in Nat /\ CurrentRequest <= request_counter
      /\ revision \in Nat
  BY Facts DEF IInv, TypeOK
<1>2. PICK r : r = records[n]
  OBVIOUS
<1>3. r \in NodeRecord
  BY <1>1, <1>2
<1>4. /\ Verified(r) \in NodeRecord /\ Verified(r).snapshot = r.snapshot
      /\ Verified(r).failure = r.failure /\ Verified(r).changed_at = r.changed_at
      /\ Verified(r).verified_at = revision /\ Verified(r).checked_in_request = CurrentRequest
  <2>1. PICK rec : rec = Verified(r)
    OBVIOUS
  <2>2. CurrentRequest \in Int
    BY <1>1
  <2>3. rec = [r EXCEPT !.verified_at = revision, !.checked_in_request = CurrentRequest]
    BY <2>1 DEF Verified
  <2>4. rec \in NodeRecord
    BY <1>1, <1>3, <2>2, <2>3 DEF NodeRecord
  <2>5. /\ rec.snapshot = r.snapshot /\ rec.failure = r.failure /\ rec.changed_at = r.changed_at
        /\ rec.verified_at = revision /\ rec.checked_in_request = CurrentRequest
    BY <1>3, <2>3 DEF NodeRecord
  <2> QED  BY <2>1, <2>4, <2>5
<1>5. r.changed_at <= revision
  <2>1. r.changed_at <= r.verified_at /\ r.verified_at <= revision
    BY <1>2 DEF IInv, RevisionDiscipline
  <2> QED  BY <1>1, <1>3, <2>1 DEF NodeRecord
<1>6. (r.failure # Absent <=> r.snapshot = Absent) /\ (r.failure # Absent => n \in Resources)
  BY <1>2 DEF IInv, Discipline, RecordDiscipline, Failed
<1> QED  BY <1>1, <1>2, <1>4, <1>5, <1>6

LEMMA ReuseQueryPreserves ==
  ASSUME IInv, ReuseQuery
  PROVE  IInv'
<1> DEFINE q == Top.key
           rec == Verified(records[q])
<1>1. stack # <<>> /\ Top.kind = "verify" /\ ctl.op # "idle"
  BY DEF ReuseQuery, Verifying
<1>2. q \in Queries /\ q \in Nodes /\ Known(q) /\ Top \in Frame /\ q \notin Resources
  BY <1>1, TopFrame, ConstantsAssumption
<1>3. records' = [records EXCEPT ![q] = rec]
  BY DEF ReuseQuery
<1>4. UNCHANGED <<revision, requests, holder, request_counter, span_epoch, world, ambient>>
  BY DEF ReuseQuery, scopeVars, worldVars
<1>5. lru' \in Seq(Queries) /\ stack' \in Seq(Frame) /\ ctl' \in Control /\ revision' \in Nat
  BY <1>1, <1>2, <1>4, TouchedType, StackType, ControlType DEF ReuseQuery, IInv, TypeOK
<1>6. ctl'.op = "return" /\ CallDiscipline'
  <2>1. ctl' = Return(q) /\ records'[q] = rec
    BY <1>2, <1>3 DEF ReuseQuery, IInv, TypeOK
  <2>2. rec # Absent /\ rec.failure = Absent
    BY <1>1, <1>2, VerifiedType, ConstantsAssumption
  <2> QED  BY <1>2, <2>1, <2>2 DEF CallDiscipline, Return, Call, Known, Failed
<1>7. \A k \in 1 .. Len(stack') : stack'[k].kind = "verify" => Known(stack'[k].key)
  BY <1>1, TopFrame, VerifyFrames DEF ReuseQuery
<1>8. revision <= revision'
  BY <1>4 DEF IInv, TypeOK
<1>9. /\ rec \in NodeRecord /\ rec.changed_at <= rec.verified_at /\ rec.verified_at <= revision'
      /\ rec.checked_in_request <= request_counter
      /\ rec.failure # Absent <=> rec.snapshot = Absent
      /\ rec.failure # Absent => q \in Resources
  BY <1>1, <1>2, <1>4, VerifiedType
<1> HIDE DEF rec, q
<1> QED  BY <1>1, <1>2, <1>3, <1>4, <1>5, <1>6, <1>7, <1>8, <1>9, RequestsKept, RecordStep

\* The revision a commit lands at is never behind.
LEMMA CommitDates ==
  ASSUME IInv, NEW q \in Nodes, NEW v \in Values
  PROVE  /\ CommitRevision(q, v) \in Nat /\ revision <= CommitRevision(q, v)
         /\ KeepsChangedAt(q, v) => /\ records[q].changed_at \in Nat
                                    /\ records[q].changed_at <= revision
<1>1. CommitRevision(q, v) \in Nat /\ revision <= CommitRevision(q, v)
  BY DEF IInv, TypeOK, CommitRevision
<1>2. ASSUME KeepsChangedAt(q, v)
      PROVE  records[q].changed_at \in Nat /\ records[q].changed_at <= revision
  <2>1. Known(q) /\ records[q] \in NodeRecord /\ revision \in Nat
    BY <1>2, Facts DEF KeepsChangedAt, IInv, TypeOK
  <2>2. records[q].changed_at <= records[q].verified_at /\ records[q].verified_at <= revision
    BY <2>1 DEF IInv, RevisionDiscipline
  <2> QED  BY <2>1, <2>2 DEF NodeRecord
<1> QED  BY <1>1, <1>2

LEMMA BodyReturnsPreserves ==
  ASSUME IInv, BodyReturns
  PROVE  IInv'
<1>1. PICK v \in Values : Does("return", v) /\ Commit(Top.key, v)
  BY DEF BodyReturns
<1> DEFINE q == Top.key
           rev == CommitRevision(q, v)
           changed == IF KeepsChangedAt(q, v) THEN records[q].changed_at ELSE rev
<1>2. stack # <<>> /\ Top.kind = "exec" /\ ctl.op # "idle"
  BY <1>1 DEF Does, Executing
<1>3. q \in Queries /\ q \in Nodes /\ Top \in Frame /\ q \notin Resources
  BY <1>2, TopFrame, ConstantsAssumption
<1>4. PICK rec : rec = [NewRecord(v, changed, rev, CurrentRequest)
                          EXCEPT !.dependencies = Edges(q), !.untracked = Top.untracked,
                                 !.checkpointable = Top.checkpointable]
  OBVIOUS
<1>5. records' = [records EXCEPT ![q] = rec] /\ revision' = rev /\ lru' = Touched(q)
      /\ stack' = Pop /\ ctl' = Return(q)
  BY <1>1, <1>4 DEF Commit
<1>6. rev \in Nat /\ revision <= rev /\ changed \in Nat /\ changed <= rev
  <2>1. rev \in Nat /\ revision <= rev /\ revision \in Nat
    BY <1>3, CommitDates DEF IInv, TypeOK
  <2>2. changed \in Nat /\ changed <= rev
    BY <1>3, <2>1, CommitDates
  <2> QED  BY <2>1, <2>2
<1> HIDE DEF rev, changed
<1>7. CurrentRequest \in Int /\ CurrentRequest <= request_counter
  BY <1>2, Facts
<1>8. Edges(q) \in SUBSET Nodes /\ Top.untracked \in BOOLEAN /\ Top.checkpointable \in BOOLEAN
  BY <1>3 DEF Frame, Edges
<1>9. /\ rec \in NodeRecord /\ rec.snapshot = v /\ rec.failure = Absent
      /\ rec.changed_at = changed /\ rec.verified_at = rev
      /\ rec.checked_in_request = CurrentRequest
  <2> HIDE DEF q
  <2> QED  BY <1>4, <1>6, <1>7, <1>8 DEF NewRecord, NodeRecord
<1>10. UNCHANGED <<requests, holder, request_counter, span_epoch, world, ambient>>
  BY DEF BodyReturns, scopeVars, worldVars
<1>11. lru' \in Seq(Queries) /\ stack' \in Seq(Frame) /\ ctl' \in Control
  BY <1>2, <1>3, <1>5, TouchedType, StackType, ControlType DEF IInv, TypeOK
<1>12. ctl'.op = "return" /\ CallDiscipline'
  <2>1. records'[q] = rec
    BY <1>3, <1>5 DEF IInv, TypeOK
  <2>2. rec # Absent
    BY <1>9, ConstantsAssumption
  <2> QED  BY <1>3, <1>5, <1>9, <2>1, <2>2 DEF CallDiscipline, Return, Call, Known, Failed
<1>13. \A k \in 1 .. Len(stack') : stack'[k].kind = "verify" => Known(stack'[k].key)
  BY <1>2, <1>5, TopFrame, VerifyFrames
<1>14. v # Absent
  BY ConstantsAssumption DEF Outcomes
<1> HIDE DEF q
<1>15. /\ rec.changed_at <= rec.verified_at /\ rec.verified_at <= revision'
       /\ rec.checked_in_request <= request_counter
       /\ revision' \in Nat /\ revision <= revision'
  BY <1>5, <1>6, <1>7, <1>9
<1>16. (rec.failure # Absent <=> rec.snapshot = Absent) /\ (rec.failure # Absent => q \in Resources)
  BY <1>9, <1>14
<1>17. SameRequests
  BY <1>10, RequestsKept
<1> QED  BY <1>2, <1>3, <1>5, <1>9, <1>10, <1>11, <1>12, <1>13, <1>15, <1>16, <1>17, RecordStep

-----------------------------------------------------------------------------
(* Resources.                                                               *)

\* A step of a hook leaves the stack alone.
LEMMA HookStep ==
  ASSUME IInv, ctl.op # "idle", UNCHANGED <<lru, stack, holder, request_counter, span_epoch,
                                            world, ambient, revision, records, requests>>,
         ctl' \in Control, CallDiscipline', ctl'.op \notin {"idle", "answer", "run"}
  PROVE  IInv'
<1>1. \A k \in 1 .. Len(stack') : stack'[k].kind = "verify" => Known(stack'[k].key)
  BY DEF IInv, Discipline, RecordDiscipline
<1>2. lru' \in Seq(Queries) /\ stack' \in Seq(Frame)
  BY DEF IInv, TypeOK
<1> QED  BY <1>1, <1>2, ControlStep

\* A step of a hook that writes the record of its resource.
LEMMA HookRecordStep ==
  ASSUME IInv, ctl.op # "idle",
         UNCHANGED <<lru, stack, holder, request_counter, span_epoch, world, ambient>>,
         NEW r \in Resources, NEW rec \in NodeRecord, records' = [records EXCEPT ![r] = rec],
         revision' \in Nat, revision <= revision',
         rec.changed_at <= rec.verified_at, rec.verified_at <= revision',
         rec.checked_in_request <= request_counter,
         rec.failure # Absent <=> rec.snapshot = Absent,
         SameRequests, ctl' \in Control, CallDiscipline',
         ctl'.op \notin {"idle", "answer", "run"}
  PROVE  IInv'
<1>1. \A k \in 1 .. Len(stack') : stack'[k].kind = "verify" => Known(stack'[k].key)
  BY DEF IInv, Discipline, RecordDiscipline
<1>2. lru' \in Seq(Queries) /\ stack' \in Seq(Frame) /\ r \in Nodes
  BY DEF IInv, TypeOK, Nodes
<1> QED  BY <1>1, <1>2, RecordStep

LEMMA ReuseOnProbeHitPreserves ==
  ASSUME IInv, ctl.op # "idle", NEW r \in Resources, Known(r), ~Failed(r), ReuseOnProbeHit(r),
         UNCHANGED <<lru, stack, holder, request_counter, span_epoch, world, ambient>>
  PROVE  IInv'
<1> DEFINE rec == Verified(records[r])
<1>1. r \in Nodes
  BY DEF Nodes
<1>2. /\ rec \in NodeRecord /\ rec.changed_at <= rec.verified_at /\ rec.verified_at <= revision
      /\ rec.checked_in_request <= request_counter
      /\ rec.failure # Absent <=> rec.snapshot = Absent
      /\ rec.failure = records[r].failure
  BY <1>1, VerifiedType
<1>3. records' = [records EXCEPT ![r] = rec] /\ UNCHANGED <<revision, requests>> /\ ctl' = Return(r)
  BY DEF ReuseOnProbeHit
<1>4. ctl' \in Control
  BY <1>1, <1>3, ControlType
<1>5. ctl'.op = "return" /\ CallDiscipline'
  <2>1. records'[r] = rec /\ rec # Absent /\ rec.failure = Absent
    BY <1>1, <1>2, <1>3, ConstantsAssumption DEF IInv, TypeOK, Failed
  <2> QED  BY <1>3, <2>1 DEF CallDiscipline, Return, Call, Known, Failed
<1>6. revision' \in Nat /\ revision <= revision'
  BY <1>3 DEF IInv, TypeOK
<1> HIDE DEF rec
<1> QED  BY <1>2, <1>3, <1>4, <1>5, <1>6, RequestsKept, HookRecordStep

LEMMA RaiseUnrecordedPreserves ==
  ASSUME IInv, ctl.op # "idle", NEW r \in Resources, NEW e \in Exceptions, RaiseUnrecorded(r, e),
         UNCHANGED <<lru, stack, holder, request_counter, span_epoch, world, ambient>>
  PROVE  IInv'
<1>1. r \in Nodes
  BY DEF Nodes
<1>2. ctl' \in Control /\ ctl'.op = "raise"
  BY <1>1, ControlType DEF RaiseUnrecorded, Raise, Outcomes
<1>3. CallDiscipline'
  BY DEF RaiseUnrecorded, CallDiscipline, Raise
<1>4. CASE ~Known(r)
  BY <1>2, <1>3, <1>4, HookStep DEF RaiseUnrecorded
<1>5. CASE Known(r)
  <2>1. PICK rec : rec = [records[r] EXCEPT !.probe_unconfirmed = TRUE]
    OBVIOUS
  <2>2. records[r] \in NodeRecord /\ revision \in Nat
    BY <1>1, <1>5, Facts DEF IInv, TypeOK
  <2>3. records' = [records EXCEPT ![r] = rec]
    BY <1>5, <2>1 DEF RaiseUnrecorded
  <2>4. rec \in NodeRecord
    BY <2>1, <2>2 DEF NodeRecord
  <2>5. /\ rec.snapshot = records[r].snapshot /\ rec.failure = records[r].failure
        /\ rec.changed_at = records[r].changed_at /\ rec.verified_at = records[r].verified_at
        /\ rec.checked_in_request = records[r].checked_in_request
    BY <2>1, <2>2 DEF NodeRecord
  <2>6. revision' \in Nat /\ revision <= revision'
    BY <2>2 DEF RaiseUnrecorded
  <2>7. /\ records[r].changed_at <= records[r].verified_at /\ records[r].verified_at <= revision
        /\ records[r].checked_in_request <= request_counter
    BY <1>1, <1>5 DEF IInv, RevisionDiscipline
  <2>8. rec.verified_at <= revision'
    BY <2>2, <2>5, <2>6, <2>7 DEF NodeRecord
  <2>9. rec.failure # Absent <=> rec.snapshot = Absent
    BY <1>1, <1>5, <2>5 DEF IInv, Discipline, RecordDiscipline, Failed
  <2>10. SameRequests
    BY RequestsKept DEF RaiseUnrecorded
  <2> QED  BY <1>2, <1>3, <2>3, <2>4, <2>5, <2>6, <2>7, <2>8, <2>9, <2>10, HookRecordStep
<1> QED  BY <1>4, <1>5

LEMMA RecordFailurePreserves ==
  ASSUME IInv, ctl.op # "idle", NEW r \in Resources, NEW p \in World, NEW e \in Exceptions,
         RecordFailure(r, p, e),
         UNCHANGED <<lru, stack, holder, request_counter, span_epoch, world, ambient>>
  PROVE  IInv'
<1> DEFINE rev == IF ~Known(r) \/ FailureUnchanged(r, p) THEN revision ELSE revision + 1
           changed == IF FailureUnchanged(r, p) THEN records[r].changed_at ELSE rev
<1>1. r \in Nodes /\ revision \in Nat
  BY DEF Nodes, IInv, TypeOK
<1>2. rev \in Nat /\ revision <= rev
  BY <1>1
<1>3. changed \in Nat /\ changed <= rev
  <2>1. CASE FailureUnchanged(r, p)
    <3>1. Known(r) /\ records[r] \in NodeRecord
      BY <1>1, <2>1, Facts DEF FailureUnchanged
    <3>2. records[r].changed_at <= records[r].verified_at /\ records[r].verified_at <= revision
      BY <1>1, <3>1 DEF IInv, RevisionDiscipline
    <3> QED  BY <1>1, <2>1, <3>1, <3>2 DEF NodeRecord
  <2>2. CASE ~FailureUnchanged(r, p)
    BY <1>2, <2>2
  <2> QED  BY <2>1, <2>2
<1>4. PICK rec : rec = [NewRecord(Absent, changed, rev, CurrentRequest)
                          EXCEPT !.probe = p, !.failure = e, !.retained = TRUE]
  OBVIOUS
<1>5. /\ revision' = rev /\ records' = [records EXCEPT ![r] = rec] /\ ctl' = Raise(r, e, TRUE)
      /\ requests' = [requests EXCEPT ![holder].failures = @ \cup {r}]
  BY <1>4 DEF RecordFailure
<1> HIDE DEF rev, changed
<1>6. /\ CurrentRequest \in Int /\ CurrentRequest <= request_counter
      /\ holder \in Threads /\ requests[holder] \in RequestScope
  BY Facts
<1>7. /\ rec \in NodeRecord /\ rec.snapshot = Absent /\ rec.failure = e
      /\ rec.changed_at = changed /\ rec.verified_at = rev
      /\ rec.checked_in_request = CurrentRequest
  BY <1>2, <1>3, <1>4, <1>6 DEF NewRecord, NodeRecord
<1>8. SameRequests
  <2>1. PICK sc : sc = [requests[holder] EXCEPT !.failures = @ \cup {r}]
    OBVIOUS
  <2>2. sc \in RequestScope /\ sc.request_id = requests[holder].request_id
    BY <1>6, <2>1 DEF RequestScope
  <2>3. sc # Absent /\ requests[holder] # Absent
    BY <1>6, <2>2, ConstantsAssumption
  <2>4. requests' = [requests EXCEPT ![holder] = sc] /\ requests \in [Threads -> RequestScope \cup {Absent}]
    BY <1>5, <2>1 DEF IInv, TypeOK
  <2> QED  BY <1>6, <2>2, <2>3, <2>4 DEF SameRequests
<1>9. ctl' \in Control /\ ctl'.op = "raise" /\ CallDiscipline'
  <2>1. ctl' \in Control
    BY <1>1, <1>5, ControlType DEF Outcomes
  <2>2. CallDiscipline' /\ ctl'.op = "raise"
    BY <1>5 DEF CallDiscipline, Raise
  <2> QED  BY <2>1, <2>2
<1>10. e # Absent
  BY ConstantsAssumption DEF Outcomes
<1>11. /\ rec.changed_at <= rec.verified_at /\ rec.verified_at <= revision'
       /\ rec.checked_in_request <= request_counter
       /\ revision' \in Nat /\ revision <= revision'
       /\ rec.failure # Absent <=> rec.snapshot = Absent
  BY <1>2, <1>3, <1>5, <1>6, <1>7, <1>10
<1> QED  BY <1>5, <1>7, <1>8, <1>9, <1>11, HookRecordStep

LEMMA RecordLoadPreserves ==
  ASSUME IInv, ctl.op # "idle", NEW r \in Resources, NEW p \in World, NEW v \in Values,
         RecordLoad(r, p, v),
         UNCHANGED <<lru, stack, holder, request_counter, span_epoch, world, ambient>>
  PROVE  IInv'
<1> DEFINE rev == LoadRevision(r)
<1>1. r \in Nodes /\ rev \in Nat /\ revision <= rev
  BY DEF Nodes, IInv, TypeOK, LoadRevision
<1>2. PICK rec : rec = [NewRecord(v, rev, rev, CurrentRequest) EXCEPT !.probe = p]
  OBVIOUS
<1>3. revision' = rev /\ records' = [records EXCEPT ![r] = rec] /\ ctl' = Return(r) /\ UNCHANGED requests
  BY <1>2 DEF RecordLoad
<1> HIDE DEF rev
<1>4. CurrentRequest \in Int /\ CurrentRequest <= request_counter
  BY Facts
<1>5. /\ rec \in NodeRecord /\ rec.snapshot = v /\ rec.failure = Absent
      /\ rec.changed_at = rev /\ rec.verified_at = rev
      /\ rec.checked_in_request = CurrentRequest
  BY <1>1, <1>2, <1>4 DEF NewRecord, NodeRecord
<1>6. ctl' \in Control
  BY <1>1, <1>3, ControlType
<1>7. ctl'.op = "return" /\ CallDiscipline'
  <2>1. records'[r] = rec /\ rec # Absent
    BY <1>1, <1>3, <1>5, ConstantsAssumption DEF IInv, TypeOK
  <2> QED  BY <1>3, <1>5, <2>1 DEF CallDiscipline, Return, Call, Known, Failed
<1>8. v # Absent
  BY ConstantsAssumption DEF Outcomes
<1>9. /\ rec.changed_at <= rec.verified_at /\ rec.verified_at <= revision'
      /\ rec.checked_in_request <= request_counter
      /\ revision' \in Nat /\ revision <= revision'
      /\ rec.failure # Absent <=> rec.snapshot = Absent
  BY <1>1, <1>3, <1>4, <1>5, <1>8
<1> QED  BY <1>3, <1>5, <1>6, <1>7, <1>9, RequestsKept, HookRecordStep

\* What ObserveResource, ProbeAndLoad, ObserveFailureProbe and SplitLoad share.
LEMMA HookFacts ==
  ASSUME IInv, ctl.op \in {"observe", "load", "split_load", "failure_probe"}
  PROVE  /\ ctl.key \in Resources /\ ctl.key \in Nodes /\ ctl \in Control /\ ctl.op # "idle"
         /\ world[ctl.key] \in World /\ LoadOf(world[ctl.key]) \in Outcomes
         /\ world[ctl.key] \in Unprobeable => LoadOf(world[ctl.key]) \in Exceptions
         /\ "ReentrantDatabaseError" \in Exceptions
<1>1. ctl.key \in Resources
  BY DEF IInv, Discipline, CallDiscipline
<1>2. world[ctl.key] \in World
  BY <1>1 DEF IInv, TypeOK
<1> QED  BY <1>1, <1>2, ConstantsAssumption DEF IInv, TypeOK, Nodes, Exceptions

LEMMA ObserveResourcePreserves ==
  ASSUME IInv, ObserveResource
  PROVE  IInv'
<1> DEFINE r == ctl.key
           w == world[r]
<1>1. ctl.op = "observe" /\ UNCHANGED <<lru, stack, holder, request_counter, span_epoch, world, ambient>>
  BY DEF ObserveResource, scopeVars, worldVars
<1>2. /\ r \in Resources /\ r \in Nodes /\ ctl \in Control /\ ctl.op # "idle" /\ w \in World
      /\ w \in Unprobeable => LoadOf(w) \in Exceptions
  BY <1>1, HookFacts
<1>3. CASE /\ Known(r) /\ ~Failed(r) /\ ctl' = Return(r) /\ UNCHANGED <<revision, records, requests>>
  <2>1. ctl' \in Control
    BY <1>2, <1>3, ControlType
  <2>2. CallDiscipline' /\ ctl'.op = "return"
    BY <1>2, <1>3 DEF CallDiscipline, Return, Call, Known, Failed
  <2> QED  BY <1>1, <1>2, <1>3, <2>1, <2>2, HookStep
<1>4. CASE /\ Known(r) /\ Failed(r) /\ ctl' = Raise(r, records[r].failure, TRUE)
           /\ UNCHANGED <<revision, records, requests>>
  <2>1. records[r].failure \in Exceptions
    BY <1>2, <1>4, Facts DEF NodeRecord, Failed
  <2>2. ctl' \in Control
    BY <1>2, <1>4, <2>1, ControlType DEF Outcomes
  <2>3. CallDiscipline' /\ ctl'.op = "raise"
    BY <1>2, <1>4, <2>1 DEF CallDiscipline, Raise
  <2> QED  BY <1>1, <1>2, <1>4, <2>2, <2>3, HookStep
<1>5. CASE w \in Unprobeable /\ RaiseUnrecorded(r, LoadOf(w))
  BY <1>1, <1>2, <1>5, RaiseUnrecordedPreserves
<1>6. CASE ProbeHit(r, w) /\ ReuseOnProbeHit(r)
  BY <1>1, <1>2, <1>6, ReuseOnProbeHitPreserves DEF ProbeHit, ProbeProves
<1>7. CASE ctl' = [ctl EXCEPT !.op = "split_load", !.probe = w] /\ UNCHANGED <<revision, records, requests>>
  <2>1. ctl' \in Control /\ ctl'.op = "split_load" /\ ctl'.key = r /\ ctl'.probe = w
    BY <1>2, <1>7 DEF Control
  <2>2. CallDiscipline'
    BY <1>2, <2>1 DEF CallDiscipline
  <2> QED  BY <1>1, <1>2, <1>7, <2>1, <2>2, HookStep
<1>8. CASE ctl' = [ctl EXCEPT !.op = "load"] /\ UNCHANGED <<revision, records, requests>>
  <2>1. ctl' \in Control /\ ctl'.op = "load" /\ ctl'.key = r
    BY <1>2, <1>8 DEF Control
  <2>2. CallDiscipline'
    BY <1>2, <2>1 DEF CallDiscipline
  <2> QED  BY <1>1, <1>2, <1>8, <2>1, <2>2, HookStep
<1> QED  BY <1>3, <1>4, <1>5, <1>6, <1>7, <1>8 DEF ObserveResource

LEMMA ProbeAndLoadPreserves ==
  ASSUME IInv, ProbeAndLoad
  PROVE  IInv'
<1> DEFINE r == ctl.key
           w == world[r]
           out == LoadOf(w)
<1>1. ctl.op = "load" /\ UNCHANGED <<lru, stack, holder, request_counter, span_epoch, world, ambient>>
  BY DEF ProbeAndLoad, scopeVars, worldVars
<1>2. /\ r \in Resources /\ r \in Nodes /\ ctl \in Control /\ ctl.op # "idle" /\ w \in World
      /\ "ReentrantDatabaseError" \in Exceptions
  BY <1>1, HookFacts
<1>3. CASE RaiseUnrecorded(r, "ReentrantDatabaseError")
  BY <1>1, <1>2, <1>3, RaiseUnrecordedPreserves
<1>4. CASE /\ out \in Exceptions /\ ctl' = [ctl EXCEPT !.op = "failure_probe", !.result = out]
           /\ UNCHANGED <<revision, records, requests>>
  <2>1. /\ ctl' \in Control /\ ctl'.op = "failure_probe" /\ ctl'.key = r
        /\ ctl'.result \in Exceptions
    <3> HIDE DEF out
    <3> QED  BY <1>2, <1>4 DEF Control, Outcomes
  <2>2. CallDiscipline'
    BY <1>2, <2>1 DEF CallDiscipline
  <2> QED  BY <1>1, <1>2, <1>4, <2>1, <2>2, HookStep
<1>5. CASE ProbeHit(r, w) /\ ReuseOnProbeHit(r)
  BY <1>1, <1>2, <1>5, ReuseOnProbeHitPreserves DEF ProbeHit, ProbeProves
<1>6. CASE out \in Values /\ RecordLoad(r, w, out)
  BY <1>1, <1>2, <1>6, RecordLoadPreserves
<1> QED  BY <1>3, <1>4, <1>5, <1>6 DEF ProbeAndLoad

LEMMA ObserveFailureProbePreserves ==
  ASSUME IInv, ObserveFailureProbe
  PROVE  IInv'
<1> DEFINE r == ctl.key
           w == world[r]
<1>1. ctl.op = "failure_probe" /\ UNCHANGED <<lru, stack, holder, request_counter, span_epoch, world, ambient>>
  BY DEF ObserveFailureProbe, scopeVars, worldVars
<1>2. r \in Resources /\ ctl.op # "idle" /\ w \in World
  BY <1>1, HookFacts
<1>3. ctl.result \in Exceptions
  BY <1>1 DEF IInv, Discipline, CallDiscipline
<1>4. RaiseUnrecorded(r, ctl.result) \/ RecordFailure(r, w, ctl.result)
  BY DEF ObserveFailureProbe
<1> QED  BY <1>1, <1>2, <1>3, <1>4, RaiseUnrecordedPreserves, RecordFailurePreserves

LEMMA SplitLoadPreserves ==
  ASSUME IInv, SplitLoad
  PROVE  IInv'
<1> DEFINE r == ctl.key
           out == LoadOf(world[r])
<1>1. ctl.op = "split_load" /\ UNCHANGED <<lru, stack, holder, request_counter, span_epoch, world, ambient>>
  BY DEF SplitLoad, scopeVars, worldVars
<1>2. r \in Resources /\ ctl.op # "idle" /\ "ReentrantDatabaseError" \in Exceptions
  BY <1>1, HookFacts
<1>3. ctl.probe \in World
  BY <1>1 DEF IInv, Discipline, CallDiscipline
<1>4. \/ RaiseUnrecorded(r, "ReentrantDatabaseError")
      \/ out \in Exceptions /\ RecordFailure(r, ctl.probe, out)
      \/ out \in Values /\ RecordLoad(r, ctl.probe, out)
  BY DEF SplitLoad
<1> QED  BY <1>1, <1>2, <1>3, <1>4, RaiseUnrecordedPreserves, RecordFailurePreserves,
            RecordLoadPreserves

-----------------------------------------------------------------------------
(* Requests, spans and inputs.                                              *)

\* The dates and the shape of one record.
WellDated(rec, rev, counter) ==
  /\ rec.changed_at <= rec.verified_at /\ rec.verified_at <= rev
  /\ rec.checked_in_request <= counter
WellShaped(n, rec) ==
  /\ rec.failure # Absent <=> rec.snapshot = Absent
  /\ rec.failure # Absent => n \in Resources

\* Request ids have been issued, each to one thread.
WellNumbered(reqs, counter) ==
  \A t \in Threads : reqs[t] # Absent =>
    /\ reqs[t].request_id <= counter
    /\ \A u \in Threads \ {t} : reqs[u] # Absent => reqs[u].request_id # reqs[t].request_id

\* The invariant's part about the tables, in these words.
LEMMA Tables ==
  ASSUME IInv
  PROVE  /\ \A n \in Nodes : Known(n) => /\ WellDated(records[n], revision, request_counter)
                                        /\ WellShaped(n, records[n])
         /\ WellNumbered(requests, request_counter)
BY DEF IInv, Discipline, RecordDiscipline, RevisionDiscipline, WellDated, WellShaped, WellNumbered,
   Failed

\* A step with the lock free before and after it.
LEMMA ClientStep ==
  ASSUME IInv, LockFree, UNCHANGED <<stack, ctl, holder>>,
         revision' \in Nat, records' \in [Nodes -> NodeRecord \cup {Absent}],
         lru' \in Seq(Queries), requests' \in [Threads -> RequestScope \cup {Absent}],
         request_counter' \in Nat, span_epoch' \in Nat,
         world' \in [Resources -> World], ambient' \in AmbientValues,
         \A n \in Nodes : records'[n] # Absent =>
           WellDated(records'[n], revision', request_counter') /\ WellShaped(n, records'[n]),
         WellNumbered(requests', request_counter')
  PROVE  IInv'
<1>1. TypeOK'
  BY DEF IInv, TypeOK
<1>2. ctl.op = "idle" /\ stack = <<>>
  BY DEF IInv, Discipline, LockDiscipline
<1>3. LockDiscipline' /\ CallDiscipline'
  BY <1>2 DEF LockFree, LockDiscipline, CallDiscipline
<1>4. RecordDiscipline'
  BY <1>2 DEF RecordDiscipline, Known, Failed, WellShaped
<1>5. RevisionDiscipline'
  BY DEF RevisionDiscipline, Known, WellDated, WellNumbered
<1> QED  BY <1>1, <1>3, <1>4, <1>5 DEF IInv, Discipline

\* The end of a request drops records and exceptions, and dates nothing anew.
LEMMA ReleasedTable ==
  ASSUME IInv, NEW F \in SUBSET Resources, NEW n \in Nodes
  PROVE  /\ Released(F)[n] \in NodeRecord \cup {Absent}
         /\ Released(F)[n] # Absent =>
              WellDated(Released(F)[n], revision, request_counter) /\ WellShaped(n, Released(F)[n])
<1>1. CASE Released(F)[n] = Absent
  BY <1>1
<1>2. CASE Known(n) /\ Released(F)[n] = records[n]
  BY <1>2, Facts, Tables
<1>3. CASE Known(n) /\ Released(F)[n] = [records[n] EXCEPT !.retained = FALSE]
  <2>1. PICK rec : rec = [records[n] EXCEPT !.retained = FALSE]
    OBVIOUS
  <2>2. records[n] \in NodeRecord
    BY <1>3, Facts
  <2>3. rec \in NodeRecord
    BY <2>1, <2>2 DEF NodeRecord
  <2>4. /\ rec.snapshot = records[n].snapshot /\ rec.failure = records[n].failure
        /\ rec.changed_at = records[n].changed_at /\ rec.verified_at = records[n].verified_at
        /\ rec.checked_in_request = records[n].checked_in_request
    BY <2>1, <2>2 DEF NodeRecord
  <2>5. WellDated(rec, revision, request_counter) /\ WellShaped(n, rec)
    BY <1>3, <2>4, Tables DEF WellDated, WellShaped
  <2> QED  BY <1>3, <2>1, <2>3, <2>5
<1> QED  BY <1>1, <1>2, <1>3 DEF Released, Known

\* So the record table stays a table, and the closed request goes.
LEMMA EndRequestTables ==
  ASSUME IInv, NEW t \in Threads, requests[t] # Absent, EndRequest(t)
  PROVE  /\ records' \in [Nodes -> NodeRecord \cup {Absent}]
         /\ \A n \in Nodes : records'[n] # Absent =>
              WellDated(records'[n], revision, request_counter) /\ WellShaped(n, records'[n])
         /\ lru' \in Seq(Queries)
         /\ requests' \in [Threads -> RequestScope \cup {Absent}]
         /\ WellNumbered(requests', request_counter)
<1>1. requests[t].failures \in SUBSET Resources
  BY Facts DEF RequestScope
<1>2. PICK F \in SUBSET Resources : records' = Released(F)
  BY <1>1 DEF EndRequest
<1>3. records' \in [Nodes -> NodeRecord \cup {Absent}]
  <2>1. records' = [n \in Nodes |-> Released(F)[n]]
    BY <1>2 DEF Released
  <2> QED  BY <2>1, ReleasedTable
<1>4. \A n \in Nodes : records'[n] # Absent =>
        WellDated(records'[n], revision, request_counter) /\ WellShaped(n, records'[n])
  BY <1>2, ReleasedTable
<1>5. lru' \in Seq(Queries)
  <2>1. lru \in Seq(Queries) /\ Surplus + 1 \in Nat \ {0} /\ Len(lru) \in Int
    BY ConstantsAssumption DEF IInv, TypeOK, Surplus
  <2> QED  BY <2>1, SubSeqType DEF EndRequest
<1>6. requests' \in [Threads -> RequestScope \cup {Absent}] /\ WellNumbered(requests', request_counter)
  BY Tables DEF EndRequest, IInv, TypeOK, WellNumbered
<1> QED  BY <1>3, <1>4, <1>5, <1>6

LEMMA CloseSpanPreserves ==
  ASSUME IInv, NEW t \in Threads, CloseSpan(t)
  PROVE  IInv'
<1>1. LockFree /\ requests[t] # Absent /\ EndRequest(t)
      /\ UNCHANGED <<revision, stack, ctl, holder, request_counter, span_epoch, world, ambient>>
  BY DEF CloseSpan, scopeVars, worldVars
<1>2. /\ revision' \in Nat /\ request_counter' \in Nat /\ span_epoch' \in Nat
      /\ world' \in [Resources -> World] /\ ambient' \in AmbientValues
  BY <1>1 DEF IInv, TypeOK
<1> QED  BY <1>1, <1>2, EndRequestTables, ClientStep

LEMMA FinishPreserves ==
  ASSUME IInv, Finish
  PROVE  IInv'
<1>1. /\ ctl.op = "answer" /\ ctl' = Idle /\ holder' = Absent
      /\ UNCHANGED <<revision, stack, request_counter, span_epoch, world, ambient>>
  BY DEF Finish, worldVars
<1>2. holder \in Threads /\ requests[holder] # Absent /\ stack = <<>>
  BY <1>1, Facts DEF IInv, Discipline, LockDiscipline, LockFree
<1>3. /\ records' \in [Nodes -> NodeRecord \cup {Absent}]
      /\ \A n \in Nodes : records'[n] # Absent =>
           WellDated(records'[n], revision, request_counter) /\ WellShaped(n, records'[n])
      /\ lru' \in Seq(Queries)
      /\ requests' \in [Threads -> RequestScope \cup {Absent}]
      /\ WellNumbered(requests', request_counter)
  <2>1. CASE EndRequest(holder)
    BY <1>2, <2>1, EndRequestTables
  <2>2. CASE UNCHANGED <<records, lru, requests>>
    BY <2>2, Tables DEF IInv, TypeOK, Known
  <2> QED  BY <2>1, <2>2 DEF Finish
<1>4. TypeOK'
  BY <1>1, <1>3, ControlType DEF IInv, TypeOK
<1>5. LockDiscipline' /\ CallDiscipline'
  BY <1>1, <1>2 DEF LockDiscipline, CallDiscipline, LockFree, Idle, Call
<1>6. RecordDiscipline'
  BY <1>1, <1>2, <1>3 DEF RecordDiscipline, Known, Failed, WellShaped
<1>7. RevisionDiscipline'
  BY <1>1, <1>3 DEF RevisionDiscipline, Known, WellDated, WellNumbered
<1> QED  BY <1>4, <1>5, <1>6, <1>7 DEF IInv, Discipline

\* Dates stay good when the revision and the counter grow.
LEMMA LaterDates ==
  ASSUME IInv, NEW n \in Nodes, Known(n), NEW rev \in Nat, NEW counter \in Nat,
         revision <= rev, request_counter <= counter
  PROVE  WellDated(records[n], rev, counter) /\ WellShaped(n, records[n])
<1>1. records[n] \in NodeRecord /\ revision \in Nat /\ request_counter \in Nat
  BY Facts DEF IInv, TypeOK
<1>2. WellDated(records[n], revision, request_counter) /\ WellShaped(n, records[n])
  BY Tables
<1>3. records[n].verified_at \in Nat /\ records[n].checked_in_request \in Int
  BY <1>1 DEF NodeRecord
<1> QED  BY <1>1, <1>2, <1>3 DEF WellDated

\* A thread whose request gets the next id shares it with no other.
LEMMA NextId ==
  ASSUME IInv, NEW t \in Threads, NEW sc \in RequestScope,
         sc.request_id = request_counter + 1,
         NEW reqs, reqs = [requests EXCEPT ![t] = sc]
  PROVE  /\ reqs \in [Threads -> RequestScope \cup {Absent}]
         /\ WellNumbered(reqs, request_counter + 1)
<1>1. reqs \in [Threads -> RequestScope \cup {Absent}] /\ request_counter \in Nat
  BY DEF IInv, TypeOK
<1>2. \A u \in Threads : reqs[u] = IF u = t THEN sc ELSE requests[u]
  BY DEF IInv, TypeOK
<1>3. \A u \in Threads : requests[u] # Absent =>
        requests[u].request_id \in Nat /\ requests[u].request_id <= request_counter
  BY Facts, Tables DEF RequestScope, WellNumbered
<1>4. WellNumbered(reqs, request_counter + 1)
  <2> SUFFICES ASSUME NEW u \in Threads, reqs[u] # Absent
               PROVE  /\ reqs[u].request_id <= request_counter + 1
                      /\ \A x \in Threads \ {u} :
                           reqs[x] # Absent => reqs[x].request_id # reqs[u].request_id
    BY DEF WellNumbered
  <2>1. CASE u = t
    BY <1>1, <1>2, <1>3, <2>1
  <2>2. CASE u # t
    <3>1. reqs[u] = requests[u] /\ requests[u].request_id \in Nat
          /\ requests[u].request_id <= request_counter
      BY <1>2, <1>3, <2>2
    <3>2. \A x \in Threads \ {u} : requests[x] # Absent => requests[x].request_id # requests[u].request_id
      BY <3>1, Tables DEF WellNumbered
    <3> QED  BY <1>1, <1>2, <3>1, <3>2
  <2> QED  BY <2>1, <2>2
<1> QED  BY <1>1, <1>4

LEMMA OpenSpanPreserves ==
  ASSUME IInv, NEW t \in Threads, OpenSpan(t)
  PROVE  IInv'
<1>1. PICK sc : sc = [request_id |-> request_counter + 1, span |-> TRUE,
                      span_epoch_seen |-> span_epoch, failures |-> {}, moved |-> FALSE]
  OBVIOUS
<1>2. /\ request_counter \in Nat /\ span_epoch \in Nat /\ sc \in RequestScope
      /\ sc.request_id = request_counter + 1
  BY <1>1 DEF IInv, TypeOK, RequestScope
<1>3. LockFree /\ requests' = [requests EXCEPT ![t] = sc] /\ request_counter' = request_counter + 1
      /\ UNCHANGED <<revision, records, lru, stack, ctl, holder, span_epoch, world, ambient>>
  BY <1>1 DEF OpenSpan, worldVars
<1>4. requests' \in [Threads -> RequestScope \cup {Absent}] /\ WellNumbered(requests', request_counter')
  BY <1>2, <1>3, NextId
<1>5. /\ revision' \in Nat /\ request_counter' \in Nat /\ span_epoch' \in Nat
      /\ records' \in [Nodes -> NodeRecord \cup {Absent}] /\ lru' \in Seq(Queries)
      /\ world' \in [Resources -> World] /\ ambient' \in AmbientValues
  BY <1>2, <1>3 DEF IInv, TypeOK
<1>6. \A n \in Nodes : records'[n] # Absent =>
        WellDated(records'[n], revision', request_counter') /\ WellShaped(n, records'[n])
  BY <1>2, <1>3, <1>5, LaterDates DEF Known
<1> QED  BY <1>3, <1>4, <1>5, <1>6, ClientStep

\* _roll_span_request gives a span the next id, or none.
LEMMA RollTables ==
  ASSUME IInv, NEW t \in Threads, RollSpanRequest(t)
  PROVE  /\ requests' \in [Threads -> RequestScope \cup {Absent}]
         /\ WellNumbered(requests', request_counter')
         /\ request_counter' \in Nat /\ request_counter <= request_counter' /\ span_epoch' \in Nat
<1>1. request_counter \in Nat /\ span_epoch \in Nat /\ span_epoch' \in Nat
  BY DEF IInv, TypeOK, RollSpanRequest
<1>2. CASE requests[t] = Absent
  BY <1>1, <1>2, Tables DEF RollSpanRequest, IInv, TypeOK
<1>3. CASE requests[t] # Absent
  <2>1. PICK sc : sc = [requests[t] EXCEPT !.request_id = request_counter + 1,
                          !.span_epoch_seen = span_epoch + 1, !.moved = FALSE]
    OBVIOUS
  <2>2. requests[t] \in RequestScope
    BY <1>3, Facts
  <2>3. sc \in RequestScope /\ sc.request_id = request_counter + 1
    <3>1. PICK id \in Nat, seen \in Nat : id = request_counter + 1 /\ seen = span_epoch + 1
      BY <1>1
    <3>2. sc = [requests[t] EXCEPT !.request_id = id, !.span_epoch_seen = seen, !.moved = FALSE]
      BY <2>1, <3>1
    <3>3. sc \in RequestScope
      BY <2>2, <3>2 DEF RequestScope
    <3>4. sc.request_id = id
      BY <2>2, <3>2 DEF RequestScope
    <3> QED  BY <3>1, <3>3, <3>4
  <2>4. requests' = [requests EXCEPT ![t] = sc] /\ request_counter' = request_counter + 1
    BY <1>3, <2>1 DEF RollSpanRequest, IInv, TypeOK
  <2>5. request_counter + 1 \in Nat /\ request_counter <= request_counter + 1
    BY <1>1
  <2>6. /\ requests' \in [Threads -> RequestScope \cup {Absent}]
        /\ WellNumbered(requests', request_counter + 1)
    BY <2>3, <2>4, NextId
  <2> QED  BY <1>1, <2>4, <2>5, <2>6
<1> QED  BY <1>2, <1>3

LEMMA RequestInputsChangedPreserves ==
  ASSUME IInv, NEW t \in Threads, RequestInputsChanged(t)
  PROVE  IInv'
<1>1. LockFree /\ RollSpanRequest(t)
      /\ UNCHANGED <<revision, records, lru, stack, ctl, holder, world, ambient>>
  BY DEF RequestInputsChanged, worldVars
<1>2. /\ revision' \in Nat /\ records' \in [Nodes -> NodeRecord \cup {Absent}]
      /\ lru' \in Seq(Queries) /\ world' \in [Resources -> World] /\ ambient' \in AmbientValues
      /\ revision <= revision'
  BY <1>1 DEF IInv, TypeOK
<1>3. \A n \in Nodes : records'[n] # Absent =>
        WellDated(records'[n], revision', request_counter') /\ WellShaped(n, records'[n])
  BY <1>1, <1>2, RollTables, LaterDates DEF Known
<1> QED  BY <1>1, <1>2, <1>3, RollTables, ClientStep

\* What a batch commits for one node.
LEMMA CommittedRecord ==
  ASSUME IInv, NEW t \in Threads, NEW S \in SUBSET Inputs, NEW updates \in [S -> Values],
         NEW n \in Nodes, NEW rev \in Nat, NEW counter \in Nat,
         revision <= rev, request_counter <= counter,
         rev = revision => \A i \in S : InputUnchanged(i, updates[i]),
         rev # revision => rev = revision + 1,
         NEW rec, rec = CommittedInputs(t, updates)[n], rec # Absent
  PROVE  rec \in NodeRecord /\ WellDated(rec, rev, counter) /\ WellShaped(n, rec)
<1> DEFINE id == SetRequestId(t)
<1>1. id \in Int /\ id <= request_counter /\ request_counter \in Nat /\ revision \in Nat
      /\ DOMAIN updates = S
  <2>1. requests[t] # Absent => requests[t].request_id \in Nat /\ requests[t].request_id <= request_counter
    BY Facts, Tables DEF RequestScope, WellNumbered
  <2> QED  BY <2>1 DEF SetRequestId, IInv, TypeOK
<1> HIDE DEF id
<1>2. CASE n \notin S
  <2>1. rec = records[n] /\ Known(n)
    BY <1>1, <1>2 DEF CommittedInputs, Known
  <2> QED  BY <2>1, Facts, LaterDates
<1>3. CASE n \in S /\ InputUnchanged(n, updates[n])
  <2>1. rec = [records[n] EXCEPT !.snapshot = updates[n], !.verified_at = revision,
                                 !.checked_in_request = id]
    BY <1>1, <1>3 DEF CommittedInputs, id
  <2>2. Known(n) /\ records[n] \in NodeRecord /\ updates[n] \in Values /\ n \notin Resources
    BY <1>3, Facts, ConstantsAssumption DEF InputUnchanged
  <2>3. rec \in NodeRecord
    BY <1>1, <2>1, <2>2 DEF NodeRecord
  <2>4. /\ rec.snapshot = updates[n] /\ rec.failure = records[n].failure
        /\ rec.changed_at = records[n].changed_at /\ rec.verified_at = revision
        /\ rec.checked_in_request = id
    BY <2>1, <2>2 DEF NodeRecord
  <2>5. WellDated(records[n], revision, request_counter) /\ WellShaped(n, records[n])
    BY <2>2, Tables
  <2>6. records[n].failure = Absent /\ updates[n] # Absent
    BY <2>2, <2>5, ConstantsAssumption DEF WellShaped, Outcomes
  <2>7. records[n].changed_at <= revision
    BY <1>1, <2>2, <2>5 DEF WellDated, NodeRecord
  <2>8. WellDated(rec, rev, counter)
    BY <1>1, <2>2, <2>4, <2>7 DEF WellDated, NodeRecord
  <2> QED  BY <2>3, <2>4, <2>6, <2>8 DEF WellShaped
<1>4. CASE n \in S /\ ~InputUnchanged(n, updates[n])
  <2>1. rec = NewRecord(updates[n], revision + 1, revision + 1, id)
    BY <1>1, <1>4 DEF CommittedInputs, id
  <2>2. updates[n] \in Values /\ updates[n] # Absent /\ rev = revision + 1
    BY <1>4, ConstantsAssumption DEF Outcomes
  <2>3. rec \in NodeRecord
    BY <1>1, <2>1, <2>2, NewRecordType
  <2>4. /\ rec.snapshot = updates[n] /\ rec.failure = Absent /\ rec.changed_at = revision + 1
        /\ rec.verified_at = revision + 1 /\ rec.checked_in_request = id
    BY <2>1 DEF NewRecord
  <2> QED  BY <1>1, <2>2, <2>3, <2>4 DEF WellDated, WellShaped
<1> QED  BY <1>2, <1>3, <1>4

LEMMA SetInputsPreserves ==
  ASSUME IInv, NEW t \in Threads, NEW S \in SUBSET Inputs, NEW updates \in [S -> Values],
         SetInputs(t, updates)
  PROVE  IInv'
<1>1. LockFree /\ records' = CommittedInputs(t, updates)
      /\ UNCHANGED <<lru, stack, ctl, holder, world, ambient>> /\ DOMAIN updates = S
  BY DEF SetInputs, worldVars
<1>2. revision \in Nat /\ request_counter \in Nat
  BY DEF IInv, TypeOK
<1>3. /\ requests' \in [Threads -> RequestScope \cup {Absent}]
      /\ WellNumbered(requests', request_counter')
      /\ request_counter' \in Nat /\ request_counter <= request_counter' /\ span_epoch' \in Nat
  <2>1. CASE UNCHANGED <<revision, requests, request_counter, span_epoch>>
    BY <2>1, Tables DEF IInv, TypeOK
  <2>2. CASE RollSpanRequest(t)
    BY <2>2, RollTables
  <2> QED  BY <2>1, <2>2 DEF SetInputs
<1>4. /\ revision' \in Nat /\ revision <= revision'
      /\ revision' = revision => \A i \in S : InputUnchanged(i, updates[i])
      /\ revision' # revision => revision' = revision + 1
  BY <1>1, <1>2 DEF SetInputs
<1>5. \A n \in Nodes : records'[n] # Absent =>
        /\ records'[n] \in NodeRecord
        /\ WellDated(records'[n], revision', request_counter') /\ WellShaped(n, records'[n])
  BY <1>1, <1>3, <1>4, CommittedRecord
<1>6. records' \in [Nodes -> NodeRecord \cup {Absent}]
  <2> DEFINE table == CommittedInputs(t, updates)
  <2>1. table = [n \in Nodes |-> table[n]]
    BY DEF CommittedInputs
  <2>2. \A n \in Nodes : table[n] \in NodeRecord \cup {Absent}
    BY <1>1, <1>5
  <2> HIDE DEF table
  <2>3. table \in [Nodes -> NodeRecord \cup {Absent}]
    BY <2>1, <2>2
  <2> QED  BY <1>1, <2>3 DEF table
<1>7. lru' \in Seq(Queries) /\ world' \in [Resources -> World] /\ ambient' \in AmbientValues
  BY <1>1 DEF IInv, TypeOK
<1> QED  BY <1>1, <1>3, <1>4, <1>5, <1>6, <1>7, ClientStep

\* Entering a request: a new id, a span that catches up, or the span as it is.
LEMMA EnterTables ==
  ASSUME IInv, NEW t \in Threads, EnterRequest(t)
  PROVE  /\ requests' \in [Threads -> RequestScope \cup {Absent}] /\ requests'[t] # Absent
         /\ WellNumbered(requests', request_counter')
         /\ request_counter' \in Nat /\ request_counter <= request_counter'
<1> DEFINE sc == SyncedRequest(t)
<1>1. /\ request_counter \in Nat /\ span_epoch \in Nat
      /\ requests \in [Threads -> RequestScope \cup {Absent}]
  BY DEF IInv, TypeOK
<1>2. CASE sc = requests[t] /\ requests[t] # Absent
  <2>1. UNCHANGED <<requests, request_counter>>
    BY <1>1, <1>2 DEF EnterRequest
  <2> QED  BY <1>1, <1>2, <2>1, Tables
<1>3. CASE sc \in RequestScope /\ sc.request_id = request_counter + 1
  <2>1. requests' = [requests EXCEPT ![t] = sc]
    BY DEF EnterRequest
  <2>2. sc # requests[t]
    <3>1. requests[t] # Absent => requests[t].request_id \in Nat /\ requests[t].request_id <= request_counter
      BY Facts, Tables DEF RequestScope, WellNumbered
    <3>2. sc # Absent
      BY <1>3, ConstantsAssumption
    <3> QED  BY <1>1, <1>3, <3>1, <3>2
  <2>3. request_counter' = request_counter + 1
    BY <2>2 DEF EnterRequest
  <2>4. requests'[t] = sc /\ sc # Absent
    BY <1>1, <1>3, <2>1, ConstantsAssumption
  <2> HIDE DEF sc
  <2>5. /\ requests' \in [Threads -> RequestScope \cup {Absent}]
        /\ WellNumbered(requests', request_counter + 1)
    BY <1>3, <2>1, NextId
  <2> QED  BY <1>1, <2>3, <2>4, <2>5
<1>4. CASE requests[t] = Absent
  <2>1. PICK id \in Nat : id = request_counter + 1
    BY <1>1
  <2>2. sc = [request_id |-> id, span |-> FALSE, span_epoch_seen |-> 0, failures |-> {}, moved |-> FALSE]
    BY <1>4, <2>1 DEF SyncedRequest
  <2>3. sc \in RequestScope /\ sc.request_id = id
    BY <2>2 DEF RequestScope
  <2> QED  BY <1>3, <2>1, <2>3
<1>5. CASE requests[t] # Absent /\ SpanIsBehind(t)
  <2>1. PICK id \in Nat : id = request_counter + 1
    BY <1>1
  <2>2. PICK scope : scope = [requests[t] EXCEPT !.request_id = id, !.span_epoch_seen = span_epoch,
                                                 !.moved = FALSE]
    OBVIOUS
  <2>3. requests[t] \in RequestScope
    BY <1>5, Facts
  <2>4. scope \in RequestScope
    BY <1>1, <2>2, <2>3 DEF RequestScope
  <2>5. scope.request_id = id
    BY <2>2, <2>3 DEF RequestScope
  <2>6. sc = scope
    BY <1>5, <2>1, <2>2 DEF SyncedRequest
  <2> QED  BY <1>3, <2>1, <2>4, <2>5, <2>6
<1> QED  BY <1>2, <1>4, <1>5 DEF SyncedRequest

LEMMA BeginPreserves ==
  ASSUME IInv, NEW t \in Threads, NEW op, NEW n, Begin(t, op, n),
         NEW call \in Control, call = Call(op, n),
         \/ call.op \in {"ensure", "answer"} /\ call.key \in Queries
         \/ call.op = "observe" /\ call.key \in Resources
  PROVE  IInv'
<1>1. /\ LockFree /\ EnterRequest(t) /\ holder' = t /\ ctl' = call
      /\ UNCHANGED <<revision, records, lru, stack, span_epoch, world, ambient>>
  BY DEF Begin, worldVars
<1>2. stack = <<>>
  BY <1>1 DEF IInv, Discipline, LockDiscipline
<1>3. TypeOK'
  BY <1>1, EnterTables DEF IInv, TypeOK
<1>4. LockDiscipline'
  BY <1>1, <1>2, EnterTables, ConstantsAssumption DEF LockDiscipline, LockFree
<1>5. CallDiscipline'
  BY <1>1 DEF CallDiscipline
<1>6. RecordDiscipline'
  BY <1>1, <1>2 DEF IInv, Discipline, RecordDiscipline, Known, Failed
<1>7. RevisionDiscipline'
  <2>1. \A m \in Nodes : records[m] # Absent => WellDated(records[m], revision, request_counter')
    <3>1. revision \in Nat /\ revision <= revision
      BY DEF IInv, TypeOK
    <3> QED  BY <1>1, <3>1, EnterTables, LaterDates DEF Known
  <2> QED  BY <1>1, <2>1, EnterTables DEF RevisionDiscipline, Known, WellDated, WellNumbered
<1> QED  BY <1>3, <1>4, <1>5, <1>6, <1>7 DEF IInv, Discipline

\* A world that moves under the open requests changes nothing the kernel holds.
LEMMA MovePreserves ==
  ASSUME IInv, requests' = Overtaken, UNCHANGED <<revision, records, lru, stack, ctl, holder,
                                                 request_counter, span_epoch>>,
         world' \in [Resources -> World], ambient' \in AmbientValues
  PROVE  IInv'
<1>1. SameRequests
  <2>1. \A t \in Threads :
          /\ Overtaken[t] \in RequestScope \cup {Absent}
          /\ Overtaken[t] = Absent <=> requests[t] = Absent
          /\ requests[t] # Absent => Overtaken[t].request_id = requests[t].request_id
    <3> SUFFICES ASSUME NEW t \in Threads, requests[t] # Absent
                 PROVE  /\ Overtaken[t] \in RequestScope
                        /\ Overtaken[t] # Absent
                        /\ Overtaken[t].request_id = requests[t].request_id
      BY DEF Overtaken
    <3>1. PICK sc : sc = [requests[t] EXCEPT !.moved = TRUE]
      OBVIOUS
    <3>2. requests[t] \in RequestScope
      BY Facts
    <3>3. sc \in RequestScope
      BY <3>1, <3>2 DEF RequestScope
    <3>4. sc.request_id = requests[t].request_id
      BY <3>1, <3>2 DEF RequestScope
    <3> QED  BY <3>1, <3>3, <3>4, ConstantsAssumption DEF Overtaken
  <2>2. Overtaken = [t \in Threads |-> Overtaken[t]]
    BY DEF Overtaken
  <2>3. Overtaken \in [Threads -> RequestScope \cup {Absent}]
    BY <2>1, <2>2
  <2> QED  BY <2>1, <2>3 DEF SameRequests
<1>2. TypeOK'
  BY <1>1 DEF IInv, TypeOK, SameRequests
<1>3. LockDiscipline' /\ CallDiscipline'
  BY <1>1 DEF IInv, TypeOK, Discipline, LockDiscipline, CallDiscipline, LockFree, SameRequests,
     Known, Failed
<1>4. RecordDiscipline'
  BY DEF IInv, Discipline, RecordDiscipline, Known, Failed
<1>5. RevisionDiscipline'
  BY <1>1 DEF IInv, RevisionDiscipline, SameRequests, Known
<1> QED  BY <1>2, <1>3, <1>4, <1>5 DEF IInv, Discipline

-----------------------------------------------------------------------------
(* The theorems.                                                            *)

LEMMA ClientPreserves ==
  ASSUME IInv, Client
  PROVE  IInv'
<1>1. PICK t \in Threads :
        \/ \E q \in Queries : Get(t, q) \/ Inspect(t, q)
        \/ \E r \in Resources : ReadResource(t, r)
        \/ \E i \in Inputs, v \in Values : Set(t, i, v)
        \/ \E updates \in Updates : SetMany(t, updates)
        \/ OpenSpan(t) \/ CloseSpan(t) \/ RequestInputsChanged(t)
  BY DEF Client
<1>2. ASSUME NEW q \in Queries, Get(t, q) \/ Inspect(t, q)  PROVE IInv'
  <2>1. PICK op \in {"ensure", "answer"} : Begin(t, op, q)
    BY <1>2 DEF Get, Inspect
  <2>2. Call(op, q) \in Control
    BY ControlType DEF Nodes
  <2>3. Call(op, q).op = op /\ Call(op, q).key = q
    BY DEF Call
  <2> QED  BY <2>1, <2>2, <2>3, BeginPreserves
<1>3. ASSUME NEW r \in Resources, ReadResource(t, r)  PROVE IInv'
  <2>1. Call("observe", r) \in Control /\ Call("observe", r).op = "observe" /\ Call("observe", r).key = r
    BY ControlType DEF Nodes, Call
  <2> QED  BY <1>3, <2>1, BeginPreserves DEF ReadResource
<1>4. ASSUME NEW i \in Inputs, NEW v \in Values, Set(t, i, v)  PROVE IInv'
  <2>1. [j \in {i} |-> v] \in [{i} -> Values] /\ {i} \in SUBSET Inputs
    OBVIOUS
  <2> QED  BY <1>4, <2>1, SetInputsPreserves DEF Set
<1>5. ASSUME NEW updates \in Updates, SetMany(t, updates)  PROVE IInv'
  <2>1. PICK S \in SUBSET Inputs : updates \in [S -> Values]
    BY DEF Updates
  <2> QED  BY <1>5, <2>1, SetInputsPreserves DEF SetMany
<1> QED  BY <1>1, <1>2, <1>3, <1>4, <1>5, OpenSpanPreserves, CloseSpanPreserves,
            RequestInputsChangedPreserves

LEMMA EnvironmentPreserves ==
  ASSUME IInv, Environment
  PROVE  IInv'
<1>1. ASSUME NEW r \in Resources, NEW w \in World, MoveWorld(r, w)  PROVE IInv'
  <2>1. world' \in [Resources -> World] /\ ambient' \in AmbientValues
    BY <1>1 DEF MoveWorld, IInv, TypeOK
  <2> QED  BY <1>1, <2>1, MovePreserves DEF MoveWorld, scopeVars
<1>2. ASSUME NEW v \in AmbientValues, MoveAmbient(v)  PROVE IInv'
  <2>1. world' \in [Resources -> World] /\ ambient' \in AmbientValues
    BY <1>2 DEF MoveAmbient, IInv, TypeOK
  <2> QED  BY <1>2, <2>1, MovePreserves DEF MoveAmbient, scopeVars
<1> QED  BY <1>1, <1>2 DEF Environment

\* Every step of the kernel, its callers and the world keeps the invariant.
LEMMA NextPreserves ==
  ASSUME IInv, [Next]_vars
  PROVE  IInv'
<1>1. CASE Evaluate
  BY <1>1, EnsureQueryPreserves, ReuseQueryPreserves, VerifyDependencyPreserves,
     ResumeVerifyPreserves, AbandonVerifyPreserves, BodyReadsInputPreserves,
     BodyReadsUntrackedPreserves, BodyCallsPreserves, BodyResumesPreserves,
     BodyCatchesPreserves, BodyRaisesPreserves, BodyReturnsPreserves,
     ObserveResourcePreserves, ProbeAndLoadPreserves, ObserveFailureProbePreserves,
     SplitLoadPreserves, DeliverPreserves, FinishPreserves DEF Evaluate
<1>2. CASE UNCHANGED vars
  BY <1>2 DEF vars, IInv, TypeOK, Discipline, LockDiscipline, CallDiscipline, RecordDiscipline,
     RevisionDiscipline, LockFree, Known, Failed
<1> QED  BY <1>1, <1>2, ClientPreserves, EnvironmentPreserves DEF Next

LEMMA InitEstablishes ==
  ASSUME Init
  PROVE  IInv
<1>1. TypeOK
  BY ControlType, ConstantsAssumption DEF Init, TypeOK
<1>2. Discipline /\ RevisionDiscipline
  BY DEF Init, Discipline, LockDiscipline, CallDiscipline, RecordDiscipline, RevisionDiscipline,
     LockFree, Known, Idle, Call
<1> QED  BY <1>1, <1>2 DEF IInv

\* The inductive invariant holds of every behaviour.
THEOREM Invariance == Spec => []IInv
<1>1. Init => IInv
  BY InitEstablishes
<1>2. IInv /\ [Next]_vars => IInv'
  BY NextPreserves
<1> QED  BY <1>1, <1>2, PTL DEF Spec

\* Type correctness: whatever the bodies, hooks and callers do, every record,
\* frame, request and pending call of the runtime is well formed.
THEOREM TypeCorrect == Spec => []TypeOK
<1>1. IInv => TypeOK
  BY DEF IInv
<1> QED  BY <1>1, Invariance, PTL

\* Records are dated in order and request ids are never shared, for every
\* number of threads, spans and nodes (_request_scope, _execute_query).
THEOREM RevisionsInOrder == Spec => []RevisionDiscipline
<1>1. IInv => RevisionDiscipline
  BY DEF IInv
<1> QED  BY <1>1, Invariance, PTL

-----------------------------------------------------------------------------
(* No reader misses a change: a change is dated past the current revision,  *)
(* and no verification is.                                                  *)

ChangesDated ==
  \A n \in Nodes : Known(n) /\ records'[n] # Absent /\ MovesTo(n, records'[n].snapshot) =>
    records'[n].changed_at > revision

\* One record is written, and dated if it moved.
LEMMA OneRecordDated ==
  ASSUME IInv, NEW n \in Nodes, NEW rec, records' = [records EXCEPT ![n] = rec],
         Known(n) /\ MovesTo(n, rec.snapshot) => rec.changed_at > revision
  PROVE  ChangesDated
<1>1. \A m \in Nodes : records'[m] = IF m = n THEN rec ELSE records[m]
  BY DEF IInv, TypeOK
<1> QED  BY <1>1 DEF ChangesDated, MovesTo

LEMMA ReturnsDated ==
  ASSUME IInv, BodyReturns
  PROVE  ChangesDated
<1>1. PICK v \in Values : Does("return", v) /\ Commit(Top.key, v)
  BY DEF BodyReturns
<1> DEFINE q == Top.key
           rev == CommitRevision(q, v)
           changed == IF KeepsChangedAt(q, v) THEN records[q].changed_at ELSE rev
<1>2. q \in Nodes /\ revision \in Nat
  BY <1>1, TopFrame DEF Does, Executing, IInv, TypeOK
<1>3. PICK rec : rec = [NewRecord(v, changed, rev, CurrentRequest)
                          EXCEPT !.dependencies = Edges(q), !.untracked = Top.untracked,
                                 !.checkpointable = Top.checkpointable]
  OBVIOUS
<1>4. records' = [records EXCEPT ![q] = rec]
  BY <1>1, <1>3 DEF Commit
<1>5. rec.snapshot = v /\ rec.changed_at = changed
  <2> HIDE DEF changed, rev, q
  <2> QED  BY <1>3 DEF NewRecord
<1>6. ASSUME Known(q), MovesTo(q, v)  PROVE changed > revision
  <2>1. ~KeepsChangedAt(q, v)
    <3>1. ~Failed(q)
      BY <1>1, <1>6, TopFrame, ConstantsAssumption
         DEF IInv, Discipline, RecordDiscipline, Does, Executing
    <3> QED  BY <1>6, <3>1 DEF MovesTo, KeepsChangedAt
  <2> QED  BY <1>2, <1>6, <2>1 DEF CommitRevision
<1> QED  BY <1>2, <1>4, <1>5, <1>6, OneRecordDated

LEMMA ReusesDated ==
  ASSUME IInv, ctl.op # "idle", NEW n \in Nodes, Known(n),
         records' = [records EXCEPT ![n] = Verified(@)]
  PROVE  ChangesDated
<1>1. Verified(records[n]).snapshot = records[n].snapshot
  BY VerifiedType
<1>2. PICK rec : rec = Verified(records[n])
  OBVIOUS
<1> QED  BY <1>1, <1>2, OneRecordDated DEF MovesTo

LEMMA UnrecordedDated ==
  ASSUME IInv, NEW r \in Resources, NEW e, RaiseUnrecorded(r, e)
  PROVE  ChangesDated
<1>1. CASE ~Known(r)
  BY <1>1 DEF RaiseUnrecorded, ChangesDated, MovesTo
<1>2. CASE Known(r)
  <2>1. PICK rec : rec = [records[r] EXCEPT !.probe_unconfirmed = TRUE]
    OBVIOUS
  <2>2. r \in Nodes /\ records[r] \in NodeRecord
    BY <1>2, Facts DEF Nodes
  <2>3. rec.snapshot = records[r].snapshot
    BY <2>1, <2>2 DEF NodeRecord
  <2>4. records' = [records EXCEPT ![r] = rec]
    BY <1>2, <2>1 DEF RaiseUnrecorded
  <2> QED  BY <2>2, <2>3, <2>4, OneRecordDated DEF MovesTo
<1> QED  BY <1>1, <1>2

LEMMA FailuresDated ==
  ASSUME IInv, NEW r \in Resources, NEW p, NEW e, RecordFailure(r, p, e)
  PROVE  ChangesDated
<1> DEFINE rev == IF ~Known(r) \/ FailureUnchanged(r, p) THEN revision ELSE revision + 1
           changed == IF FailureUnchanged(r, p) THEN records[r].changed_at ELSE rev
<1>1. PICK rec : rec = [NewRecord(Absent, changed, rev, CurrentRequest)
                          EXCEPT !.probe = p, !.failure = e, !.retained = TRUE]
  OBVIOUS
<1>2. records' = [records EXCEPT ![r] = rec] /\ r \in Nodes /\ revision \in Nat
  BY <1>1 DEF RecordFailure, Nodes, IInv, TypeOK
<1>3. rec.snapshot = Absent /\ rec.changed_at = changed
  <2> HIDE DEF changed, rev
  <2> QED  BY <1>1 DEF NewRecord
<1>4. ASSUME Known(r), MovesTo(r, Absent)  PROVE changed > revision
  <2>1. ~FailureUnchanged(r, p)
    BY <1>2, <1>4 DEF IInv, Discipline, RecordDiscipline, FailureUnchanged, MovesTo
  <2> QED  BY <1>2, <1>4, <2>1
<1> QED  BY <1>2, <1>3, <1>4, OneRecordDated

LEMMA LoadsDated ==
  ASSUME IInv, NEW r \in Resources, NEW p, NEW v, RecordLoad(r, p, v)
  PROVE  ChangesDated
<1> DEFINE rev == LoadRevision(r)
<1>1. PICK rec : rec = [NewRecord(v, rev, rev, CurrentRequest) EXCEPT !.probe = p]
  OBVIOUS
<1>2. records' = [records EXCEPT ![r] = rec] /\ r \in Nodes /\ revision \in Nat
  BY <1>1 DEF RecordLoad, Nodes, IInv, TypeOK
<1>3. rec.changed_at = rev
  <2> HIDE DEF rev
  <2> QED  BY <1>1 DEF NewRecord
<1>4. Known(r) => rev > revision
  BY <1>2 DEF LoadRevision
<1> QED  BY <1>2, <1>3, <1>4, OneRecordDated

\* The table is dropped from, or left alone.
LEMMA EndsDated ==
  ASSUME IInv, NEW F, records' = Released(F)
  PROVE  ChangesDated
<1> SUFFICES ASSUME NEW n \in Nodes, Known(n), records'[n] # Absent
             PROVE  records'[n].snapshot = records[n].snapshot
  BY DEF ChangesDated, MovesTo
<1>1. CASE records'[n] = records[n]
  BY <1>1
<1>2. CASE records'[n] = [records[n] EXCEPT !.retained = FALSE]
  <2>1. records[n] \in NodeRecord
    BY Facts
  <2> QED  BY <1>2, <2>1 DEF NodeRecord
<1> QED  BY <1>1, <1>2 DEF Released

LEMMA SetsDated ==
  ASSUME IInv, NEW t \in Threads, NEW S \in SUBSET Inputs, NEW updates \in [S -> Values],
         SetInputs(t, updates)
  PROVE  ChangesDated
<1> SUFFICES ASSUME NEW n \in Nodes, Known(n), records'[n] # Absent,
                    MovesTo(n, records'[n].snapshot)
             PROVE  records'[n].changed_at > revision
  BY DEF ChangesDated
<1>1. records' = CommittedInputs(t, updates) /\ revision \in Nat /\ DOMAIN updates = S
  BY DEF SetInputs, IInv, TypeOK
<1>2. n \in S
  BY <1>1 DEF CommittedInputs, MovesTo
<1>3. updates[n] \in Values /\ ~Failed(n) /\ records[n] \in NodeRecord
  BY <1>2, Facts, ConstantsAssumption DEF IInv, Discipline, RecordDiscipline
<1>4. CASE InputUnchanged(n, updates[n])
  <2>1. records'[n] = [records[n] EXCEPT !.snapshot = updates[n], !.verified_at = revision,
                                         !.checked_in_request = SetRequestId(t)]
    BY <1>1, <1>2, <1>4 DEF CommittedInputs
  <2>2. records'[n].snapshot = updates[n]
    BY <1>3, <2>1 DEF NodeRecord
  <2> QED  BY <1>3, <1>4, <2>2 DEF MovesTo, InputUnchanged
<1>5. CASE ~InputUnchanged(n, updates[n])
  <2>1. records'[n] = NewRecord(updates[n], revision + 1, revision + 1, SetRequestId(t))
    BY <1>1, <1>2, <1>5 DEF CommittedInputs
  <2> QED  BY <1>1, <2>1 DEF NewRecord
<1> QED  BY <1>4, <1>5

\* A step that leaves the table alone changes nothing.
LEMMA UnchangedDated ==
  ASSUME UNCHANGED records
  PROVE  ChangesDated
BY DEF ChangesDated, MovesTo

LEMMA NextDated ==
  ASSUME IInv, [Next]_vars
  PROVE  ChangesDated
<1>1. CASE ReuseQuery
  <2>1. ctl.op # "idle" /\ Top.key \in Nodes /\ Known(Top.key)
    BY <1>1, TopFrame DEF ReuseQuery, Verifying
  <2> QED  BY <1>1, <2>1, ReusesDated DEF ReuseQuery
<1>2. CASE ObserveResource \/ ProbeAndLoad \/ ObserveFailureProbe \/ SplitLoad
  <2>1. ctl.key \in Resources /\ ctl.key \in Nodes /\ ctl.op # "idle"
    BY <1>2, HookFacts DEF ObserveResource, ProbeAndLoad, ObserveFailureProbe, SplitLoad
  <2>2. \/ UNCHANGED records
        \/ ProbeHit(ctl.key, world[ctl.key]) /\ ReuseOnProbeHit(ctl.key)
        \/ \E e : RaiseUnrecorded(ctl.key, e)
        \/ \E pr, e : RecordFailure(ctl.key, pr, e)
        \/ \E pr, v : RecordLoad(ctl.key, pr, v)
    BY <1>2 DEF ObserveResource, ProbeAndLoad, ObserveFailureProbe, SplitLoad
  <2>3. ASSUME ProbeHit(ctl.key, world[ctl.key]), ReuseOnProbeHit(ctl.key)  PROVE ChangesDated
    BY <2>1, <2>3, ReusesDated DEF ProbeHit, ProbeProves, ReuseOnProbeHit
  <2> QED  BY <2>1, <2>2, <2>3, UnchangedDated, UnrecordedDated, FailuresDated, LoadsDated
<1>3. CASE Finish
  <2>1. UNCHANGED records \/ \E F : records' = Released(F)
    BY <1>3 DEF Finish, EndRequest
  <2> QED  BY <2>1, UnchangedDated, EndsDated
<1>4. CASE Client
  <2>1. PICK t \in Threads :
          \/ UNCHANGED records
          \/ \E i \in Inputs, v \in Values : Set(t, i, v)
          \/ \E updates \in Updates : SetMany(t, updates)
          \/ CloseSpan(t)
    BY <1>4 DEF Client, Get, Inspect, ReadResource, Begin, OpenSpan, RequestInputsChanged
  <2>2. ASSUME NEW i \in Inputs, NEW v \in Values, Set(t, i, v)  PROVE ChangesDated
    <3>1. [j \in {i} |-> v] \in [{i} -> Values] /\ {i} \in SUBSET Inputs
      OBVIOUS
    <3> QED  BY <2>2, <3>1, SetsDated DEF Set
  <2>3. ASSUME NEW updates \in Updates, SetMany(t, updates)  PROVE ChangesDated
    <3>1. PICK S \in SUBSET Inputs : updates \in [S -> Values]
      BY DEF Updates
    <3> QED  BY <2>3, <3>1, SetsDated DEF SetMany
  <2>4. ASSUME CloseSpan(t)  PROVE ChangesDated
    BY <2>4, EndsDated DEF CloseSpan, EndRequest
  <2> QED  BY <2>1, <2>2, <2>3, <2>4, UnchangedDated
<1>5. CASE BodyReturns
  BY <1>5, ReturnsDated
<1>6. CASE EnsureQuery \/ VerifyDependency \/ ResumeVerify \/ AbandonVerify \/ BodyReadsInput
           \/ BodyReadsUntracked \/ BodyCalls \/ BodyResumes \/ BodyCatches \/ BodyRaises
           \/ Deliver \/ Environment \/ UNCHANGED vars
  BY <1>6, UnchangedDated DEF EnsureQuery, VerifyDependency, ResumeVerify, AbandonVerify,
     BodyReadsInput, BodyReadsUntracked, BodyCalls, BodyResumes, BodyCatches, BodyRaises,
     Deliver, Environment, MoveWorld, MoveAmbient, vars
<1> QED  BY <1>1, <1>2, <1>3, <1>4, <1>5, <1>6 DEF Next, Evaluate

\* No reader misses a change, for every graph of queries, every equality
\* policy, every schedule of the world: when a recorded node moves, its new
\* date is later than the date of every verification, so the comparison of
\* _maybe_changed_after cannot overlook it.
THEOREM ChangesReachReaders == Spec => NoReaderMissesAChange
<1>1. ASSUME IInv, [Next]_vars  PROVE ReadersSeeChanges
  <2> SUFFICES ASSUME NEW n \in Nodes, Known(n), records'[n] # Absent,
                      MovesTo(n, records'[n].snapshot), NEW q \in Queries, Known(q)
               PROVE  records'[n].changed_at > records[q].verified_at
    BY DEF ReadersSeeChanges
  <2>1. records'[n].changed_at > revision /\ records'[n] \in NodeRecord
    BY <1>1, NextDated, NextPreserves DEF ChangesDated, IInv, TypeOK
  <2>2. records[q].verified_at <= revision /\ records[q] \in NodeRecord /\ revision \in Nat
    BY <1>1, Facts DEF IInv, TypeOK, RevisionDiscipline, Nodes
  <2>3. records'[n].changed_at \in Nat /\ records[q].verified_at \in Nat
    BY <2>1, <2>2 DEF NodeRecord
  <2> QED  BY <2>1, <2>2, <2>3
<1>2. IInv /\ [Next]_vars => [ReadersSeeChanges]_vars
  BY <1>1
<1> QED  BY <1>2, Invariance, PTL DEF Spec, NoReaderMissesAChange
=============================================================================
