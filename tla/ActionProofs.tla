---------------------------- MODULE ActionProofs ----------------------------
(***************************************************************************)
(* Proofs about Action, for every set of processes, paths and layouts: the  *)
(* lock files let one run at a time into the root, no run takes what it     *)
(* does not own, a run that nobody disturbs leaves the root as declared, and *)
(* a layout whose runs stopped is not refused by the runs that follow.      *)
(***************************************************************************)
EXTENDS Action, WellFoundedInduction, SequenceTheorems, TLAPS

Entries == {Nothing, Dir, Link} \cup {File(b, who) : b \in Contents, who \in {"user", "action"}}

FilesOK == fs \in [Paths -> Entries] /\ incarnation \in Incarnations \cup {Absent}
LedgerOK == ledger \in Ledgers \cup {Absent}

\* A run record keeps its fields, whatever they hold.
Fields == {"phase", "outcome", "dry_run", "held", "desired", "previous", "voided", "deletions",
           "prunes", "writes", "seen", "calm"}
RunRecord(r) == r = [f \in Fields |-> r[f]]

RunOK(r) ==
  /\ RunRecord(r)
  /\ r.phase \in Phases /\ r.held \in 0 .. Len(LockPaths)
  /\ r.desired \in Outputs /\ r.previous \in Outputs
  /\ r.deletions \subseteq Orphans(r.desired, r.previous)
  /\ r.writes \subseteq DOMAIN r.desired

TypeOK ==
  /\ FilesOK /\ LedgerOK /\ touches \in Nat
  /\ locks \in [Locks -> Procs \cup {Absent}]
  /\ procs = [p \in Procs |-> procs[p]] /\ \A p \in Procs : RunOK(Run(p))

\* A run past its preflight, and one that ended well and still has its locks.
Working == Running \ {"preflight"}
Done(p) == In(p, "release") /\ Run(p).outcome = "done"

\* A run holds the lock files in their order, all of them while it runs.
Holds(p) ==
  /\ \A k \in 1 .. Run(p).held : locks[LockPaths[k]] = p
  /\ In(p, "locking") => Run(p).held < Len(LockPaths)
  /\ Run(p).phase \in Running \/ Done(p) => Run(p).held = Len(LockPaths)

\* What a run at work found recorded is still what the ledger records: nobody
\* else writes it, and damage to it does not change what it claims.
ClaimStands(p) ==
  Run(p).phase \in Working =>
    \A q \in DOMAIN Run(p).previous :
      /\ ledger # Absent /\ q \in DOMAIN ledger.outputs
      /\ ledger.outputs[q] = Run(p).previous[q]

\* Nothing is planned before the preflight, and between its two looks a
\* deletion remembers a file with the recorded bytes.
Planned(p) ==
  /\ Run(p).phase \in {"locking", "preflight"} => Run(p).deletions = {} /\ Run(p).writes = {}
  /\ In(p, "unlink") =>
       /\ Run(p).deletions # {}
       /\ Run(p).seen.kind = "file"
       /\ Run(p).seen.bytes = Run(p).previous[First(Run(p).deletions)]
  /\ In(p, "publish") => Run(p).writes # {}

IInv == TypeOK /\ \A p \in Procs : Holds(p) /\ ClaimStands(p) /\ Planned(p)

\* A run that nobody else disturbed.  Every declared output that it need not
\* write is in place, every orphan that it need not delete is not its own, and
\* what it read from the ledger is what the ledger claims; once it is done the
\* ledger claims what it declared.
Undisturbed(p) ==
  /\ \A q \in DOMAIN Run(p).desired \ Run(p).writes :
       IsFile(q) /\ fs[q].bytes = Run(p).desired[q]
  /\ \A q \in Orphans(Run(p).desired, Run(p).previous) \ Run(p).deletions :
       IsFile(q) => fs[q].bytes # Run(p).previous[q]
  /\ In(p, "unlink") => fs[First(Run(p).deletions)] = Run(p).seen
  /\ Run(p).phase \notin {"delete", "unlink"} => Run(p).deletions = {}
  /\ Run(p).phase \in {"ledger", "release"} => Run(p).writes = {}
  /\ Claims = IF Done(p) THEN Run(p).desired ELSE Run(p).previous

Converges(p) ==
  Run(p).calm /\ (Run(p).phase \in Working \/ Done(p)) => Undisturbed(p)

\* A ledger written before there was a root names no incarnation.
RootStays == incarnation = Absent /\ ledger # Absent => ledger.incarnation = Absent

CInv == IInv /\ RootStays /\ \A p \in Procs : Converges(p)

-----------------------------------------------------------------------------
(* The order of paths.                                                      *)

\* A set of numbers has a least one.
LEMMA LeastIsOne ==
  ASSUME NEW T, T \subseteq Nat, T # {}
  PROVE  \E x \in T : \A y \in T : x <= y
<1> DEFINE Smaller == OpToRel(<, Nat)
<1>1. \A x, y \in Nat : y < x => <<y, x>> \in Smaller
  BY DEF OpToRel
<1>2. IsWellFoundedOn(Smaller, Nat)
  BY NatLessThanWellFounded
<1>3. PICK x \in T : \A y \in T : ~(<<y, x>> \in Smaller)
  <2> HIDE DEF Smaller
  <2> QED  BY <1>2, WFMin, Zenon
<1>4. ASSUME NEW y \in T  PROVE x <= y
  <2>1. x \in Nat /\ y \in Nat /\ ~(y < x)
    BY <1>1, <1>3, <1>4
  <2> QED  BY <2>1
<1> QED  BY <1>4

\* sorted() has a first element to give, whenever there is any.
LEMMA RankedFirst ==
  ASSUME NEW S \in SUBSET Paths, S # {}
  PROVE  \E q \in S : \A r \in S : Rank(q) <= Rank(r)
<1> DEFINE T == {Rank(q) : q \in S}
<1>1. T \subseteq Nat /\ T # {}
  BY ConstantsAssumption
<1>2. \E x \in T : \A y \in T : x <= y
  <2> HIDE DEF T
  <2> QED  BY <1>1, LeastIsOne
<1> QED  BY <1>2

LEMMA FirstIsOne ==
  ASSUME NEW S \in SUBSET Paths, S # {}
  PROVE  First(S) \in S
BY RankedFirst DEF First

-----------------------------------------------------------------------------
(* Directories of paths.                                                    *)

\* A front of a sequence is as long as it says, and has fronts of its own.
LEMMA Fronts ==
  ASSUME NEW S, NEW s \in Seq(S), NEW k \in 1 .. Len(s)
  PROVE  /\ SubSeq(s, 1, k) \in Seq(S) /\ Len(SubSeq(s, 1, k)) = k
         /\ \A j \in 1 .. k : SubSeq(SubSeq(s, 1, k), 1, j) = SubSeq(s, 1, j)
<1>1. Len(s) \in Nat /\ 1 \in Int /\ k \in Int /\ 1 <= k /\ k <= Len(s)
  OBVIOUS
<1>2. \A i \in 1 .. k : s[i] \in S
  BY <1>1
<1>3. SubSeq(s, 1, k) \in Seq(S) /\ Len(SubSeq(s, 1, k)) = k
  BY <1>1, <1>2, SubSeqProperties
<1>4. ASSUME NEW j \in 1 .. k
      PROVE  SubSeq(SubSeq(s, 1, k), 1, j) = SubSeq(s, 1, j)
  <2>1. 1 \in 1 .. Len(s) /\ 1 \in 1 .. k - 1 + 1 /\ j \in 1 .. k - 1 + 1
    BY <1>1
  <2>2. SubSeq(SubSeq(s, 1, k), 1, j) = SubSeq(s, 1 + 1 - 1, 1 + j - 1)
    BY <2>1, SubSeqOfSubSeq
  <2> QED  BY <2>2
<1> QED  BY <1>3, <1>4

\* What a directory of a path is.
LEMMA AncestorIsPath ==
  ASSUME NEW q \in Paths, NEW a \in Ancestors(q)
  PROVE  /\ a \in Paths /\ a \in Directories
         /\ Len(a) \in 1 .. Len(q) - 1 /\ Len(q) \in Nat /\ a = SubSeq(q, 1, Len(a))
<1>1. q \in Seq({q[k] : k \in DOMAIN q}) /\ Ancestors(q) \subseteq Paths
  BY PathsAssumption
<1>2. PICK k \in 1 .. Len(q) - 1 : a = SubSeq(q, 1, k)
  BY DEF Ancestors
<1>3. Len(q) \in Nat /\ k \in 1 .. Len(q)
  BY <1>1
<1>4. Len(a) = k
  BY <1>1, <1>2, <1>3, Fronts
<1> QED  BY <1>1, <1>2, <1>3, <1>4 DEF Directories

LEMMA PathIsLong ==
  ASSUME NEW q \in Paths
  PROVE  Len(q) \in Nat /\ Len(q) >= 1 /\ SubSeq(q, 1, Len(q)) = q
<1>1. q \in Seq({q[k] : k \in DOMAIN q}) /\ q # <<>>
  BY PathsAssumption
<1>2. SubSeq(q, 1, Len(q)) = q
  BY <1>1, SubSeqFull
<1> QED  BY <1>1, <1>2

\* The fronts of a path, shorter than it, are its directories.
LEMMA FrontIsAncestor ==
  ASSUME NEW q \in Paths, NEW k \in 1 .. Len(q) - 1
  PROVE  SubSeq(q, 1, k) \in Ancestors(q) /\ Len(SubSeq(q, 1, k)) = k
<1>1. q \in Seq({q[i] : i \in DOMAIN q})
  BY PathsAssumption
<1>2. k \in 1 .. Len(q)
  BY <1>1
<1> QED  BY <1>1, <1>2, Fronts DEF Ancestors

\* Two directories of a path are one inside the other, and the fronts of the
\* longer one are fronts of the path.
LEMMA FrontOfAncestor ==
  ASSUME NEW q \in Paths, NEW a \in Ancestors(q), NEW j \in 1 .. Len(a)
  PROVE  SubSeq(a, 1, j) = SubSeq(q, 1, j)
<1>1. q \in Seq({q[i] : i \in DOMAIN q})
  BY PathsAssumption
<1>2. Len(a) \in 1 .. Len(q) /\ a = SubSeq(q, 1, Len(a))
  BY AncestorIsPath
<1> QED  BY <1>1, <1>2, Fronts

LEMMA AncestorsNest ==
  ASSUME NEW q \in Paths, NEW a \in Ancestors(q)
  PROVE  /\ Ancestors(a) \subseteq Ancestors(q) /\ a # q
         /\ \A b \in Ancestors(q) : b = a \/ b \in Ancestors(a) \/ a \in Ancestors(b)
<1>1. /\ a \in Paths /\ Len(a) \in 1 .. Len(q) - 1 /\ Len(q) \in Nat
      /\ a = SubSeq(q, 1, Len(a))
  BY AncestorIsPath
<1>2. ASSUME NEW b \in Ancestors(a)
      PROVE  b \in Ancestors(q)
  <2>1. Len(b) \in 1 .. Len(a) - 1 /\ b = SubSeq(a, 1, Len(b)) /\ Len(a) \in Nat
    BY <1>1, AncestorIsPath
  <2>2. b = SubSeq(q, 1, Len(b))
    BY <2>1, FrontOfAncestor
  <2>3. Len(b) \in 1 .. Len(q) - 1
    BY <1>1, <2>1
  <2> QED  BY <2>2, <2>3, FrontIsAncestor
<1>3. ASSUME NEW b \in Ancestors(q)
      PROVE  b = a \/ b \in Ancestors(a) \/ a \in Ancestors(b)
  <2>1. b \in Paths /\ Len(b) \in 1 .. Len(q) - 1 /\ b = SubSeq(q, 1, Len(b))
    BY AncestorIsPath
  <2>2. CASE Len(b) < Len(a)
    <3>1. Len(b) \in 1 .. Len(a) - 1
      BY <1>1, <2>1, <2>2
    <3>2. b = SubSeq(a, 1, Len(b))
      BY <1>1, <2>1, <3>1, FrontOfAncestor
    <3> QED  BY <1>1, <3>1, <3>2, FrontIsAncestor
  <2>3. CASE Len(a) < Len(b)
    <3>1. Len(a) \in 1 .. Len(b) - 1
      BY <1>1, <2>1, <2>3
    <3>2. a = SubSeq(b, 1, Len(a))
      BY <1>1, <2>1, <3>1, FrontOfAncestor
    <3> QED  BY <2>1, <3>1, <3>2, FrontIsAncestor
  <2>4. CASE Len(a) = Len(b)
    BY <1>1, <2>1, <2>4
  <2>5. Len(a) \in Int /\ Len(b) \in Int
    BY <1>1, <2>1
  <2>6. Len(b) < Len(a) \/ Len(a) < Len(b) \/ Len(a) = Len(b)
    BY <2>5
  <2> QED  BY <2>2, <2>3, <2>4, <2>6
<1> QED  BY <1>1, <1>2, <1>3

\* A directory of a path holds the path, or another directory of it.
LEMMA NextBelow ==
  ASSUME NEW q \in Paths, NEW a \in Ancestors(q)
  PROVE  \E c \in Children(a) : c \in Paths /\ (c = q \/ c \in Ancestors(q))
<1>1. /\ a \in Paths /\ Len(a) \in 1 .. Len(q) - 1 /\ Len(q) \in Nat
      /\ a = SubSeq(q, 1, Len(a))
  BY AncestorIsPath
<1>2. SubSeq(a, 1, Len(a)) = a
  BY <1>1, PathIsLong
<1>3. CASE Len(q) = Len(a) + 1
  <2>1. q \in Children(a)
    BY <1>1, <1>2, <1>3 DEF Children, IsPrefix
  <2> QED  BY <2>1
<1>4. CASE Len(q) # Len(a) + 1
  <2> DEFINE c == SubSeq(q, 1, Len(a) + 1)
  <2>1. Len(a) + 1 \in 1 .. Len(q) - 1
    BY <1>1, <1>4
  <2>2. c \in Ancestors(q) /\ Len(c) = Len(a) + 1
    BY <2>1, FrontIsAncestor
  <2> HIDE DEF c
  <2>3. c \in Paths
    BY <2>2, AncestorIsPath
  <2>4. SubSeq(c, 1, Len(a)) = a
    BY <1>1, <2>2, FrontOfAncestor
  <2>5. c \in Children(a)
    BY <1>1, <1>2, <2>2, <2>3, <2>4 DEF Children, IsPrefix
  <2> QED  BY <2>2, <2>3, <2>5
<1> QED  BY <1>3, <1>4

LEMMA ChildIsBelow ==
  ASSUME NEW a \in Paths, NEW c \in Children(a)
  PROVE  c \in Paths /\ a \in Ancestors(c) /\ Len(c) = Len(a) + 1
<1>1. c \in Paths /\ Len(c) = Len(a) + 1 /\ SubSeq(a, 1, Len(a)) = SubSeq(c, 1, Len(a))
  BY DEF Children, IsPrefix
<1>2. Len(a) \in Nat /\ Len(a) >= 1 /\ SubSeq(a, 1, Len(a)) = a
  BY PathIsLong
<1>3. Len(a) \in 1 .. Len(c) - 1
  BY <1>1, <1>2
<1> QED  BY <1>1, <1>2, <1>3 DEF Ancestors

\* A front of a path is the path or one of its directories.
LEMMA AncestorIsPrefix ==
  ASSUME NEW q \in Paths, NEW a \in Ancestors(q)
  PROVE  IsPrefix(a, q)
<1>1. a \in Paths /\ Len(a) \in 1 .. Len(q) - 1 /\ Len(q) \in Nat /\ a = SubSeq(q, 1, Len(a))
  BY AncestorIsPath
<1>2. SubSeq(a, 1, Len(a)) = a
  BY <1>1, PathIsLong
<1> QED  BY <1>1, <1>2 DEF IsPrefix

\* The key of a directory is a front of the key of what is in it.
LEMMA KeysNest ==
  ASSUME NEW x \in Paths, NEW a \in Paths, NEW q \in Paths, a \in Ancestors(q) \/ a = q,
         IsPrefix(Key(x), Key(a))
  PROVE  IsPrefix(Key(x), Key(q)) /\ (a # q => x # q)
<1>0. CASE a = q
  BY <1>0
<1>1. CASE a \in Ancestors(q)
  <2>1. /\ Len(a) \in 1 .. Len(q) - 1 /\ Len(q) \in Nat /\ Len(x) \in Nat /\ Len(x) >= 1
    BY <1>1, AncestorIsPath, PathIsLong
  <2>2. /\ Len(Key(a)) = Len(a) /\ Len(Key(q)) = Len(q) /\ Len(Key(x)) = Len(x)
        /\ Key(q) \in Seq({Key(q)[k] : k \in DOMAIN Key(q)})
        /\ Key(a) = SubSeq(Key(q), 1, Len(a))
    BY <1>1, PathsAssumption
  <2>3. Len(x) <= Len(a) /\ SubSeq(Key(x), 1, Len(x)) = SubSeq(Key(a), 1, Len(x))
    BY <2>2 DEF IsPrefix
  <2>4. Len(a) \in 1 .. Len(Key(q)) /\ Len(x) \in 1 .. Len(a)
    BY <2>1, <2>2, <2>3
  <2>5. SubSeq(Key(a), 1, Len(x)) = SubSeq(Key(q), 1, Len(x))
    BY <2>2, <2>4, Fronts
  <2> QED  BY <2>1, <2>2, <2>3, <2>5 DEF IsPrefix
<1> QED  BY <1>0, <1>1

LEMMA KeyOfAncestor ==
  ASSUME NEW q \in Paths, NEW a \in Ancestors(q)
  PROVE  IsPrefix(Key(a), Key(q))
<1>1. a \in Paths
  BY AncestorIsPath
<1>2. IsPrefix(Key(a), Key(a))
  <2>1. Len(Key(a)) = Len(a) /\ Len(a) \in Nat
    BY <1>1, PathIsLong, PathsAssumption
  <2> QED  BY <2>1 DEF IsPrefix
<1> QED  BY <1>1, <1>2, KeysNest

-----------------------------------------------------------------------------
(* What a step leaves of a run's record.                                    *)

USE DEF Run, In, Goto, End, Running, Working, Phases, Done

\* One run moves, and keeps its locks, its outputs and its calm.
Moved(p) ==
  /\ procs' = [x \in Procs |-> procs'[x]] /\ RunRecord(Run(p)')
  /\ \A x \in Procs \ {p} : procs'[x] = procs[x]
Kept(p) ==
  /\ Run(p)'.held = Run(p).held /\ Run(p)'.calm = Run(p).calm
  /\ Run(p)'.desired = Run(p).desired /\ Run(p)'.previous = Run(p).previous
Deletions(p) == Run(p)'.deletions = Run(p).deletions
Writes(p) == Run(p)'.writes = Run(p).writes
Prunes(p) == Run(p)'.prunes = Run(p).prunes

LEMMA GotoMoves ==
  ASSUME TypeOK, NEW p \in Procs, NEW r, RunRecord(r), Goto(p, r)
  PROVE  Moved(p) /\ Run(p)' = r
BY DEF TypeOK, Moved

LEMMA EndMoves ==
  ASSUME TypeOK, NEW p \in Procs, NEW o, Goto(p, [Run(p) EXCEPT !.phase = "release", !.outcome = o])
  PROVE  Moved(p) /\ Kept(p) /\ Prunes(p) /\ Deletions(p) /\ Writes(p) /\ Run(p)'.phase = "release" /\ Run(p)'.outcome = o
<1> DEFINE r == [Run(p) EXCEPT !.phase = "release", !.outcome = o]
<1>1. RunRecord(Run(p))
  BY DEF TypeOK, RunOK
<1>2. /\ RunRecord(r) /\ r.phase = "release" /\ r.outcome = o
      /\ r.prunes = Run(p).prunes /\ r.held = Run(p).held /\ r.calm = Run(p).calm /\ r.desired = Run(p).desired
      /\ r.previous = Run(p).previous /\ r.deletions = Run(p).deletions /\ r.writes = Run(p).writes
  BY <1>1 DEF RunRecord, Fields
<1>3. Goto(p, r)
  OBVIOUS
<1> HIDE DEF r
<1>4. Moved(p) /\ Run(p)' = r
  BY <1>2, <1>3, GotoMoves
<1> QED  BY <1>2, <1>4 DEF Kept, Prunes, Deletions, Writes

LEMMA PhaseMoves ==
  ASSUME TypeOK, NEW p \in Procs, NEW x, Goto(p, [Run(p) EXCEPT !.phase = x])
  PROVE  Moved(p) /\ Kept(p) /\ Prunes(p) /\ Deletions(p) /\ Writes(p) /\ Run(p)'.phase = x
<1> DEFINE r == [Run(p) EXCEPT !.phase = x]
<1>1. RunRecord(Run(p))
  BY DEF TypeOK, RunOK
<1>2. /\ RunRecord(r) /\ r.phase = x
      /\ r.prunes = Run(p).prunes /\ r.held = Run(p).held /\ r.calm = Run(p).calm /\ r.desired = Run(p).desired
      /\ r.previous = Run(p).previous /\ r.deletions = Run(p).deletions /\ r.writes = Run(p).writes
  BY <1>1 DEF RunRecord, Fields
<1>3. Goto(p, r)
  OBVIOUS
<1> HIDE DEF r
<1>4. Moved(p) /\ Run(p)' = r
  BY <1>2, <1>3, GotoMoves
<1> QED  BY <1>2, <1>4 DEF Kept, Prunes, Deletions, Writes

LEMMA SeenMoves ==
  ASSUME TypeOK, NEW p \in Procs, NEW e, Goto(p, [Run(p) EXCEPT !.phase = "unlink", !.seen = e])
  PROVE  Moved(p) /\ Kept(p) /\ Prunes(p) /\ Deletions(p) /\ Writes(p) /\ Run(p)'.phase = "unlink" /\ Run(p)'.seen = e
<1> DEFINE r == [Run(p) EXCEPT !.phase = "unlink", !.seen = e]
<1>1. RunRecord(Run(p))
  BY DEF TypeOK, RunOK
<1>2. /\ RunRecord(r) /\ r.phase = "unlink" /\ r.seen = e
      /\ r.prunes = Run(p).prunes /\ r.held = Run(p).held /\ r.calm = Run(p).calm /\ r.desired = Run(p).desired
      /\ r.previous = Run(p).previous /\ r.deletions = Run(p).deletions /\ r.writes = Run(p).writes
  BY <1>1 DEF RunRecord, Fields
<1>3. Goto(p, r)
  OBVIOUS
<1> HIDE DEF r
<1>4. Moved(p) /\ Run(p)' = r
  BY <1>2, <1>3, GotoMoves
<1> QED  BY <1>2, <1>4 DEF Kept, Prunes, Deletions, Writes

LEMMA PrunesMoves ==
  ASSUME TypeOK, NEW p \in Procs, NEW S, Goto(p, [Run(p) EXCEPT !.prunes = S])
  PROVE  Moved(p) /\ Kept(p) /\ Deletions(p) /\ Writes(p) /\ Run(p)'.phase = Run(p).phase
         /\ Run(p)'.prunes = S
<1> DEFINE r == [Run(p) EXCEPT !.prunes = S]
<1>1. RunRecord(Run(p))
  BY DEF TypeOK, RunOK
<1>2. /\ RunRecord(r) /\ r.phase = Run(p).phase
      /\ r.held = Run(p).held /\ r.calm = Run(p).calm /\ r.desired = Run(p).desired
      /\ r.previous = Run(p).previous /\ r.deletions = Run(p).deletions /\ r.writes = Run(p).writes
      /\ r.prunes = S
  BY <1>1 DEF RunRecord, Fields
<1>3. Goto(p, r)
  OBVIOUS
<1> HIDE DEF r
<1>4. Moved(p) /\ Run(p)' = r
  BY <1>2, <1>3, GotoMoves
<1> QED  BY <1>2, <1>4 DEF Kept, Deletions, Writes

LEMMA DeletionsMoves ==
  ASSUME TypeOK, NEW p \in Procs, NEW S, Goto(p, [Run(p) EXCEPT !.phase = "delete", !.deletions = S])
  PROVE  Moved(p) /\ Kept(p) /\ Prunes(p) /\ Writes(p) /\ Run(p)'.phase = "delete" /\ Run(p)'.deletions = S
<1> DEFINE r == [Run(p) EXCEPT !.phase = "delete", !.deletions = S]
<1>1. RunRecord(Run(p))
  BY DEF TypeOK, RunOK
<1>2. /\ RunRecord(r) /\ r.phase = "delete" /\ r.deletions = S
      /\ r.prunes = Run(p).prunes /\ r.held = Run(p).held /\ r.calm = Run(p).calm /\ r.desired = Run(p).desired
      /\ r.previous = Run(p).previous /\ r.writes = Run(p).writes
  BY <1>1 DEF RunRecord, Fields
<1>3. Goto(p, r)
  OBVIOUS
<1> HIDE DEF r
<1>4. Moved(p) /\ Run(p)' = r
  BY <1>2, <1>3, GotoMoves
<1> QED  BY <1>2, <1>4 DEF Kept, Prunes, Writes

LEMMA WritesMoves ==
  ASSUME TypeOK, NEW p \in Procs, NEW S, Goto(p, [Run(p) EXCEPT !.phase = "stage", !.writes = S])
  PROVE  Moved(p) /\ Kept(p) /\ Prunes(p) /\ Deletions(p) /\ Run(p)'.phase = "stage" /\ Run(p)'.writes = S
<1> DEFINE r == [Run(p) EXCEPT !.phase = "stage", !.writes = S]
<1>1. RunRecord(Run(p))
  BY DEF TypeOK, RunOK
<1>2. /\ RunRecord(r) /\ r.phase = "stage" /\ r.writes = S
      /\ r.prunes = Run(p).prunes /\ r.held = Run(p).held /\ r.calm = Run(p).calm /\ r.desired = Run(p).desired
      /\ r.previous = Run(p).previous /\ r.deletions = Run(p).deletions
  BY <1>1 DEF RunRecord, Fields
<1>3. Goto(p, r)
  OBVIOUS
<1> HIDE DEF r
<1>4. Moved(p) /\ Run(p)' = r
  BY <1>2, <1>3, GotoMoves
<1> QED  BY <1>2, <1>4 DEF Kept, Prunes, Deletions

LEMMA NothingDeclared == NoOutputs \in Outputs /\ DOMAIN NoOutputs = {}
<1>1. NoOutputs \in [{} -> Contents] /\ {} \in SUBSET Paths
  BY DEF NoOutputs
<1> QED  BY <1>1 DEF NoOutputs, Outputs

LEMMA BecomesIdle ==
  ASSUME TypeOK, NEW p \in Procs, Goto(p, Idle)
  PROVE  /\ Moved(p) /\ Run(p)'.phase = "idle" /\ Run(p)'.held = 0 /\ RunOK(Run(p))'
<1>1. /\ RunRecord(Idle) /\ Idle.phase = "idle" /\ Idle.held = 0 /\ Idle.deletions = {}
      /\ Idle.writes = {} /\ Idle.desired = NoOutputs /\ Idle.previous = NoOutputs
  BY DEF Idle, RunRecord, Fields
<1>2. Moved(p) /\ Run(p)' = Idle
  BY <1>1, GotoMoves
<1>3. NoOutputs \in Outputs
  BY NothingDeclared
<1>4. 0 \in 0 .. Len(LockPaths)
  BY ConstantsAssumption
<1> QED  BY <1>1, <1>2, <1>3, <1>4 DEF RunOK

-----------------------------------------------------------------------------
(* One run moves: the locks keep every other one away from the root, the      *)
(* ledger and what it needs of them.                                         *)

USE ConstantsAssumption

AtWork(p) == Run(p).phase \in Running \/ Done(p)

\* Who has all the locks has the root to itself.
LEMMA Alone ==
  ASSUME IInv, NEW p \in Procs, NEW r \in Procs, AtWork(p), AtWork(r)
  PROVE  p = r
<1>1. 1 \in 1 .. Len(LockPaths)
  OBVIOUS
<1> QED  BY <1>1 DEF IInv, TypeOK, Holds, AtWork

LEMMA OneMoves ==
  ASSUME IInv, NEW p \in Procs, Moved(p), UNCHANGED <<locks, touches>>, FilesOK', LedgerOK',
         ledger' = ledger \/ AtWork(p),
         RunOK(Run(p))', Holds(p)', ClaimStands(p)', Planned(p)'
  PROVE  IInv'
<1>1. ASSUME NEW x \in Procs \ {p}
      PROVE  RunOK(Run(x))' /\ Holds(x)' /\ Planned(x)'
  BY <1>1 DEF IInv, TypeOK, Moved, RunOK, RunRecord, Holds, Planned
<1>2. ASSUME NEW x \in Procs \ {p}
      PROVE  ClaimStands(x)'
  BY <1>2, Alone DEF IInv, Moved, ClaimStands, AtWork
<1>3. TypeOK'
  BY <1>1 DEF IInv, TypeOK, Moved
<1> QED  BY <1>1, <1>2, <1>3 DEF IInv

LEMMA OneConverges ==
  ASSUME CInv, NEW p \in Procs, Moved(p),
         UNCHANGED <<fs, ledger, incarnation>> \/ AtWork(p),
         IInv', RootStays', Converges(p)'
  PROVE  CInv'
<1>1. ASSUME NEW x \in Procs \ {p}, AtWork(p)
      PROVE  Converges(x)'
  BY <1>1, Alone DEF CInv, Moved, Converges, AtWork
<1>2. ASSUME NEW x \in Procs \ {p}, UNCHANGED <<fs, ledger, incarnation>>
      PROVE  Converges(x)'
  BY <1>2 DEF CInv, Moved, Converges, Undisturbed, IsFile, Claims, Voided
<1> QED  BY <1>1, <1>2 DEF CInv

-----------------------------------------------------------------------------
(* The steps.                                                               *)

LEMMA OutputsTyped ==
  ASSUME NEW o \in Outputs
  PROVE  DOMAIN o \subseteq Paths /\ \A q \in DOMAIN o : o[q] \in Contents
BY DEF Outputs

LEMMA ClaimsTyped ==
  ASSUME TypeOK
  PROVE  Claims \in Outputs /\ \A q \in DOMAIN Claims : ledger # Absent /\ Claims = ledger.outputs
<1>1. NoOutputs \in Outputs /\ DOMAIN NoOutputs = {}
  BY NothingDeclared
<1>2. ledger # Absent => ledger.outputs \in Outputs
  BY DEF TypeOK, LedgerOK, Ledgers
<1> QED  BY <1>1, <1>2 DEF Claims

\* A run starts, holding nothing.
LEMMA StartPreserves ==
  ASSUME IInv, NEW p \in Procs, NEW dry, Start(p, dry)
  PROVE  /\ IInv' /\ Moved(p) /\ Run(p)'.phase = "locking"
         /\ UNCHANGED <<fs, ledger, incarnation>>
<1> DEFINE r == [Idle EXCEPT !.phase = "locking", !.dry_run = dry]
<1>1. /\ RunRecord(r) /\ r.phase = "locking" /\ r.held = 0 /\ r.deletions = {}
      /\ r.writes = {} /\ r.desired = NoOutputs /\ r.previous = NoOutputs
  BY DEF Idle, RunRecord, Fields
<1>2. Goto(p, r)
  BY DEF Start
<1> HIDE DEF r
<1>3. Moved(p) /\ Run(p)' = r
  BY <1>1, <1>2, GotoMoves DEF IInv
<1>4. NoOutputs \in Outputs /\ 0 \in 0 .. Len(LockPaths) /\ 0 < Len(LockPaths)
  BY NothingDeclared
<1>5. RunOK(Run(p))' /\ Holds(p)' /\ ClaimStands(p)' /\ Planned(p)'
  BY <1>1, <1>3, <1>4 DEF RunOK, Holds, ClaimStands, Planned
<1>6. FilesOK' /\ LedgerOK' /\ UNCHANGED <<fs, ledger, incarnation, locks, touches>>
  BY DEF Start, IInv, TypeOK, FilesOK, LedgerOK
<1> QED  BY <1>1, <1>3, <1>5, <1>6, OneMoves

\* The next lock file was nobody's.
LEMMA AcquireLockPreserves ==
  ASSUME IInv, NEW p \in Procs, AcquireLock(p)
  PROVE  /\ IInv' /\ Moved(p) /\ Run(p)'.phase \in {"locking", "preflight"}
         /\ UNCHANGED <<fs, ledger, incarnation>>
<1> DEFINE held == Run(p).held + 1
           r == [Run(p) EXCEPT !.held = held,
                   !.phase = IF held = Len(LockPaths) THEN "preflight" ELSE "locking"]
<1>0. \A k \in 1 .. Len(LockPaths) : LockPaths[k] \in Locks
  BY DEF Locks
<1>1. RunRecord(Run(p)) /\ RunOK(Run(p)) /\ Planned(p)
  BY DEF IInv, TypeOK, RunOK
<1>2. /\ RunRecord(r) /\ r.phase = IF held = Len(LockPaths) THEN "preflight" ELSE "locking"
      /\ r.held = held /\ r.deletions = Run(p).deletions /\ r.writes = Run(p).writes
      /\ r.desired = Run(p).desired /\ r.previous = Run(p).previous
  BY <1>1 DEF RunRecord, Fields
<1>3. Goto(p, r)
  BY DEF AcquireLock
<1> HIDE DEF r
<1>4. Moved(p) /\ Run(p)' = r
  BY <1>2, <1>3, GotoMoves DEF IInv
<1>5. /\ Run(p).held \in Nat /\ held \in 1 .. Len(LockPaths)
      /\ locks[LockPaths[held]] = Absent /\ locks' = [locks EXCEPT ![LockPaths[held]] = p]
  <2>1. Run(p).held \in 0 .. Len(LockPaths) /\ Run(p).held < Len(LockPaths)
    BY <1>1 DEF AcquireLock, RunOK, IInv, Holds
  <2>2. Len(LockPaths) \in Nat
    OBVIOUS
  <2> QED  BY <2>1, <2>2 DEF AcquireLock, NextLock
<1>6. RunOK(Run(p))' /\ ClaimStands(p)' /\ Planned(p)'
  BY <1>1, <1>2, <1>4, <1>5 DEF RunOK, ClaimStands, Planned, AcquireLock
<1>7. Holds(p)'
  <2>1. \A k \in 1 .. held : locks'[LockPaths[k]] = p
    BY <1>0, <1>5 DEF IInv, TypeOK, Holds
  <2> QED  BY <1>2, <1>4, <1>5, <2>1 DEF Holds
<1>8. ASSUME NEW x \in Procs \ {p}  PROVE RunOK(Run(x))' /\ Holds(x)' /\ ClaimStands(x)' /\ Planned(x)'
  <2>1. \A k \in 1 .. Run(x).held : locks'[LockPaths[k]] = x
    <3>1. \A k \in 1 .. Run(x).held : k \in 1 .. Len(LockPaths) /\ locks[LockPaths[k]] = x
      BY DEF IInv, TypeOK, RunOK, Holds
    <3> QED  BY <1>0, <1>5, <3>1 DEF IInv, TypeOK
  <2>2. procs'[x] = procs[x] /\ ledger' = ledger
    BY <1>4 DEF Moved, AcquireLock
  <2>3. RunOK(Run(x)) /\ Holds(x) /\ ClaimStands(x) /\ Planned(x)
    BY DEF IInv, TypeOK
  <2> QED  BY <2>1, <2>2, <2>3 DEF RunOK, RunRecord, Holds, ClaimStands, Planned
<1>9. TypeOK'
  BY <1>4, <1>5, <1>6, <1>8 DEF AcquireLock, IInv, TypeOK, FilesOK, LedgerOK, Moved
<1> QED  BY <1>2, <1>4, <1>6, <1>7, <1>8, <1>9 DEF IInv, AcquireLock

\* A run that ends without its ledger leaves the root as it is and claims no
\* success.
LEMMA EndedEarly ==
  ASSUME IInv, NEW p \in Procs, NEW o, o # "done", End(p, o),
         UNCHANGED <<fs, incarnation, ledger, locks, touches>>
  PROVE  IInv' /\ (CInv => CInv')
<1>1. /\ Moved(p) /\ Kept(p) /\ Deletions(p) /\ Writes(p)
      /\ Run(p)'.phase = "release" /\ Run(p)'.outcome = o
  BY EndMoves DEF IInv
<1>2. RunOK(Run(p)) /\ Holds(p)
  BY DEF IInv, TypeOK
<1>3. RunOK(Run(p))' /\ Holds(p)' /\ ClaimStands(p)' /\ Planned(p)' /\ Converges(p)'
  BY <1>1, <1>2 DEF Moved, Kept, Deletions, Writes, RunOK, Holds, ClaimStands, Planned, Converges
<1>4. FilesOK' /\ LedgerOK' /\ (CInv => RootStays')
  BY DEF IInv, TypeOK, FilesOK, LedgerOK, CInv, RootStays
<1> QED  BY <1>1, <1>3, <1>4, OneMoves, OneConverges

\* The preflight plans: what it does not write is in place, what it does not
\* delete is not the action's.
LEMMA PreflightPreserves ==
  ASSUME IInv, NEW p \in Procs, NEW d \in Layouts, Preflight(p, d)
  PROVE  IInv' /\ (CInv => CInv')
<1> DEFINE o == Claims
           run == [Run(p) EXCEPT !.desired = d, !.previous = o, !.voided = Voided]
           refused == (ledger # Absent /\ ledger.corrupt) \/ Refused(d, o)
           ended == [run EXCEPT !.phase = "release",
                                !.outcome = IF refused THEN "refused" ELSE "planned"]
           planned == [run EXCEPT !.phase = "delete", !.deletions = Deletable(d, o),
                                  !.prunes = Prunable(d, o), !.writes = Stale(d)]
<1>1. RunOK(Run(p)) /\ Holds(p) /\ Planned(p) /\ ClaimStands(p) /\ TypeOK
  BY DEF IInv, TypeOK
<1>2. RunRecord(Run(p)) /\ Run(p).phase = "preflight"
  BY <1>1 DEF RunOK, Preflight
<1>3. /\ RunRecord(ended) /\ ended.phase = "release" /\ ended.outcome # "done"
      /\ ended.held = Run(p).held /\ ended.desired = d /\ ended.previous = o
      /\ ended.deletions = Run(p).deletions /\ ended.writes = Run(p).writes
  BY <1>2 DEF RunRecord, Fields
<1>4. /\ RunRecord(planned) /\ planned.phase = "delete" /\ planned.held = Run(p).held
      /\ planned.desired = d /\ planned.previous = o
      /\ planned.deletions = Deletable(d, o) /\ planned.writes = Stale(d)
  BY <1>2 DEF RunRecord, Fields
<1>5. /\ Goto(p, ended) \/ Goto(p, planned)
      /\ UNCHANGED <<fs, incarnation, ledger, locks, touches>>
  BY DEF Preflight
<1>6. d \in Outputs /\ o \in Outputs /\ \A q \in DOMAIN o : ledger # Absent /\ o = ledger.outputs
  BY <1>1, ClaimsTyped
<1>7. /\ Deletable(d, o) \subseteq Orphans(d, o) /\ Stale(d) \subseteq DOMAIN d
      /\ \A q \in Orphans(d, o) \ Deletable(d, o) : IsFile(q) => fs[q].bytes # o[q]
      /\ \A q \in DOMAIN d \ Stale(d) : IsFile(q) /\ fs[q].bytes = d[q]
  BY DEF Deletable, OrphanFiles, Stale
<1>8. Claims' = o /\ \A q : IsFile(q)' = IsFile(q)
  BY <1>5 DEF Claims, Voided, IsFile
<1> HIDE DEF o, ended, planned
<1>9. CASE Goto(p, ended)
  <2>1. Moved(p) /\ Run(p)' = ended
    BY <1>1, <1>3, <1>9, GotoMoves
  <2>2. RunOK(Run(p))' /\ Holds(p)' /\ ClaimStands(p)' /\ Planned(p)' /\ Converges(p)'
    BY <1>1, <1>2, <1>3, <1>5, <1>6, <2>1
       DEF RunOK, Holds, ClaimStands, Planned, Converges
  <2>3. FilesOK' /\ LedgerOK' /\ (CInv => RootStays')
    BY <1>5 DEF IInv, TypeOK, FilesOK, LedgerOK, CInv, RootStays
  <2> QED  BY <1>5, <2>1, <2>2, <2>3, OneMoves, OneConverges
<1>10. CASE Goto(p, planned)
  <2>1. Moved(p) /\ Run(p)' = planned
    BY <1>1, <1>4, <1>10, GotoMoves
  <2>2. RunOK(Run(p))' /\ Holds(p)' /\ Planned(p)'
    BY <1>1, <1>2, <1>4, <1>5, <1>6, <1>7, <2>1 DEF RunOK, Holds, Planned
  <2>3. ClaimStands(p)'
    BY <1>4, <1>5, <1>6, <2>1 DEF ClaimStands
  <2>4. Converges(p)'
    <3>1. Undisturbed(p)'
      BY <1>4, <1>5, <1>7, <1>8, <2>1 DEF Undisturbed
    <3> QED  BY <3>1 DEF Converges
  <2>5. FilesOK' /\ LedgerOK' /\ (CInv => RootStays')
    BY <1>5 DEF IInv, TypeOK, FilesOK, LedgerOK, CInv, RootStays
  <2> QED  BY <1>5, <2>1, <2>2, <2>3, <2>4, <2>5, OneMoves, OneConverges
<1> QED  BY <1>5, <1>9, <1>10

\* The path a run is at is one of its orphans, or one of its outputs.
LEMMA Picked ==
  ASSUME IInv, NEW p \in Procs
  PROVE  /\ Run(p).deletions # {} => First(Run(p).deletions) \in Run(p).deletions
         /\ Run(p).writes # {} => First(Run(p).writes) \in Run(p).writes
         /\ Run(p).deletions \subseteq Paths /\ Run(p).writes \subseteq Paths
<1>1. Run(p).deletions \in SUBSET Paths /\ Run(p).writes \in SUBSET Paths
  BY OutputsTyped DEF IInv, TypeOK, RunOK, Orphans
<1> QED  BY <1>1, FirstIsOne

\* The first look: refused, remembered, or passed over.
LEMMA VerifyOrphanPreserves ==
  ASSUME IInv, NEW p \in Procs, VerifyOrphan(p)
  PROVE  IInv' /\ (CInv => CInv')
<1> DEFINE q == First(Run(p).deletions)
           owned == IsFile(q) /\ fs[q].bytes = Run(p).previous[q]
<1>1. /\ RunOK(Run(p)) /\ Holds(p) /\ ClaimStands(p) /\ TypeOK /\ Run(p).phase = "delete"
      /\ UNCHANGED <<fs, incarnation, ledger, locks, touches>>
  BY DEF IInv, TypeOK, VerifyOrphan
<1>2. \/ Run(p).deletions = {} /\ Goto(p, [Run(p) EXCEPT !.phase = "prune"])
      \/ Run(p).deletions # {} /\ End(p, "refused")
      \/ /\ Run(p).deletions # {} /\ owned
         /\ Goto(p, [Run(p) EXCEPT !.phase = "unlink", !.seen = fs[q]])
      \/ /\ Run(p).deletions # {} /\ ~owned
         /\ Goto(p, [Run(p) EXCEPT !.phase = "delete", !.deletions = Run(p).deletions \ {q}])
  BY DEF VerifyOrphan, Skip
<1>3. Run(p).deletions # {} => q \in Run(p).deletions
  BY Picked
<1>4. CASE Run(p).deletions # {} /\ End(p, "refused")
  BY <1>1, <1>4, EndedEarly
<1>5. CASE ~(Run(p).deletions # {} /\ End(p, "refused"))
  <2>1. /\ Moved(p) /\ Kept(p) /\ Writes(p)
        /\ \/ Run(p).deletions = {} /\ Deletions(p) /\ Run(p)'.phase = "prune"
           \/ /\ Run(p).deletions # {} /\ Deletions(p)
              /\ Run(p)'.phase = "unlink" /\ Run(p)'.seen = fs[q] /\ owned
           \/ /\ Run(p)'.deletions = Run(p).deletions \ {q} /\ Run(p)'.phase = "delete" /\ ~owned
    <3>1. CASE Run(p).deletions = {} /\ Goto(p, [Run(p) EXCEPT !.phase = "prune"])
      BY <1>1, <3>1, PhaseMoves
    <3>2. CASE /\ Run(p).deletions # {} /\ owned
               /\ Goto(p, [Run(p) EXCEPT !.phase = "unlink", !.seen = fs[q]])
      BY <1>1, <3>2, SeenMoves
    <3>3. CASE /\ ~owned
               /\ Goto(p, [Run(p) EXCEPT !.phase = "delete", !.deletions = Run(p).deletions \ {q}])
      BY <1>1, <3>3, DeletionsMoves
    <3> QED  BY <1>2, <1>5, <3>1, <3>2, <3>3
  <2> HIDE DEF q
  <2>2. RunOK(Run(p))' /\ Holds(p)' /\ ClaimStands(p)'
    BY <1>1, <2>1 DEF Moved, Kept, Deletions, Writes, RunOK, Holds, ClaimStands
  <2>3. Planned(p)'
    BY <1>1, <2>1 DEF Kept, Deletions, Planned, IsFile, q
  <2>4. FilesOK' /\ LedgerOK' /\ (CInv => RootStays')
    BY <1>1 DEF IInv, TypeOK, FilesOK, LedgerOK, CInv, RootStays
  <2>5. ASSUME CInv  PROVE Converges(p)'
    <3>1. Converges(p) /\ Claims' = Claims /\ \A x : IsFile(x)' = IsFile(x)
      BY <1>1, <2>5 DEF CInv, Claims, Voided, IsFile
    <3>2. Run(p).calm => Undisturbed(p)'
      BY <1>1, <1>3, <2>1, <3>1 DEF Converges, Undisturbed, Kept, Deletions, Writes, IsFile, q
    <3> QED  BY <2>1, <3>2 DEF Converges, Kept
  <2> QED  BY <1>1, <2>1, <2>2, <2>3, <2>4, <2>5, OneMoves, OneConverges
<1> QED  BY <1>4, <1>5

\* The unlink: only the file that was looked at is gone.
LEMMA UnlinkOrphanPreserves ==
  ASSUME IInv, NEW p \in Procs, UnlinkOrphan(p)
  PROVE  IInv' /\ (CInv => CInv')
<1> DEFINE q == First(Run(p).deletions)
           S == Run(p).deletions \ {q}
<1>1. /\ RunOK(Run(p)) /\ Holds(p) /\ ClaimStands(p) /\ Planned(p) /\ TypeOK
      /\ Run(p).phase = "unlink" /\ UNCHANGED <<incarnation, ledger, locks, touches>>
  BY DEF IInv, TypeOK, UnlinkOrphan
<1>2. q \in Run(p).deletions /\ q \in Paths
  BY <1>1, Picked DEF Planned
<1>3. CASE End(p, "refused") /\ UNCHANGED fs
  BY <1>1, <1>3, EndedEarly
<1>4. CASE /\ Goto(p, [Run(p) EXCEPT !.phase = "delete", !.deletions = S])
           /\ IF Exists(q) /\ StillTheFile(p, q) THEN fs' = [fs EXCEPT ![q] = Nothing]
              ELSE fs' = fs
  <2>1. /\ Moved(p) /\ Kept(p) /\ Writes(p)
        /\ Run(p)'.deletions = S /\ Run(p)'.phase = "delete"
    BY <1>1, <1>4, DeletionsMoves
  <2> HIDE DEF q
  <2>2. RunOK(Run(p))' /\ Holds(p)' /\ ClaimStands(p)' /\ Planned(p)'
    BY <1>1, <2>1 DEF Moved, Kept, Writes, RunOK, Holds, ClaimStands, Planned
  <2>3. FilesOK' /\ LedgerOK' /\ (CInv => RootStays')
    BY <1>1, <1>4 DEF TypeOK, FilesOK, Entries, LedgerOK, CInv, RootStays
  <2>4. ASSUME CInv, Run(p).calm  PROVE Converges(p)'
    <3>1. Undisturbed(p) /\ Claims' = Claims
      BY <1>1, <2>4 DEF CInv, Claims, Voided, Converges
    <3>2. fs[q].kind = "file" /\ fs' = [fs EXCEPT ![q] = Nothing] /\ Nothing.kind = "none"
      BY <1>1, <1>4, <3>1 DEF Undisturbed, Planned, Exists, StillTheFile, q, Nothing
    <3>3. q \notin DOMAIN Run(p).desired
      BY <1>1, <1>2 DEF RunOK, Orphans
    <3>4. \A x \in Paths : fs'[x] = IF x = q THEN Nothing ELSE fs[x]
      BY <1>1, <3>2 DEF TypeOK, FilesOK
    <3>5. DOMAIN Run(p).desired \subseteq Paths /\ DOMAIN Run(p).previous \subseteq Paths
      BY <1>1, OutputsTyped DEF RunOK
    <3>6. Undisturbed(p)'
      BY <1>1, <1>2, <2>1, <3>1, <3>2, <3>3, <3>4, <3>5 DEF Undisturbed, Kept, Writes, IsFile, Orphans
    <3> QED  BY <3>6 DEF Converges
  <2>5. CInv => Converges(p)'
    BY <2>1, <2>4 DEF Converges, Kept
  <2>6. AtWork(p)
    BY <1>1 DEF AtWork
  <2> QED  BY <1>1, <2>1, <2>2, <2>3, <2>5, <2>6, OneMoves, OneConverges
<1> QED  BY <1>3, <1>4 DEF UnlinkOrphan

\* A prune removes at most one directory, which is no output.
LEMMA PruneDirectoryPreserves ==
  ASSUME IInv, NEW p \in Procs, PruneDirectory(p)
  PROVE  IInv' /\ (CInv => CInv')
<1> DEFINE q == Deepest(Run(p).prunes)
<1>1. /\ RunOK(Run(p)) /\ Holds(p) /\ ClaimStands(p) /\ Planned(p) /\ TypeOK
      /\ Run(p).phase = "prune" /\ UNCHANGED <<incarnation, ledger, locks, touches>>
  BY DEF IInv, TypeOK, PruneDirectory
<1>2. \/ Goto(p, [Run(p) EXCEPT !.phase = "stage"]) /\ UNCHANGED fs
      \/ End(p, "refused") /\ UNCHANGED fs
      \/ /\ Goto(p, [Run(p) EXCEPT !.prunes = Run(p).prunes \ {q}])
         /\ \/ IsDir(q) /\ fs' = [fs EXCEPT ![q] = Nothing]
            \/ fs' = fs
  BY DEF PruneDirectory
<1> HIDE DEF q
<1>3. CASE End(p, "refused") /\ UNCHANGED fs
  BY <1>1, <1>3, EndedEarly
<1>4. CASE ~(End(p, "refused") /\ UNCHANGED fs)
  <2>1. /\ Moved(p) /\ Kept(p) /\ Deletions(p) /\ Writes(p)
        /\ Run(p)'.phase \in {"prune", "stage"}
    <3>1. CASE Goto(p, [Run(p) EXCEPT !.phase = "stage"])
      BY <1>1, <3>1, PhaseMoves
    <3>2. CASE Goto(p, [Run(p) EXCEPT !.prunes = Run(p).prunes \ {q}])
      BY <1>1, <3>2, PrunesMoves
    <3> QED  BY <1>2, <1>4, <3>1, <3>2
  <2>2. RunOK(Run(p))' /\ Holds(p)' /\ ClaimStands(p)' /\ Planned(p)'
    BY <1>1, <2>1 DEF Moved, Kept, Deletions, Writes, RunOK, Holds, ClaimStands, Planned
  <2>3. /\ fs' = [x \in Paths |-> fs'[x]]
        /\ \A x \in Paths : fs'[x] = fs[x] \/ (fs[x].kind = "dir" /\ fs'[x] = Nothing)
    BY <1>1, <1>2, <1>4 DEF TypeOK, FilesOK, IsDir
  <2>4. FilesOK' /\ LedgerOK' /\ (CInv => RootStays')
    BY <1>1, <2>3 DEF TypeOK, FilesOK, Entries, LedgerOK, CInv, RootStays
  <2>5. ASSUME CInv, Run(p).calm  PROVE Converges(p)'
    <3>1. Undisturbed(p) /\ Claims' = Claims
      BY <1>1, <2>5 DEF CInv, Claims, Voided, Converges
    <3>2. DOMAIN Run(p).desired \subseteq Paths /\ DOMAIN Run(p).previous \subseteq Paths
      BY <1>1, OutputsTyped DEF RunOK
    <3>3. Undisturbed(p)'
      BY <1>1, <2>1, <2>3, <3>1, <3>2
         DEF Undisturbed, Kept, Deletions, Writes, IsFile, Orphans, Nothing
    <3> QED  BY <3>3 DEF Converges
  <2>6. CInv => Converges(p)'
    BY <2>1, <2>5 DEF Converges, Kept
  <2>7. AtWork(p)
    BY <1>1 DEF AtWork
  <2> QED  BY <1>1, <2>1, <2>2, <2>4, <2>6, <2>7, OneMoves, OneConverges
<1> QED  BY <1>3, <1>4

\* Staging makes directories where there was nothing: an output in place is no
\* ancestor of the one that is written.  A root that is made here is the first,
\* so the claims of the ledger stand.
LEMMA StageWritePreserves ==
  ASSUME IInv, NEW p \in Procs, StageWrite(p)
  PROVE  IInv' /\ (CInv => CInv')
<1> DEFINE q == First(Run(p).writes)
<1>1. /\ RunOK(Run(p)) /\ Holds(p) /\ ClaimStands(p) /\ Planned(p) /\ TypeOK
      /\ Run(p).phase = "stage" /\ UNCHANGED <<ledger, locks, touches>>
  BY DEF IInv, TypeOK, StageWrite
<1>2. \/ /\ Run(p).writes = {} /\ Goto(p, [Run(p) EXCEPT !.phase = "ledger"])
         /\ UNCHANGED <<fs, incarnation>>
      \/ End(p, "refused") /\ UNCHANGED <<fs, incarnation>>
      \/ /\ Run(p).writes # {} /\ Goto(p, [Run(p) EXCEPT !.phase = "publish"]) /\ ~Unsafe(q)
         /\ fs' = [a \in Paths |-> IF a \in Ancestors(q) THEN Dir ELSE fs[a]]
         /\ incarnation' \in IF incarnation = Absent THEN Incarnations ELSE {incarnation}
  BY DEF StageWrite
<1> HIDE DEF q
<1>3. CASE End(p, "refused") /\ UNCHANGED <<fs, incarnation>>
  BY <1>1, <1>3, EndedEarly
<1>4. CASE ~(End(p, "refused") /\ UNCHANGED <<fs, incarnation>>)
  <2>1. /\ Moved(p) /\ Kept(p) /\ Deletions(p) /\ Writes(p)
        /\ \/ Run(p)'.phase = "ledger" /\ Run(p).writes = {}
           \/ Run(p)'.phase = "publish" /\ Run(p).writes # {}
    <3>1. CASE Run(p).writes = {} /\ Goto(p, [Run(p) EXCEPT !.phase = "ledger"])
      BY <1>1, <3>1, PhaseMoves
    <3>2. CASE Run(p).writes # {} /\ Goto(p, [Run(p) EXCEPT !.phase = "publish"])
      BY <1>1, <3>2, PhaseMoves
    <3> QED  BY <1>2, <1>4, <3>1, <3>2
  <2>2. RunOK(Run(p))' /\ Holds(p)' /\ ClaimStands(p)' /\ Planned(p)'
    BY <1>1, <2>1 DEF Moved, Kept, Deletions, Writes, RunOK, Holds, ClaimStands, Planned
  <2>3. /\ fs' = [x \in Paths |-> fs'[x]]
        /\ \A x \in Paths : fs'[x] = fs[x] \/ (fs[x].kind # "file" /\ fs'[x] = Dir)
    BY <1>1, <1>2, <1>4 DEF TypeOK, FilesOK, Unsafe
  <2>4. /\ incarnation = Absent => incarnation' \in Incarnations \cup {Absent}
        /\ incarnation # Absent => incarnation' = incarnation
    BY <1>2, <1>4
  <2>5. FilesOK' /\ LedgerOK'
    BY <1>1, <2>3, <2>4 DEF TypeOK, FilesOK, Entries, LedgerOK
  <2>6. ASSUME CInv  PROVE RootStays' /\ Claims' = Claims
    BY <1>1, <2>4, <2>6 DEF CInv, RootStays, Claims, Voided
  <2>7. ASSUME CInv, Run(p).calm  PROVE Converges(p)'
    <3>1. Undisturbed(p)
      BY <1>1, <2>7 DEF CInv, Converges
    <3>2. DOMAIN Run(p).desired \subseteq Paths /\ DOMAIN Run(p).previous \subseteq Paths
      BY <1>1, OutputsTyped DEF RunOK
    <3>3. Undisturbed(p)'
      BY <1>1, <2>1, <2>3, <2>6, <2>7, <3>1, <3>2
         DEF Undisturbed, Kept, Deletions, Writes, IsFile, Orphans, Dir
    <3> QED  BY <3>3 DEF Converges
  <2>8. CInv => Converges(p)'
    BY <2>1, <2>7 DEF Converges, Kept
  <2>9. AtWork(p)
    BY <1>1 DEF AtWork
  <2> QED  BY <1>1, <2>1, <2>2, <2>5, <2>6, <2>8, <2>9, OneMoves, OneConverges
<1> QED  BY <1>3, <1>4

\* The rename puts the declared bytes at the path, which is no orphan.
LEMMA PublishOutputPreserves ==
  ASSUME IInv, NEW p \in Procs, PublishOutput(p)
  PROVE  IInv' /\ (CInv => CInv')
<1> DEFINE q == First(Run(p).writes)
           f == File(Run(p).desired[q], "action")
           S == Run(p).writes \ {q}
<1>1. /\ RunOK(Run(p)) /\ Holds(p) /\ ClaimStands(p) /\ Planned(p) /\ TypeOK
      /\ Run(p).phase = "publish" /\ UNCHANGED <<incarnation, ledger, locks, touches>>
  BY DEF IInv, TypeOK, PublishOutput
<1>2. q \in Run(p).writes /\ q \in Paths /\ q \in DOMAIN Run(p).desired
  BY <1>1, Picked DEF Planned, RunOK
<1>3. CASE End(p, "refused") /\ UNCHANGED fs
  BY <1>1, <1>3, EndedEarly
<1>4. CASE /\ Goto(p, [Run(p) EXCEPT !.phase = "stage", !.writes = S])
           /\ fs' = [fs EXCEPT ![q] = f]
  <2>1. /\ Moved(p) /\ Kept(p) /\ Deletions(p)
        /\ Run(p)'.writes = S /\ Run(p)'.phase = "stage"
    BY <1>1, <1>4, WritesMoves
  <2>2. f \in Entries /\ f.kind = "file" /\ f.bytes = Run(p).desired[q]
    BY <1>1, <1>2, OutputsTyped DEF RunOK, Entries, File
  <2> HIDE DEF q, f
  <2>3. RunOK(Run(p))' /\ Holds(p)' /\ ClaimStands(p)' /\ Planned(p)'
    BY <1>1, <2>1 DEF Moved, Kept, Deletions, RunOK, Holds, ClaimStands, Planned
  <2>4. FilesOK' /\ LedgerOK' /\ (CInv => RootStays')
    BY <1>1, <1>4, <2>2 DEF TypeOK, FilesOK, LedgerOK, CInv, RootStays
  <2>5. ASSUME CInv, Run(p).calm  PROVE Converges(p)'
    <3>1. Undisturbed(p) /\ Claims' = Claims
      BY <1>1, <2>5 DEF CInv, Claims, Voided, Converges
    <3>2. DOMAIN Run(p).desired \subseteq Paths /\ DOMAIN Run(p).previous \subseteq Paths
      BY <1>1, OutputsTyped DEF RunOK
    <3>3. \A x \in Paths : fs'[x] = IF x = q THEN f ELSE fs[x]
      BY <1>1, <1>4 DEF TypeOK, FilesOK
    <3>4. Undisturbed(p)'
      BY <1>1, <1>2, <2>1, <2>2, <3>1, <3>2, <3>3
         DEF Undisturbed, Kept, Deletions, IsFile, Orphans
    <3> QED  BY <3>4 DEF Converges
  <2>6. CInv => Converges(p)'
    BY <2>1, <2>5 DEF Converges, Kept
  <2>7. AtWork(p)
    BY <1>1 DEF AtWork
  <2> QED  BY <1>1, <2>1, <2>3, <2>4, <2>6, <2>7, OneMoves, OneConverges
<1> QED  BY <1>3, <1>4 DEF PublishOutput

\* The ledger claims what was declared, in the root that is there.
LEMMA WriteManifestPreserves ==
  ASSUME IInv, NEW p \in Procs, WriteManifest(p)
  PROVE  IInv' /\ (CInv => CInv')
<1> DEFINE l == [outputs |-> Run(p).desired, incarnation |-> incarnation, corrupt |-> FALSE]
<1>1. /\ RunOK(Run(p)) /\ Holds(p) /\ TypeOK
      /\ Run(p).phase = "ledger" /\ UNCHANGED <<fs, incarnation, locks, touches>>
  BY DEF IInv, TypeOK, WriteManifest
<1>2. /\ Moved(p) /\ Kept(p) /\ Deletions(p) /\ Writes(p)
      /\ Run(p)'.phase = "release" /\ Run(p)'.outcome = "done"
  BY <1>1, EndMoves DEF WriteManifest
<1>3. l \in Ledgers /\ l.outputs = Run(p).desired /\ l.incarnation = incarnation
  BY <1>1 DEF RunOK, TypeOK, FilesOK, Ledgers
<1>4. IF LedgerDue(p) THEN ledger' = l ELSE ledger' = ledger
  BY DEF WriteManifest
<1> HIDE DEF l
<1>5. RunOK(Run(p))' /\ Holds(p)' /\ ClaimStands(p)' /\ Planned(p)'
  BY <1>1, <1>2 DEF Moved, Kept, Deletions, Writes, RunOK, Holds, ClaimStands, Planned
<1>6. FilesOK' /\ LedgerOK' /\ (CInv => RootStays')
  BY <1>1, <1>3, <1>4 DEF TypeOK, FilesOK, LedgerOK, CInv, RootStays
<1>7. ASSUME CInv, Run(p).calm  PROVE Converges(p)'
  <2>1. Undisturbed(p)
    BY <1>1, <1>7 DEF CInv, Converges
  <2>2. Claims' = Run(p).desired
    <3>1. CASE LedgerDue(p)
      BY <1>1, <1>3, <1>4, <3>1 DEF Claims, Voided
    <3>2. CASE ~LedgerDue(p)
      BY <1>1, <1>4, <2>1, <3>2 DEF LedgerDue, Claims, Voided, Undisturbed
    <3> QED  BY <3>1, <3>2
  <2>3. Undisturbed(p)'
    BY <1>1, <1>2, <2>1, <2>2 DEF Undisturbed, Kept, Deletions, Writes, IsFile
  <2> QED  BY <2>3 DEF Converges
<1>8. CInv => Converges(p)'
  BY <1>2, <1>7 DEF Converges, Kept
<1>9. AtWork(p)
  BY <1>1 DEF AtWork
<1> QED  BY <1>1, <1>2, <1>5, <1>6, <1>8, <1>9, OneMoves, OneConverges

\* A run that is over, or dead, gives back its locks and nobody else's.
LEMMA LeavePreserves ==
  ASSUME IInv, NEW p \in Procs, Goto(p, Idle), locks' = Unlocked(p),
         UNCHANGED <<fs, incarnation, ledger, touches>>
  PROVE  IInv' /\ (CInv => CInv')
<1>1. Moved(p) /\ Run(p)'.phase = "idle" /\ Run(p)'.held = 0 /\ RunOK(Run(p))'
  BY BecomesIdle DEF IInv
<1>2. Holds(p)' /\ ClaimStands(p)' /\ Planned(p)' /\ Converges(p)'
  BY <1>1 DEF Holds, ClaimStands, Planned, Converges
<1>3. ASSUME NEW x \in Procs \ {p}
      PROVE  RunOK(Run(x))' /\ Holds(x)' /\ ClaimStands(x)' /\ Planned(x)'
  <2>1. procs'[x] = procs[x] /\ RunOK(Run(x)) /\ Holds(x) /\ ClaimStands(x) /\ Planned(x)
    BY <1>1 DEF IInv, TypeOK, Moved
  <2>2. \A k \in 1 .. Run(x).held : locks'[LockPaths[k]] = x
    <3>1. \A k \in 1 .. Run(x).held : LockPaths[k] \in Locks /\ locks[LockPaths[k]] = x
      BY <2>1 DEF RunOK, Holds, Locks
    <3> QED  BY <3>1 DEF Unlocked
  <2> QED  BY <2>1, <2>2 DEF RunOK, RunRecord, Holds, ClaimStands, Planned
<1>4. TypeOK'
  BY <1>1, <1>3 DEF IInv, TypeOK, FilesOK, LedgerOK, Moved, Unlocked
<1>5. IInv'
  BY <1>1, <1>2, <1>3, <1>4 DEF IInv
<1>6. CInv => RootStays'
  BY DEF CInv, RootStays
<1> QED  BY <1>1, <1>2, <1>5, <1>6, OneConverges

\* A step of one run.
LEMMA RunPreserves ==
  ASSUME IInv, NEW p \in Procs,
         (\E dry \in BOOLEAN : Start(p, dry)) \/ Advance(p) \/ Stop(p) \/ Kill(p)
  PROVE  IInv' /\ (CInv => CInv')
<1>1. ASSUME IInv' /\ Moved(p) /\ UNCHANGED <<fs, ledger, incarnation>>,
             Run(p)'.phase \in {"locking", "preflight"}
      PROVE  CInv => CInv'
  <2>1. Converges(p)' /\ (CInv => RootStays')
    BY <1>1 DEF Converges, CInv, RootStays
  <2> QED  BY <1>1, <2>1, OneConverges
<1>2. CASE \E dry \in BOOLEAN : Start(p, dry)
  BY <1>1, <1>2, StartPreserves
<1>3. CASE AcquireLock(p)
  BY <1>1, <1>3, AcquireLockPreserves
<1>4. CASE LockTimeout(p)
  BY <1>4, EndedEarly DEF LockTimeout
<1>5. CASE Release(p) \/ Kill(p)
  BY <1>5, LeavePreserves DEF Release, Kill
<1>6. CASE Stop(p)
  BY <1>6, EndedEarly DEF Stop
<1>7. CASE \E d \in Layouts : Preflight(p, d)
  BY <1>7, PreflightPreserves
<1> QED  BY <1>2, <1>3, <1>4, <1>5, <1>6, <1>7, VerifyOrphanPreserves, UnlinkOrphanPreserves,
            PruneDirectoryPreserves, StageWritePreserves, PublishOutputPreserves,
            WriteManifestPreserves DEF Advance

\* A person changes the root, or damages the ledger without changing its
\* claims: no run is calm after it, and no run loses what it knew.
LEMMA PeoplePreserve ==
  ASSUME IInv, People
  PROVE  /\ IInv' /\ touches' # touches
         /\ Absent \notin RootFates => (CInv => CInv')
<1>1. /\ touches' = touches + 1 /\ touches' \in Nat /\ locks' = locks /\ TypeOK
      /\ procs' = [p \in Procs |-> [procs[p] EXCEPT !.calm = FALSE]]
  BY DEF People, Edit, ReplaceRoot, CorruptLedger, Touch, IInv, TypeOK
<1>2. FilesOK'
  <2>1. CASE UNCHANGED <<fs, incarnation>>
    BY <1>1, <2>1 DEF TypeOK, FilesOK
  <2>2. CASE \E i \in RootFates : ReplaceRoot(i)
    BY <2>2 DEF ReplaceRoot, FilesOK, Entries
  <2>3. ASSUME NEW q \in Paths,
               NEW e \in {File(b, "user") : b \in Contents} \cup {Dir, Link, Nothing}, Edit(q, e)
        PROVE  FilesOK'
    <3>1. e \in Entries
      BY DEF Entries
    <3> QED  BY <1>1, <2>3, <3>1 DEF Edit, TypeOK, FilesOK
  <2> QED  BY <2>1, <2>2, <2>3 DEF People, CorruptLedger
<1>3. /\ LedgerOK'
      /\ ledger # Absent => /\ ledger' # Absent /\ ledger'.outputs = ledger.outputs
                            /\ ledger'.incarnation = ledger.incarnation
      /\ ledger = Absent => ledger' = Absent
  <2>1. CASE ledger' = ledger
    BY <1>1, <2>1 DEF TypeOK, LedgerOK
  <2>2. CASE CorruptLedger
    <3>1. ledger \in Ledgers /\ ledger' = [ledger EXCEPT !.corrupt = TRUE]
      BY <1>1, <2>2 DEF CorruptLedger, TypeOK, LedgerOK
    <3>2. /\ ledger' \in Ledgers /\ ledger'.outputs = ledger.outputs
          /\ ledger'.incarnation = ledger.incarnation
      BY <3>1 DEF Ledgers
    <3> QED  BY <3>1, <3>2 DEF LedgerOK
  <2> QED  BY <2>1, <2>2 DEF People, Edit, ReplaceRoot
<1>4. ASSUME NEW p \in Procs
      PROVE  /\ RunOK(Run(p))' /\ Holds(p)' /\ ClaimStands(p)' /\ Planned(p)'
             /\ ~Run(p)'.calm
  <2> DEFINE r == [procs[p] EXCEPT !.calm = FALSE]
  <2>1. RunOK(Run(p)) /\ Holds(p) /\ ClaimStands(p) /\ Planned(p) /\ RunRecord(Run(p))
    BY DEF IInv, TypeOK, RunOK
  <2>2. /\ RunRecord(r) /\ r.phase = Run(p).phase /\ r.outcome = Run(p).outcome
        /\ r.held = Run(p).held /\ r.desired = Run(p).desired /\ r.previous = Run(p).previous
        /\ r.deletions = Run(p).deletions /\ r.writes = Run(p).writes /\ r.seen = Run(p).seen
        /\ r.calm = FALSE
    BY <2>1 DEF RunRecord, Fields
  <2>3. Run(p)' = r
    BY <1>1
  <2> HIDE DEF r
  <2> QED  BY <1>1, <1>3, <2>1, <2>2, <2>3 DEF RunOK, Holds, ClaimStands, Planned
<1>5. IInv'
  BY <1>1, <1>2, <1>3, <1>4 DEF IInv, TypeOK
<1>6. Absent \notin RootFates => (CInv => RootStays')
  <2>1. CASE UNCHANGED incarnation
    BY <1>3, <2>1 DEF CInv, RootStays
  <2>2. CASE \E i \in RootFates : ReplaceRoot(i)
    BY <2>2 DEF ReplaceRoot, RootStays
  <2> QED  BY <2>1, <2>2 DEF People, Edit, CorruptLedger
<1>7. touches' # touches
  BY <1>1 DEF TypeOK
<1> QED  BY <1>4, <1>5, <1>6, <1>7 DEF CInv, Converges

LEMMA NextPreserves ==
  ASSUME IInv, [Next]_vars
  PROVE  IInv' /\ (Absent \notin RootFates => (CInv => CInv'))
<1>1. CASE UNCHANGED vars
  <2>1. IInv'
    BY <1>1 DEF vars, IInv, TypeOK, FilesOK, LedgerOK, RunOK, RunRecord, Holds, ClaimStands, Planned
  <2>2. CInv => CInv'
    BY <1>1, <2>1 DEF vars, CInv, RootStays, Converges, Undisturbed, IsFile, Claims, Voided
  <2> QED  BY <2>1, <2>2
<1> QED  BY <1>1, RunPreserves, PeoplePreserve DEF Next

LEMMA InitInvariant == Init => CInv
<1> SUFFICES ASSUME Init  PROVE CInv
  OBVIOUS
<1>1. /\ RunRecord(Idle) /\ Idle.phase = "idle" /\ Idle.held = 0 /\ Idle.deletions = {}
      /\ Idle.writes = {} /\ Idle.desired = NoOutputs /\ Idle.previous = NoOutputs
  BY DEF Idle, RunRecord, Fields
<1>2. 0 \in 0 .. Len(LockPaths)
  OBVIOUS
<1>3. \A p \in Procs : RunOK(Run(p))
  BY <1>1, <1>2, NothingDeclared DEF Init, RunOK
<1>4. TypeOK
  BY <1>3 DEF Init, TypeOK, FilesOK, Entries, LedgerOK
<1>5. \A p \in Procs : Holds(p) /\ ClaimStands(p) /\ Planned(p) /\ Converges(p)
  BY <1>1 DEF Init, Holds, ClaimStands, Planned, Converges
<1> QED  BY <1>4, <1>5 DEF Init, IInv, CInv, RootStays

\* The invariant of every run, whatever people do to the root.
THEOREM Invariance == Spec => []IInv
<1>1. Init => IInv
  BY InitInvariant DEF CInv
<1> QED  BY <1>1, NextPreserves, PTL DEF Spec

\* Two processes never reconcile the root at once, however many lock files
\* there are and however runs time out, stop and die between them.
THEOREM RunsExclude == Spec => []OneRunAtATime
<1>1. IInv => OneRunAtATime
  BY Alone DEF OneRunAtATime, AtWork
<1> QED  BY <1>1, Invariance, PTL

-----------------------------------------------------------------------------
(* What a run takes from the root.                                          *)

\* A deletion takes the file it looked at, whose bytes the ledger records; a
\* rename takes a file at a declared path; a prune takes an empty directory;
\* staging takes nothing.
LEMMA StepTakesItsOwn ==
  ASSUME IInv, [Next]_vars
  PROVE  OnlyOwnedIsLost
<1> SUFFICES ASSUME touches' = touches, NEW q \in Paths, Exists(q), fs'[q] # fs[q]
             PROVE  MayLose(q)
  BY DEF OnlyOwnedIsLost
<1>1. PICK p \in Procs :
        UnlinkOrphan(p) \/ PruneDirectory(p) \/ StageWrite(p) \/ PublishOutput(p)
  BY PeoplePreserve DEF vars, Next, Start, Advance, AcquireLock, LockTimeout, Preflight,
     VerifyOrphan, WriteManifest, Release, Stop, Kill
<1>2. /\ RunOK(Run(p)) /\ ClaimStands(p) /\ Planned(p) /\ fs \in [Paths -> Entries]
      /\ fs[q].kind \in {"none", "dir", "link", "file"} /\ (fs[q].kind = "dir" => fs[q] = Dir)
  BY DEF IInv, TypeOK, FilesOK, Entries, Nothing, Dir, Link, File
<1>3. CASE UnlinkOrphan(p)
  <2> DEFINE x == First(Run(p).deletions)
  <2>1. x \in Run(p).deletions /\ x \in DOMAIN Run(p).previous /\ Run(p).phase = "unlink"
    BY <1>2, <1>3, Picked DEF UnlinkOrphan, Planned, RunOK, Orphans
  <2>2. q = x /\ fs[x] = Run(p).seen
    BY <1>2, <1>3 DEF UnlinkOrphan, StillTheFile
  <2> QED  BY <1>2, <2>1, <2>2 DEF MayLose, IsFile, Planned, ClaimStands
<1>4. CASE PruneDirectory(p)
  BY <1>2, <1>4 DEF PruneDirectory, MayLose
<1>5. CASE StageWrite(p)
  BY <1>2, <1>5 DEF StageWrite, Unsafe, Exists
<1>6. CASE PublishOutput(p)
  <2> DEFINE x == First(Run(p).writes)
  <2>1. x \in DOMAIN Run(p).desired /\ Run(p).phase = "publish"
    BY <1>2, <1>6, Picked DEF PublishOutput, Planned, RunOK
  <2>2. q = x /\ fs[q].kind = "file"
    BY <1>2, <1>6 DEF PublishOutput, Exists
  <2> QED  BY <2>1, <2>2 DEF MayLose, IsFile
<1> QED  BY <1>1, <1>3, <1>4, <1>5, <1>6

\* No timing of people's edits against the looks of a run makes it delete,
\* overwrite or prune what it does not own.
THEOREM RunsTakeTheirOwn == Spec => NothingUnownedIsLost
<1>1. IInv /\ [Next]_vars => [OnlyOwnedIsLost]_vars
  BY StepTakesItsOwn
<1> QED  BY <1>1, Invariance, PTL DEF Spec, NothingUnownedIsLost

-----------------------------------------------------------------------------
(* What a run leaves.                                                       *)

\* A run that nobody disturbed and that ends well leaves the root as declared
\* and a ledger that claims exactly that, if a root that is deleted is made
\* again before the next run looks for it.
THEOREM RunsConverge == ASSUME Absent \notin RootFates PROVE Spec => []RootConverges
<1>1. CInv /\ [Next]_vars => CInv'
  BY NextPreserves DEF CInv
<1>2. CInv => RootConverges
  BY DEF CInv, Converges, Undisturbed, RootConverges, Completed
<1> QED  BY <1>1, <1>2, InitInvariant, PTL DEF Spec

-----------------------------------------------------------------------------
(* Recovery: what stopped runs leave, while nobody edits and no writer dies  *)
(* with its temporary file.                                                  *)

HIDE ConstantsAssumption DEF Run, In, Goto, End, Running, Working, Phases, Done

Quiet == touches = 0 /\ \A t \in temps : t.owner # Absent

\* A root that only runs have touched: no links, and what is there is in
\* directories that are there.
Nested ==
  \A q \in Paths :
    /\ fs[q].kind \in {"none", "dir", "file"}
    /\ Exists(q) => \A a \in Ancestors(q) : IsDir(a)
    /\ IsDir(q) => q \in Directories

LedgerWhole ==
  ledger # Absent => ~ledger.corrupt /\ ledger.incarnation \in {Absent, incarnation}

\* What the preflight for d and o does not refuse, temporary files apart: an
\* orphan that became a directory holds outputs and nothing else; only a file
\* that is to be deleted is above an output, and only a directory that is to be
\* pruned is where one goes; in such a directory there is nothing else.
OrphansReleased(d, o) ==
  \A r \in Orphans(d, o) : IsDir(r) =>
    /\ \E q \in DOMAIN d : Below(q, r)
    /\ \A q \in Paths : Below(q, r) /\ IsFile(q) => q \in DOMAIN d
OutputsReachable(d, o) ==
  \A q \in DOMAIN d :
    /\ \A a \in Ancestors(q) : IsFile(a) => a \in Deletable(d, o)
    /\ IsDir(q) => q \in InTheWay(d, o)
WayClears(d, o) ==
  \A a \in InTheWay(d, o) :
    /\ \A b \in Ancestors(a) : ~IsFile(b)
    /\ IsDir(a) => \A c \in Children(a) :
         Exists(c) => c \in Deletable(d, o) \/ (IsDir(c) /\ c \in InTheWay(d, o))
Ready(d, o) ==
  /\ ValidPathSet(DOMAIN d) /\ ~SpellingClash(d, o)
  /\ OrphansReleased(d, o) /\ OutputsReachable(d, o) /\ WayClears(d, o)
Clear(d, o) == ~Buried(d, o) => Ready(d, o)

-----------------------------------------------------------------------------
(* Ready is what is not refused.                                            *)

\* What the entries of the root can be.
LEMMA Kinds ==
  ASSUME FilesOK, NEW q \in Paths
  PROVE  /\ IsFile(q) \/ IsDir(q) \/ fs[q].kind = "link" \/ ~Exists(q)
         /\ IsFile(q) => ~IsDir(q) /\ Exists(q) /\ fs[q].kind # "link"
         /\ IsDir(q) => ~IsFile(q) /\ Exists(q) /\ fs[q].kind # "link"
BY DEF FilesOK, Entries, Nothing, Dir, Link, File, IsFile, IsDir, Exists

\* A directory in the way of an output is a directory of an orphan.
LEMMA WayIsOfDirectories ==
  ASSUME NEW d \in Outputs, NEW o \in Outputs, NEW a \in InTheWay(d, o)
  PROVE  /\ a \in Paths /\ a \in Directories
         /\ \E r \in Orphans(d, o) : r \in Paths /\ a \in Ancestors(r)
         /\ \E q \in DOMAIN d : q \in Paths /\ IsPrefix(Key(q), Key(a))
<1>1. DOMAIN d \subseteq Paths /\ DOMAIN o \subseteq Paths
  BY OutputsTyped
<1>2. PICK r \in Orphans(d, o) : a \in Ancestors(r)
  BY DEF InTheWay
<1>3. r \in Paths
  BY <1>1 DEF Orphans
<1>4. \E q \in DOMAIN d : IsPrefix(Key(q), Key(a))
  BY DEF InTheWay
<1> QED  BY <1>1, <1>2, <1>3, <1>4, AncestorIsPath

\* With one spelling for each directory, every directory in the way is pruned.
LEMMA WayIsPruned ==
  ASSUME OneSpelling, NEW d \in Outputs, NEW o \in Outputs
  PROVE  /\ Prunable(d, o) = InTheWay(d, o)
         /\ \A a \in Directories : Key(a) \in PruneKeys(d, o) <=> a \in InTheWay(d, o)
<1>1. \A a \in InTheWay(d, o) : a \in Paths /\ a \in Directories
  BY WayIsOfDirectories
<1>2. \A a, b \in InTheWay(d, o) : Key(b) = Key(a) => b = a
  BY <1>1 DEF OneSpelling
<1>3. \A a \in InTheWay(d, o) : Rank(a) <= Rank(a)
  BY <1>1, ConstantsAssumption
<1>4. Prunable(d, o) = InTheWay(d, o)
  BY <1>2, <1>3 DEF Prunable
<1>5. ASSUME NEW a \in Directories
      PROVE  Key(a) \in PruneKeys(d, o) <=> a \in InTheWay(d, o)
  BY <1>1, <1>4 DEF PruneKeys, OneSpelling
<1> QED  BY <1>4, <1>5

\* What the preflight of d over o does not refuse is ready for it.
LEMMA NotRefusedIsReady ==
  ASSUME OneSpelling, FilesOK, Nested, NEW d \in Outputs, NEW o \in Outputs, ~Refused(d, o)
  PROVE  Ready(d, o)
<1>1. DOMAIN d \subseteq Paths /\ DOMAIN o \subseteq Paths
  BY OutputsTyped
<1>2. ValidPathSet(DOMAIN d) /\ ~SpellingClash(d, o)
  BY DEF Refused
<1>3. OrphansReleased(d, o)
  <2> SUFFICES ASSUME NEW r \in Orphans(d, o), IsDir(r)
               PROVE  /\ \E q \in DOMAIN d : Below(q, r)
                      /\ \A q \in Paths : Below(q, r) /\ IsFile(q) => q \in DOMAIN d
    BY DEF OrphansReleased
  <2>1. r \in Paths
    BY <1>1 DEF Orphans
  <2>2. \A a \in Ancestors(r) : a \in Paths /\ IsDir(a)
    BY <2>1, Kinds, AncestorIsPath DEF Nested
  <2>3. ~Unreachable(r)
    BY <2>2, Kinds DEF Unreachable
  <2>4. AlreadyReleased(r, d)
    BY <2>3 DEF Refused, OrphanRefused
  <2>5. \A q \in Paths : IsFile(q) => ~IsDir(q) /\ Exists(q)
    BY Kinds
  <2> QED  BY <2>4, <2>5 DEF AlreadyReleased, HoldsOnlyDesired
<1>4. OutputsReachable(d, o)
  <2> SUFFICES ASSUME NEW q \in DOMAIN d
               PROVE  /\ \A a \in Ancestors(q) : IsFile(a) => a \in Deletable(d, o)
                      /\ IsDir(q) => q \in InTheWay(d, o)
    BY DEF OutputsReachable
  <2>1. q \in Paths /\ ~DesiredRefused(q, d, o)
    BY <1>1 DEF Refused
  <2>2. \A a \in Ancestors(q) : a \in Paths
    BY <2>1, AncestorIsPath
  <2>3. ASSUME NEW a \in Ancestors(q), IsFile(a)
        PROVE  a \in Deletable(d, o)
    <3>1. Unsafe(q)
      BY <2>3 DEF Unsafe, IsFile
    <3>2. PICK b \in Ancestors(q) \cap OrphanFiles(d, o) : b \in Deletable(d, o)
      BY <2>1, <3>1 DEF DesiredRefused
    <3>3. b = a \/ b \in Ancestors(a) \/ a \in Ancestors(b)
      BY <2>1, <2>3, <3>2, AncestorsNest
    <3>4. IsFile(b) /\ b \in Paths /\ a \in Paths
      BY <2>2, <2>3, <3>2 DEF OrphanFiles
    <3>5. ~IsDir(b) /\ ~IsDir(a) /\ Exists(a) /\ Exists(b)
      BY <2>3, <3>4, Kinds
    <3> QED  BY <3>2, <3>3, <3>4, <3>5 DEF Nested
  <2>4. ASSUME IsDir(q)
        PROVE  q \in InTheWay(d, o)
    <3>1. \A a \in Ancestors(q) : ~IsFile(a)
      BY <2>1, <2>2, <2>4, Kinds DEF Nested
    <3>2. Key(q) \in PruneKeys(d, o)
      BY <2>1, <2>4, <3>1 DEF DesiredRefused, OrphanFiles
    <3>3. q \in Directories
      BY <2>1, <2>4 DEF Nested
    <3> QED  BY <3>2, <3>3, WayIsPruned
  <2> QED  BY <2>3, <2>4
<1>5. WayClears(d, o)
  <2> SUFFICES ASSUME NEW a \in InTheWay(d, o)
               PROVE  /\ \A b \in Ancestors(a) : ~IsFile(b)
                      /\ IsDir(a) => \A c \in Children(a) :
                           Exists(c) => c \in Deletable(d, o) \/ (IsDir(c) /\ c \in InTheWay(d, o))
    BY DEF WayClears
  <2>1. ~PruneRefused(a, d, o)
    BY WayIsPruned DEF Refused
  <2>2. \A b \in Ancestors(a) : ~IsFile(b)
    BY <2>1 DEF PruneRefused, Unsafe, IsFile
  <2>3. ASSUME IsDir(a), NEW c \in Children(a), Exists(c), c \notin Deletable(d, o)
        PROVE  IsDir(c) /\ c \in InTheWay(d, o)
    <3>1. IsDir(c) /\ Key(c) \in PruneKeys(d, o)
      BY <2>1, <2>3 DEF PruneRefused
    <3>2. c \in Directories
      BY <2>3, <3>1 DEF Children, Nested
    <3> QED  BY <3>1, <3>2, WayIsPruned
  <2> QED  BY <2>2, <2>3
<1> QED  BY <1>2, <1>3, <1>4, <1>5 DEF Ready

\* What is ready is not refused, with no temporary file in the root.
LEMMA ReadyIsNotRefused ==
  ASSUME OneSpelling, FilesOK, Nested, temps = {}, NEW d \in Outputs, NEW o \in Outputs, Ready(d, o)
  PROVE  ~Refused(d, o)
<1>1. DOMAIN d \subseteq Paths /\ DOMAIN o \subseteq Paths
  BY OutputsTyped
<1>2. ValidPathSet(DOMAIN d) /\ ~SpellingClash(d, o)
  BY DEF Ready
<1>3. \A x : ~HoldsTemp(x)
  BY DEF HoldsTemp
<1>4. \A x \in Paths : fs[x].kind \in {"none", "dir", "file"}
  BY DEF Nested
<1>5. \A x \in Paths : Unsafe(x) => \E a \in Ancestors(x) : a \in Paths /\ IsFile(a)
  BY <1>4, AncestorIsPath DEF Unsafe, IsFile
<1>6. ASSUME NEW r \in Orphans(d, o)
      PROVE  ~OrphanRefused(r, d)
  <2>1. r \in Paths
    BY <1>1 DEF Orphans
  <2>2. Unsafe(r) => Unreachable(r)
    BY <1>5, <2>1 DEF Unreachable
  <2>3. IsDir(r) => AlreadyReleased(r, d)
    <3>1. \A q \in Paths : Exists(q) => IsDir(q) \/ IsFile(q)
      BY <1>4 DEF Exists, IsDir, IsFile
    <3> QED  BY <1>3, <3>1 DEF AlreadyReleased, HoldsOnlyDesired, Ready, OrphansReleased
  <2> QED  BY <2>2, <2>3 DEF OrphanRefused
<1>7. ASSUME NEW q \in DOMAIN d
      PROVE  ~DesiredRefused(q, d, o)
  <2>1. q \in Paths
    BY <1>1
  <2>2. \A a \in Ancestors(q) : IsFile(a) => a \in Deletable(d, o)
    BY DEF Ready, OutputsReachable
  <2>3. CASE Ancestors(q) \cap OrphanFiles(d, o) # {}
    BY <2>2, <2>3 DEF DesiredRefused, OrphanFiles
  <2>4. CASE Ancestors(q) \cap OrphanFiles(d, o) = {}
    <3>1. ~Unsafe(q)
      BY <1>5, <2>1, <2>2, <2>4 DEF Deletable
    <3>2. IsDir(q) => q \in InTheWay(d, o) /\ q \in Directories
      BY <2>1 DEF Ready, OutputsReachable, Nested
    <3>3. IsDir(q) => Key(q) \in PruneKeys(d, o)
      BY <3>2, WayIsPruned
    <3> QED  BY <2>4, <3>1, <3>3 DEF DesiredRefused
  <2> QED  BY <2>3, <2>4
<1>8. ASSUME NEW a \in Prunable(d, o)
      PROVE  ~PruneRefused(a, d, o)
  <2>1. a \in InTheWay(d, o) /\ a \in Paths
    BY WayIsPruned, WayIsOfDirectories
  <2>2. \A b \in Ancestors(a) : ~IsFile(b)
    BY <2>1 DEF Ready, WayClears
  <2>3. ~Unsafe(a)
    BY <1>5, <2>1, <2>2
  <2>4. ASSUME IsDir(a), NEW c \in Children(a), Exists(c), c \notin Deletable(d, o)
        PROVE  IsDir(c) /\ Key(c) \in PruneKeys(d, o)
    <3>1. IsDir(c) /\ c \in InTheWay(d, o)
      BY <2>1, <2>4 DEF Ready, WayClears
    <3>2. c \in Directories
      BY <3>1, WayIsOfDirectories
    <3> QED  BY <3>1, <3>2, WayIsPruned
  <2> QED  BY <1>3, <2>3, <2>4 DEF PruneRefused
<1> QED  BY <1>2, <1>6, <1>7, <1>8 DEF Refused

-----------------------------------------------------------------------------
(* What the steps of a run do to a root that is nested and ready.            *)

\* Nothing is below what is no directory.
LEMMA NothingBelow ==
  ASSUME FilesOK, Nested, NEW q \in Paths, ~IsDir(q), NEW x \in Paths, q \in Ancestors(x)
  PROVE  ~Exists(x)
BY DEF Nested

\* Nothing is below an empty directory.
LEMMA NothingInEmpty ==
  ASSUME FilesOK, Nested, NEW q \in Paths, \A c \in Children(q) : ~Exists(c),
         NEW x \in Paths, q \in Ancestors(x)
  PROVE  ~Exists(x)
<1>1. PICK c \in Children(q) : c \in Paths /\ (c = x \/ c \in Ancestors(x))
  BY NextBelow
<1>2. ~Exists(c) /\ ~IsDir(c)
  BY <1>1, Kinds
<1> QED  BY <1>1, <1>2 DEF Nested

\* A deletion or a prune: what is gone had nothing below it.
LEMMA NestedAfterLoss ==
  ASSUME FilesOK, Nested, NEW q \in Paths, fs' = [fs EXCEPT ![q] = Nothing],
         \A x \in Paths : q \in Ancestors(x) => ~Exists(x)
  PROVE  Nested'
<1>1. /\ \A x \in Paths : fs'[x] = IF x = q THEN Nothing ELSE fs[x]
      /\ Nothing.kind = "none"
  BY DEF FilesOK, Nothing
<1> SUFFICES ASSUME NEW x \in Paths
             PROVE  /\ fs'[x].kind \in {"none", "dir", "file"}
                    /\ Exists(x)' => \A a \in Ancestors(x) : IsDir(a)'
                    /\ IsDir(x)' => x \in Directories
  BY DEF Nested
<1>2. fs[x].kind \in {"none", "dir", "file"} /\ (IsDir(x) => x \in Directories)
  BY DEF Nested
<1>3. ASSUME Exists(x)', NEW a \in Ancestors(x)
      PROVE  IsDir(a)'
  <2>1. Exists(x) /\ a \in Paths
    BY <1>1, <1>3, AncestorIsPath DEF Exists
  <2>2. IsDir(a) /\ a # q
    BY <2>1 DEF Nested
  <2> QED  BY <1>1, <2>1, <2>2 DEF IsDir
<1> QED  BY <1>1, <1>2, <1>3 DEF IsDir

\* Losing entries makes no refusal.
LEMMA ReadyAfterLoss ==
  ASSUME FilesOK, NEW d \in Outputs, NEW o \in Outputs, Ready(d, o),
         \A x \in Paths : fs'[x] = fs[x] \/ fs'[x] = Nothing
  PROVE  Ready(d, o)'
<1>1. DOMAIN d \subseteq Paths /\ DOMAIN o \subseteq Paths
  BY OutputsTyped
<1>2. \A x \in Paths : /\ IsDir(x)' => IsDir(x) /\ fs'[x] = fs[x]
                       /\ IsFile(x)' => IsFile(x) /\ fs'[x] = fs[x]
                       /\ Exists(x)' => Exists(x) /\ fs'[x] = fs[x]
  BY DEF IsDir, IsFile, Exists, Nothing
<1>3. /\ Orphans(d, o)' = Orphans(d, o) /\ InTheWay(d, o)' = InTheWay(d, o)
      /\ \A x, y : Below(x, y)' = Below(x, y)
      /\ \A r \in Orphans(d, o) : r \in Paths
  BY <1>1 DEF Orphans, InTheWay, Below
<1>4. \A x \in Paths : x \in Deletable(d, o) /\ Exists(x)' => x \in Deletable(d, o)'
  BY <1>2 DEF Deletable, OrphanFiles, Orphans, IsFile
<1>5. OrphansReleased(d, o)'
  BY <1>2, <1>3 DEF Ready, OrphansReleased
<1>6. OutputsReachable(d, o)'
  <2> SUFFICES ASSUME NEW q \in DOMAIN d
               PROVE  /\ \A a \in Ancestors(q) : IsFile(a)' => a \in Deletable(d, o)'
                      /\ IsDir(q)' => q \in InTheWay(d, o)
    BY <1>3 DEF OutputsReachable
  <2>1. q \in Paths /\ (IsDir(q) => q \in InTheWay(d, o))
    BY <1>1 DEF Ready, OutputsReachable
  <2>2. ASSUME NEW a \in Ancestors(q), IsFile(a)'
        PROVE  a \in Deletable(d, o)'
    <3>1. a \in Paths
      BY <2>1, AncestorIsPath
    <3>2. IsFile(a) /\ Exists(a)'
      BY <1>2, <2>2, <3>1 DEF IsFile, Exists
    <3>3. a \in Deletable(d, o)
      BY <3>2 DEF Ready, OutputsReachable
    <3> QED  BY <1>4, <3>1, <3>2, <3>3
  <2> QED  BY <1>2, <2>1, <2>2
<1>7. WayClears(d, o)'
  <2> SUFFICES ASSUME NEW a \in InTheWay(d, o)
               PROVE  /\ \A b \in Ancestors(a) : ~IsFile(b)'
                      /\ IsDir(a)' => \A c \in Children(a) : Exists(c)' =>
                           c \in Deletable(d, o)' \/ (IsDir(c)' /\ c \in InTheWay(d, o))
    BY <1>3 DEF WayClears, Children
  <2>1. a \in Paths /\ \A b \in Ancestors(a) : b \in Paths /\ ~IsFile(b)
    BY WayIsOfDirectories, AncestorIsPath DEF Ready, WayClears
  <2>2. ASSUME IsDir(a)', NEW c \in Children(a), Exists(c)'
        PROVE  c \in Deletable(d, o)' \/ (IsDir(c)' /\ c \in InTheWay(d, o))
    <3>1. c \in Paths /\ Exists(c) /\ fs'[c] = fs[c] /\ IsDir(a)
      BY <1>2, <2>1, <2>2, ChildIsBelow
    <3>2. c \in Deletable(d, o) \/ (IsDir(c) /\ c \in InTheWay(d, o))
      BY <3>1 DEF Ready, WayClears
    <3> QED  BY <1>4, <2>2, <3>1, <3>2 DEF IsDir
  <2> QED  BY <1>2, <2>1, <2>2
<1> QED  BY <1>5, <1>6, <1>7 DEF Ready, ValidPathSet, SpellingClash, Orphans

\* No directory on the way to an output is where another output goes.
LEMMA OutputsApart ==
  ASSUME NEW d \in Outputs, NEW o \in Outputs, ValidPathSet(DOMAIN d), NEW q \in DOMAIN d,
         NEW a \in Ancestors(q)
  PROVE  a \notin DOMAIN d /\ a \notin InTheWay(d, o)
<1>1. q \in Paths /\ a \in Paths /\ a # q
  BY OutputsTyped, AncestorIsPath, AncestorsNest
<1>2. a \notin DOMAIN d
  <2>1. IsPrefix(Key(a), Key(q))
    BY <1>1, KeyOfAncestor
  <2> QED  BY <1>1, <2>1 DEF ValidPathSet
<1>3. a \notin InTheWay(d, o)
  <2> SUFFICES ASSUME a \in InTheWay(d, o)  PROVE FALSE
    OBVIOUS
  <2>1. PICK x \in DOMAIN d : x \in Paths /\ IsPrefix(Key(x), Key(a))
    BY WayIsOfDirectories
  <2>2. IsPrefix(Key(x), Key(q)) /\ x # q
    BY <1>1, <2>1, KeysNest
  <2> QED  BY <2>1, <2>2 DEF ValidPathSet
<1> QED  BY <1>2, <1>3

\* Staging q makes the directories that it is in.
Staged(q) == fs' = [a \in Paths |-> IF a \in Ancestors(q) THEN Dir ELSE fs[a]]

\* What staging makes of each path.
LEMMA StagedEntries ==
  ASSUME FilesOK, NEW q \in Paths, \A a \in Ancestors(q) : ~IsFile(a), Staged(q)
  PROVE  \A x \in Paths :
           /\ IsDir(x)' <=> IsDir(x) \/ x \in Ancestors(q)
           /\ x \notin Ancestors(q) => fs'[x] = fs[x]
           /\ IsFile(x)' <=> IsFile(x)
           /\ Exists(x)' <=> Exists(x) \/ x \in Ancestors(q)
BY DEF Staged, FilesOK, IsFile, IsDir, Exists, Dir

\* Staging below no file keeps what is there in directories.
LEMMA NestedAfterStage ==
  ASSUME FilesOK, Nested, NEW q \in Paths, \A a \in Ancestors(q) : ~IsFile(a), Staged(q)
  PROVE  Nested'
<1>1. \A x \in Paths :
        /\ IsDir(x)' <=> IsDir(x) \/ x \in Ancestors(q)
        /\ x \notin Ancestors(q) => fs'[x] = fs[x]
        /\ IsFile(x)' <=> IsFile(x)
        /\ Exists(x)' <=> Exists(x) \/ x \in Ancestors(q)
  BY StagedEntries
<1> SUFFICES ASSUME NEW x \in Paths
             PROVE  /\ fs'[x].kind \in {"none", "dir", "file"}
                    /\ Exists(x)' => \A a \in Ancestors(x) : IsDir(a)'
                    /\ IsDir(x)' => x \in Directories
  BY DEF Nested
<1>2. fs'[x].kind \in {"none", "dir", "file"}
  BY <1>1 DEF Nested, IsDir
<1>3. ASSUME Exists(x)', NEW a \in Ancestors(x)
      PROVE  IsDir(a)'
  <2>1. a \in Paths
    BY AncestorIsPath
  <2>2. CASE Exists(x)
    BY <1>1, <2>1, <2>2 DEF Nested
  <2>3. CASE x \in Ancestors(q)
    BY <1>1, <2>1, <2>3, AncestorsNest
  <2> QED  BY <1>1, <1>3, <2>2, <2>3
<1>4. IsDir(x)' => x \in Directories
  BY <1>1 DEF Nested, Directories
<1> QED  BY <1>2, <1>3, <1>4

\* Staging makes no refusal, once the deletions and the prunes are done.
LEMMA ReadyAfterStage ==
  ASSUME FilesOK, Nested, NEW d \in Outputs, NEW o \in Outputs, Ready(d, o),
         NEW q \in DOMAIN d, \A a \in Ancestors(q) : ~IsFile(a), Staged(q),
         \A a \in InTheWay(d, o) : ~IsDir(a)
  PROVE  Ready(d, o)' /\ \A a \in InTheWay(d, o) : ~IsDir(a)'
<1>1. DOMAIN d \subseteq Paths /\ DOMAIN o \subseteq Paths /\ q \in Paths
  BY OutputsTyped
<1>2. \A x \in Paths :
        /\ IsDir(x)' <=> IsDir(x) \/ x \in Ancestors(q)
        /\ x \notin Ancestors(q) => fs'[x] = fs[x]
        /\ IsFile(x)' <=> IsFile(x)
        /\ Exists(x)' <=> Exists(x) \/ x \in Ancestors(q)
  BY <1>1, StagedEntries
<1>3. /\ Orphans(d, o)' = Orphans(d, o) /\ InTheWay(d, o)' = InTheWay(d, o)
      /\ \A x, y : Below(x, y)' = Below(x, y)
      /\ \A r \in Orphans(d, o) : r \in Paths
  BY <1>1 DEF Orphans, InTheWay, Below
<1>4. \A a \in Ancestors(q) : a \notin DOMAIN d /\ a \notin InTheWay(d, o)
  BY OutputsApart DEF Ready
<1>5. ASSUME NEW a \in InTheWay(d, o)  PROVE a \in Paths /\ ~IsDir(a)'
  BY <1>2, <1>4, WayIsOfDirectories
<1>6. OrphansReleased(d, o)'
  <2> SUFFICES ASSUME NEW r \in Orphans(d, o), IsDir(r)'
               PROVE  /\ \E x \in DOMAIN d : Below(x, r)
                      /\ \A x \in Paths : Below(x, r) /\ IsFile(x)' => x \in DOMAIN d
    BY <1>3 DEF OrphansReleased
  <2>1. CASE IsDir(r)
    BY <1>2, <2>1 DEF Ready, OrphansReleased
  <2>2. CASE ~IsDir(r)
    <3>1. r \in Ancestors(q) /\ r \in Paths
      BY <1>2, <1>3, <2>2
    <3>2. \A x \in Paths : Below(x, r) => ~Exists(x) /\ ~IsFile(x)
      BY <2>2, <3>1, NothingBelow, Kinds DEF Below
    <3> QED  BY <1>2, <3>1, <3>2 DEF Below
  <2> QED  BY <2>1, <2>2
<1>7. OutputsReachable(d, o)'
  <2> SUFFICES ASSUME NEW x \in DOMAIN d
               PROVE  /\ \A a \in Ancestors(x) : IsFile(a)' => a \in Deletable(d, o)'
                      /\ IsDir(x)' => x \in InTheWay(d, o)
    BY <1>3 DEF OutputsReachable
  <2>1. x \in Paths /\ (IsDir(x) => x \in InTheWay(d, o))
    BY <1>1 DEF Ready, OutputsReachable
  <2>2. IsDir(x)' => IsDir(x)
    BY <1>2, <1>4, <2>1
  <2>3. ASSUME NEW a \in Ancestors(x), IsFile(a)'
        PROVE  a \in Deletable(d, o)'
    <3>1. a \in Paths
      BY <2>1, AncestorIsPath
    <3>2. IsFile(a) /\ fs'[a] = fs[a]
      BY <1>2, <2>3, <3>1
    <3>3. a \in Deletable(d, o)
      BY <3>2 DEF Ready, OutputsReachable
    <3> QED  BY <2>3, <3>2, <3>3 DEF Deletable, OrphanFiles, Orphans
  <2> QED  BY <2>1, <2>2, <2>3
<1>8. WayClears(d, o)'
  <2> SUFFICES ASSUME NEW a \in InTheWay(d, o)
               PROVE  \A b \in Ancestors(a) : ~IsFile(b)'
    BY <1>3, <1>5 DEF WayClears
  <2>1. a \in Paths /\ \A b \in Ancestors(a) : b \in Paths /\ ~IsFile(b)
    BY WayIsOfDirectories, AncestorIsPath DEF Ready, WayClears
  <2> QED  BY <1>2, <2>1
<1> QED  BY <1>5, <1>6, <1>7, <1>8 DEF Ready, ValidPathSet, SpellingClash, Orphans

\* Publishing q puts a file where there was no directory.
Published(q) == \E f \in Entries : f.kind = "file" /\ fs' = [fs EXCEPT ![q] = f]

\* Publishing in directories that are there keeps what is there in directories.
LEMMA NestedAfterPublish ==
  ASSUME FilesOK, Nested, NEW q \in Paths, ~IsDir(q), \A a \in Ancestors(q) : IsDir(a),
         Published(q)
  PROVE  Nested'
<1>1. PICK f \in Entries : f.kind = "file" /\ fs' = [fs EXCEPT ![q] = f]
  BY DEF Published
<1>2. \A x \in Paths : fs'[x] = IF x = q THEN f ELSE fs[x]
  BY <1>1 DEF FilesOK
<1> SUFFICES ASSUME NEW x \in Paths
             PROVE  /\ fs'[x].kind \in {"none", "dir", "file"}
                    /\ Exists(x)' => \A a \in Ancestors(x) : IsDir(a)'
                    /\ IsDir(x)' => x \in Directories
  BY DEF Nested
<1>3. fs[x].kind \in {"none", "dir", "file"} /\ (IsDir(x) => x \in Directories)
  BY DEF Nested
<1>4. ASSUME Exists(x)', NEW a \in Ancestors(x)
      PROVE  IsDir(a)'
  <2>1. a \in Paths
    BY AncestorIsPath
  <2>2. IsDir(a)
    BY <1>2, <1>4 DEF Nested, Exists
  <2> QED  BY <1>2, <2>1, <2>2 DEF IsDir
<1> QED  BY <1>1, <1>2, <1>3, <1>4 DEF IsDir

\* Publishing an output that is above no recorded one makes no refusal.
LEMMA ReadyAfterPublish ==
  ASSUME FilesOK, NEW d \in Outputs, NEW o \in Outputs, Ready(d, o), ~Buried(d, o),
         NEW q \in DOMAIN d, ~IsDir(q), Published(q), \A a \in InTheWay(d, o) : ~IsDir(a)
  PROVE  Ready(d, o)' /\ \A a \in InTheWay(d, o) : ~IsDir(a)'
<1>1. DOMAIN d \subseteq Paths /\ DOMAIN o \subseteq Paths /\ q \in Paths
  BY OutputsTyped
<1>2. PICK f \in Entries : f.kind = "file" /\ fs' = [fs EXCEPT ![q] = f]
  BY DEF Published
<1>3. \A x \in Paths : fs'[x] = IF x = q THEN f ELSE fs[x]
  BY <1>2 DEF FilesOK
<1>4. \A x \in Paths : /\ IsDir(x)' <=> IsDir(x)
                       /\ IsFile(x)' => IsFile(x) \/ x = q
  BY <1>2, <1>3 DEF IsDir, IsFile
<1>5. /\ Orphans(d, o)' = Orphans(d, o) /\ InTheWay(d, o)' = InTheWay(d, o)
      /\ \A x, y : Below(x, y)' = Below(x, y)
      /\ \A r \in Orphans(d, o) : r \in Paths
  BY <1>1 DEF Orphans, InTheWay, Below
<1>6. ASSUME NEW a \in InTheWay(d, o)  PROVE a \in Paths /\ ~IsDir(a)'
  BY <1>4, WayIsOfDirectories
<1>7. OrphansReleased(d, o)'
  BY <1>4, <1>5 DEF Ready, OrphansReleased
<1>8. OutputsReachable(d, o)'
  <2> SUFFICES ASSUME NEW x \in DOMAIN d
               PROVE  /\ \A a \in Ancestors(x) : IsFile(a)' => a \in Deletable(d, o)'
                      /\ IsDir(x)' => x \in InTheWay(d, o)
    BY <1>5 DEF OutputsReachable
  <2>1. x \in Paths /\ (IsDir(x) => x \in InTheWay(d, o))
    BY <1>1 DEF Ready, OutputsReachable
  <2>2. ASSUME NEW a \in Ancestors(x), IsFile(a)'
        PROVE  a \in Deletable(d, o)'
    <3>1. a \in Paths /\ a \notin DOMAIN d
      BY <2>1, AncestorIsPath, OutputsApart DEF Ready
    <3>2. IsFile(a) /\ fs'[a] = fs[a]
      BY <1>3, <1>4, <2>2, <3>1
    <3>3. a \in Deletable(d, o)
      BY <3>2 DEF Ready, OutputsReachable
    <3> QED  BY <2>2, <3>2, <3>3 DEF Deletable, OrphanFiles, Orphans
  <2> QED  BY <1>4, <2>1, <2>2
<1>9. WayClears(d, o)'
  <2> SUFFICES ASSUME NEW a \in InTheWay(d, o), NEW b \in Ancestors(a)
               PROVE  ~IsFile(b)'
    BY <1>5, <1>6 DEF WayClears
  <2>1. a \in Paths /\ b \in Paths /\ ~IsFile(b)
    BY WayIsOfDirectories, AncestorIsPath DEF Ready, WayClears
  <2>2. PICK r \in Orphans(d, o) : r \in Paths /\ a \in Ancestors(r)
    BY WayIsOfDirectories
  <2>3. b \in Ancestors(r)
    BY <2>2, AncestorsNest
  <2>4. /\ Len(a) \in 1 .. Len(r) - 1 /\ Len(b) \in 1 .. Len(a) - 1 /\ Len(r) \in Nat
    BY <2>1, <2>2, AncestorIsPath
  <2>5. IsPrefix(b, r) /\ Len(r) > Len(b) + 1
    BY <2>2, <2>3, <2>4, AncestorIsPrefix
  <2>6. b # q
    BY <2>2, <2>5 DEF Buried, Orphans
  <2> QED  BY <1>4, <2>1, <2>6
<1> QED  BY <1>6, <1>7, <1>8, <1>9 DEF Ready, ValidPathSet, SpellingClash, Orphans

-----------------------------------------------------------------------------
(* The invariant of recovery.                                               *)

USE DEF Run, In, Goto, End, Running, Working, Phases, Done

\* What a run at work has yet to do: its deletions are files still, and its
\* temporary file is in a directory that is there, with its layout on record.
Onward(p) ==
  /\ \A q \in Run(p).deletions : IsFile(q)
  /\ In(p, "publish") =>
       /\ Temp(p) \in temps /\ Run(p).desired \in stopped
       /\ \A a \in Ancestors(First(Run(p).writes)) : IsDir(a)

\* The directories in its way that it need not prune any more are gone.
WayGoes(p, d, o) ==
  /\ Run(p).prunes \subseteq InTheWay(d, o)
  /\ \A a \in InTheWay(d, o) \ Run(p).prunes : ~IsDir(a)
  /\ Run(p).phase \notin {"delete", "unlink", "prune"} => Run(p).prunes = {}

Reconciles(p, d, o) == Run(p).desired = d /\ Run(p).previous = o

OnItsWay(p) ==
  /\ Onward(p)
  /\ \A d, o \in Outputs :
       Reconciles(p, d, o) /\ ~Buried(d, o) => Ready(d, o) /\ WayGoes(p, d, o)

\* A run that was refused has the locks, and another layout than the runs that
\* stopped before it.
RefusedRightly(p) ==
  In(p, "release") /\ Run(p).outcome = "refused" =>
    /\ Run(p).held = Len(LockPaths)
    /\ ~Buried(Run(p).desired, Run(p).previous) => stopped # {Run(p).desired}

\* Of a quiet root: the ledger is whole, temporary files are their writers',
\* and the preflight of the one layout that was stopped will not be refused.
Recovers ==
  /\ LedgerWhole /\ Nested
  /\ \A p \in Procs :
       /\ Run(p).calm /\ RefusedRightly(p)
       /\ Run(p).phase \in Working => OnItsWay(p)
  /\ \A t \in temps : \E p \in Procs : In(p, "publish") /\ t = Temp(p)
  /\ \A d, o \in Outputs : stopped = {d} /\ Claims = o => Clear(d, o)

TempRecords == \A t \in temps : t = [dir |-> t.dir, owner |-> t.owner]

RecoveryInv == IInv /\ TempRecords /\ (Quiet => CInv /\ Recovers)

-----------------------------------------------------------------------------
(* One run moves in a quiet root.                                           *)

\* What is ready depends on the root alone.
LEMMA SameRoot ==
  ASSUME UNCHANGED fs
  PROVE  /\ Nested' <=> Nested
         /\ \A d, o : (Ready(d, o)' <=> Ready(d, o)) /\ (Clear(d, o)' <=> Clear(d, o))
         /\ \A q : (IsFile(q)' <=> IsFile(q)) /\ (IsDir(q)' <=> IsDir(q))
BY DEF Nested, Clear, Buried, Ready, OrphansReleased, OutputsReachable, WayClears, ValidPathSet,
       SpellingClash, Orphans, Deletable, OrphanFiles, InTheWay, Children, Below, IsFile, IsDir, Exists

\* A ledger that is whole claims what it records.
LEMMA WholeClaims ==
  ASSUME LedgerWhole
  PROVE  Claims = IF ledger = Absent THEN NoOutputs ELSE ledger.outputs
BY DEF LedgerWhole, Claims, Voided

\* Nobody else publishes, or was refused, beside a run that is at work.
LEMMA AloneInRoot ==
  ASSUME IInv, Recovers, NEW p \in Procs, AtWork(p), NEW x \in Procs \ {p}
  PROVE  /\ Run(x).phase \notin Running
         /\ ~(In(x, "release") /\ Run(x).outcome = "refused")
<1>1. Run(x).phase \notin Running
  BY Alone DEF AtWork
<1>2. ASSUME In(x, "release"), Run(x).outcome = "refused"
      PROVE  FALSE
  <2>1. Run(x).held = Len(LockPaths) /\ Run(p).held = Len(LockPaths)
    BY <1>2 DEF Recovers, RefusedRightly, IInv, Holds, AtWork
  <2>2. 1 \in 1 .. Len(LockPaths)
    BY ConstantsAssumption
  <2> QED  BY <2>1, <2>2 DEF IInv, Holds
<1> QED  BY <1>1, <1>2

\* A quiet root holds no temporary file but that of a run at its publish.
LEMMA OneTemp ==
  ASSUME IInv, Recovers, NEW p \in Procs, AtWork(p)
  PROVE  temps \subseteq IF In(p, "publish") THEN {Temp(p)} ELSE {}
<1>1. ASSUME NEW t \in temps
      PROVE  In(p, "publish") /\ t = Temp(p)
  <2>1. PICK x \in Procs : In(x, "publish") /\ t = Temp(x)
    BY DEF Recovers
  <2>2. x = p
    BY <2>1, AloneInRoot
  <2> QED  BY <2>1, <2>2
<1> QED  BY <1>1

\* A run that is at work and stays, or ends well.
LEMMA AtWorkRecovers ==
  ASSUME IInv, Recovers, NEW p \in Procs, Moved(p), AtWork(p), LedgerWhole', Nested',
         Run(p)'.calm, RefusedRightly(p)', Run(p)'.phase \in Working => OnItsWay(p)',
         temps' \subseteq IF In(p, "publish")' THEN {Temp(p)'} ELSE {},
         \A d, o \in Outputs : stopped' = {d} /\ Claims' = o => Clear(d, o)'
  PROVE  Recovers'
<1>1. ASSUME NEW x \in Procs \ {p}
      PROVE  Run(x)'.calm /\ RefusedRightly(x)' /\ Run(x)'.phase \notin Working
  <2>1. procs'[x] = procs[x] /\ Run(x).calm
    BY DEF Moved, Recovers
  <2> QED  BY <2>1, AloneInRoot DEF RefusedRightly
<1>2. \A t \in temps' : In(p, "publish")' /\ t = Temp(p)'
  OBVIOUS
<1> QED  BY <1>1, <1>2 DEF Recovers

\* A run that is not at work, or goes: it takes nothing with it but its
\* temporary file.
LEMMA LeavingRecovers ==
  ASSUME IInv, Recovers, NEW p \in Procs, Moved(p), UNCHANGED <<fs, incarnation, ledger, stopped>>,
         Run(p)'.calm, RefusedRightly(p)', Run(p)'.phase \notin Working,
         temps' = IF In(p, "publish") THEN temps \ {Temp(p)} ELSE temps
  PROVE  Recovers'
<1>1. LedgerWhole' /\ Nested' /\ Claims' = Claims
  BY SameRoot DEF Recovers, LedgerWhole, Claims, Voided
<1>2. ASSUME NEW x \in Procs \ {p}
      PROVE  /\ Run(x)'.calm /\ RefusedRightly(x)'
             /\ Run(x)'.phase \in Working => OnItsWay(x)'
  <2>1. /\ procs'[x] = procs[x] /\ Run(x).calm /\ RefusedRightly(x) /\ Temp(x)' = Temp(x)
        /\ Run(x).phase \in Working => OnItsWay(x)
    BY DEF Moved, Recovers, Temp
  <2>2. In(x, "publish") => temps' = temps
    BY AloneInRoot DEF AtWork
  <2>3. Run(x).phase \in Working => OnItsWay(x)'
    BY <2>1, <2>2, SameRoot DEF OnItsWay, Onward, Reconciles, WayGoes, Buried, InTheWay, Orphans
  <2> QED  BY <2>1, <2>3 DEF RefusedRightly
<1>3. ASSUME NEW t \in temps'
      PROVE  \E x \in Procs : In(x, "publish")' /\ t = Temp(x)'
  <2>1. PICK x \in Procs : In(x, "publish") /\ t = Temp(x)
    BY <1>3 DEF Recovers
  <2>2. x # p
    BY <1>3, <2>1
  <2> QED  BY <2>1, <2>2 DEF Moved, Temp
<1>4. \A d, o \in Outputs : stopped' = {d} /\ Claims' = o => Clear(d, o)'
  BY <1>1, SameRoot DEF Recovers
<1> QED  BY <1>1, <1>2, <1>3, <1>4 DEF Recovers

\* A step from work to work, after which the layout is on record if the step
\* changed the root.
LEMMA WorkRecovers ==
  ASSUME CInv, Recovers, NEW p \in Procs, Moved(p), Kept(p),
         Run(p).phase \in Working, Run(p)'.phase \in Working,
         UNCHANGED ledger, LedgerWhole', Nested', OnItsWay(p)',
         temps' \subseteq IF In(p, "publish")' THEN {Temp(p)'} ELSE {},
         \/ UNCHANGED <<fs, stopped>>
         \/ Run(p).desired \in stopped'
  PROVE  Recovers'
<1>1. IInv /\ AtWork(p) /\ Run(p).calm
  BY DEF CInv, AtWork, Recovers
<1>2. Claims = Run(p).previous /\ Claims' = Claims
  <2>1. Claims = Run(p).previous
    BY <1>1 DEF CInv, Converges, Undisturbed
  <2>2. LedgerWhole
    BY DEF Recovers
  <2> QED  BY <2>1, <2>2, WholeClaims DEF LedgerWhole, Claims, Voided
<1>3. RefusedRightly(p)'
  BY DEF RefusedRightly
<1>4. ASSUME NEW d \in Outputs, NEW o \in Outputs, stopped' = {d}, Claims' = o
      PROVE  Clear(d, o)'
  <2>1. CASE UNCHANGED <<fs, stopped>>
    BY <1>2, <1>4, <2>1, SameRoot DEF Recovers
  <2>2. CASE Run(p).desired \in stopped'
    <3>1. Reconciles(p, d, o)'
      BY <1>2, <1>4, <2>2 DEF Kept, Reconciles
    <3>2. Buried(d, o)' <=> Buried(d, o)
      BY DEF Buried
    <3> QED  BY <3>1, <3>2 DEF OnItsWay, Clear
  <2> QED  BY <2>1, <2>2
<1> QED  BY <1>1, <1>3, <1>4, AtWorkRecovers DEF Kept

-----------------------------------------------------------------------------
(* The steps of recovery.                                                   *)

\* Some path of a set is the longest, and of those the first.
LEMMA DeepestIsOne ==
  ASSUME DeepestPath, NEW S \in SUBSET Paths, S # {}
  PROVE  Deepest(S) \in S /\ \A r \in S : Len(r) <= Len(Deepest(S))
<1>1. PICK m \in Paths : \A r \in Paths : Len(r) <= Len(m)
  BY DEF DeepestPath
<1>2. \A q \in Paths : Len(q) \in Nat /\ Len(m) - Len(q) \in Nat
  BY <1>1, PathIsLong
<1> DEFINE T == {Len(m) - Len(q) : q \in S}
           L == {q \in S : \A r \in S : Len(r) <= Len(q)}
<1>3. \E x \in T : \A y \in T : x <= y
  <2>1. T \subseteq Nat /\ T # {}
    BY <1>2
  <2> HIDE DEF T
  <2> QED  BY <2>1, LeastIsOne
<1>4. L \in SUBSET Paths /\ L # {}
  <2>1. PICK q \in S : \A r \in S : Len(m) - Len(q) <= Len(m) - Len(r)
    BY <1>3
  <2>2. q \in Paths /\ \A r \in S : r \in Paths
    OBVIOUS
  <2>3. \A r \in S : Len(r) <= Len(q)
    BY <1>2, <2>1, <2>2
  <2> QED  BY <2>3
<1>5. \E q \in L : \A r \in L : Rank(q) <= Rank(r)
  <2> HIDE DEF L
  <2> QED  BY <1>4, RankedFirst
<1>6. PICK q \in S : /\ \A r \in S : Len(r) <= Len(q)
                     /\ \A r \in S : (\A x \in S : Len(x) <= Len(r)) => Rank(q) <= Rank(r)
  BY <1>5
<1>7. ASSUME NEW r \in S
      PROVE  Len(q) > Len(r) \/ (Len(q) = Len(r) /\ Rank(q) <= Rank(r))
  <2>1. Len(r) <= Len(q) /\ Len(r) \in Nat /\ Len(q) \in Nat
    BY <1>2, <1>6, <1>7
  <2>2. Len(q) = Len(r) => Rank(q) <= Rank(r)
    BY <1>6
  <2> QED  BY <2>1, <2>2
<1>8. /\ Deepest(S) \in S
      /\ \A r \in S : \/ Len(Deepest(S)) > Len(r)
                      \/ Len(Deepest(S)) = Len(r) /\ Rank(Deepest(S)) <= Rank(r)
  <2> DEFINE Deep(x) == \A r \in S : Len(x) > Len(r) \/ (Len(x) = Len(r) /\ Rank(x) <= Rank(r))
  <2>1. \E x \in S : Deep(x)
    BY <1>7
  <2>2. Deepest(S) = CHOOSE x \in S : Deep(x)
    BY DEF Deepest
  <2> QED  BY <2>1, <2>2
<1>9. ASSUME NEW r \in S
      PROVE  Len(r) <= Len(Deepest(S))
  <2>1. Len(r) \in Nat /\ Len(Deepest(S)) \in Nat
    BY <1>2, <1>8
  <2> QED  BY <1>8, <2>1
<1> QED  BY <1>8, <1>9

\* What every step of a run at work may use.
LEMMA AtWorkInQuiet ==
  ASSUME CInv, Recovers, NEW p \in Procs, Run(p).phase \in Working
  PROVE  /\ IInv /\ FilesOK /\ Nested /\ LedgerWhole /\ AtWork(p) /\ RunOK(Run(p)) /\ Planned(p)
         /\ Run(p).calm /\ OnItsWay(p) /\ Undisturbed(p)
         /\ temps \subseteq IF In(p, "publish") THEN {Temp(p)} ELSE {}
         /\ Run(p).desired \in Outputs /\ Run(p).previous \in Outputs
         /\ DOMAIN Run(p).desired \subseteq Paths
<1>1. IInv /\ FilesOK /\ AtWork(p) /\ RunOK(Run(p)) /\ Planned(p) /\ Converges(p)
  BY DEF CInv, IInv, TypeOK, AtWork
<1>2. Nested /\ LedgerWhole /\ Run(p).calm /\ OnItsWay(p)
  BY DEF Recovers
<1>3. Undisturbed(p)
  BY <1>1, <1>2 DEF Converges
<1> QED  BY <1>1, <1>2, <1>3, OneTemp, OutputsTyped DEF RunOK

\* A file that is there is in directories that are there.
LEMMA FileIsSafe ==
  ASSUME FilesOK, Nested, NEW q \in Paths, IsFile(q) \/ Exists(q)
  PROVE  ~Unsafe(q)
<1>1. \A a \in Ancestors(q) : IsDir(a)
  BY Kinds DEF Nested
<1> QED  BY <1>1 DEF Unsafe, IsDir, Nested

\* Once the deletions are done, no file stands above an output.
LEMMA OutputIsSafe ==
  ASSUME FilesOK, Nested, NEW p \in Procs, Undisturbed(p), Run(p).deletions = {},
         Run(p).desired \in Outputs, Run(p).previous \in Outputs,
         Ready(Run(p).desired, Run(p).previous)
  PROVE  /\ Deletable(Run(p).desired, Run(p).previous) = {}
         /\ \A q \in DOMAIN Run(p).desired : ~Unsafe(q)
<1> DEFINE d == Run(p).desired
           o == Run(p).previous
<1>1. Deletable(d, o) = {}
  BY DEF Undisturbed, Deletable, OrphanFiles
<1>2. ASSUME NEW q \in DOMAIN d
      PROVE  ~Unsafe(q)
  <2>1. q \in Paths /\ \A a \in Ancestors(q) : a \in Paths
    BY OutputsTyped, AncestorIsPath
  <2>2. \A a \in Ancestors(q) : ~IsFile(a)
    BY <1>1 DEF Ready, OutputsReachable
  <2> QED  BY <2>1, <2>2 DEF Unsafe, Nested, IsFile
<1> QED  BY <1>1, <1>2

\* The lstat before a deletion finds the file that the preflight found.
LEMMA VerifyOrphanRecovers ==
  ASSUME CInv, Recovers, NEW p \in Procs, VerifyOrphan(p)
  PROVE  Recovers'
<1> DEFINE q == First(Run(p).deletions)
           owned == IsFile(q) /\ fs[q].bytes = Run(p).previous[q]
<1>1. /\ Run(p).phase = "delete" /\ UNCHANGED <<fs, temps, incarnation, ledger, stopped>>
  BY DEF VerifyOrphan
<1>2. /\ IInv /\ TypeOK /\ FilesOK /\ Nested /\ LedgerWhole /\ OnItsWay(p) /\ temps = {}
  BY <1>1, AtWorkInQuiet DEF IInv
<1>3. Run(p).deletions # {} => q \in Run(p).deletions /\ q \in Paths
  BY <1>2, Picked
<1>4. Run(p).deletions # {} => ~Unsafe(q) /\ ~IsDir(q)
  <2>1. Run(p).deletions # {} => IsFile(q)
    BY <1>2, <1>3 DEF OnItsWay, Onward
  <2> QED  BY <1>2, <1>3, <2>1, FileIsSafe, Kinds
<1>5. /\ Moved(p) /\ Kept(p) /\ Prunes(p) /\ Run(p)'.deletions \subseteq Run(p).deletions
      /\ Run(p)'.phase \in {"prune", "unlink", "delete"}
  <2>1. \/ Run(p).deletions = {} /\ Goto(p, [Run(p) EXCEPT !.phase = "prune"])
        \/ /\ Run(p).deletions # {} /\ owned
           /\ Goto(p, [Run(p) EXCEPT !.phase = "unlink", !.seen = fs[q]])
        \/ /\ Run(p).deletions # {} /\ ~owned
           /\ Goto(p, [Run(p) EXCEPT !.phase = "delete", !.deletions = Run(p).deletions \ {q}])
    BY <1>4 DEF VerifyOrphan, Skip
  <2> HIDE DEF q, owned
  <2>2. CASE Run(p).deletions = {} /\ Goto(p, [Run(p) EXCEPT !.phase = "prune"])
    BY <1>2, <2>2, PhaseMoves DEF Deletions
  <2>3. CASE Goto(p, [Run(p) EXCEPT !.phase = "unlink", !.seen = fs[q]])
    BY <1>2, <2>3, SeenMoves DEF Deletions
  <2>4. CASE Goto(p, [Run(p) EXCEPT !.phase = "delete", !.deletions = Run(p).deletions \ {q}])
    <3>1. TypeOK
      BY <1>2
    <3>2. /\ Moved(p) /\ Kept(p) /\ Prunes(p) /\ Run(p)'.phase = "delete"
          /\ Run(p)'.deletions = Run(p).deletions \ {q}
      BY <2>4, <3>1, DeletionsMoves
    <3> QED  BY <3>2
  <2> QED  BY <2>1, <2>2, <2>3, <2>4
<1> HIDE DEF q, owned
<1>6. OnItsWay(p)'
  <2>1. Onward(p)'
    BY <1>1, <1>2, <1>5 DEF OnItsWay, Onward, IsFile
  <2>2. ASSUME NEW d \in Outputs, NEW o \in Outputs, Reconciles(p, d, o)', ~Buried(d, o)'
        PROVE  Ready(d, o)' /\ WayGoes(p, d, o)'
    <3>1. Reconciles(p, d, o) /\ ~Buried(d, o)
      BY <1>5, <2>2 DEF Reconciles, Kept, Buried
    <3>2. Ready(d, o) /\ WayGoes(p, d, o)
      BY <1>2, <3>1 DEF OnItsWay
    <3>3. Ready(d, o)'
      BY <1>1, <3>2, SameRoot
    <3>4. InTheWay(d, o)' = InTheWay(d, o)
      BY DEF InTheWay, Orphans
    <3> QED  BY <1>1, <1>5, <3>2, <3>3, <3>4 DEF WayGoes, Prunes, IsDir
  <2> QED  BY <2>1, <2>2 DEF OnItsWay
<1>7. LedgerWhole' /\ Nested'
  BY <1>1, <1>2, SameRoot DEF LedgerWhole
<1> QED  BY <1>1, <1>2, <1>5, <1>6, <1>7, WorkRecovers

\* The unlink takes a file that had nothing below it.
LEMMA UnlinkOrphanRecovers ==
  ASSUME CInv, Recovers, NEW p \in Procs, UnlinkOrphan(p)
  PROVE  Recovers'
<1> DEFINE q == First(Run(p).deletions)
<1>1. /\ Run(p).phase = "unlink" /\ UNCHANGED <<temps, incarnation, ledger>>
  BY DEF UnlinkOrphan
<1>2. /\ IInv /\ TypeOK /\ FilesOK /\ Nested /\ LedgerWhole /\ OnItsWay(p) /\ temps = {} /\ Planned(p)
  BY <1>1, AtWorkInQuiet DEF IInv
<1>3. q \in Run(p).deletions /\ q \in Paths
  BY <1>1, <1>2, Picked DEF Planned
<1>4. IsFile(q)
  BY <1>2, <1>3 DEF OnItsWay, Onward
<1>5. ~Unsafe(q) /\ ~IsDir(q)
  BY <1>2, <1>3, <1>4, FileIsSafe, Kinds
<1>6. /\ Goto(p, [Run(p) EXCEPT !.phase = "delete", !.deletions = Run(p).deletions \ {q}])
      /\ \/ fs' = [fs EXCEPT ![q] = Nothing] /\ Run(p).desired \in stopped'
         \/ UNCHANGED <<fs, stopped>>
  BY <1>5 DEF UnlinkOrphan, Disturb
<1>7. /\ Moved(p) /\ Kept(p) /\ Prunes(p) /\ Run(p)'.deletions = Run(p).deletions \ {q}
      /\ Run(p)'.phase = "delete"
  BY <1>2, <1>6, DeletionsMoves
<1> HIDE DEF q
<1>8. \A x \in Paths : fs'[x] = fs[x] \/ (x = q /\ fs'[x] = Nothing)
  BY <1>2, <1>6 DEF FilesOK
<1>9. Nested'
  <2>1. CASE fs' = [fs EXCEPT ![q] = Nothing]
    BY <1>2, <1>3, <1>5, <2>1, NothingBelow, NestedAfterLoss
  <2> QED  BY <1>2, <1>6, <2>1, SameRoot
<1>10. OnItsWay(p)'
  <2>1. Onward(p)'
    <3>1. Run(p).deletions \subseteq Paths
      BY <1>2, Picked
    <3> QED  BY <1>2, <1>7, <1>8, <3>1 DEF OnItsWay, Onward, IsFile
  <2>2. ASSUME NEW d \in Outputs, NEW o \in Outputs, Reconciles(p, d, o)', ~Buried(d, o)'
        PROVE  Ready(d, o)' /\ WayGoes(p, d, o)'
    <3>1. Reconciles(p, d, o) /\ ~Buried(d, o)
      BY <1>7, <2>2 DEF Reconciles, Kept, Buried
    <3>2. Ready(d, o) /\ WayGoes(p, d, o)
      BY <1>2, <3>1 DEF OnItsWay
    <3>3. Ready(d, o)'
      BY <1>2, <1>8, <3>2, ReadyAfterLoss
    <3>4. InTheWay(d, o)' = InTheWay(d, o) /\ \A a \in InTheWay(d, o) : a \in Paths
      BY WayIsOfDirectories DEF InTheWay, Orphans
    <3>5. \A a \in Paths : IsDir(a)' => IsDir(a)
      BY <1>8 DEF IsDir, Nothing
    <3> QED  BY <1>1, <1>7, <3>2, <3>3, <3>4, <3>5 DEF WayGoes, Prunes
  <2> QED  BY <2>1, <2>2 DEF OnItsWay
<1>11. LedgerWhole'
  BY <1>1, <1>2 DEF LedgerWhole
<1> QED  BY <1>1, <1>2, <1>6, <1>7, <1>9, <1>10, <1>11, WorkRecovers

\* A run that is refused at work has recorded outputs below an output.
LEMMA RefusedRecovers ==
  ASSUME CInv, Recovers, NEW p \in Procs, Run(p).phase \in Working, End(p, "refused"),
         UNCHANGED <<fs, incarnation, ledger, stopped>>,
         temps' = IF In(p, "publish") THEN temps \ {Temp(p)} ELSE temps,
         Buried(Run(p).desired, Run(p).previous)
  PROVE  Recovers'
<1>1. TypeOK /\ IInv /\ AtWork(p) /\ Run(p).calm /\ Run(p).held = Len(LockPaths)
  BY DEF CInv, IInv, Holds, AtWork, Recovers
<1>2. Moved(p) /\ Kept(p) /\ Run(p)'.phase = "release" /\ Run(p)'.outcome = "refused"
  BY <1>1, EndMoves
<1>3. Run(p)'.calm /\ Run(p)'.phase \notin Working
  BY <1>1, <1>2 DEF Kept
<1>4. RefusedRightly(p)'
  BY <1>1, <1>2 DEF RefusedRightly, Kept, Buried
<1> QED  BY <1>1, <1>2, <1>3, <1>4, LeavingRecovers

\* The deepest directory in the way is empty when its turn comes.
LEMMA PruneDirectoryRecovers ==
  ASSUME DeepestPath, CInv, Recovers, NEW p \in Procs, PruneDirectory(p)
  PROVE  Recovers'
<1> DEFINE q == Deepest(Run(p).prunes)
           empty == ~HoldsTemp(q) /\ \A c \in Children(q) : ~Exists(c)
<1>1. /\ Run(p).phase = "prune" /\ UNCHANGED <<temps, incarnation, ledger>>
  BY DEF PruneDirectory
<1>2. /\ IInv /\ TypeOK /\ FilesOK /\ Nested /\ LedgerWhole /\ OnItsWay(p) /\ temps = {}
      /\ Undisturbed(p) /\ Run(p).deletions = {}
      /\ Run(p).desired \in Outputs /\ Run(p).previous \in Outputs
  BY <1>1, AtWorkInQuiet DEF IInv, Undisturbed
<1>3. ASSUME Run(p).prunes # {}, ~Buried(Run(p).desired, Run(p).previous)
      PROVE  q \in Paths /\ ~Unsafe(q) /\ (IsDir(q) => empty)
  <2> DEFINE d == Run(p).desired
             o == Run(p).previous
  <2>1. Ready(d, o) /\ WayGoes(p, d, o)
    BY <1>2, <1>3 DEF OnItsWay, Reconciles
  <2>2. Run(p).prunes \in SUBSET Paths /\ Run(p).prunes \subseteq InTheWay(d, o)
    BY <1>2, <2>1, WayIsOfDirectories DEF WayGoes
  <2>3. q \in Run(p).prunes /\ \A r \in Run(p).prunes : Len(r) <= Len(q)
    BY <1>3, <2>2, DeepestIsOne
  <2> HIDE DEF q
  <2>4. ~Unsafe(q)
    <3>1. \A a \in Ancestors(q) : a \in Paths /\ ~IsFile(a)
      BY <2>1, <2>2, <2>3, AncestorIsPath DEF Ready, WayClears
    <3> QED  BY <1>2, <2>2, <2>3, <3>1 DEF Nested, Unsafe, IsFile
  <2>5. ASSUME IsDir(q), NEW c \in Children(q), Exists(c)
        PROVE  FALSE
    <3>1. c \in Paths /\ Len(c) = Len(q) + 1 /\ Len(q) \in Nat
      BY <2>2, <2>3, ChildIsBelow, PathIsLong
    <3>2. c \notin Deletable(d, o)
      BY <1>2, <2>1, OutputIsSafe
    <3>3. IsDir(c) /\ c \in InTheWay(d, o)
      BY <2>1, <2>2, <2>3, <2>5, <3>2 DEF Ready, WayClears
    <3>4. c \in Run(p).prunes
      BY <2>1, <3>3 DEF WayGoes
    <3> QED  BY <2>3, <3>1, <3>4
  <2> QED  BY <1>2, <2>2, <2>3, <2>4, <2>5 DEF HoldsTemp
<1>4. CASE End(p, "refused") /\ UNCHANGED <<fs, stopped>> /\ Run(p).prunes # {}
           /\ (Unsafe(q) \/ (IsDir(q) /\ ~empty))
  <2>1. Buried(Run(p).desired, Run(p).previous)
    BY <1>3, <1>4
  <2> QED  BY <1>1, <1>4, <2>1, RefusedRecovers
<1>5. CASE \/ /\ Run(p).prunes = {} /\ Goto(p, [Run(p) EXCEPT !.phase = "stage"])
              /\ UNCHANGED <<fs, stopped>>
           \/ /\ Run(p).prunes # {} /\ Goto(p, [Run(p) EXCEPT !.prunes = Run(p).prunes \ {q}])
              /\ \/ /\ IsDir(q) /\ empty /\ fs' = [fs EXCEPT ![q] = Nothing]
                    /\ Run(p).desired \in stopped'
                 \/ ~IsDir(q) /\ UNCHANGED <<fs, stopped>>
  <2>1. /\ Moved(p) /\ Kept(p) /\ Deletions(p)
        /\ \/ /\ Run(p).prunes = {} /\ Prunes(p) /\ Run(p)'.phase = "stage" /\ UNCHANGED fs
           \/ Run(p)'.prunes = Run(p).prunes \ {q} /\ Run(p)'.phase = "prune"
    <3>1. TypeOK
      BY <1>2
    <3> HIDE DEF q, empty
    <3>2. CASE Run(p).prunes = {} /\ Goto(p, [Run(p) EXCEPT !.phase = "stage"]) /\ UNCHANGED fs
      BY <3>1, <3>2, PhaseMoves
    <3>3. CASE Goto(p, [Run(p) EXCEPT !.prunes = Run(p).prunes \ {q}])
      <4>1. Moved(p) /\ Kept(p) /\ Deletions(p) /\ Run(p)'.phase = Run(p).phase
            /\ Run(p)'.prunes = Run(p).prunes \ {q}
        BY <3>1, <3>3, PrunesMoves
      <4> QED  BY <1>1, <4>1
    <3> QED  BY <1>5, <3>2, <3>3
  <2>2. /\ \A x \in Paths : fs'[x] = fs[x] \/ (x = q /\ fs'[x] = Nothing)
        /\ q \in Paths => fs'[q].kind # "dir" \/ Run(p).prunes = {}
    <3> HIDE DEF q, empty
    <3>1. CASE fs' = [fs EXCEPT ![q] = Nothing]
      BY <1>2, <3>1 DEF FilesOK, IsDir, Nothing
    <3>2. CASE UNCHANGED fs /\ (~IsDir(q) \/ Run(p).prunes = {})
      BY <3>2 DEF IsDir
    <3> QED  BY <1>5, <3>1, <3>2
  <2>3. Nested'
    <3>1. CASE q \in Paths /\ empty /\ fs' = [fs EXCEPT ![q] = Nothing]
      BY <1>2, <3>1, NothingInEmpty, NestedAfterLoss
    <3>2. CASE q \notin Paths /\ fs' = [fs EXCEPT ![q] = Nothing]
      <4>1. fs' = fs
        <5> HIDE DEF q
        <5> QED  BY <1>2, <3>2 DEF FilesOK
      <4> QED  BY <1>2, <4>1, SameRoot
    <3> QED  BY <1>2, <1>5, <3>1, <3>2, SameRoot
  <2>4. OnItsWay(p)'
    <3>1. Onward(p)'
      BY <1>2, <2>1 DEF Onward, Deletions
    <3>2. ASSUME NEW d \in Outputs, NEW o \in Outputs, Reconciles(p, d, o)', ~Buried(d, o)'
          PROVE  Ready(d, o)' /\ WayGoes(p, d, o)'
      <4>1. Reconciles(p, d, o) /\ ~Buried(d, o)
        BY <2>1, <3>2 DEF Reconciles, Kept, Buried
      <4>2. Ready(d, o) /\ WayGoes(p, d, o)
        BY <1>2, <4>1 DEF OnItsWay
      <4>3. Ready(d, o)'
        BY <1>2, <2>2, <4>2, ReadyAfterLoss
      <4>4. InTheWay(d, o)' = InTheWay(d, o) /\ \A a \in InTheWay(d, o) : a \in Paths
        BY WayIsOfDirectories DEF InTheWay, Orphans
      <4>5. \A a \in Paths : IsDir(a)' => IsDir(a)
        BY <2>2 DEF IsDir, Nothing
      <4>6. WayGoes(p, d, o)'
        <5> HIDE DEF q, empty
        <5>1. CASE Run(p).prunes = {} /\ Prunes(p) /\ UNCHANGED fs
          BY <4>2, <4>4, <4>5, <5>1 DEF WayGoes, Prunes
        <5>2. CASE Run(p)'.prunes = Run(p).prunes \ {q} /\ Run(p)'.phase = "prune"
          <6>1. Run(p)'.prunes \subseteq InTheWay(d, o)
            BY <4>2, <5>2 DEF WayGoes
          <6>2. ASSUME NEW a \in InTheWay(d, o) \ Run(p)'.prunes
                PROVE  ~IsDir(a)'
            <7>1. CASE a = q /\ Run(p).prunes # {}
              BY <2>2, <4>4, <7>1 DEF IsDir
            <7>2. CASE a # q \/ Run(p).prunes = {}
              <8>1. a \notin Run(p).prunes
                BY <5>2, <7>2
              <8> QED  BY <4>2, <4>4, <4>5, <8>1 DEF WayGoes
            <7> QED  BY <7>1, <7>2
          <6> QED  BY <4>4, <5>2, <6>1, <6>2 DEF WayGoes
        <5> QED  BY <2>1, <5>1, <5>2
      <4> QED  BY <4>3, <4>6
    <3> QED  BY <3>1, <3>2 DEF OnItsWay
  <2>5. LedgerWhole'
    BY <1>1, <1>2 DEF LedgerWhole
  <2>6. UNCHANGED <<fs, stopped>> \/ Run(p).desired \in stopped'
    BY <1>5
  <2> QED  BY <1>1, <1>2, <2>1, <2>3, <2>4, <2>5, <2>6, WorkRecovers
<1> QED
  <2> HIDE DEF q, empty
  <2>1. \/ /\ Run(p).prunes = {} /\ Goto(p, [Run(p) EXCEPT !.phase = "stage"])
           /\ UNCHANGED <<fs, stopped>>
        \/ /\ Run(p).prunes # {} /\ (Unsafe(q) \/ (IsDir(q) /\ ~empty))
           /\ End(p, "refused") /\ UNCHANGED <<fs, stopped>>
        \/ /\ Run(p).prunes # {} /\ ~(IsDir(q) /\ ~empty)
           /\ Goto(p, [Run(p) EXCEPT !.prunes = Run(p).prunes \ {q}])
           /\ \/ IsDir(q) /\ fs' = [fs EXCEPT ![q] = Nothing] /\ stopped' = stopped \cup {Run(p).desired}
              \/ ~IsDir(q) /\ UNCHANGED <<fs, stopped>>
    BY DEF PruneDirectory, Disturb, q, empty
  <2> QED  BY <1>4, <1>5, <2>1

\* A write is staged where no file and no directory stands in its way.
LEMMA StageWriteRecovers ==
  ASSUME CInv, Recovers, NEW p \in Procs, StageWrite(p)
  PROVE  Recovers'
<1> DEFINE q == First(Run(p).writes)
<1>1. /\ Run(p).phase = "stage" /\ UNCHANGED ledger
  BY DEF StageWrite
<1>2. /\ IInv /\ TypeOK /\ FilesOK /\ Nested /\ LedgerWhole /\ OnItsWay(p) /\ temps = {}
      /\ Undisturbed(p) /\ Run(p).deletions = {}
      /\ Run(p).desired \in Outputs /\ Run(p).previous \in Outputs
      /\ Run(p).writes \subseteq DOMAIN Run(p).desired
  BY <1>1, AtWorkInQuiet DEF IInv, Undisturbed, RunOK
<1>3. Run(p).writes # {} => q \in Run(p).writes /\ q \in Paths /\ q \in DOMAIN Run(p).desired
  BY <1>2, Picked
<1> HIDE DEF q
<1>4. ASSUME Run(p).writes # {}, ~Buried(Run(p).desired, Run(p).previous)
      PROVE  ~Unsafe(q) /\ ~IsDir(q)
  <2> DEFINE d == Run(p).desired
             o == Run(p).previous
  <2>1. Ready(d, o) /\ WayGoes(p, d, o)
    BY <1>2, <1>4 DEF OnItsWay, Reconciles
  <2>2. ~Unsafe(q)
    BY <1>2, <1>3, <1>4, <2>1, OutputIsSafe
  <2>3. \A a \in InTheWay(d, o) : ~IsDir(a)
    BY <1>1, <2>1 DEF WayGoes
  <2> QED  BY <1>3, <1>4, <2>1, <2>2, <2>3 DEF Ready, OutputsReachable
<1>5. CASE /\ Run(p).writes # {} /\ (Unsafe(q) \/ IsDir(q)) /\ End(p, "refused")
           /\ UNCHANGED <<fs, temps, incarnation, stopped>>
  <2>1. Buried(Run(p).desired, Run(p).previous)
    BY <1>4, <1>5
  <2> QED  BY <1>1, <1>5, <2>1, RefusedRecovers
<1>6. CASE /\ Run(p).writes = {} /\ Goto(p, [Run(p) EXCEPT !.phase = "ledger"])
           /\ UNCHANGED <<fs, temps, incarnation, stopped>>
  <2>1. /\ Moved(p) /\ Kept(p) /\ Deletions(p) /\ Prunes(p) /\ Run(p)'.phase = "ledger"
    BY <1>2, <1>6, PhaseMoves
  <2>2. OnItsWay(p)'
    <3>1. Onward(p)'
      BY <1>2, <2>1 DEF Onward, Deletions
    <3>2. ASSUME NEW d \in Outputs, NEW o \in Outputs, Reconciles(p, d, o)', ~Buried(d, o)'
          PROVE  Ready(d, o)' /\ WayGoes(p, d, o)'
      <4>1. Reconciles(p, d, o) /\ ~Buried(d, o)
        BY <2>1, <3>2 DEF Reconciles, Kept, Buried
      <4>2. Ready(d, o) /\ WayGoes(p, d, o)
        BY <1>2, <4>1 DEF OnItsWay
      <4>3. Ready(d, o)' /\ InTheWay(d, o)' = InTheWay(d, o)
        BY <1>6, <4>2, SameRoot DEF InTheWay, Orphans
      <4> QED  BY <1>1, <1>6, <2>1, <4>2, <4>3 DEF WayGoes, Prunes, IsDir
    <3> QED  BY <3>1, <3>2 DEF OnItsWay
  <2>3. LedgerWhole' /\ Nested'
    BY <1>1, <1>2, <1>6, SameRoot DEF LedgerWhole
  <2> QED  BY <1>1, <1>2, <1>6, <2>1, <2>2, <2>3, WorkRecovers
<1>7. CASE /\ Run(p).writes # {} /\ ~Unsafe(q) /\ Staged(q) /\ temps' = temps \cup {Temp(p)}
           /\ incarnation' \in IF incarnation = Absent THEN Incarnations ELSE {incarnation}
           /\ stopped' = stopped \cup {Run(p).desired}
           /\ Goto(p, [Run(p) EXCEPT !.phase = "publish"])
  <2>1. /\ Moved(p) /\ Kept(p) /\ Deletions(p) /\ Prunes(p) /\ Writes(p)
        /\ Run(p)'.phase = "publish"
    BY <1>2, <1>7, PhaseMoves
  <2>2. \A a \in Ancestors(q) : a \in Paths /\ ~IsFile(a)
    BY <1>3, <1>7, AncestorIsPath DEF Unsafe, IsFile
  <2>3. Nested'
    BY <1>2, <1>3, <1>7, <2>2, NestedAfterStage
  <2>4. Temp(p)' = Temp(p)
    BY <2>1 DEF Temp, Writes
  <2>5. OnItsWay(p)'
    <3>1. Onward(p)'
      <4>1. \A a \in Ancestors(q) : IsDir(a)'
        BY <1>2, <1>3, <1>7, <2>2, StagedEntries
      <4> QED  BY <1>2, <1>7, <2>1, <2>4, <4>1 DEF Onward, Deletions, Writes, Kept, q
    <3>2. ASSUME NEW d \in Outputs, NEW o \in Outputs, Reconciles(p, d, o)', ~Buried(d, o)'
          PROVE  Ready(d, o)' /\ WayGoes(p, d, o)'
      <4>1. Reconciles(p, d, o) /\ ~Buried(d, o)
        BY <2>1, <3>2 DEF Reconciles, Kept, Buried
      <4>2. Ready(d, o) /\ WayGoes(p, d, o)
        BY <1>2, <4>1 DEF OnItsWay
      <4>3. q \in DOMAIN d /\ Run(p).prunes = {} /\ \A a \in InTheWay(d, o) : ~IsDir(a)
        BY <1>1, <1>3, <1>7, <4>1, <4>2 DEF WayGoes, Reconciles
      <4>4. Ready(d, o)' /\ \A a \in InTheWay(d, o) : ~IsDir(a)'
        BY <1>2, <1>7, <2>2, <4>2, <4>3, ReadyAfterStage
      <4>5. InTheWay(d, o)' = InTheWay(d, o)
        BY DEF InTheWay, Orphans
      <4> QED  BY <2>1, <4>3, <4>4, <4>5 DEF WayGoes, Prunes
    <3> QED  BY <3>1, <3>2 DEF OnItsWay
  <2>6. LedgerWhole'
    BY <1>1, <1>2, <1>7 DEF LedgerWhole
  <2>7. temps' \subseteq IF In(p, "publish")' THEN {Temp(p)'} ELSE {}
    BY <1>2, <1>7, <2>1, <2>4
  <2> QED  BY <1>1, <1>7, <2>1, <2>3, <2>5, <2>6, <2>7, WorkRecovers
<1> QED  BY <1>5, <1>6, <1>7 DEF StageWrite, Staged, Disturb, q

\* The temporary file is renamed to the output.
LEMMA PublishOutputRecovers ==
  ASSUME CInv, Recovers, NEW p \in Procs, PublishOutput(p)
  PROVE  Recovers'
<1> DEFINE q == First(Run(p).writes)
<1>1. /\ Run(p).phase = "publish" /\ UNCHANGED <<incarnation, ledger, stopped>>
      /\ temps' = temps \ {Temp(p)}
  BY DEF PublishOutput
<1>2. /\ IInv /\ TypeOK /\ FilesOK /\ Nested /\ LedgerWhole /\ OnItsWay(p) /\ temps \subseteq {Temp(p)}
      /\ Undisturbed(p) /\ Planned(p) /\ Run(p).deletions = {}
      /\ Run(p).desired \in Outputs /\ Run(p).previous \in Outputs
      /\ Run(p).writes \subseteq DOMAIN Run(p).desired
  BY <1>1, AtWorkInQuiet DEF IInv, Undisturbed, RunOK
<1>3. q \in Run(p).writes /\ q \in Paths /\ q \in DOMAIN Run(p).desired
  BY <1>1, <1>2, Picked DEF Planned
<1>4. /\ SameParent(p) /\ Run(p).desired \in stopped /\ fs[q].kind # "link"
      /\ \A a \in Ancestors(q) : IsDir(a)
  BY <1>1, <1>2, <1>3 DEF OnItsWay, Onward, SameParent, Nested
<1>5. Run(p).desired[q] \in Contents
  BY <1>2, <1>3, OutputsTyped
<1> HIDE DEF q
<1>6. CASE IsDir(q) /\ End(p, "refused") /\ UNCHANGED fs
  <2>1. ASSUME ~Buried(Run(p).desired, Run(p).previous)  PROVE FALSE
    <3> DEFINE d == Run(p).desired
               o == Run(p).previous
    <3>1. Ready(d, o) /\ WayGoes(p, d, o)
      BY <1>2, <2>1 DEF OnItsWay, Reconciles
    <3>2. \A a \in InTheWay(d, o) : ~IsDir(a)
      BY <1>1, <3>1 DEF WayGoes
    <3> QED  BY <1>3, <1>6, <3>1, <3>2 DEF Ready, OutputsReachable
  <2> QED  BY <1>1, <1>6, <2>1, RefusedRecovers
<1>7. CASE /\ ~IsDir(q) /\ fs' = [fs EXCEPT ![q] = File(Run(p).desired[q], "action")]
           /\ Goto(p, [Run(p) EXCEPT !.phase = "stage", !.writes = Run(p).writes \ {q}])
  <2>1. /\ Moved(p) /\ Kept(p) /\ Deletions(p) /\ Prunes(p) /\ Run(p)'.phase = "stage"
    <3>1. TypeOK
      BY <1>2
    <3> QED  BY <1>7, <3>1, WritesMoves
  <2>2. Published(q)
    <3>1. File(Run(p).desired[q], "action") \in Entries
      BY <1>5 DEF Entries
    <3> QED  BY <1>7, <3>1 DEF Published, File
  <2>3. Nested'
    BY <1>2, <1>3, <1>4, <1>7, <2>2, NestedAfterPublish
  <2>4. OnItsWay(p)'
    <3>1. Onward(p)'
      BY <1>2, <2>1 DEF Onward, Deletions
    <3>2. ASSUME NEW d \in Outputs, NEW o \in Outputs, Reconciles(p, d, o)', ~Buried(d, o)'
          PROVE  Ready(d, o)' /\ WayGoes(p, d, o)'
      <4>1. Reconciles(p, d, o) /\ ~Buried(d, o)
        BY <2>1, <3>2 DEF Reconciles, Kept, Buried
      <4>2. Ready(d, o) /\ WayGoes(p, d, o)
        BY <1>2, <4>1 DEF OnItsWay
      <4>3. q \in DOMAIN d /\ Run(p).prunes = {} /\ \A a \in InTheWay(d, o) : ~IsDir(a)
        BY <1>1, <1>3, <4>1, <4>2 DEF WayGoes, Reconciles
      <4>4. Ready(d, o)' /\ \A a \in InTheWay(d, o) : ~IsDir(a)'
        BY <1>2, <1>7, <2>2, <4>1, <4>2, <4>3, ReadyAfterPublish
      <4>5. InTheWay(d, o)' = InTheWay(d, o)
        BY DEF InTheWay, Orphans
      <4> QED  BY <2>1, <4>3, <4>4, <4>5 DEF WayGoes, Prunes
    <3> QED  BY <3>1, <3>2 DEF OnItsWay
  <2>5. LedgerWhole'
    BY <1>1, <1>2 DEF LedgerWhole
  <2>6. temps' = {}
    BY <1>1, <1>2
  <2> QED  BY <1>1, <1>4, <2>1, <2>3, <2>4, <2>5, <2>6, WorkRecovers
<1> QED
  <2>1. IsDir(q) <=> fs[q].kind \in {"dir", "link"}
    BY <1>4 DEF IsDir
  <2> QED  BY <1>4, <1>6, <1>7, <2>1 DEF PublishOutput, q

\* The ledger describes the root again: no run is on record as stopped.
LEMMA WriteManifestRecovers ==
  ASSUME CInv, Recovers, NEW p \in Procs, WriteManifest(p)
  PROVE  Recovers'
<1>1. /\ Run(p).phase = "ledger" /\ UNCHANGED <<fs, temps, incarnation>> /\ stopped' = {}
      /\ End(p, "done")
  BY DEF WriteManifest
<1>2. /\ IInv /\ TypeOK /\ Nested /\ LedgerWhole /\ temps = {} /\ AtWork(p) /\ Run(p).calm
  BY <1>1, AtWorkInQuiet DEF IInv
<1>3. Moved(p) /\ Kept(p) /\ Run(p)'.phase = "release" /\ Run(p)'.outcome = "done"
  BY <1>1, <1>2, EndMoves
<1>4. LedgerWhole'
  <2> DEFINE l == [outputs |-> Run(p).desired, incarnation |-> incarnation, corrupt |-> FALSE]
  <2>1. ledger' = l \/ ledger' = ledger
    BY DEF WriteManifest
  <2>2. l.incarnation = incarnation /\ l.corrupt = FALSE
    OBVIOUS
  <2> HIDE DEF l
  <2> QED  BY <1>1, <1>2, <2>1, <2>2 DEF LedgerWhole
<1>5. Nested'
  BY <1>1, <1>2, SameRoot
<1>6. Run(p)'.calm /\ RefusedRightly(p)' /\ Run(p)'.phase \notin Working
  BY <1>2, <1>3 DEF Kept, RefusedRightly
<1> QED  BY <1>1, <1>2, <1>3, <1>4, <1>5, <1>6, AtWorkRecovers

\* The preflight refuses neither what is ready nor, with it, a layout whose
\* runs stopped.
LEMMA PreflightRecovers ==
  ASSUME OneSpelling, CInv, Recovers, NEW p \in Procs, NEW d \in Layouts, Preflight(p, d)
  PROVE  Recovers'
<1> DEFINE o == Claims
           run == [Run(p) EXCEPT !.desired = d, !.previous = o, !.voided = Voided]
           refused == (ledger # Absent /\ ledger.corrupt) \/ Refused(d, o)
           ended == [run EXCEPT !.phase = "release",
                                !.outcome = IF refused THEN "refused" ELSE "planned"]
           planned == [run EXCEPT !.phase = "delete", !.deletions = Deletable(d, o),
                                  !.prunes = Prunable(d, o), !.writes = Stale(d)]
<1>1. /\ Run(p).phase = "preflight"
      /\ UNCHANGED <<fs, temps, incarnation, ledger, stopped>>
  BY DEF Preflight
<1>2. /\ IInv /\ TypeOK /\ FilesOK /\ RunOK(Run(p)) /\ AtWork(p) /\ Run(p).held = Len(LockPaths)
      /\ LedgerWhole /\ Nested /\ Run(p).calm
  BY <1>1 DEF CInv, IInv, TypeOK, Holds, AtWork, Recovers
<1>3. d \in Outputs /\ o \in Outputs
  BY <1>2, ClaimsTyped, ConstantsAssumption
<1>4. temps = {} /\ \A x \in Outputs, y \in Outputs : stopped = {x} /\ o = y => Clear(x, y)
  BY <1>1, <1>2, OneTemp DEF Recovers
<1>5. /\ RunRecord(ended) /\ ended.phase = "release" /\ ended.held = Run(p).held
      /\ ended.desired = d /\ ended.previous = o /\ ended.calm = Run(p).calm
      /\ ended.outcome = IF refused THEN "refused" ELSE "planned"
  <2>1. RunRecord(Run(p))
    BY <1>2 DEF RunOK
  <2> HIDE DEF o, refused
  <2> QED  BY <2>1 DEF RunRecord, Fields
<1>6. /\ RunRecord(planned) /\ planned.phase = "delete" /\ planned.calm = Run(p).calm
      /\ planned.desired = d /\ planned.previous = o
      /\ planned.deletions = Deletable(d, o) /\ planned.prunes = Prunable(d, o)
  <2>1. RunRecord(Run(p))
    BY <1>2 DEF RunOK
  <2> HIDE DEF o, refused
  <2> QED  BY <2>1 DEF RunRecord, Fields
<1>7. \/ Goto(p, ended)
      \/ ~refused /\ Goto(p, planned)
  BY DEF Preflight
<1> HIDE DEF o, ended, planned
<1>8. CASE Goto(p, ended)
  <2>1. Moved(p) /\ Run(p)' = ended
    BY <1>2, <1>5, <1>8, GotoMoves
  <2>2. refused /\ stopped = {d} => Buried(d, o)
    <3> SUFFICES ASSUME refused, stopped = {d}, ~Buried(d, o)  PROVE FALSE
      OBVIOUS
    <3>1. Ready(d, o)
      BY <1>3, <1>4 DEF Clear
    <3> QED  BY <1>2, <1>3, <1>4, <3>1, ReadyIsNotRefused DEF LedgerWhole
  <2>3. RefusedRightly(p)'
    BY <1>1, <1>2, <1>5, <2>1, <2>2 DEF RefusedRightly, Buried
  <2> QED  BY <1>1, <1>2, <1>5, <2>1, <2>3, LeavingRecovers
<1>9. CASE ~refused /\ Goto(p, planned)
  <2>1. Moved(p) /\ Run(p)' = planned
    BY <1>2, <1>6, <1>9, GotoMoves
  <2>2. Ready(d, o) /\ Prunable(d, o) = InTheWay(d, o)
    BY <1>2, <1>3, <1>9, NotRefusedIsReady, WayIsPruned
  <2>3. Onward(p)'
    <3>1. \A q \in Deletable(d, o) : IsFile(q)
      BY DEF Deletable, OrphanFiles
    <3> QED  BY <1>1, <1>6, <2>1, <3>1 DEF Onward, IsFile
  <2>4. ASSUME NEW x \in Outputs, NEW y \in Outputs, Reconciles(p, x, y)'
        PROVE  Ready(x, y)' /\ WayGoes(p, x, y)'
    <3>1. x = d /\ y = o
      BY <1>6, <2>1, <2>4 DEF Reconciles
    <3>2. Ready(x, y)'
      BY <1>1, <2>2, <3>1, SameRoot
    <3>3. InTheWay(x, y)' = InTheWay(x, y)
      BY DEF InTheWay, Orphans
    <3> QED  BY <1>6, <2>1, <2>2, <3>1, <3>2, <3>3 DEF WayGoes
  <2>5. OnItsWay(p)'
    BY <2>3, <2>4 DEF OnItsWay
  <2>6. LedgerWhole' /\ Nested' /\ Claims' = o
    BY <1>1, <1>2, SameRoot DEF LedgerWhole, Claims, Voided, o
  <2>7. \A x, y \in Outputs : stopped' = {x} /\ Claims' = y => Clear(x, y)'
    BY <1>1, <1>4, <2>6, SameRoot
  <2>8. Run(p)'.calm /\ RefusedRightly(p)'
    BY <1>2, <1>6, <2>1 DEF RefusedRightly
  <2> QED  BY <1>1, <1>2, <1>4, <2>1, <2>5, <2>6, <2>7, <2>8, AtWorkRecovers
<1> QED  BY <1>7, <1>8, <1>9

\* A request that waits for its locks changes nothing.
LEMMA StartRecovers ==
  ASSUME CInv, Recovers, NEW p \in Procs, NEW dry, Start(p, dry)
  PROVE  Recovers'
<1> DEFINE r == [Idle EXCEPT !.phase = "locking", !.dry_run = dry]
<1>1. RunRecord(r) /\ r.phase = "locking" /\ r.calm = TRUE
  BY DEF Idle, RunRecord, Fields
<1>2. /\ Goto(p, r) /\ UNCHANGED <<fs, temps, incarnation, ledger, stopped>>
      /\ Run(p).phase = "idle" /\ TypeOK /\ IInv
  BY DEF Start, CInv, IInv
<1> HIDE DEF r
<1>3. Moved(p) /\ Run(p)' = r
  BY <1>1, <1>2, GotoMoves
<1> QED  BY <1>1, <1>2, <1>3, LeavingRecovers DEF RefusedRightly

\* The last lock opens the preflight.
LEMMA AcquireLockRecovers ==
  ASSUME CInv, Recovers, NEW p \in Procs, AcquireLock(p)
  PROVE  Recovers'
<1> DEFINE held == Run(p).held + 1
           r == [Run(p) EXCEPT !.held = held,
                   !.phase = IF held = Len(LockPaths) THEN "preflight" ELSE "locking"]
<1>1. /\ Goto(p, r) /\ UNCHANGED <<fs, temps, incarnation, ledger, stopped>>
      /\ Run(p).phase = "locking" /\ TypeOK /\ IInv
  BY DEF AcquireLock, CInv, IInv
<1>2. RunRecord(Run(p)) /\ Run(p).calm
  BY <1>1 DEF TypeOK, RunOK, Recovers
<1>3. RunRecord(r) /\ r.phase \in {"preflight", "locking"} /\ r.calm
  BY <1>2 DEF RunRecord, Fields
<1> HIDE DEF r
<1>4. Moved(p) /\ Run(p)' = r
  BY <1>1, <1>3, GotoMoves
<1> QED  BY <1>1, <1>3, <1>4, LeavingRecovers DEF RefusedRightly

\* A run gives up, or stops with its temporary file dropped.
LEMMA EndRecovers ==
  ASSUME CInv, Recovers, NEW p \in Procs, NEW o \in {"timeout", "stopped"}, End(p, o),
         UNCHANGED <<fs, incarnation, ledger, stopped>>,
         temps' = IF In(p, "publish") THEN temps \ {Temp(p)} ELSE temps
  PROVE  Recovers'
<1>1. TypeOK /\ IInv /\ Run(p).calm
  BY DEF CInv, IInv, Recovers
<1>2. Moved(p) /\ Kept(p) /\ Run(p)'.phase = "release" /\ Run(p)'.outcome = o
  BY <1>1, EndMoves
<1> QED  BY <1>1, <1>2, LeavingRecovers DEF RefusedRightly, Kept

\* A run is over, or killed where it had no temporary file.
LEMMA IdleRecovers ==
  ASSUME CInv, Recovers, NEW p \in Procs, Goto(p, Idle), ~In(p, "publish"),
         UNCHANGED <<fs, temps, incarnation, ledger, stopped>>
  PROVE  Recovers'
<1>1. RunRecord(Idle) /\ Idle.phase = "idle" /\ Idle.calm = TRUE
  BY DEF Idle, RunRecord, Fields
<1>2. Moved(p) /\ Run(p)' = Idle
  BY <1>1, GotoMoves DEF CInv, IInv
<1> QED  BY <1>1, <1>2, LeavingRecovers DEF RefusedRightly, CInv

\* A run killed at its publish leaves a temporary file, and the root is not quiet.
LEMMA KillRecovers ==
  ASSUME CInv, Recovers, NEW p \in Procs, Kill(p), \A t \in temps' : t.owner # Absent
  PROVE  Recovers'
<1>1. /\ temps' = {[t EXCEPT !.owner = IF @ = p THEN Absent ELSE @] : t \in temps}
      /\ Goto(p, Idle) /\ UNCHANGED <<fs, incarnation, ledger, stopped>>
  BY DEF Kill
<1>2. ~In(p, "publish")
  <2> SUFFICES ASSUME In(p, "publish")  PROVE FALSE
    OBVIOUS
  <2>1. Temp(p) \in temps
    BY DEF Recovers, OnItsWay, Onward
  <2> DEFINE u == [Temp(p) EXCEPT !.owner = IF @ = p THEN Absent ELSE @]
  <2>2. u \in temps'
    BY <1>1, <2>1
  <2>3. u.owner = Absent
    BY DEF Temp
  <2> HIDE DEF u
  <2> QED  BY <2>2, <2>3
<1>3. \A t \in temps : [t EXCEPT !.owner = IF @ = p THEN Absent ELSE @] = t
  <2> SUFFICES ASSUME NEW t \in temps
               PROVE  [t EXCEPT !.owner = IF @ = p THEN Absent ELSE @] = t
    OBVIOUS
  <2>1. PICK x \in Procs : In(x, "publish") /\ t = Temp(x)
    BY DEF Recovers
  <2>2. x # p
    BY <1>2, <2>1
  <2> QED  BY <2>1, <2>2 DEF Temp
<1>4. temps' = temps
  BY <1>1, <1>3
<1> QED  BY <1>1, <1>2, <1>4, IdleRecovers

\* Every step of a run keeps what recovery needs.
LEMMA RunRecovers ==
  ASSUME OneSpelling, DeepestPath, CInv, Recovers, NEW p \in Procs, \A t \in temps' : t.owner # Absent,
         (\E dry \in BOOLEAN : Start(p, dry)) \/ Advance(p) \/ Stop(p) \/ Kill(p)
  PROVE  Recovers'
<1>1. CASE \E dry \in BOOLEAN : Start(p, dry)
  BY <1>1, StartRecovers
<1>2. CASE AcquireLock(p)
  BY <1>2, AcquireLockRecovers
<1>3. CASE LockTimeout(p) \/ Stop(p)
  BY <1>3, EndRecovers DEF LockTimeout, Stop
<1>4. CASE \E d \in Layouts : Preflight(p, d)
  BY <1>4, PreflightRecovers
<1>5. CASE Release(p)
  BY <1>5, IdleRecovers DEF Release
<1>6. CASE Kill(p)
  BY <1>6, KillRecovers
<1> QED  BY <1>1, <1>2, <1>3, <1>4, <1>5, <1>6, VerifyOrphanRecovers, UnlinkOrphanRecovers,
            PruneDirectoryRecovers, StageWriteRecovers, PublishOutputRecovers,
            WriteManifestRecovers DEF Advance

\* While nobody edits, the temporary file of a dead writer stays.
LEMMA TempsOfRuns ==
  ASSUME TypeOK, TempRecords, [Next]_vars
  PROVE  /\ TempRecords'
         /\ UNCHANGED touches /\ (\A t \in temps' : t.owner # Absent) => \A t \in temps : t.owner # Absent
<1>1. ASSUME NEW p \in Procs, StageWrite(p) \/ PublishOutput(p) \/ Stop(p),
             UNCHANGED touches
      PROVE  /\ TempRecords'
             /\ (\A t \in temps' : t.owner # Absent) => \A t \in temps : t.owner # Absent
  <2>1. Temp(p) = [dir |-> Temp(p).dir, owner |-> Temp(p).owner] /\ Temp(p).owner # Absent
    BY ConstantsAssumption DEF Temp
  <2>2. temps' \in {temps, temps \cup {Temp(p)}, temps \ {Temp(p)}}
    BY <1>1 DEF StageWrite, PublishOutput, Stop
  <2> HIDE DEF Temp
  <2> QED  BY <2>1, <2>2 DEF TempRecords
<1>2. ASSUME NEW p \in Procs, Kill(p)
      PROVE  /\ TempRecords'
             /\ (\A t \in temps' : t.owner # Absent) => \A t \in temps : t.owner # Absent
  <2> DEFINE Orphaned(t) == [t EXCEPT !.owner = IF @ = p THEN Absent ELSE @]
  <2>1. temps' = {Orphaned(t) : t \in temps}
    BY <1>2 DEF Kill
  <2>2. ASSUME NEW t \in temps
        PROVE  /\ Orphaned(t) = [dir |-> Orphaned(t).dir, owner |-> Orphaned(t).owner]
               /\ t.owner = Absent => Orphaned(t).owner = Absent
    <3> DEFINE who == IF t.owner = p THEN Absent ELSE t.owner
    <3>1. t = [dir |-> t.dir, owner |-> t.owner]
      BY DEF TempRecords
    <3>2. Orphaned([dir |-> t.dir, owner |-> t.owner]) = [dir |-> t.dir, owner |-> who]
      OBVIOUS
    <3> HIDE DEF Orphaned
    <3>3. Orphaned(t) = [dir |-> t.dir, owner |-> who]
      BY <3>1, <3>2
    <3> QED  BY <3>3
  <2> HIDE DEF Orphaned
  <2> QED  BY <2>1, <2>2 DEF TempRecords
<1>3. CASE People
  <2>1. touches' # touches /\ (temps' = temps \/ temps' = {})
    BY <1>3 DEF People, Edit, ReplaceRoot, CorruptLedger, Touch, TypeOK
  <2> QED  BY <2>1 DEF TempRecords
<1>4. CASE UNCHANGED temps
  BY <1>4 DEF TempRecords
<1>5. CASE \E p \in Procs : StageWrite(p) \/ PublishOutput(p) \/ Stop(p)
  BY <1>1, <1>5 DEF StageWrite, PublishOutput, Stop
<1>6. CASE \E p \in Procs : Kill(p)
  BY <1>2, <1>6
<1>7. \/ People \/ UNCHANGED temps \/ (\E p \in Procs : Kill(p))
      \/ \E p \in Procs : StageWrite(p) \/ PublishOutput(p) \/ Stop(p)
  BY DEF Next, vars, Advance, Start, AcquireLock, LockTimeout, Preflight, VerifyOrphan,
     UnlinkOrphan, PruneDirectory, WriteManifest, Release
<1> QED  BY <1>3, <1>4, <1>5, <1>6, <1>7

\* The invariant of recovery, step by step; an edit ends the quiet.
LEMMA RecoveryStep ==
  ASSUME OneSpelling, DeepestPath, RecoveryInv, [Next]_vars
  PROVE  RecoveryInv'
<1>1. IInv' /\ TempRecords'
  BY NextPreserves, TempsOfRuns DEF RecoveryInv, IInv
<1>2. ASSUME Quiet'
      PROVE  CInv' /\ Recovers'
  <2>1. CASE UNCHANGED vars
    <3>1. Quiet /\ CInv /\ Recovers
      BY <1>2, <2>1 DEF vars, Quiet, RecoveryInv
    <3>2. CInv'
      BY <2>1, <3>1 DEF vars, CInv, IInv, TypeOK, FilesOK, LedgerOK, RunOK, RunRecord, Holds,
         ClaimStands, Planned, RootStays, Converges, Undisturbed, IsFile, Claims, Voided
    <3>3. Recovers'
      <4>1. /\ LedgerWhole' /\ Nested' /\ Claims' = Claims /\ stopped' = stopped
            /\ procs' = procs /\ temps' = temps /\ \A p : Temp(p)' = Temp(p)
        BY <2>1, <3>1, SameRoot DEF vars, Recovers, LedgerWhole, Claims, Voided, Temp
      <4>2. \A p \in Procs : OnItsWay(p) => OnItsWay(p)'
        BY <2>1, <4>1, SameRoot
           DEF vars, OnItsWay, Onward, Reconciles, WayGoes, Buried, InTheWay, Orphans
      <4>3. \A d, o \in Outputs : stopped' = {d} /\ Claims' = o => Clear(d, o)'
        BY <2>1, <3>1, <4>1, SameRoot DEF vars, Recovers
      <4> QED  BY <3>1, <4>1, <4>2, <4>3 DEF Recovers, RefusedRightly, Buried
    <3> QED  BY <3>2, <3>3
  <2>2. CASE Next
    <3>1. ~People
      BY <1>2, PeoplePreserve DEF RecoveryInv, Quiet, IInv, TypeOK, People, Edit, ReplaceRoot,
         CorruptLedger, Touch
    <3>2. PICK p \in Procs :
            (\E dry \in BOOLEAN : Start(p, dry)) \/ Advance(p) \/ Stop(p) \/ Kill(p)
      BY <2>2, <3>1 DEF Next
    <3>3. UNCHANGED touches
      BY <3>2 DEF Advance, Start, AcquireLock, LockTimeout, Preflight, VerifyOrphan, Stop, Kill,
         UnlinkOrphan, PruneDirectory, StageWrite, PublishOutput, WriteManifest, Release
    <3>4. Quiet
      BY <1>2, <3>3, TempsOfRuns DEF Quiet, RecoveryInv, IInv
    <3>5. CInv /\ Recovers
      BY <3>4 DEF RecoveryInv
    <3>6. CInv'
      BY <3>2, <3>5, RunPreserves DEF CInv
    <3> QED  BY <1>2, <3>2, <3>5, <3>6, RunRecovers DEF Quiet
  <2> QED  BY <2>1, <2>2
<1> QED  BY <1>1, <1>2 DEF RecoveryInv

\* An empty root and no ledger are recovered.
LEMMA RecoveryStarts == Init => RecoveryInv
<1> SUFFICES ASSUME Init  PROVE RecoveryInv
  OBVIOUS
<1>1. CInv /\ IInv
  BY InitInvariant DEF CInv
<1>2. Idle.phase = "idle" /\ Idle.calm = TRUE
  BY DEF Idle
<1>3. /\ ledger = Absent /\ temps = {} /\ stopped = {} /\ fs = [q \in Paths |-> Nothing]
      /\ procs = [p \in Procs |-> Idle]
  BY DEF Init
<1>4. LedgerWhole /\ Nested
  BY <1>3 DEF LedgerWhole, Nested, Exists, IsDir, Nothing
<1>5. \A p \in Procs : Run(p).phase = "idle" /\ Run(p).calm
  BY <1>2, <1>3
<1>6. \A d : stopped # {d}
  BY <1>3
<1> QED  BY <1>1, <1>3, <1>4, <1>5, <1>6 DEF RecoveryInv, TempRecords, Recovers, RefusedRightly

\* A layout that was stopped, wherever and however often, is not refused, where
\* each directory has one spelling and the paths do not go down for ever.
THEOREM RunsRecover ==
  ASSUME OneSpelling, DeepestPath
  PROVE  Spec => []StoppedRunsRecover
<1>1. RecoveryInv /\ [Next]_vars => RecoveryInv'
  BY RecoveryStep
<1>2. RecoveryInv => StoppedRunsRecover
  BY DEF RecoveryInv, Quiet, Recovers, RefusedRightly, StoppedRunsRecover
<1> QED  BY <1>1, <1>2, RecoveryStarts, PTL DEF Spec
=============================================================================
