------------------------------ MODULE MCAction ------------------------------
(***************************************************************************)
(* A small root for TLC: a path, one below it, and a spelling of the first  *)
(* that a case-insensitive file system confuses.                            *)
(***************************************************************************)
EXTENDS Action

Tree == {<<"p">>, <<"p", "m">>, <<"P">>}

\* The empty layout, p as a file with either content, p as a package, and p
\* spelled otherwise.
TreeLayouts ==
  {NoOutputs} \cup [{<<"p">>} -> Contents] \cup [{<<"p", "m">>} -> {"x"}]
  \cup [{<<"P">>} -> {"x"}]

Lower(name) == IF name = "P" THEN "p" ELSE name
PortableKey(q) == [k \in DOMAIN q |-> Lower(q[k])]
\* Capitals sort before small letters, a directory before what is in it.
SortRank(q) == IF q[1] = "P" THEN 0 ELSE Len(q)

TwoLocks == <<"lock1", "lock2">>
ProcSymmetry == Permutations(Procs)

\* The paths of the instance are such that stopped runs recover.
ASSUME InstanceRecovers == OneSpelling /\ DeepestPath
=============================================================================
