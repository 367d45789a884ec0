----------------------------- MODULE FromScratch -----------------------------
(***************************************************************************)
(* What the kernel promises (docs/kernel-contract.md, "The Guarantee"): the *)
(* answer of an incremental evaluation is the answer a fresh database       *)
(* computes from the same inputs and the same world.                        *)
(***************************************************************************)
EXTENDS Replay

\* A cold evaluation of q: its body run against the inputs, the world and the
\* cold results of its sub-queries; path is the stack of running queries.
RECURSIVE FreshRun(_, _, _)
FreshRun(q, reads, path) ==
  LET step == Body(q, reads)
      n == step.arg
      out == CASE step.op = "input" -> IF Known(n) THEN records[n].snapshot ELSE "KeyError"
               [] step.op = "resource" -> FreshLoad(world[n])
               [] step.op = "untracked" -> ambient
               [] step.op = "query" -> IF n \in path THEN "CycleError"
                                       ELSE FreshRun(n, <<>>, path \cup {n})
  IN IF step.op \in {"return", "raise"} THEN n ELSE FreshRun(q, Append(reads, out), path)

Fresh(n) == IF n \in Queries THEN FreshRun(n, <<>>, {n}) ELSE FreshLoad(world[n])

\* From-scratch consistency (get, read_resource): value or exception, the
\* answer is the one a fresh database gives.  The instances keep clear of three
\* cases in which it is not: a re-execution after an eviction two levels below,
\* a sub-query that raises while it is verified below a handler, and a default
\* for an input that is not set.
FromScratchConsistency == Answered => ctl.result = Fresh(ctl.key)

\* The part of it about answers that are values: a stored value is never
\* served once a fresh evaluation would give another one.
ValueConsistency ==
  Answered /\ ctl.result \in Values => ctl.result = Fresh(ctl.key)

\* Every call of a client is answered (no circular wait, no endless
\* verification), however the world moves.
EveryCallReturns == \A t \in Threads : holder = t ~> holder # t
=============================================================================
