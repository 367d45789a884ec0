------------------------------ MODULE MCKernel ------------------------------
(***************************************************************************)
(* Small databases for the kernel: query bodies as decision trees over what *)
(* they have read.  Each instance is one of the shapes that stress a part   *)
(* of the red-green algorithm.                                              *)
(***************************************************************************)
EXTENDS FromScratch

Op(op, n) == [op |-> op, arg |-> n]
Done(v) == Op("return", v)
Throw(e) == Op("raise", e)
Ambient == [op |-> "untracked", arg |-> Absent]
\* Re-raise what the last read raised, otherwise return it.
Give(out) == IF out \in Exceptions THEN Throw(out) ELSE Done(out)
Catch(out, default) == IF out \in Exceptions THEN Done(default) ELSE Done(out)

MCLoadOf(w) == CASE w = "w0" -> "v0" [] w = "w1" -> "v1"
                 [] w = "gone" -> "OSError"
                 [] w = "noprobe" -> "DecodeError" [] w = "refuse" -> "v0"

MCEqual(n, u, v) == u = v

\* Queries sort before inputs and resources, as `__main__:q' does before
\* `file[..]' and `input[..]'.
LabelOrder ==
  <<"a", "b", "c", "clock", "const", "far", "leaf", "mid", 
    "other", "parse", "pass", "side", "soft", "top", "via", "r", "s", "i", "j">>
\* A module name past `input' in the alphabet puts them the other way round.
InputsFirst == <<"i", "j", "a", "b", "c">>
MCRankInputsFirst(n) == CHOOSE k \in 1 .. Len(InputsFirst) : InputsFirst[k] = n
MCRank(n) == CHOOSE k \in 1 .. Len(LabelOrder) : LabelOrder[k] = n

MCBody(q, reads) ==
  LET k == Len(reads) IN
  \* parse handles a failing load with an untracked read; mid reads parse only
  \* while i is v1; top reads mid and, for v1, the input as well.
  CASE q = "parse" -> IF k = 0 THEN Op("resource", "r")
                      ELSE IF reads[k] \in Exceptions THEN Ambient ELSE Done(reads[k])
    [] q = "mid" -> IF k = 0 THEN Op("input", "i")
                    ELSE IF k = 1 /\ reads[1] = "v1" THEN Op("query", "parse")
                    ELSE Give(reads[k])
    [] q = "top" -> IF k = 0 THEN Op("query", "mid")
                    ELSE IF k = 1 /\ reads[1] = "v1" THEN Op("input", "i")
                    ELSE Give(reads[k])
  \* leaf reads the resource itself, for one value of the input.
    [] q = "leaf" -> IF k = 0 THEN Op("input", "i")
                     ELSE IF k = 1 /\ reads[1] = "v1" THEN Op("resource", "r")
                     ELSE Give(reads[k])
  \* pass lets a failing load through; soft handles one, except the world that
  \* cannot be probed; side falls back from pass to soft.
    [] q = "pass" -> IF k = 0 THEN Op("resource", "r") ELSE Give(reads[1])
    [] q = "soft" -> IF k = 0 THEN Op("resource", "s")
                     ELSE IF reads[1] = "DecodeError" THEN Throw("DecodeError")
                     ELSE Catch(reads[1], "v1")
    [] q = "side" -> IF k = 0 THEN Op("query", "pass")
                     ELSE IF k = 1 /\ reads[1] \in Exceptions THEN Op("query", "soft")
                     ELSE Give(reads[k])
  \* An untracked leaf, a reader of it, and a reader of that one.
    [] q = "clock" -> IF k = 0 THEN Ambient ELSE Done(reads[1])
    [] q = "via" -> IF k = 0 THEN Op("query", "clock") ELSE Give(reads[1])
    [] q = "far" -> IF k = 0 THEN Op("query", "via") ELSE Give(reads[1])
    [] q \in {"const", "other"} -> Done("v0")
  \* Two queries, each reading the other for one value of the input only, and
  \* one that tells whether the first agrees with the second input.
    [] q = "a" -> IF k = 0 THEN Op("input", "i")
                  ELSE IF k = 1 /\ reads[1] = "v0" THEN Op("query", "b") ELSE Give(reads[k])
    [] q = "b" -> IF k = 0 THEN Op("input", "i")
                  ELSE IF k = 1 /\ reads[1] = "v1" THEN Op("query", "a") ELSE Give(reads[k])
    [] q = "c" -> IF k = 0 THEN Op("query", "a")
                  ELSE IF reads[k] \in Exceptions THEN Throw(reads[k])
                  ELSE IF k = 1 THEN Op("input", "j")
                  ELSE Done(IF reads[1] = reads[2] THEN "v1" ELSE "v0")

\* No body reads more than two nodes.
MCTraces == UNION {[1 .. n -> Outcomes] : n \in 0 .. 2}

\* The instances without eviction are among those that ReplayProofs speaks of.
ASSUME InstancesReplay == MaxQueryNodes = 0 => Exact /\ LetThrough

\* Those in which no body handles the exception of a query it calls, as side
\* does, are among those that FreshProofs speaks of.
ASSUME InstancesRepeat ==
  MaxQueryNodes = 0 /\ "side" \notin Queries => RaiseThrough /\ Split \cap Racy = {}
=============================================================================
