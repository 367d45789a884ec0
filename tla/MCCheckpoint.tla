---------------------------- MODULE MCCheckpoint ----------------------------
(***************************************************************************)
(* A small program whose checkpoint crosses processes: a leaf whose value   *)
(* an adapter freezes, a query that captures it, and one that finds it at   *)
(* run time.                                                                *)
(***************************************************************************)
EXTENDS Checkpoint

Op(op, n) == [op |-> op, arg |-> n]
Done(v) == Op("return", v)
Give(out) == IF out \in Exceptions THEN Op("raise", out) ELSE Done(out)

\* The second version of the adapter exchanges the encodings.
MCEncode(x, a) == IF a = 1 THEN x ELSE IF x = "x0" THEN "x1" ELSE "x0"
MCDecode(s, a) == MCEncode(s, a)

MCLoadOf(version, w) ==
  CASE w = "gone" -> "OSError"
    [] w = "w0" -> "x0"
    [] w = "w1" -> "x1"

Labels == <<"app", "leaf", "mid", "r", "i">>
MCRank(n) == CHOOSE k \in 1 .. Len(Labels) : Labels[k] = n

MCCaptures(q) ==
  CASE q = "leaf" -> {"r"} [] q = "mid" -> {"leaf"}
    [] q = "app" -> {}

\* leaf hands on what it loads, and its second version what the clock says; mid
\* reads it for one value of the input and turns it into a native value; app
\* looks leaf up while it runs and hands on what it returns.
MCBody(q, version, reads) ==
  LET k == Len(reads) IN
  CASE q = "leaf" -> IF k = 0 THEN IF version = 2 THEN Op("untracked", Absent) ELSE Op("resource", "r")
                     ELSE IF reads[1] \in Exceptions THEN Done("v0") ELSE Done(reads[1])
    [] q = "mid" -> IF k = 0 THEN Op("input", "i")
                    ELSE IF k = 1 /\ reads[1] = "v1" THEN Op("query", "leaf")
                    ELSE IF reads[k] \in Exceptions THEN Give(reads[k])
                    ELSE Done(IF reads[k] = "x0" THEN "v0" ELSE "v1")
    [] q = "app" -> IF k = 0 THEN Op("query", "leaf") ELSE Give(reads[1])
=============================================================================
