-------------------------- MODULE DiagnosticsFeed --------------------------
(***************************************************************************)
(* What the language server promises an editor about pushed diagnostics     *)
(* (the comments at lsp.py:404-423 and 660-663): while a workspace is open,  *)
(* a notification tells the client what the latest analysis found in one     *)
(* file.  Nothing older is sent after something newer, and nothing is sent   *)
(* once the workspace is gone.                                              *)
(***************************************************************************)
CONSTANTS Paths, Problems

VARIABLES
  open,          \* does the server have a workspace?
  analysed,      \* what the latest analysis found in each file
  view           \* what the client was last told of each file

feedVars == <<open, analysed, view>>

FeedInit ==
  /\ open = FALSE
  /\ analysed = [p \in Paths |-> {}]
  /\ view = [p \in Paths |-> {}]

OpenOrClose == open' = ~open /\ UNCHANGED <<analysed, view>>
Analyse == analysed' \in [Paths -> SUBSET Problems] /\ UNCHANGED <<open, view>>
Tell(p) ==
  /\ open
  /\ view' = [view EXCEPT ![p] = analysed[p]]
  /\ UNCHANGED <<open, analysed>>

FeedNext == OpenOrClose \/ Analyse \/ \E p \in Paths : Tell(p)
FeedSpec == FeedInit /\ [][FeedNext]_feedVars
=============================================================================
