-------------------------- MODULE MCLanguageServer --------------------------
(***************************************************************************)
(* A workspace of a module, requirements.txt, and a file of another name     *)
(* that requirements.txt may include.  The module imports what that file     *)
(* declares.                                                               *)
(***************************************************************************)
EXTENDS LanguageServer

ThreeFiles == {"mod", "req", "extra"}
\* The module's texts: "far" has a problem late in the text, "near" is short,
\* has one at its start and does not parse.
ModuleTexts == {"far", "near"}
FiveTexts == ModuleTexts \cup {"plain", "includes", "pins"}
TextsOfFile(p) == IF p = "mod" THEN ModuleTexts
                  ELSE IF p = "req" THEN {"plain", "includes"} ELSE {"pins"}
Started == {[mod |-> "far", req |-> "plain", extra |-> "pins"]}
Includes(text) == IF text = "includes" THEN {"extra"} ELSE {}
ThreeProblems == {"late", "early", "undeclared"}
ReportedIn(p, files) ==
  IF p # "mod" THEN {}
  ELSE (IF files[p] = "far" THEN {"late"} ELSE IF files[p] = "near" THEN {"early"} ELSE {})
       \cup (IF files[p] # Missing /\ files["extra"] = Missing THEN {"undeclared"} ELSE {})
WithinText(problem, text) == problem = "late" => text = "far"
IsParsed(text) == text # "near"
Alphabetic(p) == IF p = "extra" THEN 0 ELSE IF p = "mod" THEN 1 ELSE 2

\* The instance is among the workspaces that EditProofs speaks of.
ASSUME InstanceFollows == Followable
=============================================================================
