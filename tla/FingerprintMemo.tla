--------------------------- MODULE FingerprintMemo ---------------------------
(***************************************************************************)
(* The memo of query fingerprints (runtime.py, _query_fingerprint).        *)
(*                                                                         *)
(* A database keys a query by the fingerprint of its live definition, and  *)
(* keeps the last one with an observation of everything it was folded      *)
(* from: the references below the query, the targets of the attribute      *)
(* chains read off modules, the modules' files and constants, and the      *)
(* configuration of every resource.  Between two fingerprints the program  *)
(* rebinds names and attributes; at any moment, in the middle of one too,  *)
(* an editor may save a module file.  A memo that misses a change keeps    *)
(* serving records of a definition that no longer exists.                  *)
(***************************************************************************)
EXTENDS Capture

CONSTANTS
    World,        \* the heap the program starts with
    Disk,         \* the module files as they were imported
    Roots,        \* the queries one behaviour keys: it picks one of them
    Rebindings,   \* root -> the assignments <<object, slot, value>> a program may make
    Edits,        \* root -> <<module, bytes>>: what an editor may save
    MaxWrites, MaxSaves

VARIABLES
    heap, disk,
    query,    \* the query keyed in this behaviour
    memo,     \* {} or {entry}: _query_fingerprint_memo
    kept,     \* the resource digests of the open request: <<resource, payload>>
    open,     \* a request is open
    run,      \* the fingerprint being computed
    dirty,    \* the objects rebound since the memo was stored
    writes, saves

vars == <<heap, disk, query, memo, kept, open, run, dirty, writes, saves>>

Idle == [pc |-> "idle", reads |-> {}, result |-> Refused, answer |-> Refused.p]

Init ==
    /\ heap = World /\ disk = Disk
    /\ query \in Roots
    /\ memo = {} /\ kept = {} /\ open = FALSE
    /\ run = Idle /\ dirty = {} /\ writes = 0 /\ saves = 0

(* A file once read keeps its bytes until the fingerprint ends. *)
DiskAsRead ==
    [m \in DOMAIN disk |-> IF \E r \in run.reads : r[1] = m
                           THEN (CHOOSE r \in run.reads : r[1] = m)[2] ELSE disk[m]]
Now == [heap |-> heap, disk |-> DiskAsRead]
Reading(modules) == run.reads \cup {<<m, DiskAsRead[m]>> : m \in modules}

Logged(log, kind) == {e \in log : e[1] = kind}
ModulesIn(log) == {e[2] : e \in Logged(log, "module")}

------------------------------------------------------------------------------
(* The environment *)

Busy == run.pc \notin {"idle", "answered"}

(* The program rebinds a name, an attribute, a default, a cell or a class entry. *)
Rebind ==
    /\ ~ Busy /\ ~ open /\ writes < MaxWrites
    /\ \E b \in Rebindings[query] :
          /\ heap[b[1]].slots[b[2]] # b[3]
          /\ heap' = [heap EXCEPT ![b[1]].slots[b[2]] = b[3]]
          /\ dirty' = dirty \cup {b[1]}
    /\ writes' = writes + 1 /\ run' = Idle
    /\ UNCHANGED <<disk, query, memo, kept, open, saves>>

SaveModule ==
    /\ saves < MaxSaves
    /\ \E e \in Edits[query] :
          /\ disk[e[1]] # e[2]
          /\ disk' = [disk EXCEPT ![e[1]] = e[2]]
    /\ saves' = saves + 1
    /\ UNCHANGED <<heap, query, memo, kept, open, run, dirty, writes>>

OpenRequest ==
    /\ ~ open /\ ~ Busy
    /\ open' = TRUE /\ kept' = {} /\ run' = Idle
    /\ UNCHANGED <<heap, disk, query, memo, dirty, writes, saves>>

CloseRequest ==
    /\ open /\ ~ Busy
    /\ open' = FALSE /\ kept' = {} /\ run' = Idle
    /\ UNCHANGED <<heap, disk, query, memo, dirty, writes, saves>>

------------------------------------------------------------------------------
(* One fingerprint *)

Begin ==
    /\ ~ Busy
    /\ run' = [Idle EXCEPT !.pc = "observe"]
    /\ UNCHANGED <<heap, disk, query, memo, kept, open, dirty, writes, saves>>

ChainsHold(entry) ==
    \A c \in entry.chains : ResolveModulePathTarget(Now, c[1], c[2]) = c[3]
TargetsHold(entry) ==
    entry.targets = ModuleFunctionTargetObservation(Now, {c[3] : c \in entry.chains})
StampsHold(entry) == \A s \in entry.stamps : ModuleObservationStamp(Now, s[1]) = s[2]

(* The arms of the memo's guard that only read: references, chains and module stamps. *)
ReferencesHoldMutant(entry) == entry.observation = QueryDefinitionObservation(Now, query)
ReferencesHold(entry) ==
    /\ entry.observation = QueryDefinitionObservation(Now, query)
    /\ ChainsHold(entry)
    /\ TargetsHold(entry)

Observe ==
    /\ run.pc = "observe"
    /\ LET stamped == {s[1] : s \in UNION {e.stamps : e \in {f \in memo : ReferencesHold(f)}}}
           holds == \E entry \in memo : ReferencesHold(entry) /\ StampsHold(entry)
       IN run' = [run EXCEPT !.pc = IF holds THEN "resources" ELSE "fold",
                             !.reads = Reading(stamped)]
    /\ UNCHANGED <<heap, disk, query, memo, kept, open, dirty, writes, saves>>

(* A digest kept from earlier in the request answers only when it agrees. *)
Agrees(r) == r \in kept \/ ResourceIdentityDigest(Now, r[1]).p = r[2]
IsUnreadable(r) == IsRefused(ResourceIdentityDigest(Now, r[1]))
IsItsOwnConfiguration(r) == ResourceConfiguration(Now, r[1]) = r[1]

Read(resources) ==
    IF ~ open THEN kept
    ELSE {k \in kept : k[1] \notin resources}
         \cup {<<x, ResourceIdentityDigest(Now, x).p>> :
                  x \in {y \in resources : ~ IsRefused(ResourceIdentityDigest(Now, y))}}

(* The last arm re-reads every resource's configuration: one that answers   *)
(* for itself and moved while all else held still is refused.               *)
ReadResources ==
    /\ run.pc = "resources"
    /\ \E entry \in memo :
          LET moved == {r \in entry.resources : ~ Agrees(r)}
          IN /\ \/ /\ moved = {}
                   /\ run' = [run EXCEPT !.pc = "answered", !.answer = entry.value]
                \/ \E first \in moved :
                      IF IsUnreadable(first) \/ ~ IsItsOwnConfiguration(first)
                      THEN run' = [run EXCEPT !.pc = "fold"]
                      ELSE run' = [run EXCEPT !.pc = "answered", !.answer = Leaf("raised", "").p]
             /\ kept' = Read({r[1] : r \in {s \in entry.resources : s \notin kept}})
    /\ UNCHANGED <<heap, disk, query, memo, open, dirty, writes, saves>>

FoldDefinition ==
    /\ run.pc = "fold"
    /\ LET result == Fingerprint(Now, query)
       IN run' = [run EXCEPT !.pc = IF IsRefused(result) THEN "answered" ELSE "store",
                             !.reads = Reading(ModulesIn(result.log)),
                             !.result = result,
                             !.answer = result.p]
    /\ UNCHANGED <<heap, disk, query, memo, kept, open, dirty, writes, saves>>

EntryFor(result) ==
    LET chains == {<<e[2], e[3], ResolveModulePathTarget(Now, e[2], e[3])>> :
                      e \in Logged(result.log, "chain")}
    IN [observation |-> QueryDefinitionObservation(Now, query),
        value |-> result.p,
        stamps |-> {<<m, ModuleObservationStamp(Now, m)>> : m \in ModulesIn(result.log)},
        resources |-> {<<e[2], ResourceIdentityDigest(Now, e[2]).p>> :
                          e \in Logged(result.log, "resource")},
        chains |-> chains,
        targets |-> ModuleFunctionTargetObservation(Now, {c[3] : c \in chains})]

(* The fold is kept with what it was folded from, unless it read a mutable global. *)
Store ==
    /\ run.pc = "store"
    /\ memo' = IF Logged(run.result.log, "uncacheable") # {} THEN {} ELSE {EntryFor(run.result)}
    /\ run' = [run EXCEPT !.pc = "answered", !.result = Refused]
    /\ dirty' = {}
    /\ UNCHANGED <<heap, disk, query, kept, open, writes, saves>>

Next ==
    \/ Rebind \/ SaveModule \/ OpenRequest \/ CloseRequest
    \/ Begin \/ Observe \/ ReadResources \/ FoldDefinition \/ Store

FingerprintSpec == Init /\ [][Next]_vars

------------------------------------------------------------------------------
(* Properties *)

(* The shape docs/kernel-contract.md lets escape: what lies inside a class,  *)
(* or a frozen dataclass, that an attribute chain lands on.                  *)
RECURSIVE Inside(_, _)
Inside(todo, seen) ==
    IF todo = {} THEN seen
    ELSE Inside(UNION {{heap[x].slots[k] : k \in DOMAIN heap[x].slots} : x \in todo}
                \ (seen \cup todo), seen \cup todo)
Escapes ==
    Inside({c[3] : c \in {d \in UNION {e.chains : e \in memo} :
               d[3] # Missing /\ Kind(Now, d[3]) \in TypeKinds \cup {"frozen", "tuple"}}}, {})

(* A fingerprint answered from the memo is the one a database with no memo   *)
(* computes from the definition as it stands and the file bytes this         *)
(* fingerprint read, unless the program wrote inside a landing class or      *)
(* frozen dataclass since; and where the memo refuses a resource as unstable *)
(* the program really wrote to it, or to what its configuration holds, since *)
(* the memo was stored: a module file saved meanwhile never accuses one.     *)
WarmEqualsFresh ==
    run.pc = "answered" =>
        IF run.answer.tag = "raised"
        THEN \E entry \in memo : \E r \in entry.resources : Inside({r[1]}, {}) \cap dirty # {}
        ELSE dirty \cap Escapes = {} => run.answer = Fingerprint(Now, query).p

RECURSIVE Mentions(_, _, _)
Mentions(p, tags, text) ==
    (p.tag \in tags /\ p.text = text) \/ \E kid \in p.kids : Mentions(kid[2], tags, text)

(* Every query and resource a checkpoint may restore because the root's code *)
(* pins it is folded into the root's identity: a change to its definition    *)
(* moves the root, so its saved record cannot outlive it.                    *)
PinnedIsFolded ==
    (run.pc = "answered" /\ run.answer.tag = "query-fingerprint" /\ dirty \cap Escapes = {}) =>
        \A x \in PinnedCaptures(Now, query) :
            IF Kind(Now, x) = "resource" THEN Mentions(run.answer, {"resource"}, Text(Now, x))
            ELSE Mentions(run.answer, {"function", "source-pinned-function"},
                          Text(Now, At(Now, x, Fn)))

(* explain_query_captures accepts a query whose policies fold exactly when   *)
(* the kernel's fingerprint does.                                            *)
ExplainAgrees ==
    (run.pc = "answered" /\ run.answer.tag # "raised" /\ dirty \cap Escapes = {}
       /\ \A part \in Policies(Now, query, Empty) : ~ IsRefused(part[2]))
        => (ExplainAccepts(Now, query) <=> run.answer.tag # "refused")

==============================================================================
