------------------------------- MODULE Capture -------------------------------
(***************************************************************************)
(* Query identity: how the kernel folds a query's live definition into a   *)
(* fingerprint (runtime.py, _query_fingerprint and every payload builder   *)
(* below it), and which part of that definition the memo of fingerprints   *)
(* observes (_query_definition_observation and the arms beside it).        *)
(*                                                                         *)
(* A world w is a Python heap and the bytes of the module files:           *)
(*   w.heap[x] = [kind, text, home, slots]: what object x is, its          *)
(*     immutable content (the value of a scalar, a key, a qualified name), *)
(*     the name of its defining module, and its references, a function     *)
(*     from <<group, name>> to objects;                                    *)
(*   w.disk[m] = the bytes module m's file holds, or "unreadable".         *)
(* The groups of slots are: "default", "capture" (closure cells and        *)
(* globals), "state" (instance or function attributes), "note"             *)
(* (annotations), "annotate" (a lazy annotation evaluator), "parameter"    *)
(* (type parameters), "code", "contract" (a query's or an input's fn, eq   *)
(* and cutoff), "attr" (a namespace entry of a module or a class), "base", *)
(* "field", "slot" (__slots__), "item", "func", "self", "value",           *)
(* "evaluate", "type", "identity", "import", "meta" and "module".          *)
(*                                                                         *)
(* A fold answers a payload, a tree of [tag, text, kids], and a log of     *)
(* what the fingerprint collectors were handed on the way.  Hashing the    *)
(* payload is taken to be injective, so payloads are compared where the    *)
(* code compares digests.                                                  *)
(***************************************************************************)
EXTENDS Naturals, Sequences, FiniteSets

CONSTANTS
    Codes,   \* code text -> [reflective, notes, names, paths, dynamic]
    Steps    \* path name -> the attribute names it spells

None == "None"
Missing == "missing"
SysModules == "sys.modules"

TypeKinds == {"class", "localclass", "stdclass", "kernelclass", "builtinclass"}

Kind(w, x) == w.heap[x].kind
Text(w, x) == w.heap[x].text
Home(w, x) == w.heap[x].home
At(w, x, k) == w.heap[x].slots[k]
Slots(w, x, groups) == {k \in DOMAIN w.heap[x].slots : k[1] \in groups}
Has(w, x, k) == k \in DOMAIN w.heap[x].slots
CodeOf(w, f) == Codes[Text(w, At(w, f, <<"code", "">>))]
TypeOf(w, x) == At(w, x, <<"type", "">>)

(* What an attribute name, or a module name, is bound to now. *)
Attr(w, x, name) ==
    IF Has(w, x, <<"attr", name>>) THEN At(w, x, <<"attr", name>>) ELSE Missing
LoadedAs(w, name) ==
    IF Has(w, SysModules, <<"module", name>>) THEN At(w, SysModules, <<"module", name>>)
                                              ELSE Missing

------------------------------------------------------------------------------
(* Payloads *)

Leaf(tag, text) == [p |-> [tag |-> tag, text |-> text, kids |-> {}], log |-> {}]
Refused == Leaf("refused", "")
IsRefused(r) == r.p.tag = "refused"

(* A payload over parts, a set of <<key, result>>: one refused part refuses it. *)
Fold(tag, text, parts) ==
    [p |-> IF \E part \in parts : IsRefused(part[2]) THEN Refused.p
           ELSE [tag |-> tag, text |-> text,
                 kids |-> {<<part[1], part[2].p>> : part \in parts}],
     log |-> UNION {part[2].log : part \in parts}]

Noting(r, entries) == [r EXCEPT !.log = @ \cup entries]
Part(name, r) == <<<<"part", name>>, r>>

(* The stacks that stop a walk: functions on the current walk, and the     *)
(* query handles, policies, types, modules, callables, resources, captured *)
(* containers and annotation evaluators being folded.                      *)
Empty == [fns |-> {}, handles |-> {}, policies |-> {}, types |-> {}, modules |-> {},
          callables |-> {}, resources |-> {}, active |-> {}, notes |-> {}]
FreshFunctions(st) == [st EXCEPT !.fns = {}]
FreshCaptures(st) == [st EXCEPT !.active = {}]

------------------------------------------------------------------------------
(* Modules *)

(* A module-level constant: scalars, and tuples and frozensets of them. *)
RECURSIVE ModuleConstantPayload(_, _, _)
ModuleConstantPayload(w, x, active) ==
    CASE Kind(w, x) \in {"scalar", "none"} -> Leaf("constant", Text(w, x))
      [] Kind(w, x) = "tuple" /\ x \notin active /\ ~ Has(w, x, <<"type", "">>) ->
            Fold("tuple", "",
                 {<<k, ModuleConstantPayload(w, At(w, x, k), active \cup {x})>> :
                     k \in Slots(w, x, {"item"})})
      [] OTHER -> Refused

(* The constants a namespace contributes: whatever the payload cannot fold is skipped. *)
ModuleConstantsPayload(w, m) ==
    {part \in {<<k, ModuleConstantPayload(w, At(w, m, k), {})>> : k \in Slots(w, m, {"attr"})} :
        ~ IsRefused(part[2])}

Spec(w, m) == At(w, m, <<"import", "__spec__">>)

(* A module the runtime build identity pins: built-in, frozen or of the standard library. *)
IsRuntimePinnedModule(w, m) == Text(w, Spec(w, m)) \in {"built-in", "stdlib"}

(* A module whose sys.modules binding, spec, loader and package agree. *)
IsTrustworthy(w, m) == LoadedAs(w, Text(w, m)) = m /\ Kind(w, Spec(w, m)) = "spec"

ModuleSourceDigest(w, m) ==
    IF w.disk[m] = "unreadable" THEN Refused ELSE Leaf("file-sha256", w.disk[m])

(* What a captured module contributes: version and __all__, file bytes, constants. *)
ModuleIdentityPayload(w, m) ==
    Noting(
        IF ~ IsTrustworthy(w, m) THEN Refused
        ELSE Fold("module", Text(w, m),
                  {<<k, ModuleConstantPayload(w, At(w, m, k), {})>> : k \in Slots(w, m, {"meta"})}
                  \cup (IF Text(w, Spec(w, m)) = "built-in" THEN {}
                        ELSE {Part("file", ModuleSourceDigest(w, m))})
                  \cup (IF IsRuntimePinnedModule(w, m) THEN {} ELSE ModuleConstantsPayload(w, m))),
        {<<"module", m, "">>})

(* The token a memo compares before it trusts a folded module again. *)
ModuleObservationStamp(w, m) ==
    [live |-> LoadedAs(w, Text(w, m)) = m,
     spec |-> Spec(w, m),
     meta |-> {<<k, ModuleConstantPayload(w, At(w, m, k), {}).p>> : k \in Slots(w, m, {"meta"})},
     source |-> IF Text(w, Spec(w, m)) = "built-in" THEN "runtime-module" ELSE w.disk[m],
     constants |-> IF IsRuntimePinnedModule(w, m) THEN {}
                   ELSE {<<part[1], part[2].p>> : part \in ModuleConstantsPayload(w, m)}]

(* The object a static attribute chain names now; the walk stops at the first non-module. *)
RECURSIVE ResolveFrom(_, _, _)
ResolveFrom(w, x, steps) ==
    IF steps = <<>> \/ x = Missing \/ (x # Missing /\ Kind(w, x) # "module") THEN x
    ELSE ResolveFrom(w, Attr(w, x, Head(steps)), Tail(steps))
ResolveModulePathTarget(w, m, path) == ResolveFrom(w, m, Steps[path])

(* The modules whose namespace a chain reads. *)
RECURSIVE RouteFrom(_, _, _)
RouteFrom(w, x, steps) ==
    IF steps = <<>> \/ x = Missing \/ (x # Missing /\ Kind(w, x) # "module") THEN {}
    ELSE {x} \cup RouteFrom(w, Attr(w, x, Head(steps)), Tail(steps))

------------------------------------------------------------------------------
(* Types pinned by name *)

(* The object a type's defining module binds under its qualified name. *)
LiveTypeBinding(w, c) ==
    IF LoadedAs(w, Home(w, c)) = Missing THEN Missing
    ELSE Attr(w, LoadedAs(w, Home(w, c)), Text(w, c))

ModuleTypeAnchorPayload(w, c) ==
    IF LoadedAs(w, Home(w, c)) = Missing THEN Refused
    ELSE IF LiveTypeBinding(w, c) # c THEN Refused
    ELSE Fold("module-type-anchor", Text(w, c),
              {Part("module", ModuleIdentityPayload(w, LoadedAs(w, Home(w, c))))})

(* A guard wrapper is the standard-library callable it guards. *)
GuardedNamePayload(w, x) ==
    IF LoadedAs(w, Home(w, x)) = Missing THEN Refused
    ELSE Fold("guarded-standard-name", Text(w, x),
              {Part("module", ModuleIdentityPayload(w, LoadedAs(w, Home(w, x))))})

HasSlotState(w, c) == Slots(w, c, {"slot"}) # {}

------------------------------------------------------------------------------
(* The fold.  Each builder below is one payload builder of the kernel; the  *)
(* ones that call each other in a circle do so through Payload.             *)

RECURSIVE Payload(_, _, _, _, _, _)

FunctionDefinitionPayload(w, f, st) == Payload("function", w, f, "", "", st)
FreezeAnnotationCapture(w, x, st) == Payload("annotation", w, x, "", "", st)
LocalImplementationTypePayload(w, c, st) == Payload("type", w, c, "", "", st)
PolicyDefinitionPayload(w, x, st) == Payload("policy", w, x, "", "", st)
CapturedDependencyDigest(w, name, x, owner, st) == Payload("dependency", w, x, name, owner, st)
FreezeCapturedImmutable(w, name, x, owner, st) == Payload("immutable", w, x, name, owner, st)
CapturedModulePayload(w, m, name, owner, st) == Payload("module", w, m, name, owner, st)
ResourceIdentityPayload(w, x, st) == Payload("resource", w, x, "", "", st)
FreezeStaticCapture(w, x, st) == Payload("static", w, x, "", "", st)

ImplementationTypePayload(w, c, st) ==
    IF Kind(w, c) = "builtinclass" THEN Leaf("builtin-type", Text(w, c))
    ELSE LocalImplementationTypePayload(w, c, st)

TypeDefinitionPayload(w, c, st) ==
    CASE Kind(w, c) = "builtinclass" -> Leaf("builtin-type", Text(w, c))
      [] Kind(w, c) = "localclass" -> Refused
      [] Kind(w, c) = "stdclass" -> ModuleTypeAnchorPayload(w, c)
      [] OTHER -> LocalImplementationTypePayload(w, c, st)

ImplementationDependencyTypePayload(w, c, st) ==
    CASE Kind(w, c) = "builtinclass" -> Leaf("builtin-type", Text(w, c))
      [] Kind(w, c) = "stdclass" -> ModuleTypeAnchorPayload(w, c)
      [] OTHER -> LocalImplementationTypePayload(w, c, st)

(* The parts of x's slots in some groups, each folded as a captured dependency. *)
Captures(w, x, groups, owner, st) ==
    {<<k, CapturedDependencyDigest(w, k[2], At(w, x, k), owner, st)>> : k \in Slots(w, x, groups)}

Notes(w, x, groups, st) ==
    {<<k, FreezeAnnotationCapture(w, At(w, x, k), st)>> : k \in Slots(w, x, groups)}

Statics(w, x, groups, st) ==
    {<<k, FreezeStaticCapture(w, At(w, x, k), st)>> : k \in Slots(w, x, groups)}

CodeDefinitionPayload(w, f) == Leaf("code", Text(w, At(w, f, <<"code", "">>)))

AnnotationEvaluatorPayload(w, e, st) ==
    IF CodeOf(w, e).reflective THEN Refused
    ELSE IF e \in st.notes THEN Leaf("recursive-annotation-evaluator", Text(w, e))
    ELSE Fold("annotation-evaluator", Text(w, e),
              {Part("code", CodeDefinitionPayload(w, e))}
              \cup Notes(w, e, {"capture"}, [st EXCEPT !.notes = @ \cup {e}]))

(* Annotations fold as captures when the body can read them back. *)
FunctionMetadataPayload(w, f, st) ==
    Fold("function-metadata", "",
         (IF CodeOf(w, f).notes THEN Captures(w, f, {"note"}, f, st)
                                ELSE Notes(w, f, {"note"}, [st EXCEPT !.notes = {}]))
         \cup {<<k, IF Kind(w, At(w, f, k)) = "function"
                    THEN AnnotationEvaluatorPayload(w, At(w, f, k), [st EXCEPT !.notes = {}])
                    ELSE Refused>> : k \in Slots(w, f, {"annotate"})}
         \cup Captures(w, f, {"state"}, f, st)
         \cup Notes(w, f, {"parameter"}, [st EXCEPT !.notes = {}]))

DefinitionOf(w, f, st) ==
    Fold("function", Text(w, f),
         {Part("code", CodeDefinitionPayload(w, f)),
          Part("metadata", FunctionMetadataPayload(w, f, st))}
         \cup Captures(w, f, {"default", "capture"}, f, st))

FunctionDefinition(w, f, st) ==
    IF Kind(w, f) = "guarded" THEN GuardedNamePayload(w, f)
    ELSE IF CodeOf(w, f).reflective THEN Refused
    ELSE IF f \in st.fns THEN Leaf("recursive-function", Text(w, f))
    ELSE DefinitionOf(w, f, [st EXCEPT !.fns = @ \cup {f}])

AnnotationCapture(w, x, st) ==
    CASE Kind(w, x) \in {"scalar", "none"} -> Leaf("value", Text(w, x))
      [] Kind(w, x) = "localclass" -> Refused
      [] Kind(w, x) = "builtinclass" -> Leaf("annotation-type", Text(w, x))
      [] Kind(w, x) \in {"stdclass", "kernelclass"} -> ModuleTypeAnchorPayload(w, x)
      [] Kind(w, x) = "class" -> TypeDefinitionPayload(w, x, st)
      [] Kind(w, x) = "module" -> ModuleIdentityPayload(w, x)
      [] Kind(w, x) \in {"generic", "tuple"} ->
            Fold(Kind(w, x), "annotation", Notes(w, x, {"item"}, st))
      [] Kind(w, x) = "alias" ->
            Fold("annotation-type-alias", Text(w, x),
                 Notes(w, x, {"parameter"}, st)
                 \cup (IF Slots(w, x, {"evaluate"}) # {}
                       THEN {<<k, AnnotationEvaluatorPayload(w, At(w, x, k), st)>> :
                                k \in Slots(w, x, {"evaluate"})}
                       ELSE Notes(w, x, {"value"}, st)))
      [] Kind(w, x) = "typevar" ->
            IF x \in st.notes THEN Leaf("recursive-annotation-parameter", Text(w, x))
            ELSE Fold("annotation-parameter", Text(w, x),
                      Notes(w, x, {"value"}, [st EXCEPT !.notes = @ \cup {x}])
                      \cup {<<k, AnnotationEvaluatorPayload(w, At(w, x, k),
                                     [st EXCEPT !.notes = @ \cup {x}])>> :
                               k \in Slots(w, x, {"evaluate"})})
      [] OTHER -> Refused

(* The handle's own state; __wrapped__ is a marker while it still names fn. *)
Fn == <<"contract", "fn">>

Wrapped == <<"wrapped", "__wrapped__">>

HandleWrappedPayload(w, q, st) ==
    IF At(w, q, Wrapped) = At(w, q, Fn) THEN Leaf("wrapped-is-fn", "")
    ELSE CapturedDependencyDigest(w, "__wrapped__", At(w, q, Wrapped), At(w, q, Fn), st)

QueryHandleStatePayload(w, q, st) ==
    IF q \in st.handles THEN Leaf("recursive-query-handle", Text(w, q))
    ELSE Fold("query-handle", "",
              {Part("wrapped",
                    HandleWrappedPayload(w, q, [st EXCEPT !.handles = @ \cup {q}]))}
              \cup Notes(w, q, {"note", "parameter"}, [st EXCEPT !.handles = @ \cup {q},
                                                                 !.notes = {}])
              \cup Captures(w, q, {"state"}, At(w, q, Fn), [st EXCEPT !.handles = @ \cup {q}]))

Policies(w, x, st) ==
    {<<k, PolicyDefinitionPayload(w, At(w, x, k), st)>> :
        k \in Slots(w, x, {"contract"}) \ {Fn}}

CapturedQueryPayload(w, q, st) ==
    Fold("query", Text(w, q),
         {Part("fn", FunctionDefinitionPayload(w, At(w, q, Fn), st)),
          Part("handle", QueryHandleStatePayload(w, q, st))}
         \cup Policies(w, q, st))

CapturedInputPayload(w, x, st) == Fold("input", Text(w, x), Policies(w, x, st))

------------------------------------------------------------------------------
(* Types folded by body *)

(* The functions a class body binds, directly or behind a descriptor. *)
BodyFunctions(w, c) ==
    LET bound == {At(w, c, k) : k \in Slots(w, c, {"attr"})}
    IN {x \in bound : Kind(w, x) = "function"}
       \cup UNION {{At(w, x, k) : k \in Slots(w, x, {"func"})} :
                      x \in {y \in bound : Kind(w, y) = "descriptor"}}

ReferencedNames(w, c) ==
    UNION {CodeOf(w, f).names : f \in {g \in BodyFunctions(w, c) : Kind(w, g) = "function"}}

TypeAttributePayload(w, x, st) ==
    CASE Kind(w, x) \in {"function", "guarded"} -> FunctionDefinitionPayload(w, x, st)
      [] Kind(w, x) = "descriptor" ->
            Fold("descriptor", Text(w, x),
                 {<<k, IF Kind(w, At(w, x, k)) \in {"function", "guarded"}
                       THEN FunctionDefinitionPayload(w, At(w, x, k), st) ELSE Refused>> :
                     k \in Slots(w, x, {"func"})})
      [] Kind(w, x) \in TypeKinds -> ImplementationDependencyTypePayload(w, x, st)
      [] OTHER -> FreezeStaticCapture(w, x, FreshCaptures(st))

(* A value the fold cannot take is left out of a class no body reads it from. *)
Kept(w, c, parts) ==
    {part \in parts :
        \/ ~ IsRefused(part[2])
        \/ Kind(w, c) = "localclass"
        \/ Kind(w, At(w, c, part[1])) \in {"function", "guarded", "descriptor"} \cup TypeKinds
        \/ part[1][2] \in ReferencedNames(w, c)}

(* The fields of a dataclass: their annotation, default and default factory. *)
DataclassBehaviorPayload(w, c, st) ==
    Fold("dataclass-behavior", "",
         {<<k, Fold("field", Text(w, At(w, c, k)),
                    Notes(w, At(w, c, k), {"note"}, [st EXCEPT !.notes = {}])
                    \cup Statics(w, At(w, c, k), {"default"}, FreshCaptures(st))
                    \cup {<<j, PolicyDefinitionPayload(w, At(w, At(w, c, k), j), st)>> :
                             j \in Slots(w, At(w, c, k), {"factory"})})>> :
             k \in Slots(w, c, {"field"})})

BodyPayload(w, c, st, parts) ==
    Noting(Fold("implementation-type", Text(w, c),
                {Part("anchor", IF Kind(w, c) = "localclass" THEN Leaf("local-type-anchor", "")
                                ELSE ModuleTypeAnchorPayload(w, c)),
                 Part("dataclass", DataclassBehaviorPayload(w, c, st))}
                \cup {<<k, ImplementationDependencyTypePayload(w, At(w, c, k), st)>> :
                         k \in Slots(w, c, {"base"})}
                \cup Kept(w, c, parts)),
           UNION {part[2].log : part \in parts})

LocalImplementationType(w, c, st) ==
    IF c \in st.types THEN Leaf("recursive-type", Text(w, c))
    ELSE BodyPayload(w, c, [FreshFunctions(st) EXCEPT !.types = @ \cup {c}],
             {<<k, TypeAttributePayload(w, At(w, c, k),
                       [FreshFunctions(st) EXCEPT !.types = @ \cup {c}])>> :
                 k \in Slots(w, c, {"attr"})})

------------------------------------------------------------------------------
(* Policies *)

CallOf(w, x) == Attr(w, TypeOf(w, x), "__call__")

PolicyInstanceStatePayload(w, x, st) ==
    IF HasSlotState(w, TypeOf(w, x)) THEN Refused
    ELSE Fold("state", "", Statics(w, x, {"state"}, FreshCaptures(st)))

PolicyBoundOwnerPayload(w, x, allowState, st) ==
    CASE Kind(w, x) = "module" -> ModuleIdentityPayload(w, x)
      [] Kind(w, x) \in TypeKinds -> TypeDefinitionPayload(w, x, st)
      [] Kind(w, x) = "callable" /\ ~ allowState -> Refused
      [] OTHER -> Fold("instance", "",
                       {Part("type", ImplementationTypePayload(w, TypeOf(w, x), st)),
                        Part("state", IF Kind(w, x) = "frozen"
                                      THEN FreezeStaticCapture(w, x, FreshCaptures(st))
                                      ELSE PolicyInstanceStatePayload(w, x, st))})

PolicyOf(w, x, st) ==
    CASE Kind(w, x) = "none" -> Leaf("default-semantic-equality", "")
      [] Kind(w, x) \in {"function", "guarded"} ->
            Fold("function-policy", "", {Part("fn", FunctionDefinitionPayload(w, x, st))})
      [] Kind(w, x) = "method" ->
            Fold("bound-policy", "",
                 {Part("fn", FunctionDefinitionPayload(w, At(w, x, <<"func", "">>), st)),
                  Part("owner", PolicyBoundOwnerPayload(w, At(w, x, <<"self", "">>), TRUE, st))})
      [] Kind(w, x) = "builtin" ->
            Fold("builtin-policy", Text(w, x),
                 {<<k, PolicyBoundOwnerPayload(w, At(w, x, k), FALSE, st)>> :
                     k \in Slots(w, x, {"self"})})
      [] Kind(w, x) \in {"callable", "frozen"} /\ CallOf(w, x) # Missing ->
            IF Kind(w, CallOf(w, x)) # "function" THEN Refused
            ELSE Fold("callable-policy", "",
                      {Part("type", ImplementationTypePayload(w, TypeOf(w, x), st)),
                       Part("call", FunctionDefinitionPayload(w, CallOf(w, x), st)),
                       Part("state", PolicyInstanceStatePayload(w, x, st))})
      [] OTHER -> Refused

PolicyDefinition(w, x, st) ==
    IF x \in st.policies THEN Leaf("recursive-policy", Text(w, x))
    ELSE PolicyOf(w, x, [FreshFunctions(st) EXCEPT !.policies = @ \cup {x}])

------------------------------------------------------------------------------
(* Captured functions, callables and immutable values *)

RECURSIVE FreezeMutable(_, _)
FreezeMutable(w, x) ==
    CASE Kind(w, x) \in {"scalar", "none"} -> Leaf("value", Text(w, x))
      [] Kind(w, x) \in {"mutable", "tuple"} ->
            Fold("frozen", Kind(w, x),
                 {<<k, FreezeMutable(w, At(w, x, k))>> : k \in Slots(w, x, {"item"})})
      [] OTHER -> Refused

SourcePinnedTypePayload(w, c) ==
    Noting(IF LoadedAs(w, Home(w, c)) = Missing THEN Refused
           ELSE Fold("source-pinned-module-type", Text(w, c),
                     {Part("module", ModuleIdentityPayload(w, LoadedAs(w, Home(w, c))))}),
           {<<"uncacheable", "", "">>})

OrSourceGlobal(w, x, digest) ==
    CASE ~ IsRefused(digest) -> digest
      [] Kind(w, x) \in TypeKinds \ {"localclass"} ->
            Noting(SourcePinnedTypePayload(w, x), digest.log)
      [] Kind(w, x) = "mutable" ->
            Noting(Fold("source-pinned-mutable-module-global", "",
                        {Part("value", FreezeMutable(w, x))}),
                   digest.log \cup {<<"uncacheable", "", "">>})
      [] OTHER -> digest

SourcePinnedGlobalPayload(w, name, x, f, st) ==
    OrSourceGlobal(w, x, CapturedDependencyDigest(w, name, x, f, st))

(* A function whose ambient globals are mutable, pinned by its module's source. *)
SourcePinnedFunctionPayload(w, f, st) ==
    IF CodeOf(w, f).reflective \/ LoadedAs(w, Home(w, f)) = Missing THEN Refused
    ELSE Fold("source-pinned-function", Text(w, f),
              {Part("module", ModuleIdentityPayload(w, LoadedAs(w, Home(w, f)))),
               Part("code", CodeDefinitionPayload(w, f)),
               Part("metadata", FunctionMetadataPayload(w, f, [st EXCEPT !.fns = @ \cup {f}]))}
              \cup Captures(w, f, {"default"}, f, [st EXCEPT !.fns = @ \cup {f}])
              \cup {<<k, SourcePinnedGlobalPayload(w, k[2], At(w, f, k), f,
                            [st EXCEPT !.fns = @ \cup {f}])>> : k \in Slots(w, f, {"capture"})})

(* A definition that refuses is pinned by its source instead. *)
OrSource(w, f, st, definition) ==
    IF IsRefused(definition)
    THEN Noting(SourcePinnedFunctionPayload(w, f, st), definition.log) ELSE definition

DefinitionOrSource(w, f, st) == OrSource(w, f, st, FunctionDefinitionPayload(w, f, st))

CapturedFunctionPayload(w, f, st) ==
    IF LoadedAs(w, Home(w, f)) = Missing THEN Refused
    ELSE Fold("captured-function", "",
              {Part("module", ModuleIdentityPayload(w, LoadedAs(w, Home(w, f)))),
               Part("definition", DefinitionOrSource(w, f, st))})

CapturedInstanceDictPayload(w, name, x, owner, st) ==
    IF HasSlotState(w, TypeOf(w, x)) THEN Refused
    ELSE Fold("state", "",
              {<<k, FreezeCapturedImmutable(w, name, At(w, x, k), owner, st)>> :
                  k \in Slots(w, x, {"state", "wrapped"})})

(* A wraps-style callable object: its __call__, its state and what it wraps. *)
WrappedCallablePayload(w, x, owner, st) ==
    IF CallOf(w, x) = Missing \/ Kind(w, CallOf(w, x)) # "function" \/ x \in st.callables
    THEN Refused
    ELSE Fold("wrapped-callable", "",
              {Part("type", ImplementationTypePayload(w, TypeOf(w, x), st)),
               Part("call", FunctionDefinitionPayload(w, CallOf(w, x),
                                [st EXCEPT !.callables = @ \cup {x}])),
               Part("state", CapturedInstanceDictPayload(w, "", x, owner,
                                [FreshCaptures(st) EXCEPT !.callables = @ \cup {x}])),
               Part("wrapped", FunctionDefinitionPayload(w, At(w, x, Wrapped),
                                [st EXCEPT !.callables = @ \cup {x}]))})

DependencyKinds ==
    {"guarded", "query", "input", "module", "function", "method", "builtin", "resource", "callable"}
    \cup TypeKinds

BoundPythonMethodPayload(w, x, name, owner, st) ==
    LET f == At(w, x, <<"func", "">>)
        self == At(w, x, <<"self", "">>)
    IN CASE Kind(w, f) \notin {"function", "guarded"} -> Refused
         [] Kind(w, f) = "guarded" /\ Kind(w, self) \in TypeKinds ->
               Fold("bound-guarded-standard-name", "",
                    {Part("fn", GuardedNamePayload(w, f)),
                     Part("owner", ImplementationDependencyTypePayload(w, self, st))})
         [] OTHER ->
               Fold("bound-python-method", "",
                    {Part("definition", DefinitionOrSource(w, f, st))}
                    \cup (CASE Kind(w, self) = "module" ->
                                 {Part("owner", CapturedModulePayload(w, self, name, owner, st))}
                            [] Kind(w, self) \in TypeKinds ->
                                 {Part("owner", ImplementationTypePayload(w, self, st))}
                            [] OTHER ->
                                 {Part("type", ImplementationTypePayload(w, TypeOf(w, self), st)),
                                  Part("owner", FreezeCapturedImmutable(w, name, self, owner,
                                                    FreshCaptures(st)))}))

BuiltinFunctionPayload(w, x, st) ==
    Fold("builtin", Text(w, x),
         {<<k, CASE Kind(w, At(w, x, k)) = "module" -> ModuleIdentityPayload(w, At(w, x, k))
                 [] Kind(w, At(w, x, k)) \in TypeKinds -> TypeDefinitionPayload(w, At(w, x, k), st)
                 [] OTHER -> FreezeStaticCapture(w, At(w, x, k), FreshCaptures(st))>> :
             k \in Slots(w, x, {"self"})})

(* An immutable capture: tuples, frozensets, slices and frozen dataclasses of captures. *)
CapturedImmutable(w, name, x, owner, st) ==
    CASE Kind(w, x) \in DependencyKinds -> CapturedDependencyDigest(w, name, x, owner, st)
      [] Kind(w, x) \in {"tuple", "frozen"} /\ x \in st.active -> Refused
      [] Kind(w, x) = "tuple" ->
            Fold("capture-tuple", "",
                 {<<k, FreezeCapturedImmutable(w, name, At(w, x, k), owner,
                          [st EXCEPT !.active = @ \cup {x}])>> : k \in Slots(w, x, {"item"})}
                 \cup (IF ~ Has(w, x, <<"type", "">>) THEN {}
                       ELSE {Part("type", TypeDefinitionPayload(w, TypeOf(w, x), st)),
                             Part("state", CapturedInstanceDictPayload(w, name, x, owner,
                                               [st EXCEPT !.active = @ \cup {x}]))}))
      [] Kind(w, x) = "frozen" ->
            IF HasSlotState(w, TypeOf(w, x)) THEN Refused
            ELSE Fold("capture-frozen-dataclass", "",
                      {Part("type", TypeDefinitionPayload(w, TypeOf(w, x), st))}
                      \cup {<<k, FreezeCapturedImmutable(w, name, At(w, x, k), owner,
                                    [st EXCEPT !.active = @ \cup {x}])>> :
                               k \in Slots(w, x, {"state"})})
      [] OTHER -> FreezeStaticCapture(w, x, st)

DependencyDigest(w, name, x, owner, st) ==
    CASE Kind(w, x) = "guarded" -> GuardedNamePayload(w, x)
      [] Kind(w, x) = "query" -> CapturedQueryPayload(w, x, st)
      [] Kind(w, x) = "input" -> CapturedInputPayload(w, x, st)
      [] Kind(w, x) = "resource" -> ResourceIdentityPayload(w, x, st)
      [] Kind(w, x) = "module" -> CapturedModulePayload(w, x, name, owner, st)
      [] Kind(w, x) = "function" -> CapturedFunctionPayload(w, x, st)
      [] Kind(w, x) = "method" -> BoundPythonMethodPayload(w, x, name, owner, st)
      [] Kind(w, x) = "builtin" -> BuiltinFunctionPayload(w, x, st)
      [] Kind(w, x) = "localclass" /\ st.types # {} -> ImplementationTypePayload(w, x, st)
      [] Kind(w, x) \in TypeKinds -> TypeDefinitionPayload(w, x, st)
      [] Kind(w, x) = "callable" -> WrappedCallablePayload(w, x, owner, st)
      [] OTHER -> FreezeCapturedImmutable(w, name, x, owner, FreshCaptures(st))

------------------------------------------------------------------------------
(* Modules captured for the attributes a body reads off them *)

ModuleAccessPaths(w, owner, name) == {a[2] : a \in {b \in CodeOf(w, owner).paths : b[1] = name}}

IsDynamicAccess(w, owner, name) == name \in CodeOf(w, owner).dynamic

(* Of a pinned module, the constants the accessed paths land on; an empty path is recorded. *)
AccessedPathConstant(w, m, path) ==
    IF ResolveModulePathTarget(w, m, path) = Missing THEN Refused
    ELSE ModuleConstantPayload(w, ResolveModulePathTarget(w, m, path), {})

AccessedPathConstantsPayload(w, m, paths) ==
    Noting(Fold("accessed-constants", "",
                {part \in {<<<<"path", p>>, AccessedPathConstant(w, m, p)>> : p \in paths} :
                    ~ IsRefused(part[2])}),
           {<<"chain", m, p>> : p \in {r \in paths :
                ResolveModulePathTarget(w, m, r) = Missing
                \/ ~ IsRefused(AccessedPathConstant(w, m, r))}})

ModuleAttributePayload(w, x, owner, st) ==
    CASE Kind(w, x) = "guarded" -> GuardedNamePayload(w, x)
      [] Kind(w, x) = "method" ->
            IF Kind(w, At(w, x, <<"func", "">>)) = "guarded"
            THEN BoundPythonMethodPayload(w, x, "", owner, st) ELSE Refused
      [] Kind(w, x) = "query" -> CapturedQueryPayload(w, x, st)
      [] Kind(w, x) = "input" -> CapturedInputPayload(w, x, st)
      [] Kind(w, x) = "module" -> ModuleIdentityPayload(w, x)
      [] Kind(w, x) = "function" -> CapturedFunctionPayload(w, x, st)
      [] Kind(w, x) = "builtin" -> BuiltinFunctionPayload(w, x, st)
      [] Kind(w, x) \in TypeKinds -> TypeDefinitionPayload(w, x, st)
      [] Kind(w, x) = "resource" -> ResourceIdentityPayload(w, x, st)
      [] Kind(w, x) = "callable" -> WrappedCallablePayload(w, x, owner, st)
      [] OTHER -> FreezeStaticCapture(w, x, FreshCaptures(st))

CapturedModulePathPayload(w, m, path, owner, st) ==
    IF ResolveModulePathTarget(w, m, path) = Missing THEN Refused
    ELSE Noting(Fold("module-path", "",
                     {<<<<"step", x>>, ModuleIdentityPayload(w, x)>> :
                         x \in RouteFrom(w, m, Steps[path])}
                     \cup {Part("landing",
                                ModuleAttributePayload(w, ResolveModulePathTarget(w, m, path),
                                                       owner, st))}),
                {<<"chain", m, path>>})

CapturedModule(w, m, name, owner, st) ==
    LET identity == ModuleIdentityPayload(w, m)
        paths == ModuleAccessPaths(w, owner, name)
    IN CASE IsRefused(identity) -> identity
         [] IsRuntimePinnedModule(w, m) ->
               Fold("captured-stdlib-module", Text(w, m),
                    {Part("identity", identity),
                     Part("constants", AccessedPathConstantsPayload(w, m, paths))}
                    \cup {<<<<"name", p>>, Leaf("path", "")>> : p \in paths})
         [] IsDynamicAccess(w, owner, name) \/ paths = {} -> Refused
         [] m \in st.modules ->
               Fold("recursive-captured-module", Text(w, m),
                    {Part("identity", identity)}
                    \cup {<<<<"name", p>>, Leaf("path", "")>> : p \in paths})
         [] OTHER ->
               Fold("captured-module", Text(w, m),
                    {Part("identity", identity)}
                    \cup {<<<<"path", p>>, CapturedModulePathPayload(w, m, p, owner,
                               [st EXCEPT !.modules = @ \cup {m}])>> : p \in paths})

------------------------------------------------------------------------------
(* Resources *)

(* value.freeze on a configuration: data alone, whatever its types do. *)
RECURSIVE FreezeConfiguration(_, _)
FreezeConfiguration(w, x) ==
    CASE Kind(w, x) \in {"scalar", "none"} -> Leaf("value", Text(w, x))
      [] Kind(w, x) \in {"mutable", "tuple", "frozen", "resource"} ->
            Fold("frozen", "",
                 {<<k, FreezeConfiguration(w, At(w, x, k))>> :
                     k \in Slots(w, x, {"item", "state"})})
      [] OTHER -> Refused

(* What identity() hands back; a resource that hands back itself is its own configuration. *)
ResourceConfiguration(w, x) == At(w, x, <<"identity", "">>)

RECURSIVE ResourceConfigurationTypePayload(_, _, _, _)
(* The behaviour that freezing a configuration erases: the types its values carry. *)
ResourceConfigurationTypePayload(w, x, active, st) ==
    CASE Kind(w, x) \in {"scalar", "none"} -> Leaf("plain-value", "")
      [] x \in active -> Leaf("configuration-cycle", "")
      [] Kind(w, x) \in {"mutable", "tuple", "frozen", "resource"} ->
            Fold("configuration", Kind(w, x),
                 (IF Has(w, x, <<"type", "">>)
                  THEN {Part("type", ImplementationTypePayload(w, TypeOf(w, x), st))} ELSE {})
                 \cup {<<k, ResourceConfigurationTypePayload(w, At(w, x, k), active \cup {x}, st)>> :
                          k \in Slots(w, x, {"item", "state"})})
      [] OTHER -> Refused

ResourceMethodPayload(w, x, name, st) ==
    LET method == Attr(w, TypeOf(w, x), name)
    IN CASE method = Missing -> Leaf("missing", name)
         [] method # Missing /\ Kind(w, method) \in {"function", "guarded"} ->
               FunctionDefinitionPayload(w, method, FreshFunctions(st))
         [] method # Missing /\ Kind(w, method) = "builtin" -> BuiltinFunctionPayload(w, method, st)
         [] OTHER -> PolicyDefinitionPayload(w, method, st)

ResourceIdentity(w, x, st) ==
    IF x \in st.resources THEN Leaf("recursive-resource", Text(w, x))
    ELSE LET inner == [st EXCEPT !.resources = @ \cup {x}]
         IN Noting(Fold("resource", Text(w, x),
                        {Part("type", ImplementationTypePayload(w, TypeOf(w, x), inner)),
                         Part("configuration", FreezeConfiguration(w, ResourceConfiguration(w, x))),
                         Part("behaviour", ResourceConfigurationTypePayload(w,
                                               ResourceConfiguration(w, x), {}, inner))}
                        \cup {<<<<"method", name>>, ResourceMethodPayload(w, x, name, inner)>> :
                                 name \in {"probe", "load", "identity"}}),
                   {<<"resource", x, "">>})

(* The digest the memo keeps of a resource's configuration; "refused" when unreadable. *)
ResourceIdentityDigest(w, x) ==
    Fold("configuration-digest", "",
         {Part("configuration", FreezeConfiguration(w, ResourceConfiguration(w, x))),
          Part("behaviour", ResourceConfigurationTypePayload(w, ResourceConfiguration(w, x),
                                                             {}, Empty))})

------------------------------------------------------------------------------
(* Values folded as they stand *)

StaticCapture(w, x, st) ==
    CASE Kind(w, x) \in {"scalar", "none"} -> Leaf("value", Text(w, x))
      [] Kind(w, x) \in TypeKinds -> TypeDefinitionPayload(w, x, st)
      [] Kind(w, x) = "generic" -> Fold("generic-alias", "", Statics(w, x, {"item"}, st))
      [] Kind(w, x) \in {"alias", "typevar"} ->
            Fold(Kind(w, x), Text(w, x),
                 Statics(w, x, {"parameter", "value"}, st)
                 \cup {<<k, FunctionDefinitionPayload(w, At(w, x, k), FreshFunctions(st))>> :
                          k \in Slots(w, x, {"evaluate"})})
      [] Kind(w, x) \in {"tuple", "frozen"} /\ x \notin st.active ->
            IF Has(w, x, <<"type", "">>) /\ HasSlotState(w, TypeOf(w, x)) THEN Refused
            ELSE Fold(Kind(w, x), "static",
                      (IF Has(w, x, <<"type", "">>)
                       THEN {Part("type", TypeDefinitionPayload(w, TypeOf(w, x), st))} ELSE {})
                      \cup Statics(w, x, {"item", "state"}, [st EXCEPT !.active = @ \cup {x}]))
      [] OTHER -> Refused

Payload(how, w, x, name, owner, st) ==
    CASE how = "function" -> FunctionDefinition(w, x, st)
      [] how = "annotation" -> AnnotationCapture(w, x, st)
      [] how = "type" -> LocalImplementationType(w, x, st)
      [] how = "policy" -> PolicyDefinition(w, x, st)
      [] how = "dependency" -> DependencyDigest(w, name, x, owner, st)
      [] how = "immutable" -> CapturedImmutable(w, name, x, owner, st)
      [] how = "module" -> CapturedModule(w, x, name, owner, st)
      [] how = "resource" -> ResourceIdentity(w, x, st)
      [] how = "static" -> StaticCapture(w, x, st)

(* A query's fingerprint, computed from nothing. *)
Fingerprint(w, q) ==
    Fold("query-fingerprint", "",
         {Part("code", FunctionDefinitionPayload(w, At(w, q, Fn), Empty)),
          Part("handle", QueryHandleStatePayload(w, q, Empty))}
         \cup Policies(w, q, Empty))

------------------------------------------------------------------------------
(* What the memo observes.  The observers pin every reference they pass and *)
(* fold an object once, so an observation is the set of references of the   *)
(* objects they reach.  "note" is the annotation vocabulary, in which a     *)
(* type of the standard library or of pyinc is an anchor and not a body.    *)

ObserveType(w, c, vocabulary) ==
    IF Kind(w, c) \in {"stdclass", "builtinclass"} \/ (Kind(w, c) = "kernelclass" /\ vocabulary = "note")
    THEN {} ELSE DOMAIN w.heap[c].slots

ObserveInstance(w, x) == Slots(w, x, {"type", "item", "state", "wrapped"})

ObserveEvaluated(w, x) ==
    Slots(w, x, {"parameter"} \cup (IF Slots(w, x, {"evaluate"}) # {} THEN {"evaluate"} ELSE {"value"}))

ObserveFunction(w, f) == DOMAIN w.heap[f].slots

ObserveQueryHandle(w, q) == DOMAIN w.heap[q].slots

ObserveValue(w, x, vocabulary) ==
    CASE Kind(w, x) = "query" -> ObserveQueryHandle(w, x)
      [] Kind(w, x) = "input" -> Slots(w, x, {"contract"})
      [] Kind(w, x) = "function" -> ObserveFunction(w, x)
      [] Kind(w, x) \in TypeKinds -> ObserveType(w, x, vocabulary)
      [] Kind(w, x) = "method" -> Slots(w, x, {"func", "self"})
      [] Kind(w, x) = "generic" -> Slots(w, x, {"item"})
      [] Kind(w, x) \in {"alias", "typevar"} -> ObserveEvaluated(w, x)
      [] Kind(w, x) = "descriptor" -> Slots(w, x, {"func"})
      [] Kind(w, x) \in {"tuple", "frozen", "callable", "resource", "plain"} -> ObserveInstance(w, x)
      [] OTHER -> {}

(* The vocabulary a reference is read in. *)
ObserveMetadata(w, x, k, vocabulary) ==
    CASE Kind(w, x) = "function" /\ k[1] = "note" -> IF CodeOf(w, x).notes THEN "value" ELSE "note"
      [] Kind(w, x) = "function" /\ k[1] = "parameter" -> "note"
      [] Kind(w, x) = "query" /\ k[1] = "note" -> "note"
      [] Kind(w, x) = "generic" -> vocabulary
      [] OTHER -> "value"

ObservedFrom(w, visit) ==
    {<<At(w, visit[1], k), ObserveMetadata(w, visit[1], k, visit[2])>> :
        k \in ObserveValue(w, visit[1], visit[2])}

RECURSIVE Visit(_, _, _)
Visit(w, todo, seen) ==
    IF todo = {} THEN seen
    ELSE Visit(w, UNION {ObservedFrom(w, v) : v \in todo} \ (seen \cup todo), seen \cup todo)

(* The types an eagerly resolved value anchors, each with its live binding. *)
SweepFrom(w, x) ==
    CASE Kind(w, x) \in {"class", "localclass", "kernelclass"} ->
            {At(w, x, k) : k \in Slots(w, x, {"base"})}
            \cup {c \in {At(w, x, k) : k \in Slots(w, x, {"attr"})} : Kind(w, c) \in TypeKinds}
      [] Kind(w, x) \in {"tuple", "frozen", "generic"} ->
            {At(w, x, k) : k \in Slots(w, x, {"item", "type", "state"})}
      [] Kind(w, x) \in {"alias", "typevar"} /\ Slots(w, x, {"evaluate"}) = {} ->
            {At(w, x, k) : k \in Slots(w, x, {"value", "parameter"})}
      [] OTHER -> {}

RECURSIVE Swept(_, _, _)
Swept(w, todo, seen) ==
    IF todo = {} THEN seen
    ELSE Swept(w, UNION {SweepFrom(w, x) : x \in todo} \ (seen \cup todo), seen \cup todo)

TypeAnchorLeaves(w, roots) ==
    {<<c, <<"leaf", "">>, LiveTypeBinding(w, c)>> :
        c \in {x \in Swept(w, roots, {}) : Kind(w, x) \in TypeKinds \ {"builtinclass"}}}

References(w, visits) ==
    UNION {{<<v[1], k, At(w, v[1], k)>> : k \in ObserveValue(w, v[1], v[2])} : v \in visits}
    \cup TypeAnchorLeaves(w, {v[1] : v \in {u \in visits :
             Kind(w, u[1]) \in {"alias", "typevar"} /\ Slots(w, u[1], {"evaluate"}) = {}}})

Observation(w, roots) == References(w, Visit(w, {<<x, "value">> : x \in roots}, {}))

QueryDefinitionObservation(w, q) == Observation(w, {q})

(* The chain landings whose payloads read a definition live. *)
IsObservedTarget(w, x) ==
    /\ x # Missing
    /\ \/ Kind(w, x) \in {"function", "query", "input", "alias", "typevar", "resource", "callable"}
       \/ Kind(w, x) = "method" /\ Kind(w, At(w, x, <<"func", "">>)) = "guarded"

ModuleFunctionTargetObservation(w, targets) ==
    Observation(w, {x \in targets : IsObservedTarget(w, x)})

------------------------------------------------------------------------------
(* The queries and resources a checkpoint may restore by name because the   *)
(* root's own code pins them (_collect_pinned_capture_objects).  The walk   *)
(* marks a function once for all of it; these sets take every path, so they *)
(* hold whatever order the walk takes.                                      *)

RECURSIVE WalkFunction(_, _, _, _), WalkModule(_, _, _, _, _, _), WalkValue(_, _, _, _)

WalkFunction(w, f, fns, modules) ==
    IF f \in fns \/ Kind(w, f) # "function" THEN {}
    ELSE UNION {WalkValue(w, At(w, f, k), fns \cup {f}, modules) : k \in Slots(w, f, {"default", "state"})}
         \cup UNION {IF Kind(w, At(w, f, k)) = "module"
                     THEN WalkModule(w, f, k[2], At(w, f, k), fns \cup {f}, modules)
                     ELSE WalkValue(w, At(w, f, k), fns \cup {f}, modules) :
                        k \in Slots(w, f, {"capture"})}

WalkModuleMutant(w, owner, name, m, fns, modules) ==
    IF IsRuntimePinnedModule(w, m) THEN {}
    ELSE UNION {WalkValue(w, x, fns, modules \cup {m}) :
                   x \in {ResolveModulePathTarget(w, m, p) :
                             p \in ModuleAccessPaths(w, owner, name)} \ {Missing}}

WalkModule(w, owner, name, m, fns, modules) ==
    IF IsRuntimePinnedModule(w, m) \/ m \in modules THEN {}
    ELSE UNION {WalkValue(w, x, fns, modules \cup {m}) :
                   x \in {ResolveModulePathTarget(w, m, p) :
                             p \in ModuleAccessPaths(w, owner, name)} \ {Missing}}

WalkValue(w, x, fns, modules) ==
    LET Walk(groups) == UNION {WalkValue(w, At(w, x, k), fns, modules) : k \in Slots(w, x, groups)}
    IN CASE Kind(w, x) = "query" -> {x} \cup WalkFunction(w, At(w, x, Fn), fns, modules)
         [] Kind(w, x) = "resource" -> {x}
         [] Kind(w, x) = "function" -> WalkFunction(w, x, fns, modules)
         [] Kind(w, x) = "method" -> Walk({"func", "self"})
         [] Kind(w, x) \in {"tuple", "frozen"} -> Walk({"item", "state"})
         [] Kind(w, x) = "callable" ->
               Walk({"wrapped", "state"}) \cup WalkFunction(w, CallOf(w, x), fns, modules)
         [] OTHER -> {}

PinnedCaptures(w, q) == WalkFunction(w, At(w, q, Fn), {}, {})

------------------------------------------------------------------------------
(* explain_query_captures: the preview of what the fold accepts *)

ClassifyCapture(w, f, k) ==
    LET x == At(w, f, k)
        st == [Empty EXCEPT !.fns = {f}]
    IN CASE k[1] = "parameter" \/ (k[1] = "note" /\ ~ CodeOf(w, f).notes) ->
               FreezeAnnotationCapture(w, x, Empty)
         [] k[1] = "annotate" /\ Kind(w, x) = "function" -> AnnotationEvaluatorPayload(w, x, Empty)
         [] Kind(w, x) = "callable" -> WrappedCallablePayload(w, x, f, st)
         [] Kind(w, x) \notin DependencyKinds -> FreezeCapturedImmutable(w, k[2], x, f, st)
         [] OTHER -> CapturedDependencyDigest(w, k[2], x, f, st)

ClassifyHandleStateMutant(w, q) ==
    {CapturedDependencyDigest(w, k[2], At(w, q, k), At(w, q, Fn), Empty) : k \in Slots(w, q, {"state"})}

ClassifyHandleState(w, q) ==
    {CapturedDependencyDigest(w, k[2], At(w, q, k), At(w, q, Fn), Empty) : k \in Slots(w, q, {"state"})}
    \cup {QueryHandleStatePayload(w, q, Empty)}

ExplainAccepts(w, q) ==
    LET f == At(w, q, Fn)
    IN /\ ~ CodeOf(w, f).reflective
       /\ \A k \in DOMAIN w.heap[f].slots \ {<<"code", "">>} : ~ IsRefused(ClassifyCapture(w, f, k))
       /\ \A r \in ClassifyHandleState(w, q) : ~ IsRefused(r)

==============================================================================
