------------------------------ MODULE ScopeTree ------------------------------
(***************************************************************************)
(* The lexical scopes of one Python file (pyinc.integrations.               *)
(* scope_resolution) and the references and renames built on them          *)
(* (symbol_resolution.find_references, WorkspaceSession.rename_symbol).     *)
(*                                                                         *)
(* _ScopeBuilder walks the syntax tree once, numbering every declaration   *)
(* and every use it meets, and resolves them all when the walk is over.    *)
(* Here the walk is the state machine: each action visits one more node of *)
(* a program that is chosen as it is visited, so that the reachable states *)
(* are all the programs within the bounds.  `open` is the scope whose body *)
(* is being visited, `scopes` the scopes met so far and `events` the       *)
(* declarations and the uses in the order of _next_event.                  *)
(*                                                                         *)
(* Left out: type parameters and type aliases (Python 3.12), the source    *)
(* ranges (an occurrence is its event; the read and the write of an        *)
(* augmented assignment share one range) and the imports, whose targets    *)
(* SymbolResolution resolves.  Names other than those of Names are one     *)
(* name, Other, that nothing uses.                                         *)
(***************************************************************************)
EXTENDS Integers, Sequences, FiniteSets, FiniteSetsExt, SequencesExt

CONSTANTS
    Names,           \* the names a program binds and uses
    Receivers,       \* {"self", "cls"}, or the part of it a run uses
    BindingForms,    \* the statements that bind a target: a subset of TargetForms
    FunctionHeaders, \* the def statements, ClassHeaders the class statements,
    ClassHeaders,    \* that a program may hold
    MaxScopes,       \* bound: scopes of a program
    MaxStatements    \* bound: statements and expressions visited

VARIABLES scopes, open, events

vars == <<scopes, open, events>>

Module == 1
NoScope == 0
NoName == "-"
Other == "other"
FunctionLike == {"function", "lambda", "comprehension"}
TargetForms == {"assign", "loop"}
Declares == TargetForms \cup {"function", "class", "parameter", "augmented", "walrus"}
Header ==
    [name: Names \cup {Other}, reads: Names \cup {NoName},
     params: Seq(Names \cup Receivers),
     decorator: {NoName, "staticmethod", "classmethod"},
     globals: SUBSET Names, nonlocals: SUBSET Names]

\* Headers that Python compiles: no name is a parameter twice, or a parameter
\* and declared global or nonlocal, or both global and nonlocal.
ASSUME HeadersAssumption ==
    /\ TargetForms \cap BindingForms # {}
    /\ \A h \in FunctionHeaders \cup ClassHeaders :
          /\ h \in Header
          /\ IsInjective(h.params)
          /\ Range(h.params) \cap (h.globals \cup h.nonlocals) = {}
          /\ h.globals \cap h.nonlocals = {}
    /\ \A h \in ClassHeaders : h.params = <<>> /\ h.decorator = NoName

NoHeader == [name |-> Other, reads |-> NoName, params |-> <<>>, decorator |-> NoName,
             globals |-> {}, nonlocals |-> {}]

----------------------------------------------------------------------------
(* Events and scopes *)

Event(form, scope, name, receiver) ==
    [form |-> form, scope |-> scope, name |-> name, receiver |-> receiver]

IsDeclaration(e) == e.form \in Declares

NewScope(kind, parent, h) ==
    [kind |-> kind, parent |-> parent, globals |-> h.globals, nonlocals |-> h.nonlocals,
     decorator |-> h.decorator, local |-> {}, receiver |-> NoName, body |-> 0]

\* The local names that a declaration adds to its scope.  An attribute of a
\* receiver adds its name as well.
Declare(scope, s, emitted) ==
    scope.local \cup
      {e.name : e \in {d \in Range(emitted) :
                         /\ IsDeclaration(d)
                         /\ d.scope = s
                         /\ d.name \notin scope.globals \cup scope.nonlocals}}

\* What one visit does: the events it emits, the scope it opens, if any.
Emit(emitted, opened) ==
    LET all == [scopes EXCEPT ![open].body = @ + 1] \o opened
    IN /\ Len(all) <= MaxScopes
       /\ MapThenSumSet(LAMBDA s : scopes[s].body, DOMAIN scopes) < MaxStatements
       /\ events' = events \o emitted
       /\ scopes' = [s \in DOMAIN all |-> [all[s] EXCEPT !.local = Declare(all[s], s, emitted)]]
       /\ open' = IF opened = <<>> THEN open ELSE Len(all)

----------------------------------------------------------------------------
(* The walk *)

Init ==
    /\ scopes = <<NewScope("module", NoScope, NoHeader)>>
    /\ open = Module
    /\ events = <<>>

\* A body of statements, and a lambda or a comprehension whose one expression
\* is still to come.
InStatements == scopes[open].kind \in {"module", "class", "function"}
InExpression == InStatements \/ scopes[open].body = 0

HeaderReads(h) == IF h.reads = NoName THEN <<>> ELSE <<Event("header", open, h.reads, NoName)>>
Parameters(child, params) ==
    [i \in DOMAIN params |-> Event("parameter", child, params[i], NoName)]
Directives(child, h) ==
    SetToSeq({Event("directive", child, n, NoName) : n \in h.globals \cup h.nonlocals})

\* The first parameter of a method that is not static is its receiver, when it
\* has the conventional name.
ConfigureMethodReceiver(h, child) ==
    LET expected == IF h.decorator = "classmethod" THEN "cls" ELSE "self"
    IN IF /\ scopes[open].kind = "class"
          /\ h.params # <<>>
          /\ h.decorator # "staticmethod"
          /\ h.params[1] = expected
       THEN [child EXCEPT !.receiver = expected]
       ELSE child

\* def: the name is declared before its decorators and defaults are visited.
VisitFunction(h) ==
    LET child == Len(scopes) + 1
    IN /\ InStatements
       /\ Emit(<<Event("function", open, h.name, NoName)>> \o HeaderReads(h)
                 \o Parameters(child, h.params) \o Directives(child, h),
               <<ConfigureMethodReceiver(h, NewScope("function", open, h))>>)

VisitClass(h) ==
    LET child == Len(scopes) + 1
    IN /\ InStatements
       /\ Emit(<<Event("class", open, h.name, NoName)>> \o HeaderReads(h)
                 \o Directives(child, h),
               <<NewScope("class", open, h)>>)

\* lambda n=n: the parameters first, the default in the enclosing scope.
VisitLambda(n) ==
    LET child == Len(scopes) + 1
    IN /\ InExpression
       /\ Emit(Parameters(child, <<n>>) \o <<Event("use", open, n, NoName)>>,
               <<NewScope("lambda", open, NoHeader)>>)

\* [... for n in n]: the first iterable in the enclosing scope.
VisitComprehension(n) ==
    LET child == Len(scopes) + 1
    IN /\ InExpression
       /\ Emit(<<Event("use", open, n, NoName), Event("loop", child, n, NoName)>>,
               <<NewScope("comprehension", open, NoHeader)>>)

\* The scopes around s, nearest last.
Ancestors[s \in Nat] ==
    IF s \in DOMAIN scopes /\ scopes[s].parent # NoScope
    THEN {scopes[s].parent} \cup Ancestors[scopes[s].parent]
    ELSE {}

\* The scope a walrus binds in: the nearest one that is no comprehension.
NamedExprScope(s) ==
    Max({a \in Ancestors[s] \cup {s} : scopes[a].kind # "comprehension"})

\* The guard is the compiler's: a walrus may rebind no iteration variable of
\* the comprehensions it is in and bind nothing in a class body through them.
VisitNamedExpr(n) ==
    LET target == NamedExprScope(open)
        crossed == {a \in Ancestors[open] \cup {open} : a > target}
    IN /\ InExpression
       /\ scopes[open].kind = "comprehension" =>
             /\ scopes[target].kind # "class"
             /\ \A a \in crossed : n \notin scopes[a].local
       /\ Emit(<<Event("walrus", target, n, NoName)>>, <<>>)

VisitName(n, form) ==
    /\ IF form = "use" THEN InExpression ELSE InStatements
    /\ Emit(<<Event(form, open, n, NoName)>>, <<>>)

\* A read or a deletion (a use either way) or an assignment of r.n.
VisitAttribute(r, n, form) ==
    /\ IF form = "use" THEN InExpression ELSE InStatements
    /\ Emit(<<Event("use", open, r, NoName), Event(form, open, n, r)>>, <<>>)

\* Assignments, annotated assignments, for, with, except and match targets.
VisitTarget(n, form) ==
    /\ InStatements
    /\ Emit(<<Event(form, open, n, NoName)>>, <<>>)

\* n += ... and r.n += ...: one range that is read and declared.
VisitAugmentedTarget(n, r) ==
    LET receiver == IF r = NoName THEN <<>> ELSE <<Event("use", open, r, NoName)>>
    IN /\ InStatements
       /\ Emit(receiver \o <<Event("read", open, n, r), Event("augmented", open, n, r)>>, <<>>)

\* The end of a body, which holds a statement.
Leave ==
    /\ open # Module
    /\ scopes[open].body > 0
    /\ open' = scopes[open].parent
    /\ UNCHANGED <<scopes, events>>

Next ==
    \/ \E h \in FunctionHeaders : VisitFunction(h)
    \/ \E h \in ClassHeaders : VisitClass(h)
    \/ \E n \in Names : VisitLambda(n)
    \/ \E n \in Names : VisitComprehension(n)
    \/ \E n \in Names : VisitNamedExpr(n)
    \/ \E n \in Names, form \in {"use", "del"} : VisitName(n, form)
    \/ \E r \in Receivers, n \in Names, form \in {"use", "assign"} : VisitAttribute(r, n, form)
    \/ \E n \in Names \cup Receivers, form \in BindingForms : VisitTarget(n, form)
    \/ \E n \in Names, r \in Receivers \cup {NoName} : VisitAugmentedTarget(n, r)
    \/ Leave

Spec == Init /\ [][Next]_vars

----------------------------------------------------------------------------
(* Resolution: _ScopeBuilder.build *)

Nearest(S) == IF S = {} THEN NoScope ELSE Max(S)

\* build() adds the names that a global directive binds from inside a function
\* to the module's.
LocalNames(s) ==
    IF s # Module THEN scopes[s].local
    ELSE scopes[Module].local \cup
           {e.name : e \in {d \in Range(events) : /\ IsDeclaration(d)
                                                  /\ d.receiver = NoName
                                                  /\ d.name \in scopes[d.scope].globals}}

NearestEnclosingBinding(s, n) ==
    Nearest({a \in Ancestors[s] : scopes[a].kind \in FunctionLike /\ n \in scopes[a].local})

ClassBindingPrecedes(s, n, order) ==
    \E i \in 1..(order - 1) :
        /\ IsDeclaration(events[i])
        /\ events[i].scope = s
        /\ events[i].receiver = NoName
        /\ events[i].name = n

ResolveOwnerMutant(s, n, order) ==
    IF n \in scopes[s].globals THEN Module
    ELSE Nearest({a \in Ancestors[s] \cup {s} : n \in LocalNames(a)})
ResolveOwner(s, n, order) ==
    IF n \in scopes[s].globals THEN IF n \in LocalNames(Module) THEN Module ELSE NoScope
    ELSE IF n \in scopes[s].nonlocals THEN NearestEnclosingBinding(s, n)
    ELSE IF IF scopes[s].kind = "class" THEN ClassBindingPrecedes(s, n, order)
                                        ELSE n \in LocalNames(s)
    THEN s
    ELSE Nearest({a \in Ancestors[s] : scopes[a].kind # "class" /\ n \in LocalNames(a)})

\* The owner of a declaration that is no attribute.
BindingOwner(e) ==
    IF e.name \in scopes[e.scope].globals THEN Module
    ELSE IF e.name \in scopes[e.scope].nonlocals THEN NearestEnclosingBinding(e.scope, e.name)
    ELSE e.scope

\* The class whose instance, or itself, the receiver still holds: nothing
\* binds the receiver anew before the attribute is met.
ProvenReceiverClassMutant(s, r, order) ==
    LET owner == ResolveOwner(s, r, order)
    IN IF owner = NoScope \/ scopes[owner].receiver # r THEN NoScope ELSE scopes[owner].parent
ProvenReceiverClass(s, r, order) ==
    LET owner == ResolveOwner(s, r, order)
        rebound == \E i \in 1..(order - 1) :
                      /\ IsDeclaration(events[i])
                      /\ events[i].receiver = NoName
                      /\ events[i].name = r
                      /\ events[i].form # "parameter"
                      /\ BindingOwner(events[i]) = owner
    IN IF owner = NoScope \/ scopes[owner].receiver # r \/ rebound
       THEN NoScope
       ELSE scopes[owner].parent

\* The scope that owns the name of event i, before the symbols are known.
Owner(i) ==
    LET e == events[i]
    IN CASE e.receiver # NoName -> ProvenReceiverClass(e.scope, e.receiver, i)
         [] e.receiver = NoName /\ IsDeclaration(e) -> BindingOwner(e)
         [] OTHER -> ResolveOwner(e.scope, e.name, i)

\* The tree: the owner of every event and the bindings, a symbol being the
\* scope that owns it and its name.
Build ==
    LET owners == [i \in DOMAIN events |-> Owner(i)]
    IN [owners |-> owners,
        bindings |-> {<<owners[i], events[i].name>> :
            i \in {j \in DOMAIN events : IsDeclaration(events[j]) /\ owners[j] # NoScope}}]
NoSymbol == <<NoScope, NoName>>

\* The payload of a query keeps the symbol's scope alone for an occurrence; the
\* decoder finds the symbol again among the bindings.
PayloadScope(tree, i) ==
    IF <<tree.owners[i], events[i].name>> \in tree.bindings THEN tree.owners[i] ELSE NoScope
DecodedSymbol(tree, i) ==
    LET key == <<PayloadScope(tree, i), events[i].name>>
    IN IF key \in tree.bindings THEN key ELSE NoSymbol

\* The occurrence that a position finds: the declaration, where a read shares
\* its range.
OccurrenceAt(i) == IF events[i].form = "read" THEN i + 1 ELSE i

\* The names that resolve_qualified_name finds in the module's symbol table.
ModuleTable ==
    {events[i].name : i \in {j \in DOMAIN events :
        events[j].scope = Module /\ events[j].form \in {"assign", "function", "class"}
          /\ events[j].receiver = NoName}}

\* symbol_at with a workspace root: a name without a symbol in its file's tree
\* is looked up as a name of the module.
SymbolAt(tree, i) ==
    LET found == DecodedSymbol(tree, OccurrenceAt(i))
    IN IF found = NoSymbol /\ events[i].name \in ModuleTable
       THEN <<Module, events[i].name>>
       ELSE found

\* find_references, which rename_symbol edits: the occurrences whose position
\* resolves to the symbol, without the declarations of another.
References(tree, symbol) ==
    {i \in DOMAIN events :
        /\ events[i].name = symbol[2]
        /\ SymbolAt(tree, i) = symbol
        /\ IsDeclaration(events[i]) => DecodedSymbol(tree, i) = symbol}

----------------------------------------------------------------------------
(* Python's own scoping, for reference: the compiler's symbol table and, in *)
(* a class body, the order in which the statements run.                     *)

IsBare(i) == events[i].receiver = NoName

\* A binding or a deletion makes a name local.
PyLocal(s, n) ==
    /\ n \notin scopes[s].globals \cup scopes[s].nonlocals
    /\ \E i \in DOMAIN events :
          /\ IsBare(i) /\ events[i].scope = s /\ events[i].name = n
          /\ IsDeclaration(events[i]) \/ events[i].form = "del"

\* The decorators, defaults and bases run before the name is bound.
RunsBefore(j, i) == j < i /\ ~(events[i].form = "header" /\ j = i - 1)

BoundBefore(i) ==
    \E j \in DOMAIN events :
        /\ RunsBefore(j, i) /\ IsBare(j) /\ IsDeclaration(events[j])
        /\ events[j].scope = events[i].scope /\ events[j].name = events[i].name

PyNonlocal(s, n) ==
    Nearest({a \in Ancestors[s] : scopes[a].kind \in FunctionLike /\ PyLocal(a, n)})

\* A free name belongs to the nearest function that binds it; a function that
\* declares it global ends the search.
PyFree(s, n) ==
    LET nearest == Nearest({a \in Ancestors[s] :
                              /\ scopes[a].kind \in FunctionLike
                              /\ PyLocal(a, n) \/ n \in scopes[a].globals})
    IN IF nearest = NoScope \/ n \in scopes[nearest].globals THEN Module ELSE nearest

\* A class body looks a name it binds up in its namespace, then in the module.
PyOwner(i) ==
    LET s == events[i].scope
        n == events[i].name
    IN IF n \in scopes[s].globals THEN Module
       ELSE IF n \in scopes[s].nonlocals THEN PyNonlocal(s, n)
       ELSE IF ~PyLocal(s, n) THEN PyFree(s, n)
       ELSE IF scopes[s].kind = "class" /\ ~IsDeclaration(events[i]) /\ ~BoundBefore(i)
       THEN Module
       ELSE s

\* Python refuses a nonlocal name that no enclosing function binds.
Compiles ==
    \A s \in DOMAIN scopes : \A n \in scopes[s].nonlocals : PyNonlocal(s, n) # NoScope

----------------------------------------------------------------------------
(* Where resolution differs from Python *)

\* A function around the occurrence declares its name global: the search goes
\* on to the functions further out.
GlobalAbove(i) ==
    \E a \in Ancestors[events[i].scope] :
        scopes[a].kind \in FunctionLike /\ events[i].name \in scopes[a].globals

\* A class body reads a name before it binds it.  The search goes on to the
\* enclosing functions; a def or class statement's own decorators, defaults and
\* bases find the name that it is about to bind; and an augmented assignment
\* shows as one occurrence, of the name it binds.
ReadBeforeBound(i) ==
    /\ scopes[events[i].scope].kind = "class"
    /\ ~IsDeclaration(events[i])
    /\ PyLocal(events[i].scope, events[i].name)
    /\ ~BoundBefore(i)
    /\ \/ PyFree(events[i].scope, events[i].name) # Module
       \/ events[i].form = "header" /\ events[i - 1].name = events[i].name
       \/ events[i].form = "read"

BoundIn(s, n) ==
    \E i \in DOMAIN events :
        IsBare(i) /\ IsDeclaration(events[i]) /\ events[i].scope = s /\ events[i].name = n

\* A name that a scope deletes and never binds is not local to it.
OnlyDeleted(i) ==
    \E s \in {events[i].scope} \cup Ancestors[events[i].scope] :
        PyLocal(s, events[i].name) /\ ~BoundIn(s, events[i].name)

\* An assignment to r.n makes n a local name of the function it is in.
AttributeTakenForLocal(i) ==
    \E s \in {events[i].scope} \cup Ancestors[events[i].scope] :
        /\ scopes[s].kind # "class"
        /\ events[i].name \in scopes[s].local
        /\ ~BoundIn(s, events[i].name)

Differs(i) ==
    GlobalAbove(i) \/ ReadBeforeBound(i) \/ OnlyDeleted(i) \/ AttributeTakenForLocal(i)

----------------------------------------------------------------------------
(* Properties *)

RenamedTogether(tree, symbol) ==
    LET named == {i \in DOMAIN events : events[i].name = symbol[2] /\ IsBare(i)}
    IN (\E i \in named : Differs(i))
         \/ References(tree, symbol) \cap named = {i \in named : PyOwner(i) = symbol[1]}
OwnedByTheClass(tree, i) ==
    SymbolAt(tree, i)[1] = events[i].scope <=> PyOwner(i) = events[i].scope

\* In a program that Python compiles, the references of a variable, which a
\* rename rewrites, are the occurrences that Python binds to that variable and
\* no other: no shadow is renamed with it and no use of it is left behind.  A
\* bare name in a class body is a reference of the class's own name exactly when
\* the class namespace holds that name at that point of the body.  The four
\* shapes above are the exceptions.
RenameFollowsPython ==
    Compiles =>
      LET tree == Build
      IN /\ \A symbol \in {b \in tree.bindings : scopes[b[1]].kind # "class" /\ b[2] \in Names} :
              RenamedTogether(tree, symbol)
         /\ \A i \in {j \in DOMAIN events : IsBare(j) /\ scopes[events[j].scope].kind = "class"} :
              Differs(i) \/ OwnedByTheClass(tree, i)

\* An attribute that the tree gives to a class was reached through the first
\* parameter of one of that class's methods, never through a parameter of a
\* static method or of a plain function, and no statement before it, of the
\* method or of a function inside it, has bound that parameter to another
\* value.
ReceiverIsTheInstance ==
    Compiles =>
      LET tree == Build
      IN \A i \in {j \in DOMAIN events : ~IsBare(j) /\ DecodedSymbol(tree, j) # NoSymbol} :
           LET class == DecodedSymbol(tree, i)[1]
               read == Max({j \in 1..(i - 1) : IsBare(j) /\ events[j].name = events[i].receiver})
               method == PyOwner(read)
               bound == {j \in 1..(i - 1) : /\ IsBare(j) /\ IsDeclaration(events[j])
                                            /\ events[j].name = events[i].receiver
                                            /\ PyOwner(j) = method}
           IN Differs(read) \/
                /\ scopes[class].kind = "class"
                /\ scopes[method].kind = "function" /\ scopes[method].parent = class
                /\ scopes[method].decorator # "staticmethod"
                /\ events[Min(bound)].form = "parameter"
                /\ Min(bound) = Min({j \in DOMAIN events : events[j].scope = method})
                /\ bound = {Min(bound)}

=============================================================================
