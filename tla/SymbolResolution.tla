--------------------------- MODULE SymbolResolution ---------------------------
(***************************************************************************)
(* Imports, symbols and classes across the files of a workspace            *)
(* (pyinc.integrations.python_source and symbol_resolution) and the edits  *)
(* that the session computes from them when a symbol is renamed or a file  *)
(* is renamed or deleted (WorkspaceSession).                               *)
(*                                                                         *)
(* The state is the workspace: `text' maps each file to its top-level      *)
(* statements.  A programmer adds statements, and the editor applies the   *)
(* session's edits together with the change they were computed for.        *)
(* Everything else is a function of a workspace w, as the queries are      *)
(* functions of the files.                                                 *)
(*                                                                         *)
(* A file is its module name, a sequence of identifiers, and whether it is *)
(* an __init__.py.  A statement with several aliases is one statement for  *)
(* each of them.  Symbolic links, source ranges, signatures and the path   *)
(* of an installed module are left out.                                    *)
(***************************************************************************)
EXTENDS Integers, Sequences, FiniteSets, FiniteSetsExt, SequencesExt, Functions

CONSTANTS
    Layouts,        \* the workspaces to start from
    Menu(_, _),     \* Menu(w, p): the statements that may be added to p in w, a bound
    Movable,        \* the files that are moved, deleted or have a symbol renamed, a bound
    Names,          \* the identifiers
    Stdlib,         \* top-level module names of the standard library
    Installed,      \* and of installed distributions
    Private,        \* identifiers that begin with an underscore
    Fresh,          \* an identifier that nothing uses, the new name of a rename
    MaxFollowDepth, \* MAX_FOLLOW_DEPTH and _MAX_RESOLUTION_DEPTH
    MaxBaseDepth    \* MAX_BASE_DEPTH

VARIABLES text, edited

vars == <<text, edited>>

None == "none"
Star == "*"

\* op: what the statement is.  name: the name it binds, or uses.  level, module:
\* the dots and the dotted name of an import; source: the name it imports.
\* names: a literal __all__.  bases, members: those of a class.
NoStatement ==
    [op |-> "pass", name |-> None, level |-> 0, module |-> <<>>, source |-> None,
     names |-> {}, bases |-> <<>>, members |-> <<>>]

\* Statements that import a name from a module, at top level, under
\* `if TYPE_CHECKING' and under a try that handles ImportError.
FromOps == {"from", "typing", "try"}
ImportOps == FromOps \cup {"import", "star"}
BindingOps == {"def", "class", "assign", "declare", "import"} \cup FromOps
File(parts, package) == [parts |-> parts, package |-> package]

----------------------------------------------------------------------------
(* Module names and imports: python_source *)

ModuleNameForPath(p) == p.parts

IndexGroups(w, module) == {p \in DOMAIN w : ModuleNameForPath(p) = module}

\* The package that a relative import of the given level starts from.
AnchorMutant(p, level) ==
    IF level > Len(p.parts) THEN <<None>> ELSE SubSeq(p.parts, 1, Len(p.parts) - level)
Anchor(p, level) ==
    LET package == IF p.package \/ p.parts = <<>> THEN p.parts ELSE Front(p.parts)
    IN IF level - 1 > Len(package) THEN <<None>>
       ELSE SubSeq(package, 1, Len(package) - (level - 1))

ResolveRelativeBase(p, level, module) ==
    IF level = 0 THEN module
    ELSE IF Anchor(p, level) = <<None>> THEN <<None>> ELSE Anchor(p, level) \o module

\* What a lookup answers: a file of the workspace with the place of the symbol
\* in it, or with no place for the module itself, or why there is none.
\* <<i, 0>> is statement i, and <<i, j>> the j-th symbol in the class it defines.
Answer(resolution, path, line) == [resolution |-> resolution, path |-> path, line |-> line]
NoPath == File(<<None>>, FALSE)
NoLine == <<0, 0>>
Without(resolution) == Answer(resolution, NoPath, NoLine)

\* A module that two files provide, or that lies below a file that is no
\* package, is ambiguous.
ResolveWorkspaceModule(w, module) ==
    LET above == {IndexGroups(w, SubSeq(module, 1, n)) : n \in 1..(Len(module) - 1)}
        found == IndexGroups(w, module)
    IN IF (\E g \in above : Cardinality(g) > 1) \/ Cardinality(found) > 1
       THEN Without("ambiguous")
       ELSE IF found = {} THEN Without(None)
       ELSE IF \E g \in above : \E p \in g : ~p.package THEN Without("ambiguous")
       ELSE Answer("workspace", CHOOSE p \in found : TRUE, NoLine)

MissingResolution(w, module, preferExternal) ==
    IF module = <<>> \/ ~preferExternal \/ IndexGroups(w, SubSeq(module, 1, 1)) # {}
    THEN Without("missing")
    ELSE IF module[1] \in Stdlib THEN Without("stdlib")
    ELSE IF module[1] \in Installed THEN Without("installed")
    ELSE Without("missing")

\* A from import tries its name as a submodule before the module itself.
Candidates(base, s) ==
    (IF s.op = "star" THEN <<>> ELSE <<Append(base, s.source)>>)
      \o (IF base = <<>> THEN <<>> ELSE <<base>>)

FirstResolved(hits, otherwise) == IF hits = <<>> THEN otherwise ELSE hits[1]
ResolveCandidates(w, tried, preferExternal) ==
    FirstResolved(SelectSeq([i \in DOMAIN tried |-> ResolveWorkspaceModule(w, tried[i])],
                            LAMBDA answer : answer.resolution # None),
                  MissingResolution(w, IF tried = <<>> THEN <<>> ELSE tried[1], preferExternal))

ReferenceFrom(w, s, base) ==
    IF base = <<None>> THEN Without("missing")
    ELSE ResolveCandidates(w, IF s.op = "import" THEN <<s.module>> ELSE Candidates(base, s), s.level = 0)
ResolveImportReference(w, p, s) == ReferenceFrom(w, s, ResolveRelativeBase(p, s.level, s.module))

----------------------------------------------------------------------------
(* Bindings and exports of one file *)

IsDynamic(w, p) == \E i \in DOMAIN w[p] : w[p][i].op = "dynamic"
LiteralAlls(w, p) == {i \in DOMAIN w[p] : w[p][i].op = "all"}

\* The names module_export_surface reports.  An annotation without a value
\* binds nothing, and neither the TYPE_CHECKING block nor a wildcard adds any.
ModuleBoundNames(w, p) ==
    {w[p][i].name : i \in {j \in DOMAIN w[p] :
        w[p][j].op \in BindingOps \ {"declare", "typing"}}}

\* A literal __all__ counts unless anything else touches __all__.
WildcardExports(w, p) ==
    IF IsDynamic(w, p) \/ LiteralAlls(w, p) = {}
    THEN ModuleBoundNames(w, p) \ Private
    ELSE w[p][Max(LiteralAlls(w, p))].names

----------------------------------------------------------------------------
(* The symbol table of a file and the lookup that follows imports *)

\* A symbol is its qualified name and its place.  Attributes of self are no
\* symbols of the class body.
Symbol(qname, line) == [qname |-> qname, line |-> line]
ClassBodyWalk(s, i) ==
    LET body == SelectSeq(s.members, LAMBDA m : m.form # "self")
    IN [j \in DOMAIN body |-> Symbol(<<s.name, body[j].name>>, <<i, j>>)]
ModuleSymbolWalk(w, p) ==
    FlattenSeq([i \in DOMAIN w[p] |->
        LET s == w[p][i]
        IN CASE s.op = "class" -> <<Symbol(<<s.name>>, <<i, 0>>)>> \o ClassBodyWalk(s, i)
             [] s.op \in BindingOps \ {"class"} -> <<Symbol(<<s.name>>, <<i, 0>>)>>
             [] OTHER -> <<>>])

\* The first symbol of that name: the order of the file decides.
FirstNamed(table, qname) ==
    LET found == SelectSeq(table, LAMBDA symbol : symbol.qname = qname)
    IN IF found = <<>> THEN NoLine ELSE found[1].line
FindSymbol(w, p, qname) == FirstNamed(ModuleSymbolWalk(w, p), qname)

\* The wildcard imports of p that lead to a file of the workspace.
Providers(w, p) ==
    {r \in {[line |-> i, to |-> ResolveImportReference(w, p, w[p][i])] :
               i \in {j \in DOMAIN w[p] : w[p][j].op = "star"}} : r.to.resolution = "workspace"}

Hop(path, qname) == [resolution |-> "hop", path |-> path, qname |-> qname]

\* One provider is followed, several are ambiguous, and a provider whose
\* __all__ is not literal hides what the others do not export.
WildcardOutcome(matches, dynamic, qname) ==
    IF Cardinality(matches) = 1 THEN Hop((CHOOSE r \in matches : TRUE).to.path, qname)
    ELSE IF matches # {} \/ dynamic THEN Without("ambiguous")
    ELSE Without("missing")
AmongProviders(w, providers, qname) ==
    WildcardOutcome({r \in providers : Len(qname) = 1 /\ qname[1] \in WildcardExports(w, r.to.path)},
                    \E r \in providers : IsDynamic(w, r.to.path), qname)
ResolveViaWildcards(w, p, qname) == AmongProviders(w, Providers(w, p), qname)

\* The file an import leads to is taken for the imported module itself when its
\* name ends with the imported name.
IsModuleTarget(p, name) == p.parts # <<>> /\ Last(p.parts) = name

\* One turn of the loop of _resolve_symbol_payload: an answer, or the hop to
\* the next file and name.
AfterImport(s, match) ==
    IF match.resolution # "workspace" \/ s.op = "import" \/ IsModuleTarget(match.path, s.source)
    THEN match ELSE Hop(match.path, <<s.source>>)
AtSymbol(w, p, qname, line) ==
    IF line = NoLine THEN ResolveViaWildcards(w, p, qname)
    ELSE IF w[p][line[1]].op \notin ImportOps THEN Answer("workspace", p, line)
    ELSE AfterImport(w[p][line[1]], ResolveImportReference(w, p, w[p][line[1]]))
Turn(w, p, qname) == AtSymbol(w, p, qname, FindSymbol(w, p, qname))

\* The loop: what it has visited, and the cap on the hops.
RECURSIVE Follow(_, _, _, _)
Follow(w, turn, visited, depth) ==
    IF turn.resolution # "hop" THEN turn
    ELSE IF <<turn.path.parts, turn.qname>> \in visited \/ depth >= MaxFollowDepth THEN Without("ambiguous")
    ELSE Follow(w, Turn(w, turn.path, turn.qname), visited \cup {<<turn.path.parts, turn.qname>>}, depth + 1)

ResolveSymbol(w, p, qname) == Follow(w, Hop(p, qname), {}, 0)

\* The symbol a name at the top level of p stands for, as its file and name.
\* An imported name is followed, and its symbol is looked up under the name it
\* has in p.
NoSymbol == <<NoPath, None>>
SymbolIdForResolved(w, answer, name) ==
    IF answer.resolution = "workspace" /\ FindSymbol(w, answer.path, <<name>>) # NoLine
    THEN <<answer.path, name>> ELSE NoSymbol

FollowedSymbol(w, p, name) == SymbolIdForResolved(w, ResolveSymbol(w, p, <<name>>), name)
SymbolAt(w, p, name) ==
    LET line == FindSymbol(w, p, <<name>>)
        op == IF line = NoLine THEN None ELSE w[p][line[1]].op
    IN IF op = "import" THEN NoSymbol
       ELSE IF op \in FromOps \cup {None} THEN FollowedSymbol(w, p, name)
       ELSE <<p, name>>

\* An attribute after a chain of names.  The first name must be bound once, by
\* an import or a class; `import p.a' without an `as' clause answers only for
\* chains that spell it out.  From a module the lookup goes on in its file, and
\* from a class, where it still has the name it is defined under, in its body.
Receiver(w, p, chain) ==
    LET bindings == {i \in DOMAIN w[p] : w[p][i].op \in BindingOps /\ w[p][i].name = chain[1]}
    IN IF Cardinality(bindings) # 1 THEN NoStatement ELSE w[p][CHOOSE i \in bindings : TRUE]

MemberOf(w, owner, name, member) ==
    IF owner.resolution # "workspace" THEN Without(None)
    ELSE IF owner.line = NoLine THEN ResolveSymbol(w, owner.path, <<member>>)
    ELSE IF /\ owner.line[2] = 0 /\ w[owner.path][owner.line[1]].op = "class"
            /\ w[owner.path][owner.line[1]].name = name
    THEN ResolveSymbol(w, owner.path, <<name, member>>)
    ELSE Without(None)

\* The number of names of the chain that the receiver itself stands for, or 0.
ConsumedMutant(s, chain) == IF s.op = "import" /\ s.name = s.module[1] THEN Min({Len(s.module), Len(chain)}) ELSE 1
Consumed(s, chain) ==
    IF s.op = "import" /\ s.name = s.module[1]
    THEN IF IsPrefix(s.module, chain) THEN Len(s.module) ELSE 0
    ELSE IF s.op \in FromOps \cup {"import", "class"} THEN 1 ELSE 0

RECURSIVE Members(_, _, _, _)
Members(w, owner, name, members) ==
    IF members = <<>> THEN owner
    ELSE Members(w, MemberOf(w, owner, name, Head(members)), Head(members), Tail(members))

AttributeAnswer(w, answer, name) ==
    IF answer.resolution # "workspace" THEN Without(None)
    ELSE IF answer.line[2] # 0 THEN answer
    ELSE IF SymbolIdForResolved(w, answer, name) = NoSymbol THEN Without(None)
    ELSE Answer("workspace", answer.path, FindSymbol(w, answer.path, <<name>>))
AttributeAfter(w, p, chain, name, consumed) ==
    IF consumed = 0 THEN Without(None)
    ELSE AttributeAnswer(w, Members(w, ResolveSymbol(w, p, <<chain[1]>>), chain[1],
                                    Append(SubSeq(chain, consumed + 1, Len(chain)), name)), name)
ResolveAttribute(w, p, chain, name) ==
    AttributeAfter(w, p, chain, name, Consumed(Receiver(w, p, chain), chain))

----------------------------------------------------------------------------
(* The session's own lookup, and the imports it reports as unused *)

Uses(w, p, name) == \E i \in DOMAIN w[p] : w[p][i].op = "use" /\ w[p][i].name = name

\* The symbol at the binding of the name, or at a use of it.
ResolveAtKnownPositions(w, p, name) ==
    IF FindSymbol(w, p, <<name>>) # NoLine \/ Uses(w, p, name) THEN SymbolAt(w, p, name) ELSE NoSymbol

\* resolve_target follows one import at a time where no symbol is known, and
\* compares what the wildcard imports of a file lead to.
UniqueMatch(matches, dynamic) ==
    IF Cardinality(matches) = 1 THEN CHOOSE m \in matches : TRUE
    ELSE IF matches # {} \/ dynamic THEN Without("ambiguous")
    ELSE Without("missing")
Collected(line, targets, dynamic) ==
    IF line # NoLine THEN CHOOSE t \in targets : TRUE
    ELSE UniqueMatch({t \in targets : t.resolution = "workspace"}, dynamic)
KnownOr(w, symbol, otherwise) ==
    IF symbol = NoSymbol THEN otherwise
    ELSE Answer("workspace", symbol[1], FindSymbol(w, symbol[1], <<symbol[2]>>))

\* Where to look next: further hops, with the wildcard imports to compare.
NextTargets(w, p, name, line, providers) ==
    IF line # NoLine THEN {AtSymbol(w, p, <<name>>, line)}
    ELSE {Hop(r.to.path, <<name>>) : r \in
            {c \in providers : ~IsDynamic(w, c.to.path) /\ name \in WildcardExports(w, c.to.path)}}

RECURSIVE ResolveTarget(_, _, _, _)
ResolveTarget(w, p, name, visited) ==
    IF <<p, name>> \in visited \/ Cardinality(visited) >= MaxFollowDepth THEN Without("ambiguous")
    ELSE KnownOr(w, ResolveAtKnownPositions(w, p, name),
           Collected(FindSymbol(w, p, <<name>>),
             {IF t.resolution = "hop"
              THEN ResolveTarget(w, t.path, t.qname[1], visited \cup {<<p, name>>}) ELSE t :
                t \in NextTargets(w, p, name, FindSymbol(w, p, <<name>>), Providers(w, p))},
             \E r \in Providers(w, p) : IsDynamic(w, r.to.path)))

\* The names that other files import from p.
ReexportedNamesMutant(w, p) == {}
ReexportedNames(w, p) ==
    UNION {{w[q][i].source : i \in {j \in DOMAIN w[q] :
               /\ w[q][j].op \in FromOps \cup {"star"}
               /\ ResolveImportReference(w, q, w[q][j]) = Answer("workspace", p, NoLine)}} :
           q \in DOMAIN w \ {p}}

StaticModuleAllNames(w, p) ==
    IF LiteralAlls(w, p) = {} THEN {} ELSE w[p][Max(LiteralAlls(w, p))].names

\* A use counts when it has the name of the definition and stands for it.  A
\* module is no definition.
NameIsUsedInFile(w, p, target) ==
    /\ target.line # NoLine
    /\ LET name == w[target.path][target.line[1]].name
       IN p = target.path \/ (Uses(w, p, name) /\ SymbolAt(w, p, name) = <<target.path, name>>)

\* _unused_import_diagnostics: the imports of p that are reported.
IsUnused(w, p, target) == target.resolution = "workspace" /\ ~NameIsUsedInFile(w, p, target)
UnusedImports(w, p) ==
    {i \in DOMAIN w[p] :
       LET s == w[p][i]
       IN /\ s.op \in FromOps /\ ~p.package
          /\ ResolveImportReference(w, p, s).resolution = "workspace"
          /\ ReexportedNames(w, p) \cap {s.name, Star} = {}
          /\ s.name \notin StaticModuleAllNames(w, p)
          /\ IsUnused(w, p, ResolveTarget(w, p, s.name, {}))}

\* _module_diagnostics: what is reported for an import, which is looked up once
\* more by the name it imports.  Installed modules that no dependency declares
\* are left out.
SymbolDiagnostic(target) ==
    CASE target.resolution = "missing" -> "unresolved-symbol"
      [] target.resolution = "ambiguous" -> "ambiguous-symbol"
      [] OTHER -> None
ImportDiagnosticMutant(w, p, s, match) ==
    IF match.resolution = "missing" THEN "missing-import"
    ELSE IF match.resolution = "ambiguous" THEN "ambiguous-import" ELSE None
ImportDiagnostic(w, p, s, match) ==
    CASE match.resolution = "missing" -> "missing-import"
      [] match.resolution = "ambiguous" -> "ambiguous-import"
      [] match.resolution = "workspace" /\ s.op \in FromOps -> SymbolDiagnostic(ResolveTarget(w, p, s.source, {}))
      [] OTHER -> None

----------------------------------------------------------------------------
(* Class models *)

\* Own members, the forms in the order in which they claim a name.
Forms == <<"declared", "assigned", "method", "self">>
MemberNames(s) == {s.members[j].name : j \in DOMAIN s.members}
FormOf(s, name) ==
    Forms[Min({i \in DOMAIN Forms : \E j \in DOMAIN s.members :
                 s.members[j] = [name |-> name, form |-> Forms[i]]})]

\* A base is a name, an attribute of a name, or an expression of another kind.
BaseText(base) == <<base.of, base.name>>

NoSite == <<NoPath, 0>>
ClassSiteFromResolved(w, answer) ==
    IF /\ answer.resolution = "workspace"
       /\ answer.line # NoLine /\ answer.line[2] = 0
       /\ w[answer.path][answer.line[1]].op = "class"
    THEN <<answer.path, answer.line[1]>> ELSE NoSite

ClassSite(w, p, qname) == ClassSiteFromResolved(w, ResolveSymbol(w, p, qname))
ClassIn(w, owner, name) ==
    IF owner.resolution = "workspace" /\ owner.line = NoLine THEN ClassSite(w, owner.path, <<name>>) ELSE NoSite
FirstSite(direct, otherwise) == IF direct # NoSite THEN direct ELSE otherwise

ResolveBaseToClass(w, p, base) ==
    CASE base.tag = "name" -> ClassSite(w, p, <<base.name>>)
      [] base.tag = "attr" -> FirstSite(ClassSite(w, p, <<base.of, base.name>>),
                                        ClassIn(w, ResolveSymbol(w, p, <<base.of>>), base.name))
      [] base.tag = "text" -> NoSite

ClassAt(w, site) == w[site[1]][site[2]]
BaseSites(w, site) ==
    LET bases == ClassAt(w, site).bases
    IN [i \in DOMAIN bases |->
          [site |-> ResolveBaseToClass(w, site[1], bases[i]), text |-> BaseText(bases[i])]]

\* visit: the class at v is entered unless it was reached at most as deep before.
\* It claims the names that no class claimed as near as itself, ...
EntersMutant(st, v) == v.site \notin DOMAIN st.reached
Enters(st, v) == v.site \in DOMAIN st.reached => v.depth < st.reached[v.site]

Claims(w, st, v, name) ==
    /\ name \in MemberNames(ClassAt(w, v.site))
    /\ name \in DOMAIN st.members => v.depth < st.members[name].depth

\* ... and its bases are visited one deeper, from left to right, up to the cap.
BaseVisits(v, bases) ==
    LET walked == SelectSeq(bases, LAMBDA b : b.site # NoSite)
    IN IF v.depth + 1 >= MaxBaseDepth THEN <<>>
       ELSE [i \in DOMAIN walked |-> [site |-> walked[i].site, depth |-> v.depth + 1]]

Enter(w, st, v, bases) ==
    [st EXCEPT
       !.reached = [c \in DOMAIN @ \cup {v.site} |-> IF c = v.site THEN v.depth ELSE @[c]],
       !.members = [n \in DOMAIN @ \cup MemberNames(ClassAt(w, v.site)) |->
                      IF Claims(w, st, v, n)
                      THEN [site |-> v.site, form |-> FormOf(ClassAt(w, v.site), n), depth |-> v.depth]
                      ELSE @[n]],
       !.unresolved = @ \cup {b.text : b \in {c \in Range(bases) : c.site = NoSite}},
       !.cut = IF v.depth + 1 < MaxBaseDepth THEN @
               ELSE @ \cup {c \in Range(bases) : c.site # NoSite},
       !.todo = BaseVisits(v, bases) \o @]

VisitNext(w, st, v) ==
    IF Enters(st, v) THEN Enter(w, st, v, BaseSites(w, v.site)) ELSE st

RECURSIVE Visit(_, _)
Visit(w, st) ==
    IF st.todo = <<>> THEN st
    ELSE Visit(w, VisitNext(w, [st EXCEPT !.todo = Tail(@)], Head(st.todo)))

ModelOf(st) ==
    [members |-> st.members, unresolved |-> st.unresolved,
     truncated |-> {b.text : b \in {c \in st.cut : c.site \notin DOMAIN st.reached}}]
ClassModel(w, site) ==
    ModelOf(Visit(w, [reached |-> <<>>, members |-> <<>>, unresolved |-> {}, cut |-> {},
                      todo |-> <<[site |-> site, depth |-> 0]>>]))

----------------------------------------------------------------------------
(* Edits of the session *)

\* The session's own resolution of the module a from statement names.
RelativeImportAnchor(p, level) ==
    LET package == IF p.package \/ p.parts = <<>> THEN p.parts ELSE Front(p.parts)
    IN IF level - 1 > Len(package) THEN <<None>>
       ELSE SubSeq(package, 1, Len(package) - (level - 1))

ResolveImportFromTarget(p, s) ==
    IF s.level = 0 THEN s.module
    ELSE IF RelativeImportAnchor(p, s.level) = <<None>> THEN <<None>>
    ELSE RelativeImportAnchor(p, s.level) \o s.module

\* The module that the imported name would be a file of.
SubmoduleCandidate(p, s) ==
    LET base == ResolveImportFromTarget(p, s)
    IN IF base = <<None>> THEN <<s.source>> ELSE Append(base, s.source)

\* The new name of an import without an `as' clause is the name it binds.
ImportModule(s, new) ==
    [s EXCEPT !.module = new, !.name = IF @ = s.module[1] THEN new[1] ELSE @]
ImportName(s, new) == [s EXCEPT !.source = new, !.name = IF @ = s.source THEN new ELSE @]

\* The dots stay where the new module lies below the package they lead to.
RewriteFromModuleMutant(p, s, new) ==
    IF s.level > 0
    THEN [s EXCEPT !.module = SubSeq(new, Min({Len(new), Len(RelativeImportAnchor(p, s.level)) + 1}), Len(new))]
    ELSE [s EXCEPT !.module = new]
RewriteFromModule(p, s, new) ==
    LET anchor == RelativeImportAnchor(p, s.level)
    IN IF s.level > 0 /\ anchor # <<None>> /\ IsPrefix(anchor, new)
       THEN [s EXCEPT !.module = SubSeq(new, Len(anchor) + 1, Len(new))]
       ELSE [s EXCEPT !.level = 0, !.module = new]

\* _import_edits_for_one_file, on one statement of file p.
ImportEditForRename(p, s, old, new) ==
    CASE s.op = "import" -> IF s.module = old THEN ImportModule(s, new) ELSE s
      [] s.op \in FromOps \cup {"star"} ->
           IF ResolveImportFromTarget(p, s) = old THEN RewriteFromModule(p, s, new)
           ELSE IF s.op # "star" /\ SubmoduleCandidate(p, s) = old /\ Front(old) = Front(new)
           THEN ImportName(s, Last(new))
           ELSE s
      [] OTHER -> s

\* _import_deletion_edits_for_one_file: the statements of p that are removed.
Removed(p, s, gone) ==
    \/ s.op = "import" /\ s.module = gone
    \/ s.op \in FromOps \cup {"star"} /\ ResolveImportFromTarget(p, s) = gone
    \/ s.op \in FromOps /\ SubmoduleCandidate(p, s) = gone

\* _collect_from_import_edits: the imports that name the symbol in its module.
CollectFromImportEditsMutant(q, s, p, name) ==
    s.op \in FromOps /\ s.module = p.parts /\ s.source = name
CollectFromImportEdits(q, s, p, name) ==
    s.op \in FromOps /\ ResolveImportFromTarget(q, s) = p.parts /\ s.source = name

SymbolEdit(q, s, p, name) ==
    IF q = p /\ s.op \in BindingOps /\ s.name = name THEN [s EXCEPT !.name = Fresh]
    ELSE IF CollectFromImportEdits(q, s, p, name) THEN ImportName(s, Fresh)
    ELSE s

\* What a name at the top level of q is after a rename: find_references has
\* the uses that stand for the symbol.
UseAfter(w, q, use, p, name) == IF use = name /\ SymbolAt(w, q, use) = <<p, name>> THEN Fresh ELSE use

----------------------------------------------------------------------------
(* Actions *)

Directories(w) == {<<>>} \cup {Front(p.parts) : p \in {q \in DOMAIN w : q.parts # <<>>}}

Init == text \in Layouts /\ edited = FALSE

\* A programmer adds a statement to the end of a file.
AddStatement(p, s) ==
    /\ text' = [text EXCEPT ![p] = Append(@, s)]
    /\ UNCHANGED edited

\* A file is moved, after the edits of import_edits_for_file_renames.
RenameFile(old, new) ==
    /\ ~edited /\ ~old.package /\ ~new.package /\ new.parts # old.parts
    /\ text' = [q \in (DOMAIN text \ {old}) \cup {new} |->
                  LET p == IF q = new THEN old ELSE q
                  IN [i \in DOMAIN text[p] |-> ImportEditForRename(p, text[p][i], old.parts, new.parts)]]
    /\ edited' = TRUE

\* A file is deleted, after the edits of import_edits_for_file_deletions.
DeleteFile(gone) ==
    /\ ~edited /\ ~gone.package
    /\ text' = [q \in DOMAIN text \ {gone} |->
                  SelectSeq(text[q], LAMBDA s : ~Removed(q, s, gone.parts))]
    /\ edited' = TRUE

\* A symbol that its file binds once, by a definition, is renamed.
Defines(w, p, name) ==
    LET bindings == {i \in DOMAIN w[p] : w[p][i].op \in BindingOps /\ w[p][i].name = name}
    IN Cardinality(bindings) = 1 /\ \A i \in bindings : w[p][i].op \notin ImportOps

RenameSymbol(p, name) ==
    /\ ~edited
    /\ Defines(text, p, name)
    /\ text' = [q \in DOMAIN text |-> [i \in DOMAIN text[q] |-> SymbolEdit(q, text[q][i], p, name)]]
    /\ edited' = TRUE

\* The quick fix of an unused import.
RemoveUnusedImport(p, i) ==
    /\ ~edited
    /\ i \in UnusedImports(text, p)
    /\ text' = [text EXCEPT ![p] = RemoveAt(@, i)]
    /\ edited' = TRUE

Next ==
    \/ ~edited /\ \E p \in DOMAIN text : \E s \in Menu(text, p) : AddStatement(p, s)
    \/ \E p \in Movable \cap DOMAIN text : \E d \in Directories(text) : RenameFile(p, File(Append(d, Fresh), FALSE))
    \/ \E p \in Movable \cap DOMAIN text : DeleteFile(p)
    \/ \E p \in Movable \cap DOMAIN text : \E name \in Names : RenameSymbol(p, name)
    \/ \E p \in DOMAIN text : \E i \in DOMAIN text[p] : RemoveUnusedImport(p, i)

Spec == Init /\ [][Next]_vars

----------------------------------------------------------------------------
(* Properties *)

\* What Python binds.  A package shadows the plain file of its name.
PyModule(w, module) ==
    LET found == IndexGroups(w, module)
        chosen == IF \E p \in found : p.package THEN {p \in found : p.package} ELSE found
        blocked == \E n \in 1..(Len(module) - 1) :
                     /\ IndexGroups(w, SubSeq(module, 1, n)) # {}
                     /\ \A p \in IndexGroups(w, SubSeq(module, 1, n)) : ~p.package
    IN IF found = {} \/ blocked THEN Without("missing")
       ELSE Answer("workspace", CHOOSE p \in chosen : TRUE, NoLine)

\* The module an import statement of p starts from.  The directory of the
\* workspace may itself be a package, so that dots may lead up to it.
PyBase(w, p, s) ==
    LET package == IF p.package \/ p.parts = <<>> THEN p.parts ELSE Front(p.parts)
    IN IF s.level = 0 THEN s.module
       ELSE IF s.level > Len(package) + 1 THEN <<None>>
       ELSE SubSeq(package, 1, Len(package) + 1 - s.level) \o s.module

\* What a star import takes from module q, given what every name stands for.
PyExports(w, known, q) ==
    LET alls == {i \in DOMAIN w[q] : w[q][i].op = "all"}
        absent == {n \in Names : /\ \E i \in DOMAIN w[q] : w[q][i].op \in {"typing", "declare"} /\ w[q][i].name = n}
    IN IF alls # {} THEN w[q][Max(alls)].names
       ELSE {n \in Names \ (Private \cup absent) : known[q][n].resolution = "workspace"}

PyName(w, known, p, n) ==
    LET bindings == {i \in DOMAIN w[p] : w[p][i].op \in BindingOps /\ w[p][i].name = n}
        last == Max(bindings)
        s == w[p][last]
        home == PyModule(w, PyBase(w, p, s))
        stars == {i \in DOMAIN w[p] :
                    /\ w[p][i].op = "star"
                    /\ PyModule(w, PyBase(w, p, w[p][i])).resolution = "workspace"
                    /\ n \in PyExports(w, known, PyModule(w, PyBase(w, p, w[p][i])).path)}
    IN IF bindings # {}
       THEN CASE s.op = "import" -> PyModule(w, IF n = s.module[1] THEN <<n>> ELSE s.module)
              [] s.op \in FromOps ->
                   IF home.resolution = "workspace" /\ known[home.path][s.source].resolution = "workspace"
                   THEN known[home.path][s.source]
                   ELSE PyModule(w, Append(PyBase(w, p, s), s.source))
              [] OTHER -> Answer("workspace", p, <<last, 0>>)
       ELSE IF stars # {} THEN known[PyModule(w, PyBase(w, p, w[p][Max(stars)])).path][n]
       ELSE Without("missing")

\* What every name of every module stands for, in as many rounds as imports chain.
Rounds == MaxFollowDepth + 1
PyNames(w) ==
    LET after[k \in 0..Rounds] ==
          IF k = 0 THEN [p \in DOMAIN w |-> [n \in Names \cup {Fresh} |-> Without("missing")]]
          ELSE LET known == after[k - 1]
               IN [p \in DOMAIN w |-> [n \in Names \cup {Fresh} |-> PyName(w, known, p, n)]]
    IN after[Rounds]

\* Workspaces in which the documented approximations of the resolver do not
\* arise: a file binds a name once, no module binds its own name, no package
\* binds the name of a file in it, `import p.a' has an `as' clause, and
\* __all__ is literal.
Plain(w) ==
    \A p \in DOMAIN w :
      /\ \A i, j \in DOMAIN w[p] :
           i # j /\ w[p][i].op \in BindingOps /\ w[p][j].op \in BindingOps => w[p][i].name # w[p][j].name
      /\ \A i \in DOMAIN w[p] :
           /\ w[p][i].op \in BindingOps /\ p.parts # <<>> => w[p][i].name # Last(p.parts)
           /\ w[p][i].op \in BindingOps => IndexGroups(w, Append(p.parts, w[p][i].name)) = {}
           /\ w[p][i].op = "import" /\ Len(w[p][i].module) > 1 => w[p][i].name # w[p][i].module[1]
           /\ w[p][i].op # "dynamic"

\* A star import of a file whose own star imports it does not see through.
StarOfStar(w) ==
    \E p \in DOMAIN w : \E r \in Providers(w, p) : Providers(w, r.to.path) # {}

FollowsPython(answer, value) ==
    /\ answer.resolution = "workspace" => answer = value
    /\ answer.resolution = "missing" /\ value.resolution = "workspace" => StarOfStar(text)
AllFollowPython(py) ==
    \A p \in DOMAIN text : \A n \in Names : FollowsPython(ResolveSymbol(text, p, <<n>>), py[p][n])

\* A name that the resolver gives to a place of the workspace is bound to that
\* place in Python, through relative, renaming and star imports, submodules and
\* __all__; and it does not report a name as missing that Python finds, except
\* through a star import of a star import (_resolve_symbol_payload).
ResolutionFollowsImports == Plain(text) => AllFollowPython(PyNames(text))

\* What Python makes of an attribute of a module, of a package or of a class.
PyMember(w, py, owner, n) ==
    IF owner.resolution # "workspace" THEN Without("missing")
    ELSE IF owner.line = NoLine
    THEN IF py[owner.path][n].resolution = "workspace" THEN py[owner.path][n]
         ELSE PyModule(w, Append(owner.path.parts, n))
    ELSE LET s == w[owner.path][owner.line[1]]
             body == SelectSeq(s.members, LAMBDA m : m.form # "self")
             found == {j \in DOMAIN body : body[j].name = n}
         IN IF s.op = "class" /\ found # {} THEN Answer("workspace", owner.path, <<owner.line[1], Max(found)>>)
            ELSE Without("missing")
\* The chains of one name and of two that a module and a file in it make.
Chains(w) == {<<n>> : n \in Names} \cup {p.parts : p \in {q \in DOMAIN w : Len(q.parts) = 2}}
PyOwner(w, py, p, chain) ==
    IF Len(chain) = 1 THEN py[p][chain[1]] ELSE PyMember(w, py, py[p][chain[1]], chain[2])

\* Names are bound once and under the name of their definition, no module
\* shadows one, and none is imported under a name it binds itself; `import p.a'
\* may do without its `as' clause.
PlainAttributes(w) ==
    \A p \in DOMAIN w :
      /\ \A i, j \in DOMAIN w[p] :
           i # j /\ w[p][i].op \in BindingOps /\ w[p][j].op \in BindingOps => w[p][i].name # w[p][j].name
      /\ \A i \in DOMAIN w[p] : w[p][i].op \in BindingOps =>
           /\ p.parts # <<>> => w[p][i].name # Last(p.parts)
           /\ IndexGroups(w, Append(p.parts, w[p][i].name)) = {}
           /\ w[p][i].op \in FromOps => w[p][i].name = w[p][i].source
           /\ w[p][i].op = "import" =>
                \A q \in IndexGroups(w, w[p][i].module) : FindSymbol(w, q, <<w[p][i].name>>) = NoLine

AttributeFollows(w, answer, value) == answer.resolution = "workspace" => answer = value
AllAttributesFollow(py) ==
    \A p \in DOMAIN text : \A chain \in Chains(text) : \A n \in Names :
      AttributeFollows(text, ResolveAttribute(text, p, chain, n),
                       PyMember(text, py, PyOwner(text, py, p, chain), n))

\* An attribute is given only to the definition Python finds behind its
\* receiver, a module, a file of a package or a class, and never to a name of
\* the same spelling elsewhere (_resolve_attribute).
AttributesFollowPython == PlainAttributes(text) => AllAttributesFollow(PyNames(text))

Classes(w) == UNION {{<<p, i>> : i \in {j \in DOMAIN w[p] : w[p][j].op = "class"}} : p \in DOMAIN w}

\* The classes k steps up from a class, for every k below the cap.
Ancestry(w, site) ==
    LET up[k \in 0..(MaxBaseDepth - 1)] ==
          IF k = 0 THEN {site}
          ELSE LET below == up[k - 1]
               IN {b.site : b \in UNION {Range(BaseSites(w, c)) : c \in below}} \ {NoSite}
    IN up

Nearest(up, n) == Min({k \in DOMAIN up : \E c \in up[k] : n \in MemberNames(ClassAt(text, c))})
NamesNearest(members, up) ==
    /\ DOMAIN members = UNION {MemberNames(ClassAt(text, c)) : c \in UNION Range(up)}
    /\ \A n \in DOMAIN members : /\ members[n].site \in up[Nearest(up, n)]
                                  /\ n \in MemberNames(ClassAt(text, members[n].site))
Accounts(model, walked, bases) ==
    /\ model.unresolved = {b.text : b \in {c \in bases : c.site = NoSite}}
    /\ model.truncated = {b.text : b \in {c \in bases : c.site \notin walked \cup {NoSite}}}
AccountsFor(model, walked) == Accounts(model, walked, UNION {Range(BaseSites(text, c)) : c \in walked})

FollowsGraph(model, up) == NamesNearest(model.members, up) /\ AccountsFor(model, UNION Range(up))

\* For each member of a class the model names a nearest definition in the
\* inheritance graph, however often a class is met and whichever base leads to
\* it first: a class near the cap on one path may be close on another.  And a
\* base is either walked, reported as unresolved, or reported as cut by the cap:
\* unresolved_bases and truncated_bases are exactly the bases of the walked
\* classes that lead to no class and to a class that no path reaches in time
\* (resolved_class_model_payload).
ClassModelsFollowTheGraph ==
    \A site \in Classes(text) : FollowsGraph(ClassModel(text, site), Ancestry(text, site))

\* Where a moved file is found.
Moved(answer, old, new) == IF answer.path = old THEN [answer EXCEPT !.path = new] ELSE answer

\* What import_edits_for_file_renames leaves to the programmer: the relative
\* imports of a file that changes its directory, and a file imported as a name
\* of its package that leaves the package.
OutOfScope(p, s, old, new) ==
    /\ Front(old.parts) # Front(new.parts)
    /\ \/ p = old /\ s.level > 0
       \/ s.op \in FromOps /\ SubmoduleCandidate(p, s) = old.parts

KeepsTarget(before, after, old, new) == before.resolution = "workspace" => after = Moved(before, old, new)
RenameFileStep(old, new) ==
    \A p \in DOMAIN text : \A i \in DOMAIN text[p] :
      LET q == IF p = old THEN new ELSE p
      IN text[p][i].op \in ImportOps /\ ~OutOfScope(p, text[p][i], old, new) =>
           KeepsTarget(ResolveImportReference(text, p, text[p][i]),
                       ResolveImportReference(text', q, text'[q][i]), old, new)

SurvivesDeletion(before, after, stays, gone) ==
    IF stays THEN before.resolution = "workspace" => after = before
    ELSE before.resolution = "ambiguous" \/ before = Answer("workspace", gone, NoLine)
DeleteFileStep(gone) ==
    \A p \in DOMAIN text \ {gone} : \A s \in {r \in Range(text[p]) : r.op \in ImportOps} :
      SurvivesDeletion(ResolveImportReference(text, p, s), ResolveImportReference(text', p, s),
                       s \in Range(text'[p]), gone)

\* When a file is renamed and the session's edits are applied, every import of
\* the workspace still leads to the file it led to, wherever the file moves and
\* however the import names it (import_edits_for_file_renames).  When a file is
\* deleted, the session removes the imports that lead to it and those only: none
\* is left dangling, and an import that stays leads where it led
\* (import_edits_for_file_deletions).  Where two files provide one module the
\* import goes with either.
FileEditsKeepTargets ==
    [][\A p \in DOMAIN text :
         /\ \A d \in Directories(text) :
              LET new == File(Append(d, Fresh), FALSE)
              IN RenameFile(p, new) => RenameFileStep(p, new)
         /\ DeleteFile(p) => DeleteFileStep(p)]_vars

\* The file and place a name stands for is reached from q by one import at most,
\* no literal __all__ lists the name, and no `as' clause gives it to another.
RenamesSafely(q, p, name) ==
    /\ \A r \in DOMAIN text : \A i \in DOMAIN text[r] : text[r][i].op # "all"
    /\ \A r \in DOMAIN text : \A i \in DOMAIN text[r] :
         text[r][i].op \in ImportOps /\ name \in {text[r][i].name, text[r][i].source}
           => /\ text[r][i].name = text[r][i].source
              /\ ResolveImportReference(text, r, text[r][i]).path = p
    /\ \A r \in Providers(text, q) : r.to.path = p

RenameSymbolStep(p, name) ==
    LET target == Answer("workspace", p, FindSymbol(text, p, <<name>>))
    IN \A q \in DOMAIN text : \A use \in Names :
         RenamesSafely(q, p, name) =>
           (ResolveSymbol(text, q, <<use>>) = target
              <=> ResolveSymbol(text', q, <<UseAfter(text, q, use, p, name)>>) = target)

\* When a symbol is renamed, exactly the names that stood for it stand for it
\* afterwards: its uses and its imports change together, in its own file and in
\* those that import it directly (rename_symbol).
RenameSymbolKeepsTargets ==
    [][Plain(text) => \A p \in DOMAIN text : \A name \in Names :
         RenameSymbol(p, name) => RenameSymbolStep(p, name)]_vars

\* No `as' clause renames what is imported.
Unaliased(w) ==
    \A p \in DOMAIN w : \A i \in DOMAIN w[p] : w[p][i].op \in FromOps => w[p][i].name = w[p][i].source

Works(py, p, s) ==
    IF s.op \in FromOps THEN py[p][s.name].resolution = "workspace"
    ELSE PyModule(text, PyBase(text, p, s)).resolution = "workspace"
ReportsTruly(works, code) ==
    /\ ~works => code # None
    /\ works => code \notin {"missing-import", "unresolved-symbol"}
DiagnosticsTrue(py) ==
    \A p \in DOMAIN text : \A i \in {j \in DOMAIN text[p] : text[p][j].op \in ImportOps} :
      ReportsTruly(Works(py, p, text[p][i]),
                   ImportDiagnostic(text, p, text[p][i], ResolveImportReference(text, p, text[p][i])))

\* An import that fails in Python is reported in one way or another, and one
\* that works is never reported as missing or unresolved (_module_diagnostics),
\* for names imported as they are defined and star imports one deep.
BrokenImportsAreReported ==
    Plain(text) /\ Unaliased(text) /\ ~StarOfStar(text) => DiagnosticsTrue(PyNames(text))

SameDefinition(before, after) ==
    before.resolution = "workspace" =>
      /\ after.resolution = "workspace" /\ after.path = before.path
      /\ (before.line = NoLine) = (after.line = NoLine)
      /\ before.line # NoLine => text'[after.path][after.line[1]] = text[before.path][before.line[1]]
RemoveUnusedImportStep(p, i) ==
    ResolveTarget(text, p, text[p][i].name, {}).line # NoLine =>
      \A q \in DOMAIN text : \A n \in Names :
        (q = p => Uses(text, q, n))
          => SameDefinition(ResolveSymbol(text, q, <<n>>), ResolveSymbol(text', q, <<n>>))

\* The quick fix for an unused import leaves every use in the file and every
\* name of the files that import from it with the definition it had
\* (_unused_import_diagnostics), for names imported as they are defined.
UnusedImportsAreSafeToRemove ==
    [][Plain(text) /\ Unaliased(text) =>
         \A p \in DOMAIN text : \A i \in DOMAIN text[p] :
           RemoveUnusedImport(p, i) => RemoveUnusedImportStep(p, i)]_vars

=============================================================================
