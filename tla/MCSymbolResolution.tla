-------------------------- MODULE MCSymbolResolution --------------------------
(***************************************************************************)
(* Three kinds of workspace: modules and a package that import from each   *)
(* other, a module and a package of one name, and classes that inherit     *)
(* from each other across two modules.                                     *)
(***************************************************************************)
EXTENDS SymbolResolution

CONSTANT MaxStatements  \* bound: statements of a workspace of the first two kinds

MCNames == {"a", "b", "p", "x", "y", "k", "l", "C0", "A", "B", "X", "m", "_u"}
MCPrivate == {"_u"}

fileA == File(<<"a">>, FALSE)
fileB == File(<<"b">>, FALSE)
pkgP == File(<<"p">>, TRUE)
filePA == File(<<"p", "a">>, FALSE)
filePB == File(<<"p", "b">>, FALSE)
pkgA == File(<<"a">>, TRUE)
fileK == File(<<"k">>, FALSE)
fileL == File(<<"l">>, FALSE)

Bind(op, name) == [NoStatement EXCEPT !.op = op, !.name = name]
From(op, level, module, source, name) ==
    [NoStatement EXCEPT !.op = op, !.level = level, !.module = module, !.source = source, !.name = name]
StarFrom(level, module) == [NoStatement EXCEPT !.op = "star", !.level = level, !.module = module, !.source = Star]
Import(module, name) == [NoStatement EXCEPT !.op = "import", !.module = module, !.name = name]
All(names) == [NoStatement EXCEPT !.op = "all", !.names = names]

Class(name, bases, members) ==
    [NoStatement EXCEPT !.op = "class", !.name = name, !.bases = bases, !.members = members]
NameBase(name) == [tag |-> "name", of |-> None, name |-> name]
AttrBase(of, name) == [tag |-> "attr", of |-> of, name |-> name]
TextBase == [tag |-> "text", of |-> None, name |-> None]

\* Up to two distinct bases out of a sequence of candidates, in both orders.
BaseLists(S) == {<<>>} \cup {<<c>> : c \in S} \cup {<<c, d>> : c \in S, d \in S}
Distinct(S) == {c \in BaseLists(S) : Len(c) = 2 => c[1] # c[2]}
OneMember == {<<>>, <<[name |-> "m", form |-> "method"]>>}

Imports ==
    LET files == {fileA, fileB, pkgP, filePA}
    IN {[f \in files |-> <<>>], [f \in {fileA, pkgA, filePB} |-> <<>>]}
Hierarchy == {[f \in {fileK, fileL} |-> IF f = fileK THEN <<Import(<<"l">>, "l")>> ELSE <<StarFrom(0, <<"k">>)>>]}
MCMovable == {fileA, fileB, pkgP, filePA, pkgA, filePB}
MCLayouts == Imports \cup Hierarchy

ImportMenu(f) ==
    CASE f = fileA -> {Bind("def", "x"), Bind("assign", "y"), From("from", 0, <<"b">>, "x", "x"),
                   StarFrom(0, <<"p">>), All({"x"})}
      [] f = fileB -> {From("from", 0, <<"a">>, "x", "x"), From("try", 0, <<"a">>, "x", "y"),
                   From("from", 0, <<"p">>, "a", "a"), StarFrom(0, <<"a">>), Import(<<"p", "a">>, "y"), Import(<<"p", "a">>, "p"),
                   From("from", 0, <<"p", "a">>, "x", "x"), Bind("use", "x"), Bind("use", "a")}
      [] f = pkgP -> {From("from", 1, <<"a">>, "x", "x"), From("typing", 1, <<>>, "a", "y"),
                   StarFrom(1, <<"a">>), Bind("declare", "y"), Bind("dynamic", None)}
      [] f = filePA -> {Bind("def", "x"), From("from", 2, <<"b">>, "y", "y"), Import(<<"a">>, "a"),
                    From("from", 1, <<>>, "y", "y"), Bind("assign", "_u")}
      [] f = pkgA -> {Bind("def", "x"), From("from", 1, <<"b">>, "y", "y")}
      [] f = filePB -> {Bind("def", "y")}
      [] OTHER -> {}

ClassMenu(w, f) ==
    IF f = fileK
    THEN CASE Len(w[fileK]) = 1 -> {Class("C0", bases, <<>>) :
                bases \in Distinct({NameBase("A"), AttrBase("l", "B"), AttrBase("l", "X")})}
           [] Len(w[fileK]) = 2 -> {Class("A", bases, ms) : ms \in OneMember,
                bases \in Distinct({AttrBase("l", "B"), AttrBase("l", "X")})}
           [] OTHER -> {}
    ELSE CASE Len(w[fileK]) = 3 /\ Len(w[fileL]) = 1 -> {Class("B", bases, ms) : ms \in OneMember,
                bases \in Distinct({NameBase("A"), NameBase("X")})}
           [] Len(w[fileK]) = 3 /\ Len(w[fileL]) = 2 -> {Class("X", bases, ms) : ms \in OneMember,
                bases \in Distinct({NameBase("A"), TextBase})}
           [] OTHER -> {}

MCMenu(w, f) ==
    IF f \in {fileK, fileL} THEN ClassMenu(w, f)
    ELSE IF SumFunction([g \in DOMAIN w |-> Len(w[g])]) < MaxStatements
    THEN ImportMenu(f) ELSE {}
=============================================================================
