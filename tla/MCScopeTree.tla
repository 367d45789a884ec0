----------------------------- MODULE MCScopeTree -----------------------------
(* Programs over one name, and the receiver of a method, for ScopeTree. *)
EXTENDS ScopeTree

Plain == NoHeader
Functions ==
    {Plain,
     [Plain EXCEPT !.params = <<"self">>],
     [Plain EXCEPT !.params = <<"self">>, !.decorator = "staticmethod"],
     [Plain EXCEPT !.params = <<"x">>],
     [Plain EXCEPT !.globals = {"x"}],
     [Plain EXCEPT !.nonlocals = {"x"}],
     [Plain EXCEPT !.name = "x", !.reads = "x"]}
Classes == {Plain, [Plain EXCEPT !.name = "x", !.reads = "x"]}

=============================================================================
