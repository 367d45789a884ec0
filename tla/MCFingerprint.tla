---------------------------- MODULE MCFingerprint ----------------------------
(* One small program: four queries over shared modules, each keyed in its own behaviour. *)
EXTENDS FingerprintMemo, TLC

Obj(kind, text, home, slots) == [kind |-> kind, text |-> text, home |-> home, slots |-> slots]
NoSlots == [k \in {} |-> None]
Int(n) == Obj("scalar", n, "builtins", NoSlots)
CodeObj(name) == Obj("code", name, "builtins", NoSlots)
Function(name, home, slots) == Obj("function", name, home, slots @@ (<<"code", "">> :> ("c_" \o name)))
Module(name, spec, slots) ==
    Obj("module", name, name, slots @@ (<<"import", "__spec__">> :> spec)
                                    @@ (<<"meta", "__version__">> :> "i1"))
Query(key, fn, slots) ==
    Obj("query", key, "app", (<<"contract", "fn">> :> fn) @@ (<<"wrapped", "__wrapped__">> :> fn) @@ slots
        @@ (<<"contract", "eq">> :> "None") @@ (<<"contract", "cutoff">> :> "None"))

PlainCode == [reflective |-> FALSE, notes |-> FALSE, names |-> {}, paths |-> {}, dynamic |-> {}]
FunctionNames == {"ff", "ff_new", "h", "h2", "fsub", "g", "g2", "back", "fhid", "m1", "m2", "fm", "fr",
                  "ft", "eqf", "eqf2", "call", "call2", "load", "load2", "reflect", "lazy", "reader"}
MCCodes ==
    [c \in {"c_" \o n : n \in FunctionNames} |->
        CASE c = "c_reflect" -> [PlainCode EXCEPT !.reflective = TRUE]
          [] c = "c_reader" -> [PlainCode EXCEPT !.notes = TRUE]
          [] c = "c_fm" -> [PlainCode EXCEPT !.paths = {<<"lib", "lib.g">>, <<"lib", "lib.Model">>,
                                                        <<"std", "std.K">>}]
          [] c = "c_g" -> [PlainCode EXCEPT !.paths = {<<"app", "app.back">>}]
          [] c = "c_back" -> [PlainCode EXCEPT !.paths = {<<"lib", "lib.hid">>}]
          [] c = "c_m1" -> [PlainCode EXCEPT !.names = {"limit"}]
          [] OTHER -> PlainCode]
MCSteps == ("lib.g" :> <<"g">>) @@ ("lib.Model" :> <<"Model">>) @@ ("std.K" :> <<"K">>)
           @@ ("app.back" :> <<"back">>) @@ ("lib.hid" :> <<"hid">>)

CodeObjects == [c \in {"c_" \o n : n \in FunctionNames} |-> CodeObj(c)]

MCWorld ==
    CodeObjects
    @@ ("None" :> Obj("none", "None", "builtins", NoSlots))
    @@ ("i1" :> Int("1")) @@ ("i2" :> Int("2"))
    @@ ("lst" :> Obj("mutable", "", "builtins", (<<"item", "0">> :> "i1")))
    @@ ("specSrc" :> Obj("spec", "source", "", NoSlots))
    @@ ("specStd" :> Obj("spec", "stdlib", "", NoSlots))
    @@ ("specBad" :> Obj("none", "source", "", NoSlots))
    @@ ("sys.modules" :> Obj("namespace", "", "", (<<"module", "app">> :> "app") @@ (<<"module", "lib">> :> "lib")
            @@ (<<"module", "std">> :> "std") @@ (<<"module", "pyinc">> :> "pyinc")))
    @@ ("app" :> Module("app", "specSrc", (<<"attr", "back">> :> "back") @@ (<<"attr", "N">> :> "N")
            @@ (<<"attr", "Res">> :> "Res") @@ (<<"attr", "Deco">> :> "Deco") @@ (<<"attr", "Cfg">> :> "Cfg")))
    @@ ("lib" :> Module("lib", "specSrc", (<<"attr", "g">> :> "g") @@ (<<"attr", "Model">> :> "Model")
            @@ (<<"attr", "hid">> :> "hid") @@ (<<"attr", "K0">> :> "i1") @@ (<<"attr", "C">> :> "C")
            @@ (<<"attr", "B">> :> "B") @@ (<<"attr", "D">> :> "D")))
    @@ ("lib2" :> Module("lib", "specSrc", (<<"attr", "g">> :> "g2")))
    @@ ("std" :> Module("std", "specStd", (<<"attr", "K">> :> "i1")))
    @@ ("pyinc" :> Module("pyinc", "specSrc", (<<"attr", "Database">> :> "Database")))
    (* functions, handles and annotations *)
    @@ ("ff" :> Function("ff", "app", (<<"default", "0">> :> "i1") @@ (<<"capture", "helper">> :> "h")
            @@ (<<"capture", "sub">> :> "sub") @@ (<<"capture", "pair">> :> "pair")
            @@ (<<"state", "flag">> :> "i1") @@ (<<"note", "x">> :> "N") @@ (<<"note", "db">> :> "Database")))
    @@ ("ff_new" :> Obj("code", "c_ff_new", "builtins", NoSlots))
    @@ ("h" :> Function("h", "app", (<<"default", "0">> :> "i1") @@ (<<"capture", "box">> :> "i1")
            @@ (<<"capture", "h">> :> "h")))
    @@ ("h2" :> Function("h2", "app", (<<"capture", "q">> :> "qf")))
    @@ ("pair" :> Obj("tuple", "", "builtins", (<<"item", "0">> :> "h2") @@ (<<"item", "1">> :> "i1")))
    @@ ("fsub" :> Function("fsub", "app", (<<"default", "0">> :> "i1") @@ (<<"note", "y">> :> "N")))
    @@ ("sub" :> Query("sub", "fsub", (<<"state", "opt">> :> "i1") @@ (<<"note", "x">> :> "N")))
    @@ ("qf" :> Query("qf", "ff", (<<"state", "opt">> :> "i1")))
    @@ ("N" :> Obj("class", "N", "app", (<<"attr", "m">> :> "m1") @@ (<<"attr", "limit">> :> "i1")))
    @@ ("Database" :> Obj("kernelclass", "Database", "pyinc", (<<"attr", "x">> :> "i1")))
    @@ ("m1" :> Function("m1", "app", NoSlots)) @@ ("m2" :> Function("m2", "app", NoSlots))
    @@ ("reflect" :> Function("reflect", "app", NoSlots))
    (* modules and the chains read off them *)
    @@ ("fm" :> Function("fm", "app", (<<"capture", "lib">> :> "lib") @@ (<<"capture", "std">> :> "std")))
    @@ ("qm" :> Query("qm", "fm", NoSlots))
    @@ ("g" :> Function("g", "lib", (<<"default", "0">> :> "i1") @@ (<<"capture", "app">> :> "app")))
    @@ ("g2" :> Function("g2", "lib", NoSlots))
    @@ ("back" :> Function("back", "app", (<<"capture", "lib">> :> "lib")))
    @@ ("fhid" :> Function("fhid", "lib", NoSlots)) @@ ("hid" :> Query("hid", "fhid", NoSlots))
    @@ ("Model" :> Obj("class", "Model", "lib", (<<"attr", "flag">> :> "i1")))
    (* resources, callables and policies *)
    @@ ("fr" :> Function("fr", "app", (<<"capture", "res">> :> "res") @@ (<<"capture", "set">> :> "res2")
            @@ (<<"capture", "deco">> :> "deco") @@ (<<"capture", "inp">> :> "inp")))
    @@ ("qr" :> Query("qr", "fr", (<<"contract", "eq">> :> "pol")))
    @@ ("Res" :> Obj("class", "Res", "app", (<<"attr", "probe">> :> "m1") @@ (<<"attr", "load">> :> "load")))
    @@ ("Cfg" :> Obj("class", "Cfg", "app", (<<"attr", "m">> :> "m2")))
    @@ ("res" :> Obj("resource", "res", "app", (<<"type", "">> :> "Res") @@ (<<"identity", "">> :> "res")
            @@ (<<"state", "path">> :> "i1")))
    @@ ("res2" :> Obj("resource", "res2", "app", (<<"type", "">> :> "Res") @@ (<<"identity", "">> :> "cfg")))
    @@ ("cfg" :> Obj("frozen", "", "app", (<<"type", "">> :> "Cfg") @@ (<<"state", "n">> :> "i1")))
    @@ ("cfg2" :> Obj("frozen", "", "app", (<<"type", "">> :> "Cfg") @@ (<<"state", "n">> :> "i2")))
    @@ ("load" :> Function("load", "app", NoSlots)) @@ ("load2" :> Function("load2", "app", NoSlots))
    @@ ("Deco" :> Obj("class", "Deco", "app", (<<"attr", "__call__">> :> "call")))
    @@ ("call" :> Function("call", "app", NoSlots)) @@ ("call2" :> Function("call2", "app", NoSlots))
    @@ ("deco" :> Obj("callable", "", "app", (<<"type", "">> :> "Deco") @@ (<<"wrapped", "__wrapped__">> :> "m1")
            @@ (<<"state", "n">> :> "i1")))
    @@ ("pol" :> Obj("callable", "", "app", (<<"type", "">> :> "Deco") @@ (<<"state", "n">> :> "i1")))
    @@ ("inp" :> Obj("input", "inp", "app", (<<"contract", "eq">> :> "eqf") @@ (<<"contract", "cutoff">> :> "None")))
    @@ ("eqf" :> Function("eqf", "app", NoSlots)) @@ ("eqf2" :> Function("eqf2", "app", NoSlots))
    (* types *)
    @@ ("ft" :> Function("ft", "app", (<<"capture", "Alias">> :> "alias") @@ (<<"capture", "T">> :> "tvar")
            @@ (<<"capture", "D">> :> "D") @@ (<<"note", "x">> :> "listC") @@ (<<"capture", "read">> :> "reader")))
    @@ ("qt" :> Query("qt", "ft", NoSlots))
    @@ ("reader" :> Function("reader", "app", (<<"note", "f">> :> "m1")))
    @@ ("list" :> Obj("builtinclass", "list", "builtins", NoSlots))
    @@ ("listC" :> Obj("generic", "", "builtins", (<<"item", "origin">> :> "list") @@ (<<"item", "0">> :> "Database")))
    @@ ("alias" :> Obj("alias", "Alias", "app", (<<"value", "">> :> "C")))
    @@ ("tvar" :> Obj("typevar", "T", "app", (<<"evaluate", "bound">> :> "lazy")))
    @@ ("lazy" :> Function("lazy", "app", (<<"capture", "B">> :> "B")))
    @@ ("C" :> Obj("class", "C", "lib", (<<"base", "0">> :> "B")))
    @@ ("B" :> Obj("class", "B", "lib", (<<"attr", "m">> :> "prop") @@ (<<"attr", "limit">> :> "i1")))
    @@ ("prop" :> Obj("descriptor", "property", "builtins", (<<"func", "get">> :> "m1")))
    @@ ("prop2" :> Obj("descriptor", "property", "builtins", (<<"func", "get">> :> "m2")))
    @@ ("fieldx" :> Obj("field", "x", "lib", (<<"note", "">> :> "list") @@ (<<"default", "">> :> "i1")))
    @@ ("D" :> Obj("class", "D", "lib", (<<"base", "0">> :> "B") @@ (<<"field", "x">> :> "fieldx")
            @@ (<<"attr", "limit">> :> "i1") @@ (<<"attr", "m">> :> "m1")))

MCDisk == [m \in {"app", "lib", "lib2", "std", "pyinc"} |-> "v1"]

(* What the program may rebind.  One thing is left out: a module that stops   *)
(* binding a class which a query captures directly, D of lib, where the memo  *)
(* and a fresh fold are known to differ.                                      *)
Everyday ==
    ("qf" :> {<<"ff", <<"default", "0">>, "i2">>, <<"ff", <<"state", "flag">>, "lst">>,
              <<"ff", <<"code", "">>, "c_ff_new">>, <<"h", <<"default", "0">>, "i2">>,
              <<"h", <<"capture", "box">>, "lst">>, <<"lst", <<"item", "0">>, "i2">>,
              <<"sub", <<"state", "opt">>, "qf">>, <<"sub", <<"state", "opt">>, "reflect">>,
              <<"qf", <<"wrapped", "__wrapped__">>, "h">>, <<"qf", <<"state", "opt">>, "sub">>,
              <<"fsub", <<"default", "0">>, "i2">>, <<"N", <<"attr", "m">>, "m2">>,
              <<"N", <<"attr", "limit">>, "lst">>, <<"Database", <<"attr", "x">>, "i2">>})
    @@ ("qm" :> {<<"lib", <<"attr", "g">>, "g2">>, <<"lib", <<"attr", "K0">>, "i2">>,
                 <<"lib", <<"attr", "K0">>, "lst">>, <<"Model", <<"attr", "flag">>, "i2">>,
                 <<"std", <<"attr", "K">>, "i2">>, <<"g", <<"default", "0">>, "i2">>,
                 <<"sys.modules", <<"module", "lib">>, "lib2">>, <<"lib", <<"import", "__spec__">>, "specBad">>,
                 <<"fhid", <<"code", "">>, "c_m1">>, <<"qm", <<"wrapped", "__wrapped__">>, "reflect">>, <<"app", <<"attr", "back">>, "sub">>})
    @@ ("qr" :> {<<"res", <<"state", "path">>, "i2">>, <<"res2", <<"identity", "">>, "cfg2">>,
                 <<"res2", <<"identity", "">>, "m1">>, <<"Res", <<"attr", "load">>, "load2">>,
                 <<"Cfg", <<"attr", "m">>, "m1">>, <<"deco", <<"state", "n">>, "i2">>,
                 <<"deco", <<"state", "n">>, "deco">>, <<"Deco", <<"attr", "__call__">>, "call2">>,
                 <<"inp", <<"contract", "eq">>, "eqf2">>, <<"qr", <<"contract", "cutoff">>, "eqf2">>,
                 <<"pol", <<"state", "n">>, "i2">>})
    @@ ("qt" :> {<<"lib", <<"attr", "C">>, "N">>, <<"B", <<"attr", "m">>, "prop2">>,
                 <<"lazy", <<"capture", "B">>, "N">>, <<"B", <<"attr", "limit">>, "lst">>,
                 <<"D", <<"attr", "limit">>, "lst">>, <<"reader", <<"note", "f">>, "m2">>,
                 <<"reader", <<"note", "f">>, "lst">>, <<"alias", <<"value", "">>, "i2">>,
                 <<"listC", <<"item", "0">>, "lst">>})

MCEdits == ("qf" :> {<<"app", "v2">>}) @@ ("qm" :> {<<"lib", "v2">>, <<"lib", "unreadable">>})
           @@ ("qr" :> {<<"app", "v2">>}) @@ ("qt" :> {<<"lib", "v2">>})
==============================================================================
