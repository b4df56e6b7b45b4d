----------------------------- MODULE MCDiscovery -----------------------------
(***************************************************************************)
(* TLC instances of Discovery: two packages, one with a library of several *)
(* modules and a test target.  The gates of the library's modules,         *)
(* includes and inline modules vary one at a time, with the condition of   *)
(* its first module and the paths of one that has several.                 *)
(***************************************************************************)
EXTENDS Discovery

Leaf(op, name) == [op |-> op, name |-> name, of |-> <<>>]
Test == Leaf("test", "")
On == Leaf("feature", "on")
Off == Leaf("feature", "off")
Unix == Leaf("target", "unix")
Local == Leaf("target", "local")
Over(op, of) == [op |-> op, name |-> "", of |-> of]
Not(c) == Over("not", <<c>>)

Gate(c) == [cfg |-> <<c>>, applied |-> <<>>]
Always == [cfg |-> <<>>, applied |-> <<>>]
Applied(if, c) == [cfg |-> <<>>, applied |-> <<[if |-> if, cfg |-> c]>>]

At(dir, stem) == [dir |-> dir, stem |-> stem]
Rel(stem) == At(<<>>, stem)
Mod(name, gate) == [within |-> <<>>, kind |-> "mod", name |-> name, gate |-> gate,
                    path |-> Nowhere, paths |-> <<>>]
In(item, name, gate) == [item EXCEPT !.within = <<[name |-> name, gate |-> gate]>>]
Include(stem, gate) == [Mod("", gate) EXCEPT !.kind = "include", !.path = Rel(stem)]
Pathed(item, paths) == [item EXCEPT !.paths = paths]
Attr(if, stem) == [if |-> if, to |-> Rel(stem)]
Rust(items) == [rust |-> TRUE, items |-> items]
TargetOf(name, path, pathLike, recursive) ==
    [name |-> name, path |-> path, pathLike |-> pathLike, recursive |-> recursive]
Dir(dir, recursive) == TargetOf("", At(dir, ""), TRUE, recursive)

Src == <<"a", "src">>
FilesOf(g1, g2, g3, g4, sw) ==
    [f \in {At(Src, s) : s \in {"lib", "m", "sw", "prod", "fake", "part", "inpart", "inprod", "check", "help",
                                "orphan", "unit_test"}}
           \cup {At(Src \o <<"m">>, "deep"), At(Src \o <<"inl">>, "x"),
                 At(Src \o <<"tests">>, "mod"), At(<<"b", "src">>, "lib"), At(<<"a">>, "build"),
                 At(<<"a", "vendor">>, "v")} |->
     CASE f = At(Src, "lib") ->
            Rust(<<Mod("m", g1), In(Mod("x", Always), "inl", g2), Include("part", g3), sw,
                   Mod("tests", Gate(Test))>>)
       [] f = At(Src, "m") -> Rust(<<Mod("deep", g4)>>)
       [] f = At(Src, "part") -> Rust(<<[Mod("inpart", Gate(Test)) EXCEPT !.path = Rel("inpart")],
                                     [Mod("inprod", Always) EXCEPT !.path = Rel("inprod")]>>)
       [] f = At(Src, "check") -> Rust(<<[Mod("m", Always) EXCEPT !.path = Rel("m")], Mod("help", Always)>>)
       [] OTHER -> Rust(<<>>)]

Conditions == {Test, On, Off, Unix, Local, Not(Test), Not(Unix), Over("all", <<Test, Unix>>), Over("any", <<Test, Off>>),
               Not(Over("any", <<Test, Off>>)), Over("all", <<Not(Test), Not(Off)>>), Not(Over("all", <<Test, Off>>))}
Few == {Gate(c) : c \in {Test, Off, Over("all", <<Test, Unix>>)}} \cup {Always, Applied(On, Test)}
Switches == {Pathed(Mod("sw", Always), <<Attr(Not(Test), "prod"), Attr(Test, "fake")>>),
             Pathed(Mod("sw", Always), <<Attr(Test, "fake")>>),
             Pathed(Mod("sw", Gate(Not(Test))), <<Attr(Off, "fake"), Attr(On, "prod")>>)}

Package(name, targets) == [name |-> name, dir |-> <<name>>, features |-> {"on"}, targets |-> targets]
CargoTarget(src, production, requires) == [src |-> src, production |-> production, requires |-> requires]

MCTargets == {<<Dir(<<>>, TRUE)>>, <<Dir(<<"a">>, FALSE)>>, <<Dir(Src, TRUE)>>,
              <<TargetOf("a", At(<<>>, "none"), FALSE, TRUE)>>}
OtherTargets == {<<Dir(<<"a", "vendor">>, TRUE)>>, <<TargetOf("z", At(<<>>, "none"), FALSE, TRUE)>>,
                 <<TargetOf("", At(Src, "fake"), TRUE, FALSE), Dir(<<"b">>, TRUE)>>}

TreeWith(files, settings, answers, targets, targetsOfA, targetsOfB) ==
    [files |-> files, above |-> <<"home">>, root |-> <<>>, answers |-> answers, settings |-> settings,
     packages |-> {Package("a", {CargoTarget(At(Src, "lib"), TRUE, {}),
                                 CargoTarget(At(Src, "check"), FALSE, {})} \cup targetsOfA),
                   Package("b", targetsOfB)},
     targets |-> targets]

TreeOf(files, settings, answers, targets) ==
    TreeWith(files, settings, answers, targets, {},
             {CargoTarget(At(<<"b", "src">>, "lib"), TRUE, {"off"})})

\* Both packages are built, and a test that lies above them, of the one or the
\* other, names a file of either.  In package a a file that is no Rust is
\* included, two modules include one file, of which a test names a child, an
\* included file has an inactive module, and a module that is not built has a
\* conditional path.
Lib == At(Src, "lib")
Shared == At(<<>>, "shared")
Child(dir, stem, gate) == [Mod("child", gate) EXCEPT !.path = At(dir, stem)]
OddFiles(lib, part, check, shared) ==
    [f \in {At(Src, s) : s \in {"lib", "m", "part", "raw", "fake", "inprod", "check", "x"}}
           \cup {At(Src \o <<"inl">>, "x"), At(<<"b", "src">>, "lib"), At(<<"b", "src">>, "help"),
                 Shared} |->
     [rust |-> f # At(Src, "raw"),
      items |-> CASE f = Lib -> <<Mod("m", Always), Include("raw", Always)>> \o lib
                  [] f = At(Src, "part") -> part
                  [] f = At(Src, "check") -> check
                  [] f = Shared -> shared
                  [] OTHER -> <<>>]]
Twice(gate) == <<In(Include("part", Always), "other", gate), In(Include("part", Always), "inl", gate)>>
OddTrees ==
    {TreeWith(OddFiles(lib, part, check, shared), {{"unix"}}, TRUE,
              MCTargets \cup {<<Dir(<<"b">>, TRUE)>>},
              IF owner = "a" THEN {CargoTarget(Shared, FALSE, {})} ELSE {},
              {CargoTarget(At(<<"b", "src">>, "lib"), TRUE, {})}
              \cup IF owner = "b" THEN {CargoTarget(Shared, FALSE, {})} ELSE {}) :
        lib \in {Twice(Always), Twice(Gate(Off)), <<Include("part", Always)>>, <<Mod("part", Gate(Off))>>},
        part \in {<<Mod("x", Always)>>, <<Child(<<>>, "inprod", Gate(Off))>>,
                  <<Pathed(Mod("sw", Always), <<Attr(On, "fake")>>)>>},
        check \in {<<>>, <<Child(<<"inl">>, "x", Always)>>},
        shared \in {<<Child(Src, stem, Always)>> : stem \in {"m", "inprod"}}
                   \cup {<<Child(<<"b", "src">>, "help", Always)>>},
        owner \in {"a", "b"}}

MCTrees ==
    OddTrees \cup
    {TreeOf(FilesOf(Gate(c), g[1], g[2], g[3], sw), {{"unix"}}, TRUE, MCTargets) :
        c \in Conditions, sw \in Switches,
        g \in {[i \in 1..3 |-> IF i = n THEN few ELSE Always] : n \in 1..3, few \in Few}}
    \cup
    {TreeOf(FilesOf(Gate(Unix), g2, Always, Always, sw), settings, answers, MCTargets \cup OtherTargets) :
        g2 \in Few, sw \in Switches, settings \in {{}, {{"unix"}, {"windows"}}}, answers \in BOOLEAN}
MCHidden == {".git"}
MCTestNames == {"unit_test"}
MCKnown == {"unix", "windows"}

\* The same in a checkout below a directory called examples.
BelowExamples == {[t EXCEPT !.above = <<"home", "examples">>] : t \in MCTrees}
=============================================================================
