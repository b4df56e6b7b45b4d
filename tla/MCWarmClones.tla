----------------------------- MODULE MCWarmClones -----------------------------
(***************************************************************************)
(* TLC instance of WarmClones: a package with a program, a library, a test *)
(* and an example, whose names hold the separators that Cargo rewrites,    *)
(* beside the files of another package and of Cargo.                       *)
(***************************************************************************)
EXTENDS WarmClones

MyApp == <<"my", "-", "app">>

MCCrates ==
    {[package |-> MyApp, name |-> MyApp, kind |-> "bin"],
     [package |-> MyApp, name |-> <<"my", "-", "core">>, kind |-> "lib"],
     [package |-> MyApp, name |-> <<"smoke">>, kind |-> "test"],
     [package |-> MyApp, name |-> <<"demo">>, kind |-> "example"]}

MCForeign ==
    {[dir |-> "deps", name |-> <<"lib", "serde", "-", "hash">>],
     [dir |-> "deps", name |-> <<"lib", "smoke", "_", "signal", "-", "hash">>],
     [dir |-> "target", name |-> <<".", "rustc_info">>]}
=============================================================================
