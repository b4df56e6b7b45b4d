--------------------------- MODULE MCSourceFilters ---------------------------
(***************************************************************************)
(* TLC instances of SourceFilters: three trees of items over the positions *)
(* 0..6 and three lines, at most two gated items, the policies and lists   *)
(* of annotation comments.                                                 *)
(***************************************************************************)
EXTENDS SourceFilters

It(p, k, f, t, n, b) ==
    [parent |-> p, kind |-> k, first |-> f, past |-> t, name |-> n, body |-> b]

MCShapes ==
    {<<It(0, "mod", 0, 6, 0, 0), It(1, "impl", 1, 6, 1, 1),
       It(2, "fn", 2, 6, 2, 3), It(3, "fn", 3, 6, 4, 5)>>,
     <<It(0, "fn", 0, 2, 0, 1), It(0, "trait", 2, 6, 2, 2),
       It(2, "fn", 2, 4, 3, 4), It(2, "fn", 4, 6, 4, 5)>>,
     <<It(0, "other", 0, 1, 0, 0), It(0, "fn", 1, 4, 2, 2),
       It(2, "mod", 3, 4, 3, 3), It(0, "fn", 4, 6, 5, 5)>>}

MCGatesOf(tree) ==
    {[g EXCEPT ![0] = whole] :
        whole \in {{}, {"test"}, {"cfg"}},
        g \in {h \in [0 .. Len(tree) -> {{}, {"test"}, {"cfg"}}] :
                  /\ h[0] = {}
                  /\ Cardinality({i \in 1 .. Len(tree) : h[i] # {}}) <= 2}}

MCPolicies ==
    [skipWithoutTest : BOOLEAN, skipWithCfg : BOOLEAN,
     match : {"off"}, matching : {{}}, ignored : {{}, {2}}]
    \cup
    [skipWithoutTest : {FALSE}, skipWithCfg : BOOLEAN,
     match : {"on"}, matching : {{3}, {2}}, ignored : {{}}]

Comment(line, form, matches, names) ==
    [line |-> line, form |-> form, matches |-> matches, names |-> names]

MCComments ==
    {<<>>,
     <<Comment(1, "func", {}, {"a"}), Comment(2, "next", {}, {"a", "b"})>>,
     <<Comment(1, "regexp", {1, 3}, {"b"}), Comment(2, "func", {}, {"b"})>>,
     <<Comment(1, "next", {}, {"a"}), Comment(1, "unknown", {}, {})>>,
     <<Comment(0, "func", {}, {"a", "b"})>>}
=============================================================================
