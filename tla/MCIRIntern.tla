----------------------------- MODULE MCIRIntern -----------------------------
(* One caller builds sums of symbols and numbers, three nodes deep; one a  *)
(* node of each kind, with declarations of a name; one powers until they   *)
(* are too deep.  The hash tables of two buckets double at the second      *)
(* entry, the pools of two elements at the second node, and the budget     *)
(* runs out before the fourth.  A 64-bit integer is -3 .. 2 here, so 3 and *)
(* -4 are promoted.                                                        *)
EXTENDS IRIntern

MCNameLength == [name \in Names |-> name]
MCSums ==
    [names |-> Names, kinds |-> {"SYMBOL", "ADD", "POW"}, integers |-> {},
     fractions |-> {<<1, 0>>, <<1, 2>>, <<-3, -1>>}, decimals |-> {<<2, 4>>, <<-4, 1>>},
     flags |-> {}, slots |-> {}, maxNodes |-> 4, maxDepth |-> 3]
MCKinds ==
    [names |-> {1}, kinds |-> {"SYMBOL", "INDEX", "REAL", "ERROR", "NCMUL", "POW",
                               "TENSOR", "DERIVATIVE"},
     integers |-> {1}, fractions |-> {}, decimals |-> {},
     flags |-> {{"positive"}, {"negative"}}, slots |-> {0, 1}, maxNodes |-> 2, maxDepth |-> 2]
MCTowers == [MCSums EXCEPT !.names = {1}, !.kinds = {"SYMBOL", "POW"}, !.fractions = {},
                           !.decimals = {}, !.maxNodes = 3, !.maxDepth = 2]
MCWorkloads == {MCSums, MCKinds, MCTowers}
MCElementSize ==
    [pool \in Pools |->
        CASE pool = "nodes" -> 8 [] pool = "symbols" -> 6
          [] pool \in {"rationals", "bigExacts", "symmetries"} -> 4 [] OTHER -> 1]
=============================================================================
