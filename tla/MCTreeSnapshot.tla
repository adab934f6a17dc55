---------------------------- MODULE MCTreeSnapshot ----------------------------
(* Whole, malformed, unsorted and oversized trees, and one with a blob whose      *)
(* answer is malformed.                                                           *)
EXTENDS TreeSnapshot

MCTrees ==
    [file |-> {<<1, 2>>, <<2, 1>>, <<1, 2, 4>>, <<3>>, <<5>>, <<0>>},
     stream |-> {<<1, 2>>},
     output |-> {<<1, 2>>, <<1, 2, 4>>},
     ask |-> {<<>>, <<1>>}]
=============================================================================
