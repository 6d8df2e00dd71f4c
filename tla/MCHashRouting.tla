---------------------------- MODULE MCHashRouting ----------------------------
(* HashRouting on a path of three nodes: the ends ask the provider between  *)
(* them and anything may fail, or nothing fails, one end is the provider    *)
(* and the two others ask it and each other, or both ends provide and the   *)
(* node between them stores their locations at the same time.               *)
EXTENDS HashRouting

CONSTANTS n1, n2, n3

PathLinks == {<<n1, n2>>, <<n2, n1>>, <<n2, n3>>, <<n3, n2>>}

FailingOrFar == {[provider |-> {n2}, requester |-> {n1, n3}, faults |-> TRUE],
                 [provider |-> {n3}, requester |-> {n1, n2}, faults |-> FALSE],
                 [provider |-> {n1, n3}, requester |-> {n2}, faults |-> FALSE]}
=============================================================================
