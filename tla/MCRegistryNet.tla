--------------------------- MODULE MCRegistryNet ---------------------------
(* RegistryNet on two nodes, of which one asks the other.                   *)
EXTENDS RegistryNet

CONSTANTS n1, n2

PairLinks == {<<n1, n2>>, <<n2, n1>>}
=============================================================================
