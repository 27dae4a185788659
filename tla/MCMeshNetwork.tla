----------------------------- MODULE MCMeshNetwork -----------------------------
(* The run of MeshNetwork: who calls Add.                                     *)
EXTENDS MeshNetwork

CONSTANTS n1, n2, n3, n4

Four == {n1, n2, n3, n4}

\* The calls of server_test.go, and those of nodes that join.
ChainAndJoins == {<<n3, n1>>, <<n1, n2>>, <<n2, n4>>, <<n2, n1>>, <<n4, n1>>}
=============================================================================
