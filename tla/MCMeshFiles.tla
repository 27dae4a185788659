------------------------------ MODULE MCMeshFiles ------------------------------
(* Configurations for the runs of MeshFiles.                                  *)
EXTENDS MeshFiles, TLC

\* Two nodes, which a third may join, or three.
TwoOrMore == {M \in SUBSET Nodes : Cardinality(M) >= 2}
AllNodes == {Nodes}

\* The nodes differ in nothing but their name.
Renaming == Permutations(Nodes)

\* Parts, and copies that are not encrypted.
GoodModes == {<<TRUE, "AES">>, <<FALSE, "None">>}

\* What -arch mesh gives without further flags.
DefaultMode == {<<FALSE, "AES">>}
================================================================================
