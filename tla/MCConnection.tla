----------------------------- MODULE MCConnection -----------------------------
(* The script for the run of Connection.                                     *)
EXTENDS Connection

Note(n) == [type |-> "note", name |-> n]
Mesh(n) == [type |-> "mesh", name |-> n]
Chord(n) == [type |-> "chord", name |-> n]

\* A part and a Chord file are stored while a routine of the node sends a message.
TwoWriters ==
    [t \in {"main", "routine"} |->
        IF t = "main" THEN <<Mesh("f"), Chord("g")>> ELSE <<Note("a")>>]
=============================================================================
