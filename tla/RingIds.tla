-------------------------------- MODULE RingIds --------------------------------
(***************************************************************************)
(* The identifier circle of the Chord ring: the helper functions at the    *)
(* end of chord_util.go.  An identifier is a SHA-1 hash of Bits bits (160  *)
(* in the code) taken as a natural number.  A node is named by its         *)
(* identifier throughout the project: hashToNodeID(Address) is taken to be *)
(* injective on the addresses of one network.                              *)
(***************************************************************************)
EXTENDS Integers

CONSTANT Bits          \* the constant M of chord.go

ASSUME BitsAssumption == Bits \in Nat \ {0}

Ids == 0 .. (2^Bits - 1)

\* Start of the i-th finger interval, i \in 0 .. Bits-1.
fingerID(id, i) == (id + 2^i) % 2^Bits

\* Is id on the arc that runs clockwise from `from' to `to'?  Inclusive takes
\* both end points (the classical Chord interval leaves `from' out).
isBetween(id, from, to, inclusive) ==
    \/ from = to /\ inclusive
    \/ from < to /\ IF inclusive THEN from <= id /\ id <= to
                                 ELSE from < id /\ id < to
    \/ from > to /\ IF inclusive THEN from <= id \/ id <= to
                                 ELSE from < id \/ id < to

-----------------------------------------------------------------------------
(* Reference definitions, used only to state properties.                   *)

\* How far `to' lies ahead of `from', walking clockwise.
Clockwise(from, to) == IF from <= to THEN to - from ELSE to - from + 2^Bits

\* The member responsible for id: the first one met from id on, clockwise.
Responsible(members, id) ==
    CHOOSE n \in members :
        \A m \in members : Clockwise(id, n) <= Clockwise(id, m)

\* The member that follows n on the circle (n itself when it is alone).
IdealSuccessor(members, n) ==
    IF members = {n} THEN n
    ELSE CHOOSE m \in members \ {n} :
            \A k \in members \ {n} : Clockwise(n, m) <= Clockwise(n, k)
================================================================================
