---------------------------- MODULE SplitFileProofs ----------------------------
(***************************************************************************)
(* Proofs that the parts splitFile makes cover the file evenly, and that   *)
(* combineFile makes the file of them, for files of any size and meshes of *)
(* any number of nodes.                                                    *)
(*                                                                         *)
(* The loops have closed forms: part k begins at Off(k), and the first     *)
(* `left' parts are one byte longer.  The inductive invariant says so of   *)
(* what the loops have done so far.                                        *)
(***************************************************************************)
EXTENDS SplitFile, TLAPS

left == fileSize % numPeers
Off(k) == k * partSize + (IF k <= left THEN k ELSE left)
PartLength(k) == partSize + (IF k < left THEN 1 ELSE 0)

\* What the first loop has done.
LengthsInv ==
    /\ pc = "lengths" =>
           /\ numPeers > 0 /\ i <= numPeers /\ offset = 0
           /\ remainder = (IF i <= left THEN left - i ELSE 0)
           /\ \A k \in Indices : k < i => lengthArray[k] = PartLength(k)
    /\ pc \in {"slices", "split", "combine", "done"} =>
           numPeers > 0 /\ \A k \in Indices : lengthArray[k] = PartLength(k)

\* What the second loop has done.
SlicesInv ==
    /\ pc = "slices" =>
           /\ i <= numPeers /\ offset = Off(i)
           /\ \A k \in Indices : k < i => readers[k] = [from |-> Off(k), to |-> Off(k + 1)]
    /\ Split => \A k \in Indices : readers[k] = [from |-> Off(k), to |-> Off(k + 1)]

\* What combineFile has done.
CombineInv ==
    /\ pc \notin {"combine", "done", "error"} => combined = [len |-> 0, prefix |-> TRUE]
    /\ pc = "combine" => /\ Cardinality(readerMap) = numPeers
                         /\ i \in 1 .. numPeers + 1
                         /\ combined = [len |-> Off(i - 1), prefix |-> TRUE]
    /\ pc = "done" => combined = [len |-> Off(numPeers), prefix |-> TRUE]

\* The values of the variables, but for the bound on offset.
Types ==
    /\ fileSize \in Nat /\ numPeers \in Nat /\ i \in Nat /\ remainder \in Nat
    /\ pc \in {"start", "lengths", "slices", "split", "combine", "done", "error"}
    /\ lengthArray \in [Indices -> Nat]
    /\ offset \in Nat
    /\ readers \in [Indices -> Interval]
    /\ readerMap \subseteq 0 .. numPeers
    /\ combined \in [len : Nat, prefix : BOOLEAN]
    /\ pc = "start" => i = 0 /\ offset = 0

SplitInv == Types /\ LengthsInv /\ SlicesInv /\ CombineInv

-----------------------------------------------------------------------------
(* Arithmetic.                                                              *)

\* Division with remainder.
LEMMA DivMod ==
    ASSUME NEW a \in Nat, NEW n \in Nat, n > 0
    PROVE  /\ a \div n \in Nat /\ a % n \in 0 .. n - 1
           /\ a = n * (a \div n) + (a % n)
  OBVIOUS

\* The closed form of the offsets: it starts at 0, grows by the lengths of the
\* parts and ends at the size of the file.
LEMMA Offsets ==
    ASSUME fileSize \in Nat, numPeers \in Nat, numPeers > 0
    PROVE  /\ partSize \in Nat /\ left \in 0 .. numPeers - 1
           /\ \A k \in Nat : Off(k) \in Nat /\ PartLength(k) \in Nat
           /\ Off(0) = 0 /\ Off(numPeers) = fileSize
           /\ \A k \in Nat : Off(k + 1) = Off(k) + PartLength(k)
  <1>1. partSize \in Nat /\ left \in 0 .. numPeers - 1 /\ fileSize = numPeers * partSize + left
    BY DivMod DEF partSize, left
  <1>2. \A k \in Nat : k * partSize \in Nat /\ (k + 1) * partSize = k * partSize + partSize
    BY <1>1
  <1>3. \A k \in Nat : Off(k) \in Nat /\ PartLength(k) \in Nat
    BY <1>1, <1>2 DEF Off, PartLength
  <1>4. Off(0) = 0
    BY <1>1 DEF Off
  <1>5. Off(numPeers) = fileSize
    BY <1>1 DEF Off
  <1>6. ASSUME NEW k \in Nat PROVE Off(k + 1) = Off(k) + PartLength(k)
    <2>1. CASE k < left BY <2>1, <1>1, <1>2 DEF Off, PartLength
    <2>2. CASE ~ (k < left) BY <2>2, <1>1, <1>2 DEF Off, PartLength
    <2> QED BY <2>1, <2>2
  <1> QED BY <1>1, <1>3, <1>4, <1>5, <1>6

-----------------------------------------------------------------------------
(* The invariant.                                                           *)

\* The initial states satisfy the invariant.
LEMMA SplitInit == Init => SplitInv
  BY SizesAssumption
  DEF Init, SplitInv, Types, LengthsInv, SlicesInv, CombineInv, Split, Indices, Interval

\* Every step keeps it.
LEMMA SplitStep == SplitInv /\ [Next]_vars => SplitInv'
  <1> SUFFICES ASSUME SplitInv, [Next]_vars PROVE SplitInv'
    OBVIOUS
  <1> USE DEF SplitInv
  <1>1. CASE Start
    <2>1. CASE numPeers = 0
      BY <1>1, <2>1
      DEF Start, Types, LengthsInv, SlicesInv, CombineInv, Split, Indices
    <2>2. CASE numPeers # 0
      <3>1. numPeers > 0 /\ left \in 0 .. numPeers - 1
        BY <2>2, Offsets DEF Types
      <3>2. Types'
        BY <1>1, <2>2, <3>1 DEF Start, Types, Indices, left
      <3>3. LengthsInv'
        BY <1>1, <2>2, <3>1 DEF Start, Types, LengthsInv, Indices, left
      <3>4. SlicesInv' /\ CombineInv'
        BY <1>1, <2>2 DEF Start, Types, SlicesInv, CombineInv, Split
      <3> QED BY <3>2, <3>3, <3>4
    <2> QED BY <2>1, <2>2
  <1>2. CASE Length
    <2>1. numPeers > 0 /\ left \in 0 .. numPeers - 1 /\ partSize \in Nat
      BY <1>2, Offsets DEF Length, Types, LengthsInv
    <2>2. i \in Indices /\ i < numPeers
      BY <1>2, <2>1 DEF Length, Types, Indices
    <2>3. partSize + Extra(remainder) = PartLength(i)
      BY <1>2, <2>1, <2>2 DEF Length, LengthsInv, Types, Extra, PartLength
    <2>4. PartLength(i) \in Nat
      BY <2>1, Offsets DEF Types
    <2>5. Types'
      BY <1>2, <2>1, <2>2, <2>3, <2>4 DEF Length, Types, Indices, Extra
    <2>6. left' = left /\ partSize' = partSize /\ Indices' = Indices
      BY <1>2 DEF Length, left, partSize, Indices
    <2>7. \A k : PartLength(k)' = PartLength(k)
      BY <2>6 DEF PartLength
    <2>8. \A k \in Indices : k < i' => lengthArray'[k] = PartLength(k)
      BY <1>2, <2>2, <2>3 DEF Length, Types, LengthsInv, Indices
    <2>9. remainder' = (IF i' <= left THEN left - i' ELSE 0)
      BY <1>2, <2>1, <2>2 DEF Length, Types, LengthsInv, Extra
    <2>10. LengthsInv'
      BY <1>2, <2>1, <2>2, <2>6, <2>7, <2>8, <2>9 DEF Length, Types, LengthsInv
    <2>11. SlicesInv' /\ CombineInv'
      BY <1>2 DEF Length, SlicesInv, CombineInv, Split
    <2> QED BY <2>5, <2>10, <2>11
  <1>3. CASE LengthsDone
    <2>1. numPeers > 0 /\ Off(0) = 0
      BY <1>3, Offsets DEF LengthsDone, Types, LengthsInv
    <2>2. Types'
      BY <1>3 DEF LengthsDone, Types, Indices
    <2>3. \A k : PartLength(k)' = PartLength(k) /\ Off(k)' = Off(k)
      BY <1>3 DEF LengthsDone, PartLength, Off, left, partSize
    <2>4. LengthsInv'
      BY <1>3, <2>3 DEF LengthsDone, LengthsInv, Types, Indices
    <2>5. SlicesInv'
      BY <1>3, <2>1, <2>3 DEF LengthsDone, LengthsInv, SlicesInv, Split, Types, Indices
    <2>6. CombineInv'
      BY <1>3 DEF LengthsDone, CombineInv
    <2> QED BY <2>2, <2>4, <2>5, <2>6
  <1>4. CASE Slice
    <2>1. numPeers > 0 /\ i \in Indices /\ i < numPeers
      BY <1>4 DEF Slice, Types, LengthsInv, Indices
    <2>2. lengthArray[i] = PartLength(i) /\ offset = Off(i) /\ Off(i + 1) = Off(i) + PartLength(i)
      BY <1>4, <2>1, Offsets DEF Slice, Types, LengthsInv, SlicesInv
    <2>3. Off(i) \in Nat /\ Off(i + 1) \in Nat
      BY <2>1, Offsets DEF Types
    <2>4. Types'
      <3>1. [from |-> offset, to |-> offset + lengthArray[i]] \in Interval
        BY <2>1, <2>2, <2>3 DEF Types, Interval
      <3>2. readers' \in [Indices' -> Interval]
        BY <1>4, <2>1, <3>1 DEF Slice, Types, Indices
      <3>3. offset' \in Nat
        BY <1>4, <2>2, <2>3 DEF Slice, Advance
      <3> QED BY <1>4, <3>2, <3>3 DEF Slice, Types, Indices
    <2>5. Indices' = Indices /\ \A k : PartLength(k)' = PartLength(k) /\ Off(k)' = Off(k)
      BY <1>4 DEF Slice, Indices, PartLength, Off, left, partSize
    <2>6. LengthsInv'
      BY <1>4, <2>5 DEF Slice, LengthsInv
    <2>7. offset' = Off(i')
      BY <1>4, <2>2 DEF Slice, Advance
    <2>8. \A k \in Indices : k < i' => readers'[k] = [from |-> Off(k), to |-> Off(k + 1)]
      BY <1>4, <2>1, <2>2 DEF Slice, SlicesInv, Types, Indices
    <2>9. SlicesInv'
      BY <1>4, <2>1, <2>5, <2>7, <2>8 DEF Slice, SlicesInv, Split, Types, Indices
    <2>10. CombineInv'
      BY <1>4 DEF Slice, CombineInv
    <2> QED BY <2>4, <2>6, <2>9, <2>10
  <1>5. CASE SlicesDone
    <2>1. Types'
      BY <1>5 DEF SlicesDone, Types, Indices
    <2>2. Indices' = Indices /\ \A k : PartLength(k)' = PartLength(k) /\ Off(k)' = Off(k)
      BY <1>5 DEF SlicesDone, Indices, PartLength, Off, left, partSize
    <2>3. LengthsInv'
      BY <1>5, <2>2 DEF SlicesDone, LengthsInv
    <2>4. SlicesInv'
      BY <1>5, <2>2 DEF SlicesDone, SlicesInv, Split, Types, Indices
    <2>5. CombineInv'
      BY <1>5 DEF SlicesDone, CombineInv
    <2> QED BY <2>1, <2>3, <2>4, <2>5
  <1>6. CASE Collect
    <2>1. numPeers > 0 /\ Off(0) = 0
      BY <1>6, Offsets DEF Collect, Types, LengthsInv
    <2>2. Types'
      BY <1>6 DEF Collect, Types, Indices
    <2>3. Indices' = Indices /\ \A k : PartLength(k)' = PartLength(k) /\ Off(k)' = Off(k)
      BY <1>6 DEF Collect, Indices, PartLength, Off, left, partSize
    <2>4. LengthsInv'
      BY <1>6, <2>3 DEF Collect, LengthsInv
    <2>5. SlicesInv'
      BY <1>6, <2>3 DEF Collect, SlicesInv, Split
    <2>6. CombineInv'
      BY <1>6, <2>1, <2>3 DEF Collect, CombineInv, AllParts, Types
    <2> QED BY <2>2, <2>4, <2>5, <2>6
  <1>7. CASE Combine
    <2>1. numPeers > 0
      BY <1>7 DEF Combine, LengthsInv
    <2>2. Indices' = Indices /\ \A k : PartLength(k)' = PartLength(k) /\ Off(k)' = Off(k)
      BY <1>7 DEF Combine, Indices, PartLength, Off, left, partSize
    <2>3. LengthsInv'
      BY <1>7, <2>2 DEF Combine, LengthsInv
    <2>4. SlicesInv'
      BY <1>7, <2>2 DEF Combine, SlicesInv, Split
    <2>5. CASE i > Cardinality(readerMap)
      <3>1. i = numPeers + 1 /\ i - 1 = numPeers
        BY <1>7, <2>5 DEF Combine, CombineInv, Types
      <3>2. CombineInv'
        BY <1>7, <2>2, <2>5, <3>1 DEF Combine, CombineInv
      <3>3. Types'
        BY <1>7, <2>5 DEF Combine, Types, Indices
      <3> QED BY <2>3, <2>4, <3>2, <3>3
    <2>6. CASE ~ (i > Cardinality(readerMap)) /\ i \notin readerMap
      BY <1>7, <2>3, <2>4, <2>6 DEF Combine, CombineInv, Types, Indices
    <2>7. CASE ~ (i > Cardinality(readerMap)) /\ i \in readerMap
      <3>1. i \in 1 .. numPeers /\ i - 1 \in Indices /\ i - 1 \in Nat
        BY <1>7, <2>7 DEF Combine, CombineInv, Types, Indices
      <3>2. readers[i - 1] = [from |-> Off(i - 1), to |-> Off((i - 1) + 1)]
        BY <1>7, <3>1 DEF Combine, SlicesInv, Split
      <3>3. (i - 1) + 1 = i /\ i' - 1 = i /\ i' \in 1 .. numPeers + 1
        BY <1>7, <2>7, <3>1 DEF Combine, Types
      <3>4. Off(i - 1) \in Nat /\ Off(i) \in Nat
        BY <2>1, <3>1, Offsets DEF Types
      <3>5. combined' = [len |-> Off(i), prefix |-> TRUE]
        <4>1. combined.len = Off(i - 1) /\ combined.prefix = TRUE
          BY <1>7 DEF Combine, CombineInv
        <4>2. /\ readers[i - 1].from = combined.len
              /\ combined.len + (readers[i - 1].to - readers[i - 1].from) = Off(i)
          BY <3>2, <3>3, <3>4, <4>1
        <4>3. (combined.prefix /\ readers[i - 1].from = combined.len) = TRUE
          BY <4>1, <4>2, Zenon
        <4>4. combined' = [len |-> combined.len + (readers[i - 1].to - readers[i - 1].from),
                           prefix |-> combined.prefix /\ readers[i - 1].from = combined.len]
          BY <1>7, <2>7, Zenon DEF Combine
        <4> QED BY <4>2, <4>3, <4>4, Zenon
      <3>6. CombineInv'
        BY <1>7, <2>2, <2>7, <3>3, <3>5 DEF Combine, CombineInv
      <3>7. Types'
        BY <1>7, <2>7, <3>3, <3>4, <3>5 DEF Combine, Types, Indices
      <3> QED BY <2>3, <2>4, <3>6, <3>7
    <2> QED BY <2>5, <2>6, <2>7
  <1>8. CASE UNCHANGED vars
    BY <1>8
    DEF vars, Types, LengthsInv, SlicesInv, CombineInv, Split, Indices, Off, PartLength, left, partSize
  <1> QED BY <1>1, <1>2, <1>3, <1>4, <1>5, <1>6, <1>7, <1>8 DEF Next

\* The invariant holds in every behaviour.
LEMMA SplitInvariant == Spec => []SplitInv
  BY SplitInit, SplitStep, PTL DEF Spec

\* No part begins after the end of the file.
LEMMA OffsetsInFile ==
    ASSUME fileSize \in Nat, numPeers \in Nat, numPeers > 0, NEW k \in 0 .. numPeers
    PROVE  Off(k) <= fileSize
  <1>1. partSize \in Nat /\ left \in 0 .. numPeers - 1 /\ fileSize = numPeers * partSize + left
    BY DivMod DEF partSize, left
  <1>2. numPeers * partSize = k * partSize + (numPeers - k) * partSize
    BY <1>1
  <1>3. (numPeers - k) * partSize \in Nat /\ k * partSize \in Nat
    BY <1>1
  <1>4. (IF k <= left THEN k ELSE left) <= left
    BY <1>1
  <1> QED BY <1>1, <1>2, <1>3, <1>4 DEF Off

-----------------------------------------------------------------------------
(* Theorems.                                                                *)

\* splitFile: no slice leaves the file, whatever its size and the number of nodes.
THEOREM SplitTypes == Spec => []TypeOK
  <1>1. Init => offset <= fileSize
    BY SizesAssumption DEF Init
  <1>2. SplitInv /\ offset <= fileSize /\ [Next]_vars => (offset <= fileSize)'
    <2> SUFFICES ASSUME SplitInv, offset <= fileSize, [Next]_vars PROVE offset' <= fileSize'
      OBVIOUS
    <2>1. CASE Slice
      <3>1. /\ numPeers > 0 /\ i \in Indices /\ i + 1 \in 0 .. numPeers
            /\ fileSize \in Nat /\ numPeers \in Nat
        BY <2>1 DEF Slice, SplitInv, Types, LengthsInv, Indices
      <3>2. lengthArray[i] = PartLength(i) /\ offset = Off(i)
        BY <2>1, <3>1 DEF Slice, SplitInv, LengthsInv, SlicesInv
      <3>3. Off(i + 1) = Off(i) + PartLength(i)
        BY <3>1, Offsets DEF Indices
      <3>4. Off(i + 1) <= fileSize
        BY <3>1, OffsetsInFile
      <3> QED BY <2>1, <3>2, <3>3, <3>4 DEF Slice, Advance
    <2>2. CASE Start \/ Length \/ LengthsDone \/ SlicesDone \/ Collect \/ Combine \/ UNCHANGED vars
      BY <2>2 DEF Start, Length, LengthsDone, SlicesDone, Collect, Combine, vars
    <2> QED BY <2>1, <2>2 DEF Next
  <1>3. SplitInv /\ offset <= fileSize => TypeOK
    BY DEF SplitInv, Types, TypeOK
  <1> QED BY <1>1, <1>2, <1>3, SplitInvariant, PTL DEF Spec

\* splitFile, for a file of any size and a mesh of any number of nodes: the
\* parts follow one another and cover the file.
THEOREM PartsAlwaysCoverFile == Spec => []PartsCoverFile
  <1>1. SplitInv => PartsCoverFile
    <2> SUFFICES ASSUME SplitInv, Split PROVE PartsCoverFile
      BY DEF PartsCoverFile
    <2>1. numPeers > 0 /\ numPeers \in Nat
      BY DEF SplitInv, Types, LengthsInv, Split
    <2>2. \A k \in Indices : readers[k] = [from |-> Off(k), to |-> Off(k + 1)]
      BY DEF SplitInv, SlicesInv
    <2>3. Off(0) = 0 /\ Off((numPeers - 1) + 1) = fileSize
      <3>1. (numPeers - 1) + 1 = numPeers
        BY <2>1
      <3> QED BY <2>1, <3>1, Offsets DEF SplitInv, Types
    <2>4. readers[0].from = 0 /\ readers[numPeers - 1].to = fileSize
      <3>1. 0 \in Indices /\ numPeers - 1 \in Indices
        BY <2>1 DEF Indices
      <3>2. /\ readers[0] = [from |-> Off(0), to |-> Off(0 + 1)]
            /\ readers[numPeers - 1] =
                   [from |-> Off(numPeers - 1), to |-> Off((numPeers - 1) + 1)]
        BY <2>2, <3>1, Zenon
      <3> QED BY <2>3, <3>2
    <2>5. ASSUME NEW k \in Indices \ {0} PROVE readers[k].from = readers[k - 1].to
      <3>1. k - 1 \in Indices /\ (k - 1) + 1 = k
        BY <2>1 DEF Indices
      <3>2. /\ readers[k] = [from |-> Off(k), to |-> Off(k + 1)]
            /\ readers[k - 1] = [from |-> Off(k - 1), to |-> Off((k - 1) + 1)]
        BY <2>2, <3>1, Zenon
      <3> QED BY <3>1, <3>2
    <2> QED BY <2>4, <2>5 DEF PartsCoverFile
  <1> QED BY <1>1, SplitInvariant, PTL

\* splitFile: the lengths of two parts differ by one byte at most.
THEOREM PartsAlwaysEven == Spec => []PartsAreEven
  <1>1. SplitInv => PartsAreEven
    <2> SUFFICES ASSUME SplitInv, Split, NEW k \in Indices, NEW l \in Indices
                 PROVE  readers[k].to - readers[k].from <= readers[l].to - readers[l].from + 1
      BY DEF PartsAreEven
    <2>1. numPeers > 0 /\ numPeers \in Nat /\ k \in Nat /\ l \in Nat
      BY DEF SplitInv, Types, LengthsInv, Split, Indices
    <2>2. /\ readers[k] = [from |-> Off(k), to |-> Off(k + 1)]
          /\ readers[l] = [from |-> Off(l), to |-> Off(l + 1)]
      BY DEF SplitInv, SlicesInv
    <2>3. /\ Off(k) \in Nat /\ Off(l) \in Nat /\ PartLength(k) \in Nat /\ PartLength(l) \in Nat
          /\ Off(k + 1) = Off(k) + PartLength(k) /\ Off(l + 1) = Off(l) + PartLength(l)
      BY <2>1, Offsets DEF SplitInv, Types
    <2>4. PartLength(k) <= PartLength(l) + 1
      BY <2>1, Offsets DEF PartLength, SplitInv, Types
    <2> QED BY <2>2, <2>3, <2>4
  <1> QED BY <1>1, SplitInvariant, PTL

\* getSplit and combineFile: what comes out is the file that went in.
THEOREM CombinedIsAlwaysFile == Spec => []CombinedIsFile
  <1>1. SplitInv => CombinedIsFile
    <2> SUFFICES ASSUME SplitInv, pc = "done" PROVE combined = [len |-> fileSize, prefix |-> TRUE]
      BY DEF CombinedIsFile
    <2>1. Off(numPeers) = fileSize
      BY Offsets DEF SplitInv, Types, LengthsInv
    <2> QED BY <2>1 DEF SplitInv, CombineInv
  <1> QED BY <1>1, SplitInvariant, PTL
=============================================================================
