------------------------------- MODULE SplitFile -------------------------------
(***************************************************************************)
(* How a file is cut into one part per member of the mesh and put together *)
(* again: splitFile, the numbering of the parts in storeSplit, and the end *)
(* of getSplit with combineFile.  A part is the interval of the file that  *)
(* it holds; the loops of the code are steps.  Which parts reach the node  *)
(* that asks is any set of them.                                           *)
(***************************************************************************)
EXTENDS Integers, FiniteSets

CONSTANTS Sizes,   \* lengths of files
          Counts   \* lengths of network.Nodes

ASSUME SizesAssumption == Sizes \subseteq Nat /\ Counts \subseteq Nat

VARIABLES
    fileSize,     \* len(data)
    numPeers,     \* len(network.Nodes)
    pc,           \* where the code is
    i,            \* index of the loop it is in
    remainder,    \* bytes that are left over
    lengthArray,  \* lengths of the parts
    offset,       \* where the next part begins
    readers,      \* the parts, as intervals of the file
    readerMap,    \* the numbers of the parts that were collected
    combined      \* combineFile's buffer: its length, and is it a prefix of the file?

vars == <<fileSize, numPeers, pc, i, remainder, lengthArray, offset, readers, readerMap, combined>>

partSize == fileSize \div numPeers
Indices == 0 .. numPeers - 1
Interval == [from : Nat, to : Nat]

Init ==
    /\ fileSize \in Sizes /\ numPeers \in Counts
    /\ pc = "start" /\ i = 0 /\ remainder = 0 /\ offset = 0
    /\ lengthArray = [k \in Indices |-> 0]
    /\ readers = [k \in Indices |-> [from |-> 0, to |-> 0]]
    /\ readerMap = {} /\ combined = [len |-> 0, prefix |-> TRUE]

-----------------------------------------------------------------------------

\* splitFile refuses to split for nobody.
Start ==
    /\ pc = "start"
    /\ IF numPeers = 0 THEN pc' = "error" /\ UNCHANGED remainder
       ELSE pc' = "lengths" /\ remainder' = fileSize % numPeers
    /\ UNCHANGED <<fileSize, numPeers, i, lengthArray, offset, readers, readerMap, combined>>

\* A faulty variant: one byte too many is handed out.
OneTooMany(left) == IF left >= 0 THEN 1 ELSE 0

\* A faulty variant: the first part gets all the left-over bytes.
AllLeft(left) == left

\* Does a part get one of the left-over bytes?
Extra(left) == IF left > 0 THEN 1 ELSE 0

\* The first loop: the first parts get one byte more.
Length ==
    /\ pc = "lengths" /\ i < numPeers
    /\ lengthArray' = [lengthArray EXCEPT ![i] = partSize + Extra(remainder)]
    /\ remainder' = remainder - Extra(remainder)
    /\ i' = i + 1
    /\ UNCHANGED <<fileSize, numPeers, pc, offset, readers, readerMap, combined>>

LengthsDone ==
    /\ pc = "lengths" /\ i = numPeers
    /\ pc' = "slices" /\ i' = 0
    /\ UNCHANGED <<fileSize, numPeers, remainder, lengthArray, offset, readers, readerMap, combined>>

\* A faulty variant: the offset is advanced by the size of a short part.
AdvanceShort(k) == offset + partSize

\* offset += length
Advance(k) == offset + lengthArray[k]

\* The second loop: data[offset : offset+length].
Slice ==
    /\ pc = "slices" /\ i < numPeers
    /\ readers' = [readers EXCEPT ![i] = [from |-> offset, to |-> offset + lengthArray[i]]]
    /\ offset' = Advance(i)
    /\ i' = i + 1
    /\ UNCHANGED <<fileSize, numPeers, pc, remainder, lengthArray, readerMap, combined>>

SlicesDone ==
    /\ pc = "slices" /\ i = numPeers
    /\ pc' = "split"
    /\ UNCHANGED <<fileSize, numPeers, i, remainder, lengthArray, offset, readers, readerMap, combined>>

\* A faulty variant: some parts are enough.
SomePart(parts) == parts # {}

\* getSplit: has it as many parts as the metadata says there are?
AllParts(parts) == parts # {} /\ Cardinality(parts) = numPeers

\* getSplit collects parts, numbered from 1 (0 is what it reads from a connection
\* that is closed), and returns an error when some are missing, or when it found
\* no metadata, having no part of its own.
Collect ==
    /\ pc = "split"
    /\ readerMap' \in SUBSET (0 .. numPeers)
    /\ pc' \in IF AllParts(readerMap') THEN {"combine", "error"} ELSE {"error"}
    /\ i' = 1
    /\ UNCHANGED <<fileSize, numPeers, remainder, lengthArray, offset, readers, combined>>

\* combineFile: the parts in the order of their numbers, none missing.
Combine ==
    /\ pc = "combine"
    /\ IF i > Cardinality(readerMap) THEN pc' = "done" /\ UNCHANGED <<i, combined>>
       ELSE IF i \notin readerMap THEN pc' = "error" /\ UNCHANGED <<i, combined>>
       ELSE LET part == readers[i - 1]
            IN  /\ combined' = [len |-> combined.len + (part.to - part.from),
                                prefix |-> combined.prefix /\ part.from = combined.len]
                /\ i' = i + 1
                /\ UNCHANGED pc
    /\ UNCHANGED <<fileSize, numPeers, remainder, lengthArray, offset, readers, readerMap>>

Next == Start \/ Length \/ LengthsDone \/ Slice \/ SlicesDone \/ Collect \/ Combine

Spec == Init /\ [][Next]_vars

-----------------------------------------------------------------------------
(* Properties.                                                              *)

Split == pc \in {"split", "combine", "done"}

\* The values the variables take: no slice leaves the file.
TypeOK ==
    /\ fileSize \in Nat /\ numPeers \in Nat /\ i \in Nat /\ remainder \in Nat
    /\ pc \in {"start", "lengths", "slices", "split", "combine", "done", "error"}
    /\ lengthArray \in [Indices -> Nat]
    /\ offset \in 0 .. fileSize
    /\ readers \in [Indices -> Interval]
    /\ readerMap \subseteq 0 .. numPeers
    /\ combined \in [len : Nat, prefix : BOOLEAN]

\* Whatever the size of the file and the number of nodes, the parts splitFile
\* makes follow one another and cover the file.
PartsCoverFile ==
    Split =>
        /\ readers[0].from = 0 /\ readers[numPeers - 1].to = fileSize
        /\ \A k \in Indices \ {0} : readers[k].from = readers[k - 1].to

\* No node gets more than one byte more than another.
PartsAreEven ==
    Split => \A k, l \in Indices :
                 readers[k].to - readers[k].from <= readers[l].to - readers[l].from + 1

\* What getSplit returns is the file that was split: a read with a part missing
\* is an error and never a shorter file.
CombinedIsFile == pc = "done" => combined = [len |-> fileSize, prefix |-> TRUE]
=============================================================================
