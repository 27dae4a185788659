------------------------------ MODULE StoreProofs ------------------------------
(***************************************************************************)
(* Proofs about the disk store, for any number of calls of WriteEncrypt,   *)
(* Delete and ReadDecrypt at once, any architecture and any encryption.    *)
(*                                                                         *)
(* What a call leaves on the disk is said place by place: for the call     *)
(* that nothing else overlaps (LoneInv), and for an inode that only one    *)
(* call has open for writing (WholeInv).                                   *)
(***************************************************************************)
EXTENDS Store, TLAPS

StoreState == [pc : {"new", "open", "vector", "bytes", "done", "failed"},
               at : Names, fd : Inodes \cup {None}]
DeleteState == [pc : {"new", "unlink", "done"}, left : SUBSET Names]
ReadState == [pc : {"open", "vector", "bytes", "done"}, at : Names,
              fd : Inodes \cup {None}, iv : Stores \cup {None}]

\* The disk and the history, and the calls, have their types.
DiskOK ==
    /\ dir \in BOOLEAN
    /\ entry \in [Names -> Inodes \cup {None}]
    /\ \A n \in Names : entry[n] # None => dir /\ entry[n][2] = n
    /\ inode \in [Inodes -> Contents]
    /\ alone \in Stores \cup {None}
    /\ torn \subseteq Inodes
StoresOK ==
    /\ store \in [Stores -> StoreState]
    /\ \A w \in Stores :
           /\ store[w].fd # None <=> store[w].pc \in {"vector", "bytes"}
           /\ store[w].fd # None => store[w].fd[2] = store[w].at
DeletesOK == delete \in [Deletes -> DeleteState]
ReadsOK ==
    /\ read \in [Reads -> ReadState]
    /\ \A r \in Reads : read[r].fd # None <=> read[r].pc \in {"vector", "bytes"}
    /\ got \in [Reads -> {None, "error", "empty", "garbage", "whole"}]
    /\ overlap \in [Reads -> BOOLEAN]

\* The four parts of the type invariant.
LEMMA TypeParts ==
    /\ TypeOK <=> DiskOK /\ StoresOK /\ DeletesOK /\ ReadsOK
    /\ TypeOK' <=> DiskOK' /\ StoresOK' /\ DeletesOK' /\ ReadsOK'
  BY DEF TypeOK, DiskOK, StoresOK, DeletesOK, ReadsOK, StoreState, DeleteState, ReadState

-----------------------------------------------------------------------------
(* The operators.                                                           *)

\* What the writes of encrypt make of a file.
LEMMA Encrypted ==
    ASSUME NEW w \in Stores, NEW c \in Contents
    PROVE  Vector(w, c) \in Contents /\ Bytes(w, c) \in Contents
  BY DEF Vector, Bytes, Contents

LEMMA EmptyIsContents == Empty \in Contents
  BY DEF Empty, Contents

\* What decrypt returns.
LEMMA PlainValues ==
    ASSUME NEW c PROVE Plain(c) \in {"error", "empty", "garbage", "whole"}
  BY DEF Plain

\* What os.Create opens for the call w.
Opened(w) == IF entry[store[w].at] = None THEN <<w, store[w].at>> ELSE entry[store[w].at]

\* os.Create changes one name, one inode and one call of WriteEncrypt.
LEMMA OpenStep ==
    ASSUME DiskOK, StoresOK, NEW w \in Stores, Open(w)
    PROVE  /\ store[w].pc = "open" /\ store[w].at \in Names /\ dir
           /\ Opened(w) \in Inodes /\ Opened(w)[2] = store[w].at
           /\ entry' = [entry EXCEPT ![store[w].at] = Opened(w)]
           /\ inode' = [inode EXCEPT ![Opened(w)] = Empty]
           /\ store' = [store EXCEPT ![w] = [pc |-> "vector", at |-> store[w].at,
                                             fd |-> Opened(w)]]
           /\ torn' = IF \E v \in Stores \ {w} : store[v].fd = Opened(w)
                      THEN torn \cup {Opened(w)} ELSE torn \ {Opened(w)}
           /\ overlap' = [r \in Reads |-> overlap[r] \/ read[r].fd = Opened(w)]
           /\ UNCHANGED <<dir, delete, read, got, alone>>
  <1> DEFINE i == Opened(w)
  <1>1. store[w].at \in Names
    BY DEF StoresOK, StoreState
  <1>2. i \in Inodes /\ i[2] = store[w].at
    BY <1>1 DEF DiskOK, Inodes, Opened
  <1>3. store' = [store EXCEPT ![w] = [pc |-> "vector", at |-> store[w].at, fd |-> i]]
    BY DEF Open, Opened
  <1>4. torn' = IF \E v \in Stores \ {w} : store[v].fd = i
                THEN torn \cup {i} ELSE torn \ {i}
    <2> DEFINE others == {v \in Stores \ {w} : store[v].fd = i}
    <2>1. torn' = IF others = {} THEN torn \ {i} ELSE torn \cup {i}
      BY DEF Open, Opened
    <2>2. others = {} <=> ~ \E v \in Stores \ {w} : store[v].fd = i
      OBVIOUS
    <2> QED BY <2>1, <2>2
  <1>5. /\ store[w].pc = "open" /\ dir
        /\ entry' = [entry EXCEPT ![store[w].at] = i]
        /\ inode' = [inode EXCEPT ![i] = Empty]
        /\ overlap' = [r \in Reads |-> overlap[r] \/ read[r].fd = i]
        /\ UNCHANGED <<dir, delete, read, got, alone>>
    BY DEF Open, Opened
  <1> QED BY <1>1, <1>2, <1>3, <1>4, <1>5

\* The two writes of encrypt change one inode and one call.
LEMMA VectorStep ==
    ASSUME StoresOK, NEW w \in Stores, EncryptVector(w)
    PROVE  /\ store[w].pc = "vector" /\ store[w].fd \in Inodes
           /\ store[w].at \in Names /\ store[w].fd[2] = store[w].at
           /\ inode' = [inode EXCEPT ![store[w].fd] = Vector(w, inode[store[w].fd])]
           /\ store' = [store EXCEPT ![w] = [pc |-> "bytes", at |-> store[w].at,
                                             fd |-> store[w].fd]]
           /\ UNCHANGED <<dir, entry, delete, alone, torn, reading>>
  <1>1. [store[w] EXCEPT !.pc = "bytes"]
            = [pc |-> "bytes", at |-> store[w].at, fd |-> store[w].fd]
    BY DEF StoresOK, StoreState
  <1>2. store' = [store EXCEPT ![w] = [store[w] EXCEPT !.pc = "bytes"]]
    BY DEF EncryptVector
  <1>3. /\ store[w].pc = "vector"
        /\ inode' = [inode EXCEPT ![store[w].fd] = Vector(w, inode[store[w].fd])]
        /\ UNCHANGED <<dir, entry, delete, alone, torn, reading>>
    BY DEF EncryptVector
  <1>4. store[w].fd \in Inodes /\ store[w].at \in Names /\ store[w].fd[2] = store[w].at
    BY <1>3 DEF StoresOK, StoreState
  <1> QED BY <1>1, <1>2, <1>3, <1>4

LEMMA BytesStep ==
    ASSUME StoresOK, NEW w \in Stores, EncryptBytes(w)
    PROVE  /\ store[w].pc = "bytes" /\ store[w].fd \in Inodes
           /\ store[w].at \in Names /\ store[w].fd[2] = store[w].at
           /\ inode' = [inode EXCEPT ![store[w].fd] = Bytes(w, inode[store[w].fd])]
           /\ store' = [store EXCEPT ![w] =
                  [pc |-> IF store[w].at = "data" THEN "open" ELSE "done",
                   at |-> "metadata", fd |-> None]]
           /\ UNCHANGED <<dir, entry, delete, alone, torn, reading>>
  <1>1. store[w].pc = "bytes"
    BY DEF EncryptBytes
  <1>2. store[w].fd \in Inodes /\ store[w].at \in Names /\ store[w].fd[2] = store[w].at
    BY <1>1 DEF StoresOK, StoreState
  <1>3. Written(w) = [pc |-> IF store[w].at = "data" THEN "open" ELSE "done",
                      at |-> "metadata", fd |-> None]
    BY <1>2 DEF Written, StoresOK, StoreState, Names
  <1>4. /\ inode' = [inode EXCEPT ![store[w].fd] = Bytes(w, inode[store[w].fd])]
        /\ store' = [store EXCEPT ![w] = Written(w)]
        /\ UNCHANGED <<dir, entry, delete, alone, torn, reading>>
    BY DEF EncryptBytes
  <1> QED BY <1>1, <1>2, <1>3, <1>4

\* A call that fails is over, the disk stays as it is.
LEMMA FailedCall ==
    ASSUME StoresOK, NEW w \in Stores, Failed(w)
    PROVE  store' = [store EXCEPT ![w] = [pc |-> "failed", at |-> store[w].at, fd |-> None]]
  BY DEF Failed

\* os.MkdirAll: the call has begun, or failed at once.
LEMMA MkdirStep ==
    ASSUME StoresOK, NEW w \in Stores, MkdirAll(w)
    PROVE  /\ store[w].pc = "new"
           /\ \E p \in {"open", "failed"} :
                  store' = [store EXCEPT ![w] = [pc |-> p, at |-> store[w].at, fd |-> None]]
           /\ (dir' = dir \/ dir' = TRUE)
           /\ alone' \in {w, None}
           /\ alone' = w => /\ \A v \in Stores : ~ Storing(v)
                            /\ \A d \in Deletes : ~ Deleting(d)
           /\ UNCHANGED <<entry, inode, delete, torn, reading>>
  <1>1. store[w].pc = "new"
    BY DEF MkdirAll
  <1>2. [store[w] EXCEPT !.pc = "open"] = [pc |-> "open", at |-> store[w].at, fd |-> None]
    BY <1>1 DEF StoresOK, StoreState
  <1>3. \E p \in {"open", "failed"} :
            store' = [store EXCEPT ![w] = [pc |-> p, at |-> store[w].at, fd |-> None]]
    <2>1. CASE Failed(w)
      BY <2>1, FailedCall
    <2>2. CASE store' = [store EXCEPT ![w].pc = "open"]
      BY <1>2, <2>2
    <2> QED BY <2>1, <2>2 DEF MkdirAll
  <1>4. /\ alone' \in {w, None}
        /\ alone' = w => /\ \A v \in Stores : ~ Storing(v)
                         /\ \A d \in Deletes : ~ Deleting(d)
    <2>1. CASE (\E v \in Stores : Storing(v)) \/ (\E d \in Deletes : Deleting(d))
      BY <2>1, NoneAssumption DEF MkdirAll
    <2>2. CASE ~ ((\E v \in Stores : Storing(v)) \/ (\E d \in Deletes : Deleting(d)))
      BY <2>2 DEF MkdirAll
    <2> QED BY <2>1, <2>2
  <1>5. (dir' = dir \/ dir' = TRUE) /\ UNCHANGED <<entry, inode, delete, torn, reading>>
    BY DEF MkdirAll
  <1> QED BY <1>1, <1>3, <1>4, <1>5

-----------------------------------------------------------------------------
(* Types.                                                                   *)

\* A step of WriteEncrypt.
LEMMA StoreTypesStep ==
    ASSUME TypeOK, NEW w \in Stores, WriteEncrypt(w) PROVE TypeOK'
  <1>t. DiskOK /\ StoresOK /\ DeletesOK /\ ReadsOK
    BY TypeParts
  <1>1. CASE MkdirAll(w)
    <2>1. PICK p \in {"open", "failed"} :
              store' = [store EXCEPT ![w] = [pc |-> p, at |-> store[w].at, fd |-> None]]
      BY <1>t, <1>1, MkdirStep
    <2>2. StoresOK'
      BY <1>t, <2>1, NoneAssumption DEF StoresOK, StoreState
    <2>3. /\ (dir' = dir \/ dir' = TRUE) /\ alone' \in {w, None}
          /\ UNCHANGED <<entry, inode, delete, torn, reading>>
      BY <1>t, <1>1, MkdirStep
    <2>4. DiskOK'
      <3>0. dir \in BOOLEAN
        BY <1>t DEF DiskOK
      <3>1. dir' \in BOOLEAN /\ (dir => dir')
        <4>1. CASE dir' = dir
          BY <3>0, <4>1
        <4>2. CASE dir' = TRUE
          BY <4>2
        <4> QED BY <2>3, <4>1, <4>2
      <3>2. \A n \in Names : entry[n] # None => dir /\ entry[n][2] = n
        BY <1>t DEF DiskOK
      <3>3. \A n \in Names : entry'[n] # None => dir' /\ entry'[n][2] = n
        BY <2>3, <3>1, <3>2
      <3>4. alone' \in Stores \cup {None}
        BY <2>3
      <3> QED BY <1>t, <2>3, <3>1, <3>3, <3>4 DEF DiskOK
    <2> QED BY <1>t, <2>2, <2>3, <2>4, TypeParts DEF DeletesOK, ReadsOK, reading
  <1>2. CASE Open(w)
    <2> DEFINE i == Opened(w)
               n == store[w].at
    <2>1. /\ n \in Names /\ i \in Inodes /\ i[2] = n /\ dir
          /\ entry' = [entry EXCEPT ![n] = i]
          /\ inode' = [inode EXCEPT ![i] = Empty]
          /\ store' = [store EXCEPT ![w] = [pc |-> "vector", at |-> n, fd |-> i]]
          /\ overlap' = [r \in Reads |-> overlap[r] \/ read[r].fd = i]
          /\ torn' = IF \E v \in Stores \ {w} : store[v].fd = i
                     THEN torn \cup {i} ELSE torn \ {i}
          /\ UNCHANGED <<dir, delete, read, got, alone>>
      BY <1>t, <1>2, OpenStep
    <2> HIDE DEF i, n
    <2>2. StoresOK'
      BY <1>t, <2>1, NoneAssumption DEF StoresOK, StoreState
    <2>3. DiskOK'
      BY <1>t, <2>1, EmptyIsContents DEF DiskOK
    <2>4. ReadsOK'
      BY <1>t, <2>1 DEF ReadsOK, ReadState
    <2> QED BY <1>t, <2>1, <2>2, <2>3, <2>4, TypeParts DEF DeletesOK
  <1>3. CASE EncryptVector(w)
    <2> DEFINE i == store[w].fd
               n == store[w].at
               c == Vector(w, inode[i])
    <2>1. /\ i \in Inodes /\ n \in Names /\ i[2] = n
          /\ inode' = [inode EXCEPT ![i] = c]
          /\ store' = [store EXCEPT ![w] = [pc |-> "bytes", at |-> n, fd |-> i]]
          /\ UNCHANGED <<dir, entry, delete, alone, torn, reading>>
      BY <1>t, <1>3, VectorStep
    <2>2. c \in Contents
      BY <1>t, <2>1, Encrypted DEF DiskOK
    <2> HIDE DEF i, n, c
    <2>3. StoresOK'
      BY <1>t, <2>1, NoneAssumption DEF StoresOK, StoreState
    <2>4. DiskOK'
      BY <1>t, <2>1, <2>2 DEF DiskOK
    <2> QED BY <1>t, <2>1, <2>3, <2>4, TypeParts DEF DeletesOK, ReadsOK, reading
  <1>4. CASE EncryptBytes(w)
    <2> DEFINE i == store[w].fd
               c == Bytes(w, inode[i])
               p == IF store[w].at = "data" THEN "open" ELSE "done"
    <2>1. /\ i \in Inodes
          /\ inode' = [inode EXCEPT ![i] = c]
          /\ store' = [store EXCEPT ![w] = [pc |-> p, at |-> "metadata", fd |-> None]]
          /\ UNCHANGED <<dir, entry, delete, alone, torn, reading>>
      BY <1>t, <1>4, BytesStep
    <2>2. c \in Contents
      BY <1>t, <2>1, Encrypted DEF DiskOK
    <2>3. p \in {"open", "done"}
      OBVIOUS
    <2> HIDE DEF i, c, p
    <2>4. StoresOK'
      BY <1>t, <2>1, <2>3, NoneAssumption DEF StoresOK, StoreState, Names
    <2>5. DiskOK'
      BY <1>t, <2>1, <2>2 DEF DiskOK
    <2> QED BY <1>t, <2>1, <2>4, <2>5, TypeParts DEF DeletesOK, ReadsOK, reading
  <1>5. CASE StoreFails(w)
    <2>1. /\ store' = [store EXCEPT ![w] = [pc |-> "failed", at |-> store[w].at, fd |-> None]]
          /\ UNCHANGED <<dir, entry, inode, delete, alone, torn, reading>>
      BY <1>t, <1>5, FailedCall DEF StoreFails
    <2>2. StoresOK'
      BY <1>t, <2>1, NoneAssumption DEF StoresOK, StoreState
    <2> QED BY <1>t, <2>1, <2>2, TypeParts DEF DeletesOK, ReadsOK, reading, DiskOK
  <1> QED BY <1>1, <1>2, <1>3, <1>4, <1>5 DEF WriteEncrypt

\* A step of Delete.
LEMMA DeleteTypesStep ==
    ASSUME TypeOK, NEW d \in Deletes, Delete(d)
    PROVE  TypeOK' /\ UNCHANGED <<inode, store, torn, reading>>
  <1>t. DiskOK /\ StoresOK /\ DeletesOK /\ ReadsOK
    BY TypeParts
  <1>1. UNCHANGED <<inode, store, torn, reading>>
    BY DEF Delete, List, Rmdir, Unlink
  <1>2. DeletesOK'
    <2>1. CASE List(d)
      <3>1. {n \in Names : entry[n] # None} \in SUBSET Names
        OBVIOUS
      <3> QED BY <1>t, <2>1, <3>1 DEF List, DeletesOK, DeleteState
    <2>2. CASE Rmdir(d)
      BY <1>t, <2>2 DEF Rmdir, DeletesOK, DeleteState
    <2>3. ASSUME NEW n \in Names, Unlink(d, n) PROVE DeletesOK'
      BY <1>t, <2>3 DEF Unlink, DeletesOK, DeleteState
    <2> QED BY <2>1, <2>2, <2>3 DEF Delete
  <1>3. DiskOK'
    <2>1. CASE List(d)
      BY <1>t, <2>1 DEF List, DiskOK
    <2>2. CASE Rmdir(d)
      BY <1>t, <2>2 DEF Rmdir, DiskOK
    <2>3. ASSUME NEW n \in Names, Unlink(d, n) PROVE DiskOK'
      BY <1>t, <2>3 DEF Unlink, DiskOK
    <2> QED BY <2>1, <2>2, <2>3 DEF Delete
  <1> QED BY <1>t, <1>1, <1>2, <1>3, TypeParts DEF StoresOK, ReadsOK, reading

\* A step of ReadDecrypt.
LEMMA ReadTypesStep ==
    ASSUME TypeOK, NEW r \in Reads, ReadDecrypt(r)
    PROVE  TypeOK' /\ UNCHANGED writing
  <1>t. DiskOK /\ StoresOK /\ DeletesOK /\ ReadsOK
    BY TypeParts
  <1>1. UNCHANGED writing
    BY DEF ReadDecrypt, OpenEntry, ReadVector, ReadBytes, ReadMetadata, Returns
  <1>r. ASSUME NEW g \in {None, "error", "empty", "garbage", "whole"}, Returns(r, g)
        PROVE  ReadsOK'
    BY <1>t, <1>r DEF Returns, ReadsOK, ReadState
  <1>d. Decrypted(r) \in {"error", "empty", "garbage", "whole"}
    BY PlainValues DEF Decrypted
  <1>6. ReadsOK'
    <2>1. CASE OpenEntry(r)
      <3>1. entry[read[r].at] \in Inodes \cup {None}
        BY <1>t DEF DiskOK, ReadsOK, ReadState
      <3>2. ASSUME NEW i \in Inodes, UNCHANGED <<writing, got, overlap>>,
                   read' = [read EXCEPT ![r] = [pc |-> "vector", at |-> @.at, fd |-> i,
                                                iv |-> None]]
            PROVE  ReadsOK'
        BY <1>t, <3>2, NoneAssumption DEF ReadsOK, ReadState
      <3> QED BY <1>r, <2>1, <3>1, <3>2 DEF OpenEntry
    <2>2. CASE ReadVector(r)
      <3>1. inode[read[r].fd].iv \in Stores \cup {None} /\ read[r].fd # None
        BY <1>t, <2>2 DEF DiskOK, ReadsOK, ReadState, ReadVector, Contents
      <3>2. ASSUME NEW v \in Stores \cup {None}, UNCHANGED <<writing, got, overlap>>,
                   read' = [read EXCEPT ![r] = [pc |-> "bytes", at |-> @.at, fd |-> @.fd,
                                                iv |-> v]]
            PROVE  ReadsOK'
        BY <1>t, <3>1, <3>2 DEF ReadsOK, ReadState
      <3> QED BY <1>r, <2>2, <3>1, <3>2 DEF ReadVector
    <2>3. CASE ReadBytes(r)
      <3>1. read' \in [Reads -> ReadState]
        BY <1>t, <2>3 DEF ReadBytes, ReadsOK, ReadState, Names
      <3>2. got' \in [Reads -> {None, "error", "empty", "garbage", "whole"}]
        BY <1>t, <2>3, <1>d DEF ReadBytes, ReadsOK
      <3>3. overlap' \in [Reads -> BOOLEAN]
        BY <1>t, <2>3 DEF ReadBytes, ReadsOK
      <3> QED BY <1>t, <2>3, <3>1, <3>2, <3>3 DEF ReadBytes, ReadsOK
    <2>4. CASE ReadMetadata(r)
      <3>1. got[r] \in {None, "error", "empty", "garbage", "whole"}
        BY <1>t DEF ReadsOK
      <3> QED BY <1>r, <2>4, <3>1 DEF ReadMetadata
    <2> QED BY <2>1, <2>2, <2>3, <2>4 DEF ReadDecrypt
  <1> QED BY <1>t, <1>1, <1>6, TypeParts DEF DiskOK, StoresOK, DeletesOK, writing

\* A crash.
LEMMA CrashTypesStep ==
    ASSUME TypeOK, Crash
    PROVE  TypeOK' /\ UNCHANGED <<dir, entry, inode, alone, torn>>
  <1>t. DiskOK /\ StoresOK /\ DeletesOK /\ ReadsOK
    BY TypeParts
  <1>1. UNCHANGED <<dir, entry, inode, alone, torn>>
    BY DEF Crash
  <1>2. StoresOK'
    BY <1>t DEF Crash, StoresOK, StoreState
  <1>3. DeletesOK'
    BY <1>t DEF Crash, DeletesOK, DeleteState
  <1>4. ReadsOK'
    BY <1>t DEF Crash, ReadsOK, ReadState, NotRead, Names
  <1> QED BY <1>t, <1>1, <1>2, <1>3, <1>4, TypeParts DEF DiskOK

\* The disk keeps its types, whatever calls and crashes meet: a name refers to an
\* inode made for it, in a directory that exists, and no call that has returned
\* holds a file open (store.go:200, 222).
THEOREM StoreTypes == Spec => []TypeOK
  <1>1. Init => TypeOK
    <2> SUFFICES ASSUME Init PROVE DiskOK /\ StoresOK /\ DeletesOK /\ ReadsOK
      BY TypeParts
    <2>1. DiskOK
      BY EmptyIsContents, NoneAssumption DEF Init, DiskOK
    <2>2. StoresOK
      BY DEF Init, StoresOK, StoreState, NotStored, Names
    <2>3. DeletesOK
      BY DEF Init, DeletesOK, DeleteState, NotDeleted
    <2>4. ReadsOK
      BY DEF Init, ReadsOK, ReadState, NotRead, Names
    <2> QED BY <2>1, <2>2, <2>3, <2>4
  <1>2. TypeOK /\ [Next]_vars => TypeOK'
    <2> SUFFICES ASSUME TypeOK, [Next]_vars PROVE TypeOK'
      OBVIOUS
    <2>1. CASE UNCHANGED vars
      BY <2>1, TypeParts DEF vars, writing, reading, DiskOK, StoresOK, DeletesOK, ReadsOK
    <2> QED BY <2>1, StoreTypesStep, DeleteTypesStep, ReadTypesStep, CrashTypesStep DEF Next
  <1> QED BY <1>1, <1>2, PTL DEF Spec

-----------------------------------------------------------------------------
(* The call that nothing overlaps.                                          *)

\* A name refers to a file with these contents.
Has(n, c) == entry[n] # None /\ inode[entry[n]] = c

\* What encrypt makes of an empty file.
Full(w) == Bytes(w, Vector(w, Empty))

\* While the call that is alone goes on, and after it, nobody else writes or
\* deletes; and what it has done so far is on the disk.
LoneInv ==
    alone # None =>
        /\ \A v \in Stores \ {alone} : ~ Storing(v)
        /\ \A d \in Deletes : ~ Deleting(d)
        /\ store[alone].pc # "new"
        /\ store[alone].pc = "vector" =>
               store[alone].fd = entry[store[alone].at] /\ Has(store[alone].at, Empty)
        /\ store[alone].pc = "bytes" =>
               /\ store[alone].fd = entry[store[alone].at]
               /\ Has(store[alone].at, Vector(alone, Empty))
        /\ store[alone].pc # "failed" /\ store[alone].at = "metadata" => Has("data", Full(alone))
        /\ store[alone].pc = "done" =>
               store[alone].at = "metadata" /\ Has("metadata", Full(alone))

\* A call begins with the data file.
NewInv == \A w \in Stores : store[w].pc = "new" => store[w].at = "data"

\* A call that begins when no other is under way is alone.
LEMMA LoneBegins ==
    ASSUME TypeOK, LoneInv, NewInv, NEW w \in Stores, MkdirAll(w)
    PROVE  LoneInv' /\ NewInv'
  <1>1. StoresOK
    BY TypeParts
  <1>2. /\ store[w].pc = "new" /\ alone' \in {w, None}
        /\ alone' = w => (\A v \in Stores : ~ Storing(v)) /\ (\A d \in Deletes : ~ Deleting(d))
        /\ UNCHANGED <<entry, inode, delete, torn, reading>>
    BY <1>1, MkdirStep
  <1>3. PICK p \in {"open", "failed"} :
            store' = [store EXCEPT ![w] = [pc |-> p, at |-> store[w].at, fd |-> None]]
    BY <1>1, MkdirStep
  <1>4. /\ store'[w].pc = p /\ store'[w].at = "data"
        /\ \A v \in Stores \ {w} : store'[v] = store[v]
    BY <1>1, <1>2, <1>3 DEF StoresOK, NewInv
  <1>5. NewInv'
    BY <1>4 DEF NewInv
  <1>6. LoneInv'
    BY <1>2, <1>4 DEF LoneInv, Storing, Deleting
  <1> QED BY <1>5, <1>6

\* Each step of the call that is alone leaves what it is to leave.
LEMMA LoneGoesOn ==
    ASSUME TypeOK, LoneInv, NewInv, NEW w \in Stores,
           Open(w) \/ EncryptVector(w) \/ EncryptBytes(w) \/ StoreFails(w)
    PROVE  LoneInv' /\ NewInv'
  <1>t. DiskOK /\ StoresOK
    BY TypeParts
  <1>s. Storing(w) /\ store[w].pc # "new"
    BY DEF Open, EncryptVector, EncryptBytes, StoreFails, Storing
  <1>u. UNCHANGED <<delete, alone>>
    BY DEF Open, EncryptVector, EncryptBytes, StoreFails
  <1>o. /\ \A v \in Stores \ {w} : store'[v] = store[v]
        /\ store'[w].pc # "new"
    BY <1>t, OpenStep, VectorStep, BytesStep, FailedCall DEF StoresOK, StoreFails
  <1>n. NewInv'
    BY <1>o DEF NewInv
  <1>a. alone # None => alone = w
    BY <1>s DEF LoneInv, DiskOK, TypeOK
  <1>q. alone # None => /\ \A v \in Stores \ {w} : ~ Storing(v)'
                        /\ \A d \in Deletes : ~ Deleting(d)'
    BY <1>a, <1>o, <1>u DEF LoneInv, Storing, Deleting
  <1> SUFFICES ASSUME alone # None PROVE LoneInv'
    BY <1>n, <1>u DEF LoneInv
  <1>w. alone = w /\ alone' = w
    BY <1>a, <1>u
  <1>m. /\ store[w].at = "metadata" => Has("data", Full(w))
        /\ store[w].at \in Names
    BY <1>s, <1>t, <1>w DEF LoneInv, Storing, StoresOK, StoreState
  <1>1. CASE Open(w)
    <2> DEFINE i == Opened(w)
               n == store[w].at
    <2>1. /\ n \in Names /\ i \in Inodes /\ i[2] = n
          /\ entry' = [entry EXCEPT ![n] = i]
          /\ inode' = [inode EXCEPT ![i] = Empty]
          /\ store' = [store EXCEPT ![w] = [pc |-> "vector", at |-> n, fd |-> i]]
      BY <1>t, <1>1, OpenStep
    <2>2. n = "metadata" => Has("data", Full(w))
      BY <1>m
    <2> HIDE DEF i, n
    <2>3. /\ store'[w].pc = "vector" /\ store'[w].at = n /\ store'[w].fd = i
          /\ entry'[n] = i /\ inode'[i] = Empty /\ i # None
      BY <1>t, <2>1, NoneAssumption DEF DiskOK, StoresOK
    <2>4. n = "metadata" => Has("data", Full(w))'
      BY <1>t, <2>1, <2>2 DEF DiskOK, Has, Names, Full
    <2> QED BY <1>q, <1>w, <2>3, <2>4 DEF LoneInv, Has
  <1>2. CASE EncryptVector(w)
    <2> DEFINE i == store[w].fd
               n == store[w].at
    <2>1. /\ n \in Names /\ i \in Inodes /\ i[2] = n
          /\ store[w].pc = "vector"
          /\ inode' = [inode EXCEPT ![i] = Vector(w, inode[i])]
          /\ store' = [store EXCEPT ![w] = [pc |-> "bytes", at |-> n, fd |-> i]]
          /\ UNCHANGED entry
      BY <1>t, <1>2, VectorStep
    <2>2. /\ n = "metadata" => Has("data", Full(w))
          /\ i = entry[n] /\ inode[i] = Empty
      BY <1>m, <1>w, <2>1 DEF LoneInv, Has
    <2> HIDE DEF i, n
    <2>3. /\ store'[w].pc = "bytes" /\ store'[w].at = n /\ store'[w].fd = i
          /\ inode'[i] = Vector(w, Empty) /\ i # None
      BY <1>t, <2>1, <2>2, NoneAssumption DEF DiskOK, StoresOK
    <2>4. n = "metadata" => Has("data", Full(w))'
      BY <1>t, <2>1, <2>2 DEF DiskOK, Has, Names, Full
    <2> QED BY <1>q, <1>w, <2>1, <2>2, <2>3, <2>4 DEF LoneInv, Has
  <1>3. CASE EncryptBytes(w)
    <2> DEFINE i == store[w].fd
               n == store[w].at
               p == IF n = "data" THEN "open" ELSE "done"
    <2>1. /\ n \in Names /\ i \in Inodes /\ i[2] = n
          /\ store[w].pc = "bytes"
          /\ inode' = [inode EXCEPT ![i] = Bytes(w, inode[i])]
          /\ store' = [store EXCEPT ![w] = [pc |-> p, at |-> "metadata", fd |-> None]]
          /\ UNCHANGED entry
      BY <1>t, <1>3, BytesStep
    <2>2. /\ n = "metadata" => Has("data", Full(w))
          /\ i = entry[n] /\ inode[i] = Vector(w, Empty)
      BY <1>m, <1>w, <2>1 DEF LoneInv, Has
    <2>3. (p = "open" /\ n = "data") \/ (p = "done" /\ n = "metadata")
      BY <2>1 DEF Names
    <2> HIDE DEF i, n, p
    <2>4. /\ store'[w].pc = p /\ store'[w].at = "metadata"
          /\ inode'[i] = Full(w) /\ i # None
      BY <1>t, <2>1, <2>2, NoneAssumption DEF DiskOK, StoresOK, Full
    <2>5. entry'[n] # None /\ inode'[entry'[n]] = Full(w)
      BY <2>1, <2>2, <2>4
    <2>6. Has("data", Full(w))'
      <3>1. CASE n = "data"
        BY <2>5, <3>1 DEF Has, Full
      <3>2. CASE n = "metadata"
        BY <1>t, <2>1, <2>2, <3>2 DEF DiskOK, Has, Names, Full
      <3> QED BY <2>3, <3>1, <3>2
    <2>7. n = "metadata" => Has("metadata", Full(w))'
      BY <2>5 DEF Has, Full
    <2> QED BY <1>q, <1>w, <2>3, <2>4, <2>6, <2>7 DEF LoneInv
  <1>4. CASE StoreFails(w)
    <2>1. store' = [store EXCEPT ![w] = [pc |-> "failed", at |-> store[w].at, fd |-> None]]
      BY <1>t, <1>4, FailedCall DEF StoreFails
    <2>2. store'[w].pc = "failed"
      BY <1>t, <2>1 DEF StoresOK
    <2> QED BY <1>q, <1>w, <2>2 DEF LoneInv
  <1> QED BY <1>1, <1>2, <1>3, <1>4

\* What the other operations and a crash do to the call that is alone.
LEMMA LoneIsLeftAlone ==
    ASSUME TypeOK, LoneInv, NewInv,
           (\E d \in Deletes : Delete(d)) \/ (\E r \in Reads : ReadDecrypt(r)) \/ Crash
    PROVE  LoneInv' /\ NewInv'
  <1>1. ASSUME NEW d \in Deletes, Delete(d) PROVE LoneInv' /\ NewInv'
    <2>1. UNCHANGED store
      BY <1>1 DEF Delete, List, Unlink, Rmdir
    <2>2. alone' = None
      <3>1. CASE List(d)
        BY <3>1 DEF List
      <3>2. CASE Deleting(d)
        BY <1>1, <3>2 DEF LoneInv, Delete, List, Unlink, Rmdir, Deleting
      <3> QED BY <1>1, <3>1, <3>2 DEF Delete, Unlink, Rmdir
    <2> QED BY <2>1, <2>2 DEF LoneInv, NewInv
  <1>2. ASSUME NEW r \in Reads, ReadDecrypt(r) PROVE LoneInv' /\ NewInv'
    BY <1>2, ReadTypesStep DEF writing, LoneInv, NewInv, Storing, Deleting, Has, Full
  <1>3. CASE Crash
    <2>1. /\ UNCHANGED <<entry, inode, alone>>
          /\ \A w \in Stores :
                 IF Storing(w) THEN store'[w].pc = "failed" ELSE store'[w] = store[w]
          /\ \A d \in Deletes : ~ Deleting(d)'
      <3>1. \A d \in Deletes : ~ Deleting(d)'
        BY <1>3, TypeParts DEF Crash, Deleting, DeletesOK, DeleteState
      <3> QED BY <1>3, <3>1 DEF Crash
    <2>2. NewInv'
      BY <2>1 DEF NewInv, Storing
    <2>3. LoneInv'
      <3> SUFFICES ASSUME alone # None PROVE LoneInv'
        BY <2>1 DEF LoneInv
      <3>1. alone \in Stores
        BY DEF TypeOK
      <3>2. \A v \in Stores \ {alone} : ~ Storing(v)'
        BY <2>1 DEF LoneInv, Storing
      <3>3. CASE Storing(alone)
        BY <2>1, <3>1, <3>2, <3>3 DEF LoneInv
      <3>4. CASE ~ Storing(alone)
        BY <2>1, <3>1, <3>2, <3>4 DEF LoneInv, Has, Full
      <3> QED BY <3>3, <3>4
    <2> QED BY <2>2, <2>3
  <1> QED BY <1>1, <1>2, <1>3

\* What encrypt makes of an empty file can be decrypted, in a mesh.
LEMMA FullIsWhole ==
    ASSUME Architecture = "mesh", NEW w \in Stores
    PROVE  Plain(Full(w)) = "whole" /\ Full(w).by = w
  <1>1. EncType \in {"AES", "CC20", "None"}
    BY ConfigAssumption DEF EncType
  <1>2. Full(w) = [iv |-> IF EncType = "AES" THEN w ELSE None, by |-> w]
    <2>1. CASE EncType = "AES"
      BY <2>1 DEF Full, Bytes, Vector, Empty
    <2>2. CASE EncType # "AES"
      BY <1>1, <2>2 DEF Full, Bytes, Vector, Empty
    <2> QED BY <2>1, <2>2
  <1>3. Full(w).by = w /\ (EncType = "AES" => Full(w).iv = w)
    BY <1>2
  <1>4. w # None
    BY NoneAssumption
  <1> QED BY <1>1, <1>3, <1>4 DEF Plain

\* README.md: "-enc: Encryption type".  In a mesh, when a WriteEncrypt that overlapped
\* no other and no Delete has returned without an error, its data and its metadata can
\* be decrypted until the next such call begins, whatever overlapping, failed or
\* interrupted calls had left before it (store.go:195-212).
THEOREM AckedAlwaysReadable ==
    ASSUME Architecture = "mesh" PROVE Spec => []AckedIsReadable
  <1> DEFINE Inv == TypeOK /\ LoneInv /\ NewInv
  <1>1. Init => LoneInv /\ NewInv
    BY DEF Init, LoneInv, NewInv, NotStored
  <1>2. Inv /\ [Next]_vars => LoneInv' /\ NewInv'
    <2> SUFFICES ASSUME Inv, [Next]_vars PROVE LoneInv' /\ NewInv'
      OBVIOUS
    <2>1. CASE UNCHANGED vars
      BY <2>1 DEF vars, writing, reading, LoneInv, NewInv, Storing, Deleting, Has, Full
    <2>2. ASSUME NEW w \in Stores, WriteEncrypt(w) PROVE LoneInv' /\ NewInv'
      BY <2>2, LoneBegins, LoneGoesOn DEF WriteEncrypt
    <2> QED BY <2>1, <2>2, LoneIsLeftAlone DEF Next
  <1>3. Inv => AckedIsReadable
    <2> SUFFICES ASSUME Inv, alone # None, store[alone].pc = "done", NEW n \in Names
                 PROVE  /\ entry[n] # None
                        /\ Plain(inode[entry[n]]) = "whole" /\ inode[entry[n]].by = alone
      BY DEF AckedIsReadable
    <2>1. alone \in Stores
      BY DEF TypeOK
    <2>2. Has("data", Full(alone)) /\ Has("metadata", Full(alone))
      BY DEF LoneInv
    <2>3. Has(n, Full(alone))
      BY <2>2 DEF Names
    <2> QED BY <2>1, <2>3, FullIsWhole DEF Has
  <1> QED BY <1>1, <1>2, <1>3, StoreTypes, PTL DEF Spec

-----------------------------------------------------------------------------
(* The inode that one call at a time writes.                                *)

\* With AES, bytes come after their own vector.
InOrder(c) == EncType = "AES" /\ c.by # None => c.iv = c.by

\* An inode that is not torn is open for writing in one call at most, which finds
\* what it has written itself, and a reader has read the vector that is there.
Untorn(i) ==
    /\ \A v, w \in Stores : store[v].fd = i /\ store[w].fd = i => v = w
    /\ \A w \in Stores :
           store[w].fd = i => inode[i] = IF store[w].pc = "vector" THEN Empty ELSE Vector(w, Empty)
    /\ InOrder(inode[i])
    /\ \A r \in Reads :
           read[r].fd = i /\ read[r].pc = "bytes" /\ ~ overlap[r] =>
               /\ read[r].iv = inode[i].iv
               /\ EncType = "AES" => inode[i].iv # None

WholeInv ==
    /\ \A i \in Inodes \ torn : Untorn(i)
    /\ GarbageNeedsOverlap

\* Contents in order do not decrypt to garbage.
LEMMA InOrderIsNoGarbage ==
    ASSUME NEW c \in Contents, InOrder(c), EncType = "AES" => c.iv # None
    PROVE  Plain(c) # "garbage"
  BY DEF Plain, InOrder

\* Writing the vector and the bytes into an empty file.
LEMMA WritesInOrder ==
    ASSUME NEW w \in Stores
    PROVE  /\ InOrder(Empty) /\ InOrder(Vector(w, Empty)) /\ InOrder(Full(w))
           /\ Full(w).iv = Vector(w, Empty).iv
           /\ EncType # "AES" => Vector(w, Empty).iv = Empty.iv
           /\ Empty.iv = None
  <1>1. Empty.iv = None /\ Empty.by = None
    BY DEF Empty
  <1>2. Vector(w, Empty) = IF EncType = "AES" THEN [iv |-> w, by |-> None] ELSE Empty
    BY DEF Vector, Empty
  <1>3. Vector(w, Empty) \in Contents
    BY EmptyIsContents, Encrypted
  <1>4. /\ Full(w).iv = Vector(w, Empty).iv
        /\ EncType = "AES" => Full(w).by = w
    BY <1>3 DEF Full, Bytes, Contents
  <1>5. EncType = "AES" => Full(w).by = w /\ Full(w).iv = w /\ Vector(w, Empty).by = None
    BY <1>2, <1>4
  <1>6. EncType # "AES" => Vector(w, Empty).iv = Empty.iv
    BY <1>2
  <1> QED BY <1>1, <1>4, <1>5, <1>6 DEF InOrder

\* os.Create: the inode is empty, and torn if another call writes it.
LEMMA WholeOpen ==
    ASSUME TypeOK, WholeInv, NEW w \in Stores, Open(w)
    PROVE  WholeInv'
  <1>t. DiskOK /\ StoresOK /\ ReadsOK
    BY TypeParts
  <1> DEFINE k == Opened(w)
  <1>1. /\ k \in Inodes /\ k # None
        /\ inode' = [inode EXCEPT ![k] = Empty]
        /\ store' = [store EXCEPT ![w] = [pc |-> "vector", at |-> store[w].at, fd |-> k]]
        /\ torn' = IF \E v \in Stores \ {w} : store[v].fd = k
                   THEN torn \cup {k} ELSE torn \ {k}
        /\ overlap' = [r \in Reads |-> overlap[r] \/ read[r].fd = k]
        /\ UNCHANGED <<read, got>>
    BY <1>t, OpenStep, NoneAssumption
  <1>2. PICK j \in Inodes : j = k
    BY <1>1
  <1> HIDE DEF k
  <1>3. /\ inode'[j] = Empty /\ \A i \in Inodes \ {j} : inode'[i] = inode[i]
        /\ store'[w].fd = j /\ store'[w].pc = "vector"
        /\ \A v \in Stores \ {w} : store'[v] = store[v]
        /\ \A r \in Reads : overlap'[r] = (overlap[r] \/ read[r].fd = j)
    BY <1>t, <1>1, <1>2 DEF DiskOK, StoresOK
  <1>4. GarbageNeedsOverlap'
    BY <1>1, <1>3 DEF WholeInv, GarbageNeedsOverlap
  <1>5. ASSUME NEW i \in Inodes \ torn', i # j PROVE Untorn(i)'
    <2>1. Untorn(i)
      BY <1>1, <1>2, <1>5 DEF WholeInv
    <2>2. store'[w].fd # i
      BY <1>3, <1>5
    <2>3. /\ \A u, v \in Stores : store'[u].fd = i /\ store'[v].fd = i => u = v
          /\ \A v \in Stores : store'[v].fd = i =>
                 inode'[i] = IF store'[v].pc = "vector" THEN Empty ELSE Vector(v, Empty)
      BY <1>3, <1>5, <2>1, <2>2 DEF Untorn
    <2>4. InOrder(inode'[i])
      BY <1>3, <1>5, <2>1 DEF Untorn
    <2>5. \A r \in Reads : read'[r].fd = i /\ read'[r].pc = "bytes" /\ ~ overlap'[r] =>
              read'[r].iv = inode'[i].iv /\ (EncType = "AES" => inode'[i].iv # None)
      BY <1>1, <1>3, <1>5, <2>1 DEF Untorn
    <2> QED BY <2>3, <2>4, <2>5 DEF Untorn, InOrder, EncType, Vector, Empty
  <1>6. ASSUME j \notin torn' PROVE Untorn(j)'
    <2>1. \A v \in Stores \ {w} : store[v].fd # j
      BY <1>1, <1>2, <1>6
    <2>2. /\ \A u, v \in Stores : store'[u].fd = j /\ store'[v].fd = j => u = v
          /\ \A v \in Stores : store'[v].fd = j =>
                 inode'[j] = IF store'[v].pc = "vector" THEN Empty ELSE Vector(v, Empty)
      BY <1>3, <2>1
    <2>3. InOrder(inode'[j])
      BY <1>3, WritesInOrder
    <2>4. \A r \in Reads : read'[r].fd = j => overlap'[r]
      BY <1>1, <1>3
    <2> QED BY <2>2, <2>3, <2>4 DEF Untorn, InOrder, EncType, Vector, Empty
  <1> QED BY <1>4, <1>5, <1>6 DEF WholeInv

\* The writes of encrypt.
LEMMA WholeWrite ==
    ASSUME TypeOK, WholeInv, NEW w \in Stores, EncryptVector(w) \/ EncryptBytes(w)
    PROVE  WholeInv'
  <1>t. DiskOK /\ StoresOK /\ ReadsOK
    BY TypeParts
  <1>1. PICK j \in Inodes : j = store[w].fd
    BY <1>t, VectorStep, BytesStep
  <1>2. /\ UNCHANGED <<read, got, overlap, torn>>
        /\ \A i \in Inodes \ {j} : inode'[i] = inode[i]
        /\ \A v \in Stores \ {w} : store'[v] = store[v]
        /\ \/ /\ store[w].pc = "vector" /\ inode'[j] = Vector(w, inode[j])
              /\ store'[w].fd = j /\ store'[w].pc = "bytes"
           \/ /\ store[w].pc = "bytes" /\ inode'[j] = Bytes(w, inode[j])
              /\ store'[w].fd = None
    BY <1>t, <1>1, VectorStep, BytesStep DEF DiskOK, StoresOK, reading
  <1>3. GarbageNeedsOverlap'
    BY <1>2 DEF WholeInv, GarbageNeedsOverlap
  <1>4. ASSUME NEW i \in Inodes \ torn' PROVE Untorn(i)'
    <2>1. Untorn(i) /\ i # None
      BY <1>2, NoneAssumption DEF WholeInv
    <2>2. CASE i # j
      <3>1. /\ \A u, v \in Stores : store'[u].fd = i /\ store'[v].fd = i => u = v
            /\ \A v \in Stores : store'[v].fd = i =>
                   inode'[i] = IF store'[v].pc = "vector" THEN Empty ELSE Vector(v, Empty)
        BY <1>2, <2>1, <2>2 DEF Untorn
      <3>2. inode'[i] = inode[i]
        BY <1>2, <2>2
      <3> QED BY <1>2, <2>1, <3>1, <3>2 DEF Untorn, InOrder, EncType, Vector, Empty
    <2>3. CASE i = j
      <3>1. \A v \in Stores \ {w} : store[v].fd # j
        BY <1>1, <2>1, <2>3 DEF Untorn
      <3>2. inode[j] = IF store[w].pc = "vector" THEN Empty ELSE Vector(w, Empty)
        BY <1>1, <2>1, <2>3 DEF Untorn
      <3>3. inode'[j] = IF store[w].pc = "vector" THEN Vector(w, Empty) ELSE Full(w)
        BY <1>2, <3>2 DEF Full
      <3>4. /\ \A u, v \in Stores : store'[u].fd = j /\ store'[v].fd = j => u = v
            /\ \A v \in Stores : store'[v].fd = j =>
                   inode'[j] = IF store'[v].pc = "vector" THEN Empty ELSE Vector(v, Empty)
        BY <1>2, <2>1, <2>3, <3>1, <3>3
      <3>5. InOrder(inode'[j])
        BY <3>3, WritesInOrder
      <3>6. \A r \in Reads : read'[r].fd = j /\ read'[r].pc = "bytes" /\ ~ overlap'[r] =>
                read'[r].iv = inode'[j].iv /\ (EncType = "AES" => inode'[j].iv # None)
        <4>1. SUFFICES ASSUME NEW r \in Reads, read[r].fd = j, read[r].pc = "bytes", ~ overlap[r]
                       PROVE  read[r].iv = inode'[j].iv /\ (EncType = "AES" => inode'[j].iv # None)
          BY <1>2
        <4>2. read[r].iv = inode[j].iv /\ (EncType = "AES" => inode[j].iv # None)
          BY <2>1, <2>3, <4>1 DEF Untorn
        <4>3. inode'[j].iv = inode[j].iv
          <5>1. CASE store[w].pc = "vector"
            BY <3>2, <3>3, <4>2, <5>1, WritesInOrder
          <5>2. CASE store[w].pc # "vector"
            BY <3>2, <3>3, <5>2, WritesInOrder
          <5> QED BY <5>1, <5>2
        <4> QED BY <4>2, <4>3
      <3> QED BY <2>3, <3>4, <3>5, <3>6 DEF Untorn, InOrder, EncType, Vector, Empty
    <2> QED BY <2>2, <2>3
  <1> QED BY <1>3, <1>4 DEF WholeInv

\* A call of WriteEncrypt that begins or fails, Delete and a crash leave the inodes
\* as they are, and close files.
LEMMA WholeCloses ==
    ASSUME TypeOK, WholeInv, UNCHANGED <<inode, torn, overlap>>,
           \A w \in Stores : store'[w] = store[w] \/ store'[w].fd = None,
           \A r \in Reads : \/ read'[r] = read[r] /\ got'[r] = got[r]
                            \/ read'[r].fd = None /\ got'[r] # "garbage"
    PROVE  WholeInv'
  <1>1. GarbageNeedsOverlap'
    BY DEF WholeInv, GarbageNeedsOverlap
  <1>2. ASSUME NEW i \in Inodes \ torn' PROVE Untorn(i)'
    <2>1. Untorn(i) /\ i # None
      BY <1>2, NoneAssumption DEF WholeInv
    <2>2. \A w \in Stores : store'[w].fd = i => store'[w] = store[w]
      BY <2>1
    <2>3. \A r \in Reads : read'[r].fd = i => read'[r] = read[r]
      BY <2>1
    <2>4. /\ \A u, v \in Stores : store'[u].fd = i /\ store'[v].fd = i => u = v
          /\ \A v \in Stores : store'[v].fd = i =>
                 inode'[i] = IF store'[v].pc = "vector" THEN Empty ELSE Vector(v, Empty)
      BY <2>1, <2>2 DEF Untorn
    <2>5. \A r \in Reads : read'[r].fd = i /\ read'[r].pc = "bytes" /\ ~ overlap'[r] =>
              read'[r].iv = inode'[i].iv /\ (EncType = "AES" => inode'[i].iv # None)
      BY <2>1, <2>3 DEF Untorn
    <2> QED BY <2>1, <2>4, <2>5 DEF Untorn, InOrder, EncType, Vector, Empty
  <1> QED BY <1>1, <1>2 DEF WholeInv

\* A step of WriteEncrypt.
LEMMA WholeStore ==
    ASSUME TypeOK, WholeInv, NEW w \in Stores, WriteEncrypt(w)
    PROVE  WholeInv'
  <1>t. StoresOK
    BY TypeParts
  <1>1. CASE MkdirAll(w)
    <2>1. UNCHANGED <<inode, torn, reading>>
      BY <1>t, <1>1, MkdirStep
    <2>2. \A v \in Stores : store'[v] = store[v] \/ store'[v].fd = None
      <3>1. PICK p \in {"open", "failed"} :
                store' = [store EXCEPT ![w] = [pc |-> p, at |-> store[w].at, fd |-> None]]
        BY <1>t, <1>1, MkdirStep
      <3> QED BY <1>t, <3>1 DEF StoresOK
    <2> QED BY <2>1, <2>2, WholeCloses DEF reading
  <1>2. CASE StoreFails(w)
    <2>1. /\ store' = [store EXCEPT ![w] = [pc |-> "failed", at |-> store[w].at, fd |-> None]]
          /\ UNCHANGED <<inode, torn, reading>>
      BY <1>t, <1>2, FailedCall DEF StoreFails
    <2>2. \A v \in Stores : store'[v] = store[v] \/ store'[v].fd = None
      BY <1>t, <2>1 DEF StoresOK
    <2> QED BY <2>1, <2>2, WholeCloses DEF reading
  <1> QED BY <1>1, <1>2, WholeOpen, WholeWrite DEF WriteEncrypt

\* A step of ReadDecrypt: what it decrypts is in order, or the inode is torn.
LEMMA WholeRead ==
    ASSUME TypeOK, WholeInv, NEW r \in Reads, ReadDecrypt(r)
    PROVE  WholeInv'
  <1>t. DiskOK /\ ReadsOK
    BY TypeParts
  <1>w. UNCHANGED writing
    BY ReadTypesStep
  <1>o. \A q \in Reads \ {r} : /\ read'[q] = read[q] /\ got'[q] = got[q]
                               /\ overlap'[q] = overlap[q]
    BY <1>t DEF ReadDecrypt, OpenEntry, ReadVector, ReadBytes, ReadMetadata, Returns, ReadsOK
  <1>m. overlap[r] => overlap'[r]
    BY <1>t DEF ReadDecrypt, OpenEntry, ReadVector, ReadBytes, ReadMetadata, Returns, ReadsOK
  <1>1. ASSUME NEW i \in Inodes \ torn, read'[r].fd = i, read'[r].pc = "bytes", ~ overlap'[r]
        PROVE  read'[r].iv = inode[i].iv /\ (EncType = "AES" => inode[i].iv # None)
    <2>1. ReadVector(r) /\ Plain(inode[i]) # "error" /\ read'[r].iv = inode[i].iv
      BY <1>t, <1>1, NoneAssumption
      DEF ReadDecrypt, OpenEntry, ReadVector, ReadBytes, ReadMetadata, Returns, ReadsOK, ReadState
    <2>2. InOrder(inode[i])
      BY <1>1 DEF WholeInv, Untorn
    <2> QED BY <2>1, <2>2 DEF Plain, InOrder
  <1>2. ASSUME got'[r] = "garbage" PROVE overlap'[r]
    <2>1. CASE got[r] = "garbage"
      BY <1>m, <2>1 DEF WholeInv, GarbageNeedsOverlap
    <2>2. CASE got[r] # "garbage"
      <3>1. ReadBytes(r) /\ Decrypted(r) = "garbage"
        BY <1>t, <1>2, <2>2
        DEF ReadDecrypt, OpenEntry, ReadVector, ReadBytes, ReadMetadata, Returns, ReadsOK
      <3> DEFINE i == read[r].fd
                 c == [iv |-> read[r].iv, by |-> inode[i].by]
      <3>2. i \in Inodes /\ read[r].pc = "bytes" /\ read[r].iv \in Stores \cup {None}
        BY <1>t, <3>1 DEF ReadBytes, ReadsOK, ReadState
      <3>3. SUFFICES ASSUME ~ overlap[r], i \notin torn PROVE FALSE
        BY <1>t, <3>1 DEF ReadBytes, ReadsOK
      <3>4. /\ read[r].iv = inode[i].iv
            /\ EncType = "AES" => inode[i].iv # None
            /\ InOrder(inode[i])
        BY <3>2, <3>3 DEF WholeInv, Untorn
      <3>5. c \in Contents
        BY <1>t, <3>2 DEF DiskOK, Contents
      <3>6. c.iv = inode[i].iv /\ c.by = inode[i].by
        BY <3>4
      <3>7. Plain(c) = "garbage"
        BY <3>1 DEF Decrypted
      <3> HIDE DEF c
      <3> QED BY <3>4, <3>5, <3>6, <3>7, InOrderIsNoGarbage DEF InOrder
    <2> QED BY <2>1, <2>2
  <1>3. GarbageNeedsOverlap'
    BY <1>o, <1>2 DEF WholeInv, GarbageNeedsOverlap
  <1>4. ASSUME NEW i \in Inodes \ torn' PROVE Untorn(i)'
    <2>1. Untorn(i) /\ i \in Inodes \ torn
      BY <1>w, <1>4 DEF WholeInv, writing
    <2>2. \A q \in Reads : read'[q].fd = i /\ read'[q].pc = "bytes" /\ ~ overlap'[q] =>
              read'[q].iv = inode[i].iv /\ (EncType = "AES" => inode[i].iv # None)
      BY <1>o, <1>1, <2>1 DEF Untorn
    <2> QED BY <1>w, <2>1, <2>2 DEF Untorn, InOrder, EncType, Vector, Empty, writing
  <1> QED BY <1>3, <1>4 DEF WholeInv

\* store.go, ReadDecrypt: a read returns garbage only if the file was truncated for
\* another store while it was read, or had been written by two stores at once: not
\* through the steps of a delete, a file stored again after it, or a crash
\* (store.go:121-132, 250-256).
THEOREM GarbageAlwaysNeedsOverlap == Spec => []GarbageNeedsOverlap
  <1> DEFINE Inv == TypeOK /\ WholeInv
  <1>1. Init => WholeInv
    <2> SUFFICES ASSUME Init PROVE WholeInv
      OBVIOUS
    <2>1. GarbageNeedsOverlap
      BY NoneAssumption DEF Init, GarbageNeedsOverlap
    <2>2. ASSUME NEW i \in Inodes PROVE Untorn(i)
      <3>1. i # None /\ inode[i] = Empty
        BY NoneAssumption DEF Init
      <3>2. InOrder(inode[i])
        BY <3>1 DEF InOrder, Empty
      <3> QED BY <3>1, <3>2 DEF Init, Untorn, NotStored, NotRead
    <2> QED BY <2>1, <2>2 DEF WholeInv
  <1>2. Inv /\ [Next]_vars => WholeInv'
    <2> SUFFICES ASSUME Inv, [Next]_vars PROVE WholeInv'
      OBVIOUS
    <2>1. CASE UNCHANGED vars
      BY <2>1, WholeCloses DEF vars, writing, reading
    <2>2. ASSUME NEW d \in Deletes, Delete(d) PROVE WholeInv'
      BY <2>2, DeleteTypesStep, WholeCloses DEF reading
    <2>3. CASE Crash
      <3>1. UNCHANGED <<inode, torn, overlap>>
        BY <2>3 DEF Crash
      <3>2. \A w \in Stores : store'[w] = store[w] \/ store'[w].fd = None
        BY <2>3 DEF Crash
      <3>3. \A r \in Reads : \/ read'[r] = read[r] /\ got'[r] = got[r]
                             \/ read'[r].fd = None /\ got'[r] # "garbage"
        BY <2>3, NoneAssumption DEF Crash, NotRead
      <3> QED BY <3>1, <3>2, <3>3, WholeCloses
    <2> QED BY <2>1, <2>2, <2>3, WholeStore, WholeRead DEF Next
  <1>3. Inv => GarbageNeedsOverlap
    BY DEF WholeInv
  <1> QED BY <1>1, <1>2, <1>3, StoreTypes, PTL DEF Spec
=============================================================================
