--------------------------------- MODULE Store ---------------------------------
(***************************************************************************)
(* The disk store of one node, at one content identifier: WriteEncrypt,    *)
(* Delete and ReadDecrypt as the goroutines of the node run them (HTTP     *)
(* requests and the event loop), without a lock and one file-system call   *)
(* at a time, with calls that fail and crashes that leave the disk as it   *)
(* is.                                                                     *)
(*                                                                         *)
(* A file is two files in one directory: the encrypted data and the        *)
(* encrypted metadata, each truncated and then written.  Both are inodes   *)
(* here, because a goroutine keeps the one it has opened when Delete       *)
(* removes the name.  An inode is named by the call that made it.          *)
(***************************************************************************)
EXTENDS Naturals

CONSTANTS Architecture,  \* Config.Architecture: "mesh" or "chord"
          Encryption,    \* Config.Encryption: "AES", "CC20" or "None"
          Stores,        \* the calls of WriteEncrypt, ...
          Deletes,       \* ... Delete ...
          Reads,         \* ... and ReadDecrypt
          None           \* nothing

ASSUME ConfigAssumption ==
    Architecture \in {"mesh", "chord"} /\ Encryption \in {"AES", "CC20", "None"}

VARIABLES
    dir,     \* does the directory exist?
    entry,   \* the inodes its two names refer to
    inode,   \* what the inodes hold
    store,   \* the calls of WriteEncrypt: where, at which file, and what is open
    delete,  \* the calls of Delete: where, and the names still to remove
    read,    \* the calls of ReadDecrypt: where, what is open, the vector they have read
    got,     \* what they make of the data, and return
    alone,   \* history: the last call of WriteEncrypt, if since it began no other
             \* one and no Delete ran
    torn,    \* history: the inodes that a call truncated while another wrote them
    overlap  \* history: the reads of such an inode, or of one truncated meanwhile

writing == <<dir, entry, inode, store, delete, alone, torn>>
reading == <<read, got, overlap>>
vars == <<writing, reading>>

Names  == {"data", "metadata"}
Inodes == Stores \X Names

-----------------------------------------------------------------------------
(* Encryption.  What is in a file: the initialization vector of a call (AES   *)
(* only) and the bytes of a call, either of which may be missing.  Each call  *)
(* draws its own vector.                                                      *)

Empty == [iv |-> None, by |-> None]
Contents == [iv : Stores \cup {None}, by : Stores \cup {None}]

ASSUME NoneAssumption ==
    None \notin Stores /\ None \notin Inodes /\ None \notin {"error", "empty", "garbage", "whole"}

\* Only a mesh gets the encryption that was asked for: network stays zero in a
\* Chord node.
EncType == IF Architecture = "mesh" THEN Encryption ELSE ""

\* What the two writes of encrypt add to a file; nothing for an EncType that is
\* none of the three.
Vector(w, c) == IF EncType = "AES" THEN [c EXCEPT !.iv = w] ELSE c
Bytes(w, c) == IF EncType = "" THEN c ELSE [c EXCEPT !.by = w]

\* What decrypt makes of the vector and the bytes it has read: an error, the
\* empty file, the file or something else.
Plain(c) ==
    IF EncType = "AES" /\ c.iv = None THEN IF c.by = None THEN "error" ELSE "garbage"
    ELSE IF EncType = "" \/ c.by = None THEN "empty"
    ELSE IF EncType = "AES" /\ c.iv # c.by THEN "garbage"
    ELSE "whole"

-----------------------------------------------------------------------------
(* WriteEncrypt: the directory, the data file and then the metadata file.    *)

NotStored  == [pc |-> "new", at |-> "data", fd |-> None]
NotDeleted == [pc |-> "new", left |-> {}]
NotRead    == [pc |-> "open", at |-> "data", fd |-> None, iv |-> None]

Init ==
    /\ dir = FALSE
    /\ entry = [n \in Names |-> None]
    /\ inode = [i \in Inodes |-> Empty]
    /\ store = [w \in Stores |-> NotStored]
    /\ delete = [d \in Deletes |-> NotDeleted]
    /\ read = [r \in Reads |-> NotRead] /\ got = [r \in Reads |-> None]
    /\ alone = None /\ torn = {} /\ overlap = [r \in Reads |-> FALSE]

Storing(w)  == store[w].pc \in {"open", "vector", "bytes"}
Deleting(d) == delete[d].pc = "unlink"

\* The call has returned an error.
Failed(w) == store' = [store EXCEPT ![w] = [pc |-> "failed", at |-> @.at, fd |-> None]]

\* openFileForWriting, its first half: os.MkdirAll.
MkdirAll(w) ==
    /\ store[w].pc = "new"
    /\ \/ dir' = TRUE /\ store' = [store EXCEPT ![w].pc = "open"]
       \/ Failed(w) /\ UNCHANGED dir
    /\ alone' = IF (\E v \in Stores : Storing(v)) \/ (\E d \in Deletes : Deleting(d))
                THEN None ELSE w
    /\ UNCHANGED <<entry, inode, delete, torn, reading>>

\* os.Create, for the data and for the metadata: the inode of an existing name
\* is truncated, whoever reads or writes it.
Open(w) ==
    LET n == store[w].at
        i == IF entry[n] = None THEN <<w, n>> ELSE entry[n]
        others == {v \in Stores \ {w} : store[v].fd = i}
    IN  /\ store[w].pc = "open" /\ dir
        /\ entry' = [entry EXCEPT ![n] = i]
        /\ inode' = [inode EXCEPT ![i] = Empty]
        /\ store' = [store EXCEPT ![w] = [pc |-> "vector", at |-> n, fd |-> i]]
        /\ torn' = IF others = {} THEN torn \ {i} ELSE torn \cup {i}
        /\ overlap' = [r \in Reads |-> overlap[r] \/ read[r].fd = i]
        /\ UNCHANGED <<dir, delete, read, got, alone>>

\* A faulty variant: the metadata is written before the bytes of the data.
SkipsData(w) ==
    /\ store[w].pc = "vector"
    /\ inode' = [inode EXCEPT ![store[w].fd] = Vector(w, @)]
    /\ store' = [store EXCEPT ![w] =
           IF @.at = "data" THEN [pc |-> "open", at |-> "metadata", fd |-> None]
           ELSE [@ EXCEPT !.pc = "bytes"]]
    /\ UNCHANGED <<dir, entry, delete, alone, torn, reading>>

\* encrypt, for the data and for the metadata: the vector ...
EncryptVector(w) ==
    /\ store[w].pc = "vector"
    /\ inode' = [inode EXCEPT ![store[w].fd] = Vector(w, @)]
    /\ store' = [store EXCEPT ![w].pc = "bytes"]
    /\ UNCHANGED <<dir, entry, delete, alone, torn, reading>>

\* A faulty variant: the file is still open when the call has returned.
LeftOpen(w) == [store[w] EXCEPT !.pc = "done"]

\* After the data comes the metadata, after that the call returns.
Written(w) ==
    IF store[w].at = "data" THEN [pc |-> "open", at |-> "metadata", fd |-> None]
    ELSE [pc |-> "done", at |-> "metadata", fd |-> None]

\* ... and then the bytes.
EncryptBytes(w) ==
    /\ store[w].pc = "bytes"
    /\ inode' = [inode EXCEPT ![store[w].fd] = Bytes(w, @)]
    /\ store' = [store EXCEPT ![w] = Written(w)]
    /\ UNCHANGED <<dir, entry, delete, alone, torn, reading>>

\* A file-system call returns an error: a full disk, or no directory any more.
StoreFails(w) ==
    /\ Storing(w)
    /\ Failed(w)
    /\ UNCHANGED <<dir, entry, inode, delete, alone, torn, reading>>

WriteEncrypt(w) ==
    MkdirAll(w) \/ Open(w) \/ EncryptVector(w) \/ EncryptBytes(w) \/ StoreFails(w)

-----------------------------------------------------------------------------
(* Delete: os.RemoveAll lists the directory, removes what it has listed and  *)
(* then the directory.                                                       *)

List(d) ==
    /\ delete[d].pc = "new"
    /\ delete' = [delete EXCEPT ![d] =
           IF dir THEN [pc |-> "unlink", left |-> {n \in Names : entry[n] # None}]
           ELSE [@ EXCEPT !.pc = "done"]]
    /\ alone' = None
    /\ UNCHANGED <<dir, entry, inode, store, torn, reading>>

\* A name is removed, whichever inode it refers to by now, or stays for an error.
Unlink(d, n) ==
    /\ Deleting(d) /\ n \in delete[d].left
    /\ entry' = [entry EXCEPT ![n] = None] \/ UNCHANGED entry
    /\ delete' = [delete EXCEPT ![d].left = @ \ {n}]
    /\ UNCHANGED <<dir, inode, store, alone, torn, reading>>

\* A directory that is not empty stays.
Rmdir(d) ==
    /\ Deleting(d) /\ delete[d].left = {}
    /\ dir' = (dir /\ \E n \in Names : entry[n] # None)
    /\ delete' = [delete EXCEPT ![d].pc = "done"]
    /\ UNCHANGED <<entry, inode, store, alone, torn, reading>>

Delete(d) == List(d) \/ Rmdir(d) \/ \E n \in Names : Unlink(d, n)

-----------------------------------------------------------------------------
(* ReadDecrypt: the data file first, the metadata file after it.             *)

\* The call returns: an error, or what was made of the data.
Returns(r, result) ==
    /\ read' = [read EXCEPT ![r] = [pc |-> "done", at |-> @.at, fd |-> None, iv |-> None]]
    /\ got' = [got EXCEPT ![r] = result]
    /\ UNCHANGED <<writing, overlap>>

\* readStream and readMetadata open a name, or return an error.
OpenEntry(r) ==
    LET i == entry[read[r].at]
    IN  /\ read[r].pc = "open"
        /\ \/ i = None /\ Returns(r, "error")
           \/ /\ i # None
              /\ read' = [read EXCEPT ![r] = [pc |-> "vector", at |-> @.at, fd |-> i, iv |-> None]]
              /\ UNCHANGED <<writing, got, overlap>>

\* A faulty variant: the error of reading the vector is ignored.
ReadVectorUnchecked(r) ==
    /\ read[r].pc = "vector"
    /\ read' = [read EXCEPT ![r].pc = "bytes", ![r].iv = inode[read[r].fd].iv]
    /\ UNCHANGED <<writing, got, overlap>>

\* decrypt reads the vector, or fails at the end of an empty file ...
ReadVector(r) ==
    LET c == inode[read[r].fd]
    IN  /\ read[r].pc = "vector"
        /\ \/ Plain(c) = "error" /\ Returns(r, "error")
           \/ /\ Plain(c) # "error"
              /\ read' = [read EXCEPT ![r] = [pc |-> "bytes", at |-> @.at, fd |-> @.fd, iv |-> c.iv]]
              /\ UNCHANGED <<writing, got, overlap>>

\* ... and then the bytes.
Decrypted(r) == Plain([iv |-> read[r].iv, by |-> inode[read[r].fd].by])

ReadBytes(r) ==
    /\ read[r].pc = "bytes" /\ read[r].at = "data"
    /\ got' = [got EXCEPT ![r] = Decrypted(r)]
    /\ overlap' = [overlap EXCEPT ![r] = @ \/ read[r].fd \in torn]
    /\ read' = [read EXCEPT ![r] = [pc |-> "open", at |-> "metadata", fd |-> None, iv |-> None]]
    /\ UNCHANGED writing

\* readMetadata: gob decodes neither an empty file nor garbage.
ReadMetadata(r) ==
    /\ read[r].pc = "bytes" /\ read[r].at = "metadata"
    /\ Returns(r, IF Decrypted(r) = "whole" THEN got[r] ELSE "error")

ReadDecrypt(r) == OpenEntry(r) \/ ReadVector(r) \/ ReadBytes(r) \/ ReadMetadata(r)

-----------------------------------------------------------------------------

ReadEnds(r) == read[r].pc # "done" /\ read[r] # NotRead

\* The process ends, with all its calls, and starts again.
Crash ==
    /\ store' = [w \in Stores |-> IF ~ Storing(w) THEN store[w]
                                  ELSE [pc |-> "failed", at |-> store[w].at, fd |-> None]]
    /\ delete' = [d \in Deletes |-> IF Deleting(d) THEN [delete[d] EXCEPT !.pc = "done"]
                                    ELSE delete[d]]
    /\ read' = [r \in Reads |-> IF ReadEnds(r) THEN [NotRead EXCEPT !.pc = "done"] ELSE read[r]]
    /\ got' = [r \in Reads |-> IF ReadEnds(r) THEN None ELSE got[r]]
    /\ <<store, delete, read>> # <<store', delete', read'>>
    /\ UNCHANGED <<dir, entry, inode, alone, torn, overlap>>

Next ==
    \/ \E w \in Stores : WriteEncrypt(w)
    \/ \E d \in Deletes : Delete(d)
    \/ \E r \in Reads : ReadDecrypt(r)
    \/ Crash

Spec == Init /\ [][Next]_vars

-----------------------------------------------------------------------------
(* Properties.                                                              *)

\* The values the variables take: a name refers to an inode made for it and only
\* in a directory that exists; a call has a file open while it writes or reads it.
TypeOK ==
    /\ dir \in BOOLEAN
    /\ entry \in [Names -> Inodes \cup {None}]
    /\ \A n \in Names : entry[n] # None => dir /\ entry[n][2] = n
    /\ inode \in [Inodes -> Contents]
    /\ store \in [Stores -> [pc : {"new", "open", "vector", "bytes", "done", "failed"},
                             at : Names, fd : Inodes \cup {None}]]
    /\ \A w \in Stores :
           /\ store[w].fd # None <=> store[w].pc \in {"vector", "bytes"}
           /\ store[w].fd # None => store[w].fd[2] = store[w].at
    /\ delete \in [Deletes -> [pc : {"new", "unlink", "done"}, left : SUBSET Names]]
    /\ read \in [Reads -> [pc : {"open", "vector", "bytes", "done"}, at : Names,
                           fd : Inodes \cup {None}, iv : Stores \cup {None}]]
    /\ \A r \in Reads : read[r].fd # None <=> read[r].pc \in {"vector", "bytes"}
    /\ got \in [Reads -> {None, "error", "empty", "garbage", "whole"}]
    /\ overlap \in [Reads -> BOOLEAN]
    /\ alone \in Stores \cup {None}
    /\ torn \subseteq Inodes

\* README.md: "-enc: Encryption type: AES, CC20, None (default: AES)".  When a
\* WriteEncrypt that overlapped no other and no Delete has returned without an
\* error, data and metadata are its own and can be decrypted until the next call
\* begins: whatever calls that overlapped, failed or died in a crash have left
\* behind before it, and crashes after it.  Holds in a mesh.
AckedIsReadable ==
    alone # None /\ store[alone].pc = "done" =>
        \A n \in Names :
            /\ entry[n] # None
            /\ Plain(inode[entry[n]]) = "whole" /\ inode[entry[n]].by = alone

\* store.go, ReadDecrypt: a read decrypts the bytes of one store with the vector of
\* another only if the file was opened for another store while it read it, or was
\* written by two at once.  Deletes in several steps, files stored again after a
\* delete, half-written files and crashes alone never make it return garbage.
GarbageNeedsOverlap ==
    \A r \in Reads : got[r] = "garbage" => overlap[r]
=============================================================================
