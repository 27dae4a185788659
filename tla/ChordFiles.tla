------------------------------- MODULE ChordFiles -------------------------------
(***************************************************************************)
(* The file operations of the Chord architecture, on top of the ring:      *)
(* StoreFile, GetFile, DeleteFile and transferResponsibilities (chord.go,  *)
(* chord_util.go) and the handlers of their messages (chord_handler.go).   *)
(*                                                                         *)
(* A Chord node never gets an encryption type (Store), so that storing a   *)
(* file leaves an empty file and empty metadata: the store has the file    *)
(* from then on, and every attempt to read it is an error.                 *)
(*                                                                         *)
(* File operations and the ring share connections, read loops and event    *)
(* loops.  A stream nobody closes makes the reading end of a connection    *)
(* deaf; a handler that copies a connection to its end holds the event     *)
(* loop; a client that waits for a file takes the bytes of ring messages.  *)
(* RefinesRing says what all of that does to the ring: it loses messages.  *)
(***************************************************************************)
EXTENDS ChordRing

CONSTANTS Files,    \* content identifiers, by the identifier they are hashed to
          MaxCalls, \* bound: calls of StoreFile, GetFile and DeleteFile ...
          MaxCallsAfterCrash  \* ... and how many are counted up to after a crash

ASSUME FilesAssumption == Files \subseteq Ids /\ {MaxCalls, MaxCallsAfterCrash} \subseteq Nat

VARIABLES
    files,         \* the files a node's store has
    responsibles,  \* ChordNode.responsibles
    jobs,          \* file messages in flight
    deaf,          \* directions of connections that are not read any more
    copying,       \* the store request whose connection the event loop copies
    readers,       \* goroutines that read a connection beside its read loop
    transfers,     \* nodes with a transferResponsibilities to run
    calls,         \* number of calls
    past           \* what the properties need of the past

fileVars == <<files, responsibles, jobs, deaf, copying, readers, transfers, calls, past>>
allVars == <<vars, fileVars>>

-----------------------------------------------------------------------------
(* Directions.  A connection is named by the node that dialled it and the   *)
(* one that accepted.  Requests go out on the sender's own connection,      *)
(* answers come in on the connection of the request.                        *)

Directions == [dialler : Nodes, accepter : Nodes, way : {"out", "in"}]
Out(n, m) == [dialler |-> n, accepter |-> m, way |-> "out"]
In(n, m)  == [dialler |-> n, accepter |-> m, way |-> "in"]
Back(d) == [d EXCEPT !.way = IF @ = "out" THEN "in" ELSE "out"]

Source(d) == IF d.way = "out" THEN d.dialler ELSE d.accepter
Target(d) == Source(Back(d))
Direction(m) == IF m.type = "GetPredecessorResponse" THEN In(m.dst, m.src) ELSE Out(m.src, m.dst)

\* All connections of n, by the direction away from it.
Ways(n) == {Out(n, m) : m \in {m \in Running : Connected(n, m)}}
           \cup {In(m, n) : m \in {m \in Running : Connected(m, n)}}

\* A file message: what it asks for, its way, and the call it comes from; over
\* when its sender has crashed since.
Jobs == [type : {"StoreChord", "GetChord", "DeleteChord", "Delete"}, on : Directions,
         file : Files, call : 1 .. MaxCalls, over : BOOLEAN]
Job(t, d, f, c) == [type |-> t, on |-> d, file |-> f, call |-> c, over |-> FALSE]

\* A reader: the node, the direction and the file, and how far it is.  "get":
\* GetFile; "asked": transferResponsibilities waits for an answer; "read": it has
\* taken some bytes for one; "resumes": the same, of a deaf connection that died.
Readers == [at : Nodes, on : Directions, file : Files,
            state : {"get", "asked", "read", "resumes"}]
Reader(n, d, f, st) == [at |-> n, on |-> d, file |-> f, state |-> st]

\* Is the event loop at the end of this direction told what comes that way?
Heard(d) == d \notin deaf /\ Target(d) \in Running /\ copying[Target(d)] = Nil

FilesInit ==
    /\ Init
    /\ files = [n \in Nodes |-> {}] /\ responsibles = [n \in Nodes |-> {}]
    /\ jobs = {} /\ deaf = {} /\ readers = {} /\ transfers = {} /\ calls = 0
    /\ copying = [n \in Nodes |-> Nil]
    /\ past = [deleted |-> {}, last |-> Nil]

-----------------------------------------------------------------------------
(* The calls of clients.                                                   *)

\* Who FindSuccessor may say is responsible: the successor, or else any node,
\* since the nodes that are asked, and what they know, change meanwhile.
FindSuccessor(n, f) == IF isBetween(f, n, succ[n], TRUE) THEN {succ[n]} ELSE Running

\* A call at a node of the ring.
Called(n) ==
    /\ n \in Up
    /\ calls < MaxCalls /\ (crashes > 0 => calls < MaxCallsAfterCrash)
    /\ calls' = calls + 1
    /\ UNCHANGED vars

\* It asks another node over a connection it has, or has dialled first (LookupDial).
Asks(n, r, t, f) ==
    /\ r # n /\ Connected(n, r)
    /\ jobs' = jobs \cup {Job(t, Out(n, r), f, calls')}

\* StoreFile at the responsible node: WriteEncrypt, then responsibles.
StoreFile(n, f) ==
    /\ Called(n) /\ n \in FindSuccessor(n, f)
    /\ files' = [files EXCEPT ![n] = @ \cup {f}]
    /\ responsibles' = [responsibles EXCEPT ![n] = @ \cup {f}]
    /\ past' = [past EXCEPT !.last = Nil]
    /\ UNCHANGED <<jobs, deaf, copying, readers, transfers>>

\* StoreFile elsewhere: the message, the signal and the data; then success.
StoreFileRemote(n, f) ==
    /\ Called(n)
    /\ \E r \in FindSuccessor(n, f) : Asks(n, r, "StoreChord", f)
    /\ past' = [past EXCEPT !.last = Nil]
    /\ UNCHANGED <<files, responsibles, deaf, copying, readers, transfers>>

\* A faulty variant: a node that is not connected is taken for dead.
GetFileDropsSuccessor(n, f) ==
    /\ n \in Up /\ calls < MaxCalls /\ f \notin files[n]
    /\ \E r \in FindSuccessor(n, f) : r # n /\ ~Connected(n, r)
    /\ calls' = calls + 1
    /\ succ' = [succ EXCEPT ![n] = n]
    /\ UNCHANGED <<phase, contact, pred, connVars, suspects, msgs, crashes>>
    /\ UNCHANGED <<files, responsibles, jobs, deaf, copying, readers, transfers, past>>

\* GetFile of a file the node does not have: it asks, and reads the connection
\* it asked on.  (For a file that it has, ReadDecrypt fails.)
GetFile(n, f) ==
    /\ Called(n) /\ f \notin files[n]
    /\ \E r \in FindSuccessor(n, f) :
           /\ Asks(n, r, "GetChord", f)
           /\ readers' = readers \cup {Reader(n, In(n, r), f, "get")}
    /\ UNCHANGED <<files, responsibles, deaf, copying, transfers, past>>

\* A faulty variant: the file on the disk stays.
RemoveTellsOnly(n, f, c, rest) ==
    /\ jobs' = rest \cup {Job("Delete", d, f, c) : d \in Ways(n)}
    /\ UNCHANGED files

\* Remove of the mesh: a message on every connection, then the disk; the dead
\* connections of crashed nodes are still in the peer map, and the first one on
\* which Send fails ends it all.
Remove(n, f, c, rest) ==
    LET Told(S) == {Job("Delete", d, f, c) : d \in S}
    IN  \/ /\ jobs' = rest \cup Told(Ways(n))
           /\ files' = [files EXCEPT ![n] = @ \ {f}]
        \/ /\ crashes > 0
           /\ \E S \in SUBSET Ways(n) : jobs' = rest \cup Told(S)
           /\ UNCHANGED files

\* Everybody is in the ring, and any two nodes have a connection.
FullyConnected ==
    Up = Nodes /\ \A n, m \in Nodes : n # m => Connected(n, m) \/ Connected(m, n)

\* History: the files deleted, and the one deleted last if the network was whole
\* and at rest, until somebody writes it again, a message of the delete is lost or
\* a node crashes.
Deletes(f) ==
    past' = [past EXCEPT !.deleted = @ \cup {f},
                         !.last = IF FullyConnected /\ jobs = {} /\ crashes = 0
                                  THEN f ELSE Nil]

\* DeleteFile at the responsible node, and elsewhere.
DeleteFile(n, f) ==
    /\ Called(n) /\ n \in FindSuccessor(n, f)
    /\ responsibles' = [responsibles EXCEPT ![n] = @ \ {f}]
    /\ Remove(n, f, calls', jobs)
    /\ Deletes(f)
    /\ UNCHANGED <<deaf, copying, readers, transfers>>

DeleteFileRemote(n, f) ==
    /\ Called(n)
    /\ \E r \in FindSuccessor(n, f) : Asks(n, r, "DeleteChord", f)
    /\ Deletes(f)
    /\ UNCHANGED <<files, responsibles, deaf, copying, readers, transfers>>

-----------------------------------------------------------------------------
(* The handlers, run by the event loop.                                    *)

Handles(j, t) == j \in jobs /\ j.type = t /\ Heard(j.on) /\ UNCHANGED <<vars, calls>>

\* handleMessageStoreChordFile races with the read loop for the stream signal.
\* The one that gets it: the handler copies the connection to its end; the read
\* loop waits for a CloseStream that no Chord handler calls, and the handler gives
\* up unless the first byte of the file reads like a signal.  While the handler
\* copies, the read loop may also meet such a byte.
handleMessageStoreChordFile(j) ==
    /\ Handles(j, "StoreChord")
    /\ jobs' = jobs \ {j}
    /\ LET Waits == IF j.over THEN deaf ELSE deaf \cup {j.on}
       IN  \/ copying' = [copying EXCEPT ![Target(j.on)] = j] /\ deaf' \in {deaf, Waits}
           \/ UNCHANGED copying /\ deaf' = Waits
    /\ UNCHANGED <<files, responsibles, readers, transfers, past>>

\* A faulty variant: responsibles is set before the length is looked at.
CopyEndsTooSoon(n) ==
    /\ copying[n] # Nil /\ copying[n].over
    /\ copying' = [copying EXCEPT ![n] = Nil]
    /\ responsibles' = [responsibles EXCEPT ![n] = @ \cup {copying[n].file}]
    /\ UNCHANGED <<vars, files, jobs, deaf, readers, transfers, calls, past>>

\* The rest of that handler, once the connection has ended: it stores what it
\* got, unless that is nothing or the connection was reset.
CopyEnds(n) ==
    /\ copying[n] # Nil /\ copying[n].over
    /\ copying' = [copying EXCEPT ![n] = Nil]
    /\ \/ /\ files' = [files EXCEPT ![n] = @ \cup {copying[n].file}]
          /\ responsibles' = [responsibles EXCEPT ![n] = @ \cup {copying[n].file}]
       \/ UNCHANGED <<files, responsibles>>
    /\ UNCHANGED <<vars, jobs, deaf, readers, transfers, calls, past>>

\* handleMessageGetChordFile: without the file an error; with it, the metadata
\* cannot be read.  Neither is reported to the node that waits.
handleMessageGetChordFile(j) ==
    /\ Handles(j, "GetChord")
    /\ jobs' = jobs \ {j}
    /\ UNCHANGED <<files, responsibles, deaf, copying, readers, transfers, past>>

handleMessageDeleteChordFile(j) ==
    /\ Handles(j, "DeleteChord")
    /\ responsibles' = [responsibles EXCEPT ![Target(j.on)] = @ \ {j.file}]
    /\ Remove(Target(j.on), j.file, j.call, jobs \ {j})
    /\ UNCHANGED <<deaf, copying, readers, transfers, past>>

\* handleMessageDeleteFile of the mesh: the disk, not responsibles.
handleMessageDeleteFile(j) ==
    /\ Handles(j, "Delete")
    /\ jobs' = jobs \ {j}
    /\ files' = [files EXCEPT ![Target(j.on)] = @ \ {j.file}]
    /\ UNCHANGED <<responsibles, deaf, copying, readers, transfers, past>>

-----------------------------------------------------------------------------
(* Moving files to a new predecessor.                                      *)

\* The files transferResponsibilities picks: those on the arc from the
\* predecessor to the node itself.
filesToTransfer(n) ==
    {f \in responsibles[n] : pred[n] # Nil /\ isBetween(f, pred[n], n, TRUE)}

\* A faulty variant: the file is given up when it cannot be read.
TransferDrops(n) ==
    /\ n \in transfers
    /\ transfers' = transfers \ {n}
    /\ files' = [files EXCEPT ![n] = @ \ filesToTransfer(n)]
    /\ responsibles' = [responsibles EXCEPT ![n] = @ \ filesToTransfer(n)]
    /\ UNCHANGED <<vars, jobs, deaf, copying, readers, calls, past>>

\* transferResponsibilities: getAll fails for each file that the node has, and the
\* loop goes on.  For one that a broadcast delete has taken, getAll asks all peers,
\* none of whom answers (handleMessageGetFile cannot read the metadata either), and
\* reads the first connection.  (Goroutines of one node that have not begun are one
\* element of transfers: they would pick the same files.)
transferResponsibilities(n) ==
    /\ n \in transfers
    /\ transfers' = transfers \ {n}
    /\ \/ /\ filesToTransfer(n) \subseteq files[n] \/ Ways(n) = {} \/ crashes > 0
          /\ UNCHANGED readers
       \/ \E f \in filesToTransfer(n) \ files[n], d \in Ways(n) :
              readers' = readers \cup {Reader(n, Back(d), f, "asked")}
    /\ UNCHANGED <<vars, files, responsibles, jobs, deaf, copying, calls, past>>

\* After it has read something, getAll writes it as the file and calls
\* CloseStream.  When the read loop waits for a stream to end, that sends it on, ...
TransferGoesOn(r) ==
    /\ r \in readers
    /\ \/ r.state = "read" /\ r.on \in deaf
       \/ r.state = "resumes"
    /\ files' = [files EXCEPT ![r.at] = @ \cup {r.file}]
    /\ deaf' = IF r.state = "read" THEN deaf \ {r.on} ELSE deaf
    /\ \E more \in SUBSET {Reader(r.at, Back(d), r.file, "asked") : d \in Ways(r.at)} :
           Cardinality(more) <= 1 /\ readers' = (readers \ {r}) \cup more
    /\ past' = [past EXCEPT !.last = Nil]
    /\ UNCHANGED <<vars, responsibles, jobs, copying, transfers, calls>>

-----------------------------------------------------------------------------
(* What the ring notices.                                                   *)

\* The goroutine takes bytes of a message on its connection, which nobody can
\* decode then.  It may go on waiting or be done, and the read loop, out of step,
\* may take one of the remaining bytes for a stream signal.
Takes(r) ==
    /\ r \in readers /\ r.state \in {"get", "asked"}
    /\ \/ UNCHANGED readers
       \/ /\ r.state = "get"
          /\ readers' = readers \ {r}
       \/ /\ r.state = "asked"
          /\ readers' = (readers \ {r}) \cup {[r EXCEPT !.state = "read"]}
    /\ deaf' \in {deaf, deaf \cup {r.on}}

\* Nobody reads the direction, or a handler copies it to its end.
Unread(d) == d \in deaf \/ (copying[Target(d)] # Nil /\ copying[Target(d)].on = d)

\* A message of the ring is lost.
LoseRingMessage(m) ==
    /\ msgs' = msgs \ {m}
    /\ \/ Unread(Direction(m)) /\ UNCHANGED <<readers, deaf>>
       \/ \E r \in readers : r.on = Direction(m) /\ Takes(r)
    /\ UNCHANGED <<phase, contact, ringVars, connVars, suspects, crashes>>
    /\ UNCHANGED <<files, responsibles, jobs, copying, transfers, calls, past>>

\* A file message is lost.
LoseJob(j) ==
    /\ jobs' = jobs \ {j}
    /\ \/ (j.over \/ Unread(j.on)) /\ UNCHANGED <<readers, deaf>>
       \/ ~j.over /\ \E r \in readers : r.on = j.on /\ Takes(r)
    /\ past' = [past EXCEPT !.last = Nil]
    /\ UNCHANGED <<vars, files, responsibles, copying, transfers, calls>>

\* A faulty variant: node.transferResponsibilities, of the node that notifies.
TransfersOfSender(m) ==
    /\ Heard(Direction(m))
    /\ Handle(m)
    /\ transfers' = IF m.type = "Notify" /\ AdoptsPredecessor(m)
                    THEN transfers \cup {m.node} ELSE transfers
    /\ UNCHANGED <<files, responsibles, jobs, deaf, copying, readers, calls, past>>

\* The event loop handles a message of the ring; a new predecessor starts
\* transferResponsibilities.
HandleRingMessage(m) ==
    /\ Heard(Direction(m))
    /\ Handle(m)
    /\ transfers' = IF m.type = "Notify" /\ AdoptsPredecessor(m)
                    THEN transfers \cup {m.dst} ELSE transfers
    /\ UNCHANGED <<files, responsibles, jobs, deaf, copying, readers, calls, past>>

\* Everything else of the ring leaves the files alone.
RingStep ==
    /\ \/ Create
       \/ \E n, c \in Nodes : Join(n, c)
       \/ \E n \in Nodes : JoinLink(n)
       \/ \E n \in Nodes : JoinNotify(n)
       \/ \E n \in Nodes : OnPeer(n)
       \/ \E n, m \in Nodes : LookupDial(n, m)
       \/ \E n \in Nodes : Stabilize(n)
       \/ \E n \in Nodes : CheckPredecessor(n)
       \/ \E n \in Nodes : RemovePredecessor(n)
    /\ UNCHANGED fileVars

\* The process of n ends, and its connections with it; what it sent that nobody
\* reads is lost before.  The disk stays.  A handler that copies comes to its end,
\* and so does a goroutine that waits for bytes.
Ends(n) ==
    LET Of(d) == n \in {d.dialler, d.accepter}
        Over(j) == IF Source(j.on) = n THEN [j EXCEPT !.over = TRUE] ELSE j
        Ended(r) == [r EXCEPT !.state = IF r.on \in deaf THEN "resumes" ELSE "read"]
    IN  /\ \A m \in msgs : m.src = n => ~Unread(Direction(m))
        /\ Crash(n)
        /\ responsibles' = [responsibles EXCEPT ![n] = {}]
        /\ jobs' = {Over(j) : j \in {j \in jobs : Target(j.on) # n}}
        /\ deaf' = {d \in deaf : ~Of(d)}
        /\ copying' = [k \in Nodes |-> IF k = n \/ copying[k] = Nil THEN Nil ELSE Over(copying[k])]
        /\ readers' = {r \in readers : r.at # n /\ ~Of(r.on)}
                      \cup {Ended(r) : r \in {r \in readers : r.at # n /\ Of(r.on) /\ r.state = "asked"}}
                      \cup {r \in readers : r.at # n /\ r.state \in {"read", "resumes"}}
        /\ transfers' = transfers \ {n}
        /\ past' = [past EXCEPT !.last = Nil]
        /\ UNCHANGED calls

CrashNode(n) == Ends(n) /\ UNCHANGED files

\* ... and when it does not, the counter goes below zero and the process panics.
TransferPanics(r) ==
    /\ r \in readers /\ r.state = "read" /\ r.on \notin deaf
    /\ Ends(r.at)
    /\ files' = [files EXCEPT ![r.at] = @ \cup {r.file}]

-----------------------------------------------------------------------------
Client(n, f) ==
    \/ StoreFile(n, f)
    \/ StoreFileRemote(n, f)
    \/ GetFile(n, f)
    \/ DeleteFile(n, f)
    \/ DeleteFileRemote(n, f)

FileHandler(j) ==
    \/ handleMessageStoreChordFile(j)
    \/ handleMessageGetChordFile(j)
    \/ handleMessageDeleteChordFile(j)
    \/ handleMessageDeleteFile(j)

FilesNext ==
    \/ \E n \in Nodes, f \in Files : Client(n, f)
    \/ \E j \in jobs : FileHandler(j)
    \/ \E j \in jobs : LoseJob(j)
    \/ \E n \in Nodes : CopyEnds(n)
    \/ \E n \in Nodes : transferResponsibilities(n)
    \/ \E r \in readers : TransferGoesOn(r)
    \/ \E r \in readers : TransferPanics(r)
    \/ RingStep
    \/ \E m \in msgs : HandleRingMessage(m)
    \/ \E m \in msgs : LoseRingMessage(m)
    \/ \E n \in Nodes : CrashNode(n)

FilesSpec == FilesInit /\ [][FilesNext]_allVars

-----------------------------------------------------------------------------
(* Properties.                                                              *)

\* The values the variables take.  A node that is off has no goroutines left.
FilesTypeOK ==
    /\ files \in [Nodes -> SUBSET Files]
    /\ responsibles \in [Nodes -> SUBSET Files]
    /\ jobs \subseteq Jobs
    /\ deaf \subseteq Directions
    /\ copying \in [Nodes -> Jobs \cup {Nil}]
    /\ readers \subseteq Readers
    /\ transfers \subseteq Running
    /\ \A r \in readers : r.at \in Running
    /\ calls \in 0 .. MaxCalls

\* The ring does not notice files but by the messages that get lost: whatever
\* clients and handlers do to connections, read loops and event loops, each step
\* is one of a ring whose connections may lose messages.  (So what ChordRing shows
\* of such a ring holds while files are stored, fetched and deleted.)
Ring == INSTANCE ChordRing WITH MayLose <- TRUE
RefinesRing == Ring!Spec

\* A file leaves a disk only after somebody has called delete for it, whatever
\* transferResponsibilities takes for the predecessor's files (chord_util.go:346
\* picks the files the node itself is responsible for).
FilesStay ==
    [][\A n \in Nodes : files[n] \ files'[n] \subseteq past'.deleted]_allVars

\* transferResponsibilities waits for bytes that do not come, or panics on those
\* that do, when a file it is responsible for is not on its disk.  Without a delete
\* that never happens.
ResponsibleHasFile ==
    \A n \in Nodes : responsibles[n] \ files[n] \subseteq past.deleted

\* A file was deleted when the network was whole and at rest, nobody has written it
\* or crashed since and the messages of the delete have arrived: it is nowhere.  The
\* delete may have been asked of any node, while stabilize rounds move successors.
DeleteReachesAll ==
    (past.last # Nil /\ jobs = {}) =>
        \A n \in Nodes : past.last \notin files[n]
================================================================================
