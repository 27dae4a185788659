------------------------------- MODULE MeshFiles -------------------------------
(***************************************************************************)
(* The file operations of a mesh: Store, Get and Remove as the HTTP        *)
(* handlers of the nodes call them, and the event loops of their peers,    *)
(* for one content identifier.                                             *)
(*                                                                         *)
(* Two nodes share one TCP connection, whose two directions are queues of  *)
(* messages and streams.  A message is taken by the read loop and handled  *)
(* by the event loop; a stream (a signal and the data of a file) is taken  *)
(* by whoever reads the connection: the handler of a store, or the Get     *)
(* that waits for an answer.  Nothing tells the one kind of stream from    *)
(* the other; when the wrong one takes it, or a Get takes the bytes of a   *)
(* message, the calls have crossed, and the model ends there.  (Connection *)
(* models the bytes and the WaitGroup below this level, Store the          *)
(* file-system calls: here a file is written or read in one step.)         *)
(***************************************************************************)
EXTENDS Integers, Sequences, FiniteSets

CONSTANTS Nodes,      \* the nodes
          Starts,     \* the possible sets of nodes that are connected from the start
          Modes,      \* the possible <<network.Split, network.EncType>>
          MaxEvents,  \* bound: calls of Store, Get, Remove and Add, and crashes
          None        \* nothing

ASSUME StartsAssumption == Starts \subseteq SUBSET Nodes /\ IsFiniteSet(Nodes)
ASSUME ModesAssumption == Modes \subseteq BOOLEAN \X {"AES", "CC20", "None"}
ASSUME BoundsAssumption ==
    MaxEvents \in Nat /\ None \notin Nodes \cup {"file", "error", "wrong"}

VARIABLES
    mode,     \* the configuration
    listed,   \* network.Nodes
    peers,    \* FileServer.peers
    disk,     \* what a node has stored of the file
    chan,     \* chan[n][m]: sent by n and not yet taken by m
    loop,     \* the store message whose stream the event loop waits for
    client,   \* the call a node is in, and what its last Get returned
    dead,     \* nodes that crashed or panicked
    events,   \* how many calls and crashes there have been
    crossed,  \* has a stream, or a message, been taken by the wrong reader?
    seen      \* what the properties need of the past

connVars == <<peers, chan>>
vars == <<mode, listed, peers, disk, chan, loop, client, dead, events, crossed, seen>>

Split == mode[1]
EncType == mode[2]

-----------------------------------------------------------------------------
(* Files.  A part of the file: its number and the number of parts (both 0   *)
(* for a whole copy), how many times it is encrypted, whether it has all    *)
(* its bytes.                                                               *)

Files == [part : Nat, total : Nat, layers : Int, whole : BOOLEAN]
ASSUME NoneAssumption == None \notin Files \cup {"store", "remove"}

Plain(i, t) == [part |-> i, total |-> t, layers |-> 0, whole |-> TRUE]

\* encrypt and decrypt.  AES puts a random vector in front; ChaCha20 adds the
\* same key stream every time, so that twice is not at all.
encrypt(f) ==
    CASE EncType = "AES"  -> [f EXCEPT !.layers = @ + 1]
      [] EncType = "CC20" -> [f EXCEPT !.layers = 1 - @]
      [] EncType = "None" -> f
decrypt(f) ==
    CASE EncType = "AES"  -> [f EXCEPT !.layers = @ - 1]
      [] EncType = "CC20" -> [f EXCEPT !.layers = 1 - @]
      [] EncType = "None" -> f

-----------------------------------------------------------------------------
(* What is on a connection.                                                *)

MessageGetFile == [type |-> "get"]
MessageDeleteFile == [type |-> "delete"]
MessageStoreFile(i, t) == [type |-> "store", part |-> i, total |-> t]
Stream(use, f) == [type |-> "stream", use |-> use, file |-> f]

IsMessage(x) == x.type # "stream"
Waiting(n, p) == chan[p][n] # <<>>
EndOfFile(n, p) == p \in dead /\ chan[p][n] = <<>>

\* The peers S of n get x; what is sent to a dead one is lost.
To(n, S, x) ==
    [chan EXCEPT ![n] = [p \in Nodes |->
        IF p \in S \ dead THEN Append(chan[n][p], x) ELSE chan[n][p]]]

\* broadcast: to all peers, or to those before a dead one, whose Send fails.
\* (The first Send to a dead peer succeeds, so that it may not fail at all.)
Reached(n) == {<<peers[n], TRUE>>} \cup
    (IF peers[n] \cap dead = {} THEN {} ELSE (SUBSET (peers[n] \ dead)) \X {FALSE})

-----------------------------------------------------------------------------

Idle == [pc |-> "idle", left |-> {}, at |-> None, num |-> 0, total |-> 0, parts |-> {},
         got |-> None]

\* Is no call under way, and nothing on a connection?
Quiet == \A n \in Nodes : /\ client[n].pc = "idle" /\ loop[n] = None
                          /\ \A m \in Nodes : chan[n][m] = <<>>

\* last: what was called last; overlapped: was it called while something was under
\* way; cut: did a file lose its end; totals: the numbers of parts files were cut into.
Init ==
    /\ mode \in Modes
    /\ listed \in Starts
    /\ peers = [n \in Nodes |-> IF n \in listed THEN listed \ {n} ELSE {}]
    /\ disk = [n \in Nodes |-> None]
    /\ chan = [n \in Nodes |-> [m \in Nodes |-> <<>>]]
    /\ loop = [n \in Nodes |-> None]
    /\ client = [n \in Nodes |-> Idle]
    /\ dead = {} /\ events = 0 /\ crossed = FALSE
    /\ seen = [last |-> None, overlapped |-> FALSE, cut |-> FALSE, totals |-> {}]

Happens == events < MaxEvents /\ events' = events + 1

\* MeshNetwork models how; here members add new nodes one after the other, so that
\* there is one list: a node is listed first ...
Add(n) ==
    /\ n \notin listed /\ Happens
    /\ listed' = listed \cup {n}
    /\ seen' = [seen EXCEPT !.last = None, !.overlapped = @ \/ ~ Quiet]
    /\ UNCHANGED <<mode, connVars, disk, loop, client, dead, crossed>>

\* ... and its connections are registered after that.
OnPeer(n, m) ==
    /\ n \in listed /\ m \in listed \ (peers[n] \cup dead \cup {n})
    /\ peers' = [peers EXCEPT ![n] = @ \cup {m}, ![m] = @ \cup {n}]
    /\ seen' = [seen EXCEPT !.last = None, !.overlapped = @ \/ ~ Quiet]
    /\ UNCHANGED <<mode, listed, disk, chan, loop, client, dead, events, crossed>>

\* An HTTP request arrives, for an operation that files are cut into t parts by.
Called(n, last, ts) ==
    /\ client[n].pc = "idle" /\ n \in listed /\ Happens
    /\ seen' = [seen EXCEPT !.last = last, !.overlapped = @ \/ ~ Quiet, !.totals = @ \cup ts]
    /\ UNCHANGED <<mode, listed, peers, loop, dead, crossed>>

\* A step of a call that changes only the connections and the call.
Goes(n, c) ==
    /\ client' = [client EXCEPT ![n] = c]
    /\ UNCHANGED <<mode, listed, peers, loop, dead, events, crossed>>

Returns(n, got) == Goes(n, [Idle EXCEPT !.got = got])

-----------------------------------------------------------------------------
(* Store.                                                                  *)

\* storeSplit: as many parts as members are listed, the first one for this node.
storeSplit(n) ==
    /\ Split
    /\ LET t == Cardinality(listed)
       IN  /\ Called(n, "store", {t})
           /\ disk' = [disk EXCEPT ![n] = encrypt(Plain(1, t))]
           /\ client' = [client EXCEPT ![n] =
                  [Idle EXCEPT !.pc = "part", !.left = peers[n], !.num = 2, !.total = t]]
    /\ UNCHANGED chan

\* The next part, for some peer: the message ...
SendPart(n, p) ==
    /\ client[n].pc = "part" /\ p \in client[n].left /\ client[n].num <= client[n].total
    /\ chan' = To(n, {p}, MessageStoreFile(client[n].num, client[n].total))
    /\ Goes(n, [client[n] EXCEPT !.pc = "data", !.at = p])
    /\ UNCHANGED <<disk, seen>>

\* ... and 5 ms later the signal and the part, not encrypted.
SendData(n) ==
    /\ client[n].pc = "data"
    /\ chan' = To(n, {client[n].at}, Stream("store", Plain(client[n].num, client[n].total)))
    /\ Goes(n, [client[n] EXCEPT !.pc = "part", !.left = @ \ {client[n].at}, !.at = None,
                                 !.num = @ + 1])
    /\ UNCHANGED <<disk, seen>>

\* Either fails when the peer is dead.
SendFails(n) ==
    /\ \/ client[n].pc = "data" /\ client[n].at \in dead
       \/ client[n].pc = "part" /\ client[n].left \cap dead # {}
    /\ Returns(n, None)
    /\ UNCHANGED <<disk, chan, seen>>

\* No parts or no peers are left; parts that are left over stay unsaid.
StoreReturns(n) ==
    /\ client[n].pc = "part" /\ (client[n].left = {} \/ client[n].num > client[n].total)
    /\ Returns(n, None)
    /\ UNCHANGED <<disk, chan, seen>>

\* storeAll: a copy for this node, a message for the others, whatever broadcast says ...
storeAll(n) ==
    /\ ~ Split
    /\ Called(n, "store", {0})
    /\ disk' = [disk EXCEPT ![n] = encrypt(Plain(0, 0))]
    /\ \E r \in Reached(n) : chan' = To(n, r[1], MessageStoreFile(0, 0))
    /\ client' = [client EXCEPT ![n] = [Idle EXCEPT !.pc = "stream"]]

\* ... and 5 ms later the copy itself, encrypted, to the peers of now.  When the
\* Write to a dead one fails, those before it have got all of it or a beginning.
StreamAll(n) ==
    /\ client[n].pc = "stream"
    /\ LET copy == encrypt(Plain(0, 0))
           beginning == [copy EXCEPT !.whole = FALSE]
       IN  \E r \in Reached(n), f \in {copy, beginning} :
               /\ r[2] => f = copy
               /\ chan' = To(n, r[1], Stream("store", f))
               /\ seen' = [seen EXCEPT !.cut = @ \/ ~ f.whole]
    /\ Returns(n, None)
    /\ UNCHANGED disk

-----------------------------------------------------------------------------
(* Get.                                                                    *)

\* What a file read from the disk, or put together, is to the caller.
IsTheFile(f) == f.layers = 0 /\ f.whole
Content(f) == IF IsTheFile(decrypt(f)) THEN "file" ELSE "wrong"

\* getAll: a copy on the disk is read ...
getAllLocal(n) ==
    /\ ~ Split /\ disk[n] # None
    /\ Called(n, seen.last, {})
    /\ client' = [client EXCEPT ![n] = [Idle EXCEPT !.got = Content(disk[n])]]
    /\ UNCHANGED <<disk, chan>>

\* ... and otherwise, like the other parts in getSplit, asked for.  getSplit takes
\* the number of parts from its own part.
AskPeers(n) ==
    /\ Split \/ disk[n] = None
    /\ Called(n, seen.last, {})
    /\ \E r \in Reached(n) :
           /\ chan' = To(n, r[1], MessageGetFile)
           /\ client' = [client EXCEPT ![n] =
                  IF ~ r[2] THEN [Idle EXCEPT !.got = "error"]
                  ELSE IF disk[n] = None THEN [Idle EXCEPT !.pc = "asked"]
                  ELSE [Idle EXCEPT !.pc = "asked", !.parts = {decrypt(disk[n])},
                                    !.total = disk[n].total]]
    /\ UNCHANGED disk

\* A faulty variant: answers are expected from all members.
ReadsFromListed(n) ==
    /\ client[n].pc = "asked"
    /\ Goes(n, [client[n] EXCEPT !.pc = "collect", !.left = listed \ {n}])
    /\ UNCHANGED <<disk, chan, seen>>

\* After 500 ms the answers are read, from the peers of now.
ReadAnswers(n) ==
    /\ client[n].pc = "asked"
    /\ Goes(n, [client[n] EXCEPT !.pc = "collect", !.left = peers[n]])
    /\ UNCHANGED <<disk, chan, seen>>

\* A faulty variant: the parts of the others are not decrypted.
CollectedAsSent(n, f) ==
    LET c == client[n]
    IN  IF Split
        THEN [c EXCEPT !.parts = {g \in @ : g.part # f.part} \cup {f},
                       !.total = IF @ = 0 /\ disk[n] # None THEN disk[n].total ELSE @]
        ELSE c

\* getAll writes each answer over the one before.  getSplit keeps one part of each
\* number, and looks for its own part again as long as it does not know the total.
Collected(n, f) ==
    LET c == client[n]
    IN  IF Split
        THEN [c EXCEPT !.parts = {g \in @ : g.part # f.part} \cup {decrypt(f)},
                       !.total = IF @ = 0 /\ disk[n] # None THEN disk[n].total ELSE @]
        ELSE c

\* The answer of p; CloseStream lets the read loop go on.
Collect(n, p) ==
    /\ client[n].pc = "collect" /\ p \in client[n].left /\ Waiting(n, p)
    /\ LET x == Head(chan[p][n])
       IN  /\ ~ IsMessage(x) /\ x.use = "answer" /\ (x.file.whole \/ p \in dead)
           /\ disk' = IF Split THEN disk
                      ELSE [disk EXCEPT ![n] = [x.file EXCEPT !.part = 0, !.total = 0]]
           /\ Goes(n, [Collected(n, x.file) EXCEPT !.left = @ \ {p}])
    /\ chan' = [chan EXCEPT ![p][n] = Tail(@)]
    /\ UNCHANGED seen

\* The end of the connection is read as an empty file (getAll writes it to the
\* disk), and CloseStream panics, which ends the HTTP request but not the node.
CollectFails(n, p) ==
    /\ client[n].pc = "collect" /\ p \in client[n].left /\ EndOfFile(n, p)
    /\ \/ UNCHANGED <<disk, seen>>
       \/ /\ ~ Split
          /\ disk' = [disk EXCEPT ![n] = [Plain(0, 0) EXCEPT !.whole = FALSE]]
          /\ seen' = [seen EXCEPT !.cut = TRUE]
    /\ Returns(n, "error")
    /\ UNCHANGED chan

\* A faulty variant: the parts are not counted.
CombinesWhatItHas(n) ==
    LET c == client[n]
    IN  IF c.total = 0 \/ {f.part : f \in c.parts} # 1 .. Cardinality(c.parts) THEN "error"
        ELSE IF Cardinality(c.parts) = c.total /\ \A f \in c.parts : IsTheFile(f) THEN "file"
        ELSE "wrong"

\* The checks at the end of getSplit, and combineFile.  Parts of another cutting
\* make another file.
Combine(n) ==
    LET c == client[n]
    IN  IF c.total = 0 \/ {f.part : f \in c.parts} # 1 .. c.total THEN "error"
        ELSE IF \A f \in c.parts : IsTheFile(f) /\ f.total = c.total THEN "file"
        ELSE "wrong"

GetReturns(n) ==
    /\ client[n].pc = "collect" /\ client[n].left = {}
    /\ Returns(n, IF Split THEN Combine(n)
                  ELSE IF disk[n] = None THEN "error" ELSE Content(disk[n]))
    /\ UNCHANGED <<disk, chan, seen>>

-----------------------------------------------------------------------------
(* Remove: the others first, then, unless that failed, this node.           *)

Remove(n) ==
    /\ Called(n, "remove", {})
    /\ \E r \in Reached(n) :
           /\ chan' = To(n, r[1], MessageDeleteFile)
           /\ client' = [client EXCEPT ![n] = IF r[2] THEN [Idle EXCEPT !.pc = "delete"] ELSE Idle]
    /\ UNCHANGED disk

\* A faulty variant: only the others delete.
RemoveReturns(n) ==
    /\ client[n].pc = "delete"
    /\ Returns(n, None)
    /\ UNCHANGED <<disk, chan, seen>>

DeleteLocal(n) ==
    /\ client[n].pc = "delete"
    /\ disk' = [disk EXCEPT ![n] = None]
    /\ Returns(n, None)
    /\ UNCHANGED <<chan, seen>>

-----------------------------------------------------------------------------
(* The event loop.                                                         *)

Handled(m, p) ==
    /\ loop[m] = None /\ Waiting(m, p) /\ p \in peers[m]
    /\ UNCHANGED <<mode, listed, peers, client, dead, events, crossed, seen>>

Took(m, p) == [chan EXCEPT ![p][m] = Tail(@)]

\* A faulty variant: only a whole copy is served.
ServesCopiesOnly(m, p) ==
    /\ Handled(m, p) /\ Head(chan[p][m]) = MessageGetFile
    /\ chan' = IF disk[m] = None \/ disk[m].part # 0 \/ p \in dead THEN Took(m, p)
               ELSE [Took(m, p) EXCEPT ![m][p] = Append(@, Stream("answer", disk[m]))]
    /\ UNCHANGED <<disk, loop>>

\* handleMessageGetFile: what is on the disk, as it is; nothing if nothing is.
handleMessageGetFile(m, p) ==
    /\ Handled(m, p) /\ Head(chan[p][m]) = MessageGetFile
    /\ chan' = IF disk[m] = None \/ p \in dead THEN Took(m, p)
               ELSE [Took(m, p) EXCEPT ![m][p] = Append(@, Stream("answer", disk[m]))]
    /\ UNCHANGED <<disk, loop>>

handleMessageDeleteFile(m, p) ==
    /\ Handled(m, p) /\ Head(chan[p][m]) = MessageDeleteFile
    /\ chan' = Took(m, p)
    /\ disk' = [disk EXCEPT ![m] = None]
    /\ UNCHANGED loop

\* handleMessageStoreFile begins, and waits for the stream ...
handleMessageStoreFile(m, p) ==
    /\ Handled(m, p) /\ Head(chan[p][m]).type = "store"
    /\ chan' = Took(m, p)
    /\ loop' = [loop EXCEPT ![m] = [from |-> p, msg |-> Head(chan[p][m])]]
    /\ UNCHANGED disk

\* ... which it encrypts, with the numbers of the message.
StorePart(m) ==
    /\ loop[m] # None
    /\ LET p == loop[m].from
           msg == loop[m].msg
       IN  /\ Waiting(m, p)
           /\ LET x == Head(chan[p][m])
              IN  /\ ~ IsMessage(x) /\ x.use = "store" /\ (x.file.whole \/ p \in dead)
                  /\ disk' = [disk EXCEPT ![m] = encrypt([x.file EXCEPT !.part = msg.part,
                                                                        !.total = msg.total])]
           /\ chan' = Took(m, p)
    /\ loop' = [loop EXCEPT ![m] = None]
    /\ UNCHANGED <<mode, listed, peers, client, dead, events, crossed, seen>>

-----------------------------------------------------------------------------
(* Failures.                                                               *)

\* What may arrive of what was sent before the sender stopped: any first part,
\* the last stream of it possibly cut short.
Arrives(q) ==
    LET Kept == {SubSeq(q, 1, i) : i \in 0 .. Len(q)}
    IN  Kept \cup {[k EXCEPT ![Len(k)] = [@ EXCEPT !.file.whole = FALSE]] :
                       k \in {k \in Kept : k # <<>> /\ ~ IsMessage(k[Len(k)])}}

\* The process of n ends; what was sent to it is lost.
Stops(n) ==
    /\ dead' = dead \cup {n}
    /\ client' = [client EXCEPT ![n] = Idle]
    /\ loop' = [loop EXCEPT ![n] = None]
    /\ \E out \in [Nodes -> UNION {Arrives(chan[n][p]) : p \in Nodes}] :
           /\ \A p \in Nodes : out[p] \in Arrives(chan[n][p])
           /\ chan' = [p \in Nodes |-> IF p = n THEN out ELSE [chan[p] EXCEPT ![n] = <<>>]]
           /\ seen' = [seen EXCEPT !.cut = @ \/ \E p \in Nodes : \E i \in DOMAIN out[p] :
                                        out[p][i] # chan[n][p][i]]
    /\ UNCHANGED <<mode, listed, peers, crossed>>

Crash(n) ==
    /\ Happens
    /\ Stops(n)
    /\ UNCHANGED disk

\* The sender died before its stream.  A reset connection is an error, which the
\* event loop logs ...
StorePartFails(m) ==
    /\ loop[m] # None /\ EndOfFile(m, loop[m].from)
    /\ loop' = [loop EXCEPT ![m] = None]
    /\ UNCHANGED <<mode, listed, connVars, disk, client, dead, events, crossed, seen>>

\* ... and the end of the connection an empty part: it is stored, and CloseStream
\* panics.
Panic(m) ==
    /\ loop[m] # None /\ EndOfFile(m, loop[m].from)
    /\ disk' = [disk EXCEPT ![m] = encrypt([Plain(loop[m].msg.part, loop[m].msg.total)
                                                EXCEPT !.whole = FALSE])]
    /\ Stops(m)
    /\ UNCHANGED events

\* The wrong reader: a Get that waits for p takes a message or the stream of a
\* store; a handler takes an answer; or either reads on from a stream that has
\* ended too early.
Cross(n, p) ==
    /\ Waiting(n, p)
    /\ LET x == Head(chan[p][n])
           Reads == (IF client[n].pc = "collect" /\ p \in client[n].left THEN {"answer"} ELSE {})
                    \cup (IF loop[n] # None /\ loop[n].from = p THEN {"store"} ELSE {})
       IN  \E use \in Reads :
               \/ IsMessage(x) /\ use = "answer"
               \/ ~ IsMessage(x) /\ x.use # use
               \/ ~ IsMessage(x) /\ ~ x.file.whole /\ Len(chan[p][n]) > 1
    /\ crossed' = TRUE
    /\ UNCHANGED <<mode, listed, connVars, disk, loop, client, dead, events, seen>>

-----------------------------------------------------------------------------

\* The HTTP requests.
Request(n) ==
    \/ storeSplit(n) \/ storeAll(n) \/ getAllLocal(n) \/ AskPeers(n) \/ Remove(n)

\* The HTTP handler of n goes on with its call.
Client(n) ==
    \/ \E p \in Nodes : SendPart(n, p) \/ Collect(n, p) \/ CollectFails(n, p)
    \/ SendData(n) \/ SendFails(n) \/ StoreReturns(n) \/ StreamAll(n)
    \/ ReadAnswers(n) \/ GetReturns(n) \/ DeleteLocal(n)

EventLoop(m) ==
    \/ \E p \in Nodes : \/ handleMessageGetFile(m, p) \/ handleMessageDeleteFile(m, p)
                        \/ handleMessageStoreFile(m, p)
    \/ StorePart(m) \/ StorePartFails(m) \/ Panic(m)

Step(n) ==
    \/ Add(n) \/ (\E m \in Nodes : OnPeer(n, m)) \/ (\E p \in Nodes : Cross(n, p))
    \/ Request(n) \/ Client(n) \/ EventLoop(n) \/ Crash(n)

Next == ~ crossed /\ \E n \in Nodes \ dead : Step(n)

Spec == Init /\ [][Next]_vars

-----------------------------------------------------------------------------
(* Properties.                                                              *)

\* The values the variables take.
TypeOK ==
    /\ mode \in Modes /\ listed \subseteq Nodes /\ peers \in [Nodes -> SUBSET Nodes]
    /\ \A n \in Nodes : disk[n] \in Files \cup {None}
    /\ \A n, m \in Nodes : \A i \in DOMAIN chan[n][m] :
           LET x == chan[n][m][i]
           IN  \/ x \in {MessageGetFile, MessageDeleteFile}
               \/ x.type = "store" /\ {x.part, x.total} \subseteq 0 .. Cardinality(Nodes)
               \/ x.type = "stream" /\ x.file \in Files
    /\ \A n \in Nodes : loop[n] # None => loop[n].from \in peers[n] /\ loop[n].msg.type = "store"
    /\ \A n \in Nodes : client[n].left \subseteq peers[n] /\ client[n].parts \subseteq Files
    /\ dead \subseteq Nodes /\ events \in 0 .. MaxEvents

\* The parts of a file come from several nodes that store, delete and crash as
\* they like, some of them listed and not connected yet: what Get returns without
\* an error is the file.  (Except where the README says so: a file that was cut
\* short by a crash, a mesh that grew between two stores, encrypted copies.)
GetIsFile ==
    (~ seen.cut /\ Cardinality(seen.totals) <= 1 /\ (Split \/ EncType = "None"))
        => \A n \in Nodes : client[n].got # "wrong"

\* All listed nodes are alive and connected, and nobody is at work.
Settled ==
    /\ Quiet /\ ~ seen.overlapped /\ dead = {}
    /\ \A n \in listed : peers[n] = listed \ {n}

\* Once a Store by whichever node has settled every part, or every copy, is on a
\* node of its own; after a Remove no node has anything.
LastCallDone ==
    Settled =>
        /\ seen.last = "store" /\ Split =>
               /\ {disk[n].part : n \in listed} = 1 .. Cardinality(listed)
               /\ \A n \in listed : Content(disk[n]) = "file"
        /\ seen.last = "store" /\ ~ Split => \A n \in listed : disk[n] # None
        /\ seen.last = "remove" => \A n \in Nodes : disk[n] = None

\* A Get of the parts of a Store that settled, and nobody else is at work.
LoneGet(n) ==
    /\ client[n].pc \in {"asked", "collect"} /\ Split /\ seen.last = "store"
    /\ ~ seen.overlapped /\ dead = {} /\ \A m \in listed : peers[m] = listed \ {m}

\* Get reads an answer from every peer in turn, and nothing on a connection says
\* whose stream it is.  A Get on its own takes no other stream than its answers, and
\* ends with the file, whichever node stored it and whichever node asks.
LoneGetFindsFile ==
    \A n \in Nodes : LoneGet(n) =>
        /\ ~ crossed
        /\ client[n].pc = "collect" /\ client[n].left = {} => Combine(n) = "file"

\* Get waits for each answer without a limit.  A Get on its own always gets on: every
\* step uses up a message, an answer or a peer, so that it returns.
LoneGetGoesOn ==
    \A n \in Nodes : LoneGet(n) =>
        \/ client[n].pc = "collect" /\ client[n].left = {}
        \/ ENABLED (Client(n) \/ \E m \in Nodes : EventLoop(m))

\* mesh.go: Get "reads the incoming binary data, decrypts and writes it to the
\* local disk, and returns a reader to that received file".  What Get returns
\* without an error is the file, also where each node has a copy.
CopyIsFile == \A n \in Nodes : client[n].got # "wrong"
================================================================================
