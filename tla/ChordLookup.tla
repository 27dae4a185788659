------------------------------ MODULE ChordLookup ------------------------------
(***************************************************************************)
(* Lookups in a Chord ring whose successors are settled: FindSuccessor,    *)
(* closestPrecedingNode, findSuccessorRemote and fixFinger, the handlers   *)
(* of the request and of its answer, and the two locks that lie across     *)
(* them: the RWMutex ChordNode.mtx, which FindSuccessor holds for reading  *)
(* while it waits for a remote answer, and the event loop, which handles   *)
(* one message after the other, a forwarded lookup included.               *)
(*                                                                         *)
(* Each node has three threads that look something up: its event loop (for *)
(* another node), fixFingersRoutine and a client's store, get or delete.   *)
(***************************************************************************)
EXTENDS RingIds, FiniteSets

CONSTANTS Nodes,     \* the nodes, each named by its ring identifier
          Creator,   \* the node that created the ring
          Fixers,    \* the nodes whose fixFingersRoutine is looked at
          Clients,   \* the nodes clients talk to
          Keys,      \* the identifiers clients look up
          Notified,  \* the nodes whose predecessor's stabilize is looked at
          Nil,       \* no node
          MaxReqs    \* bound: requests of one node that leave traces at a time

ASSUME NodesAssumption == Nodes \subseteq Ids /\ Cardinality(Nodes) > 1
ASSUME RolesAssumption ==
    /\ Creator \in Nodes /\ Fixers \subseteq Nodes /\ Clients \subseteq Nodes
    /\ Notified \subseteq Nodes
    /\ Keys \subseteq Ids
ASSUME NilAssumption == Nil \notin Ids
ASSUME MaxReqsAssumption == MaxReqs \in Nat

VARIABLES
    fingers,  \* ChordNode.fingers
    peers,    \* FileServer.peers, entries under a listen address
    thread,   \* what each thread of each node is doing
    msgs,     \* messages in flight and waiting in rpcch
    found     \* the last answer a client got, with the identifier it looked up

vars == <<fingers, peers, thread, msgs, found>>

Threads == {"loop", "finger", "client"}
Slots == 0 .. Bits - 1
Reqs == Nodes \X (1 .. MaxReqs)

\* pc: "idle"; "rlock": at mtx.RLock() of FindSuccessor; "wait": in the select
\* of findSuccessorRemote, holding the read lock; "got": there, with an answer
\* in its channel; "wlock": at mtx.Lock().  id is looked up, `to' is asked with
\* request req, over a connection found in the peer map if direct; val is the
\* answer; slot the finger to set; back the request a loop's lookup serves.
Idle == [pc |-> "idle", id |-> 0, to |-> Nil, req |-> Nil, direct |-> FALSE,
         val |-> Nil, slot |-> 0, back |-> Nil]
ThreadStates ==
    [pc : {"idle", "rlock", "wait", "got", "wlock"}, id : Ids, to : Nodes \cup {Nil},
     req : Reqs \cup {Nil}, direct : BOOLEAN, val : Nodes \cup {Nil}, slot : Slots,
     back : Reqs \cup {Nil}]

Request(n, to, r, id)  == [type |-> "FindSuccessor", dst |-> to, req |-> r, id |-> id]
Response(r, v)         == [type |-> "FindSuccessorResponse", dst |-> r[1], req |-> r, node |-> v]
NotifyMsg(n)           == [type |-> "Notify", dst |-> n]
Messages ==
    [type : {"FindSuccessor"}, dst : Nodes, req : Reqs, id : Ids]
    \cup [type : {"FindSuccessorResponse"}, dst : Nodes, req : Reqs, node : Nodes]
    \cup [type : {"Notify"}, dst : Nodes]

\* The settled ring: ChordNode.successor of every node.
successor == [n \in Nodes |-> IdealSuccessor(Nodes, n)]

\* Create points all fingers of the first node at itself, Join leaves them nil.
\* Every node has the connection to its successor that stabilize uses.
Init ==
    /\ fingers = [n \in Nodes |-> [i \in Slots |-> IF n = Creator THEN n ELSE Nil]]
    /\ peers = [n \in Nodes |-> {successor[n]}]
    /\ thread = [n \in Nodes |-> [t \in Threads |-> Idle]]
    /\ msgs = {}
    /\ found = [n \in Nodes |-> [id |-> 0, val |-> Nil]]

-----------------------------------------------------------------------------
(* The read-write lock mtx: a writer waits for the readers to leave, and a   *)
(* reader that comes after a waiting writer waits for the writer.            *)

HoldsRead(n, t) == thread[n][t].pc \in {"wait", "got"}
ReadFree(n) == \A t \in Threads : thread[n][t].pc # "wlock"
WriteFree(n) == \A t \in Threads : ~ HoldsRead(n, t)

-----------------------------------------------------------------------------
(* FindSuccessor.                                                           *)

\* closestPrecedingNode: the highest finger on the arc (n, id).
Preceding(n, id) ==
    {i \in Slots : fingers[n][i] # Nil /\ isBetween(fingers[n][i], n, id, FALSE)}

closestPrecedingNode(n, id) ==
    IF Preceding(n, id) = {} THEN n
    ELSE LET i == CHOOSE i \in Preceding(n, id) : \A j \in Preceding(n, id) : j <= i
         IN  fingers[n][i]

\* Does FindSuccessor answer without asking anyone?
AnswersItself(n, id) ==
    isBetween(id, n, successor[n], TRUE) \/ closestPrecedingNode(n, id) = n

\* The thread leaves FindSuccessor with node v and gives the read lock back.
\* The loop sends v to the node that asked, dialling it when it has no entry;
\* fixFinger goes for the write lock; the client has its answer.
Finish(n, t, v, rest) ==
    LET s == thread[n][t]
    IN  CASE t = "loop" ->
               /\ thread' = [thread EXCEPT ![n][t] = Idle]
               /\ msgs' = rest \cup {Response(s.back, v)}
               /\ peers' = [peers EXCEPT ![n] = @ \cup {s.back[1]}]
               /\ UNCHANGED found
          [] t = "finger" ->
               /\ thread' = [thread EXCEPT ![n][t] = [Idle EXCEPT !.pc = "wlock",
                                                       !.val = v, !.slot = s.slot]]
               /\ msgs' = rest
               /\ UNCHANGED <<peers, found>>
          [] t = "client" ->
               /\ thread' = [thread EXCEPT ![n][t] = Idle]
               /\ found' = [found EXCEPT ![n] = [id |-> s.id, val |-> v]]
               /\ msgs' = rest
               /\ UNCHANGED peers

\* Request identifiers hold the time in nanoseconds: they are fresh.
Used(r) ==
    \/ \E m \in msgs : m.type # "Notify" /\ m.req = r
    \/ \E n \in Nodes, t \in Threads : r \in {thread[n][t].req, thread[n][t].back}

Fresh(n) == {r \in {n} \X (1 .. MaxReqs) : ~ Used(r)}

\* One call of findSuccessorRemote up to its select, the read lock being held.
Ask(n, t, to) ==
    \E r \in Fresh(n) :
        /\ \A q \in Fresh(n) : r[2] <= q[2]
        /\ thread' = [thread EXCEPT ![n][t] =
                         [@ EXCEPT !.pc = "wait", !.to = to, !.req = r,
                                   !.direct = to \in peers[n], !.val = Nil]]
        /\ peers' = [peers EXCEPT ![n] = @ \cup {to}]
        /\ msgs' = msgs \cup {Request(n, to, r, thread[n][t].id)}
        /\ UNCHANGED found

FindSuccessor(n, t) ==
    /\ thread[n][t].pc = "rlock"
    /\ ReadFree(n)
    /\ LET id == thread[n][t].id
       IN  IF AnswersItself(n, id)
           THEN Finish(n, t, successor[n], msgs)
           ELSE Ask(n, t, closestPrecedingNode(n, id))
    /\ UNCHANGED fingers

\* The select takes the answer ...
Return(n, t) ==
    /\ thread[n][t].pc = "got"
    /\ Finish(n, t, thread[n][t].val, msgs)
    /\ UNCHANGED fingers

\* ... or, after ten seconds, the timer: try once more if the connection was
\* there before, otherwise give up with an error, which answers nobody.
Timeout(n, t) ==
    /\ HoldsRead(n, t)
    /\ IF thread[n][t].direct
       THEN Ask(n, t, thread[n][t].to)
       ELSE /\ thread' = [thread EXCEPT ![n][t] = Idle]
            /\ UNCHANGED <<peers, msgs, found>>
    /\ UNCHANGED fingers

-----------------------------------------------------------------------------
(* The threads.                                                             *)

\* A faulty variant: the random index is off by one.
fixNextFinger(n, i) ==
    /\ n \in Fixers
    /\ thread[n]["finger"].pc = "idle"
    /\ thread' = [thread EXCEPT ![n]["finger"] =
                     [Idle EXCEPT !.pc = "rlock", !.id = fingerID(n, i + 1), !.slot = i + 1]]
    /\ UNCHANGED <<fingers, peers, msgs, found>>

\* A tick of fixFingersRoutine: a random finger is looked up.
fixFinger(n, i) ==
    /\ n \in Fixers
    /\ thread[n]["finger"].pc = "idle"
    /\ thread' = [thread EXCEPT ![n]["finger"] =
                     [Idle EXCEPT !.pc = "rlock", !.id = fingerID(n, i), !.slot = i]]
    /\ UNCHANGED <<fingers, peers, msgs, found>>

SetFinger(n) ==
    /\ thread[n]["finger"].pc = "wlock"
    /\ WriteFree(n)
    /\ fingers' = [fingers EXCEPT ![n][thread[n]["finger"].slot] = thread[n]["finger"].val]
    /\ thread' = [thread EXCEPT ![n]["finger"] = Idle]
    /\ UNCHANGED <<peers, msgs, found>>

\* A client's StoreFile, GetFile or DeleteFile comes to its lookup.
ClientLookup(n, id) ==
    /\ n \in Clients
    /\ thread[n]["client"].pc = "idle"
    /\ thread' = [thread EXCEPT ![n]["client"] = [Idle EXCEPT !.pc = "rlock", !.id = id]]
    /\ UNCHANGED <<fingers, peers, msgs, found>>

\* The predecessor's stabilize notifies n.
StabilizeNotify(n) ==
    /\ n \in Notified
    /\ msgs' = msgs \cup {NotifyMsg(n)}
    /\ UNCHANGED <<fingers, peers, thread, found>>

-----------------------------------------------------------------------------
(* The event loop: FileServer.loop and handleMessage.                       *)

LoopTakes(m) ==
    /\ thread[m.dst]["loop"].pc = "idle"
    /\ msgs' = msgs \ {m}

handleMessageFindSuccessor(m) ==
    /\ m.type = "FindSuccessor"
    /\ LoopTakes(m)
    /\ thread' = [thread EXCEPT ![m.dst]["loop"] =
                     [Idle EXCEPT !.pc = "rlock", !.id = m.id, !.back = m.req]]
    /\ UNCHANGED <<fingers, peers, found>>

\* A faulty variant: any thread that waits takes the answer.
WaitsForAny(n, t, r) == thread[n][t].pc = "wait"

\* The channel pendingRequests holds for the request, if it is still there,
\* takes the answer; it has room for one.
Waits(n, t, r) == thread[n][t].pc = "wait" /\ thread[n][t].req = r

handleMessageFindSuccessorResponse(m) ==
    /\ m.type = "FindSuccessorResponse"
    /\ LoopTakes(m)
    /\ thread' = [thread EXCEPT ![m.dst] =
                     [t \in Threads |-> IF Waits(m.dst, t, m.req)
                                        THEN [@[t] EXCEPT !.pc = "got", !.val = m.node]
                                        ELSE @[t]]]
    /\ UNCHANGED <<fingers, peers, found>>

\* notify takes the write lock, even when the predecessor stays the same.
handleMessageNotify(m) ==
    /\ m.type = "Notify"
    /\ LoopTakes(m)
    /\ thread' = [thread EXCEPT ![m.dst]["loop"].pc = "wlock"]
    /\ UNCHANGED <<fingers, peers, found>>

notify(n) ==
    /\ thread[n]["loop"].pc = "wlock"
    /\ WriteFree(n)
    /\ thread' = [thread EXCEPT ![n]["loop"] = Idle]
    /\ UNCHANGED <<fingers, peers, msgs, found>>

-----------------------------------------------------------------------------
Next ==
    \/ \E n \in Nodes, t \in Threads : FindSuccessor(n, t)
    \/ \E n \in Nodes, t \in Threads : Return(n, t)
    \/ \E n \in Nodes, t \in Threads : Timeout(n, t)
    \/ \E n \in Nodes, i \in Slots : fixFinger(n, i)
    \/ \E n \in Nodes : SetFinger(n)
    \/ \E n \in Nodes, id \in Keys : ClientLookup(n, id)
    \/ \E n \in Nodes : StabilizeNotify(n)
    \/ \E m \in msgs : handleMessageFindSuccessor(m)
    \/ \E m \in msgs : handleMessageFindSuccessorResponse(m)
    \/ \E m \in msgs : handleMessageNotify(m)
    \/ \E n \in Nodes : notify(n)

Spec == Init /\ [][Next]_vars

-----------------------------------------------------------------------------
(* Properties.                                                              *)

\* The values the variables take: lookups always have an answer to give, and
\* fingers stay within the finger table.
TypeOK ==
    /\ fingers \in [Nodes -> [Slots -> Nodes \cup {Nil}]]
    /\ peers \in [Nodes -> SUBSET Nodes]
    /\ thread \in [Nodes -> [Threads -> ThreadStates]]
    /\ msgs \subseteq Messages
    /\ found \in [Nodes -> [id : Ids, val : Nodes \cup {Nil}]]

\* How far ahead of n a node lies, n itself coming last.
Ahead(n, x) == IF x = n THEN 2^Bits ELSE Clockwise(n, x)

\* Does v lie no further from n than the node responsible for id?
NotPast(n, v, id) == Ahead(n, v) <= Ahead(n, Responsible(Nodes, id))

\* A lookup never goes past the node responsible for the identifier, however
\* old the fingers it follows are and whichever answers came late, to the wrong
\* request or after a retry: what fingers, clients and messages hold lies
\* between the node that asked and the responsible one.
LookupNeverOvershoots ==
    /\ \A n \in Nodes : found[n].val # Nil => NotPast(n, found[n].val, found[n].id)
    /\ \A n \in Nodes : \A i \in Slots :
          fingers[n][i] \notin {Nil, n} => NotPast(n, fingers[n][i], fingerID(n, i))

\* Does only an answer get the thread on?  (With direct, the timer only makes it
\* ask again.)
NeedsAnswer(n, t) == thread[n][t].pc = "wait" /\ thread[n][t].direct

\* The event loop of n waits for something only the event loop of n can bring:
\* the answer of its own forwarded lookup, or the lock that a thread holds while
\* it waits for an answer.
Wedged(n) ==
    \/ NeedsAnswer(n, "loop")
    \/ /\ \/ thread[n]["loop"].pc = "wlock"
          \/ thread[n]["loop"].pc = "rlock" /\ ~ ReadFree(n)
       /\ \E t \in Threads : NeedsAnswer(n, t)

\* findSuccessorRemote makes its channel "with buffer to prevent deadlocks"
\* (chord_util.go:34), so that the event loop can leave an answer for a lookup that
\* has gone.  The buffer does not help where the event loop itself is what waits: no
\* event loop should wait for what only itself can bring.
NoDeadlock == \A n \in Nodes : ~ Wedged(n)
================================================================================
