------------------------------ MODULE MeshNetwork ------------------------------
(***************************************************************************)
(* How a mesh comes together: FileServer.Add, the handler of its message,  *)
(* handleMessageAddFile, and the connections they open.  A node's view of  *)
(* the mesh is the global variable network: the key its files are          *)
(* encrypted with and the addresses of the members.                        *)
(*                                                                         *)
(* Add(addr) is called by a node that joins with the address of a member   *)
(* (main.go) or by a member with the address of a new node (the tests).    *)
(* Any node may call it with any other here, at any time; Calls says which *)
(* calls a mesh may see.  A node that ran InitializeNetwork lists itself,  *)
(* so the branch of Add for an empty list is not taken.                    *)
(***************************************************************************)
EXTENDS Naturals, Sequences, FiniteSets, SequencesExt

CONSTANTS Nodes,     \* the nodes
          Calls,     \* the pairs <<n, m>> such that n may call Add(m), once
          MaxCalls,  \* a bound on the number of calls
          None       \* no node, no key

ASSUME CallsAssumption ==
    /\ Calls \subseteq {c \in Nodes \X Nodes : c[1] # c[2]} /\ MaxCalls \in Nat
    /\ None \notin Nodes

VARIABLES
    network,  \* the global variable network: key (named by the node that made it), nodes
    peers,    \* FileServer.peers: the nodes a node has a registered connection with
    several,  \* <<n, m>>: n and m have more than one connection
    opening,  \* <<n, m>>: n has a connection with m that OnPeer has yet to register
    dials,    \* <<n, m>>: a goroutine of n that dials m
    msgs,     \* the messages under way
    adding,   \* the address given to the call of Add a node is in
    failed,   \* the calls of Add that returned an error or panicked
    dead,     \* nodes that panicked
    \* History.
    made,     \* the calls of Add so far
    given,    \* given[n]: the members of the networks n was given by those that added it
    orderly   \* no call so far overlapped another or was for a node of a mesh

vars == <<network, peers, several, opening, dials, msgs, adding, failed, dead,
          made, given, orderly>>

\* MessageAddFile.  addr is empty in a broadcast.  Two nodes may have several
\* connections, dialled from either side, and then what one sends to the other comes
\* in no order, and a broadcast comes on each: the messages under way are a set.
AddFile(from, to, addr, net) == [from |-> from, to |-> to, addr |-> addr, network |-> net]

\* A faulty variant: no key is made.
NetworkWithoutKey(n) == [key |-> None, nodes |-> <<n>>]

\* InitializeNetwork: a key of its own, and itself as the only member.
InitializeNetwork(n) == [key |-> n, nodes |-> <<n>>]

Init ==
    /\ network = [n \in Nodes |-> InitializeNetwork(n)]
    /\ peers = [n \in Nodes |-> {}]
    /\ several = {} /\ opening = {} /\ dials = {} /\ msgs = {}
    /\ adding = [n \in Nodes |-> None]
    /\ failed = {} /\ dead = {} /\ made = {}
    /\ given = [n \in Nodes |-> {}] /\ orderly = TRUE

\* Nothing is under way.
Settled == opening = {} /\ dials = {} /\ msgs = {} /\ \A n \in Nodes : adding[n] = None

-----------------------------------------------------------------------------

\* A faulty variant: the message is made before the new address is listed.
BroadcastOld(n, net) == {AddFile(n, p, None, network[n]) : p \in peers[n]}

\* broadcast: to every registered connection.
Broadcast(n, net) == {AddFile(n, p, None, net) : p \in peers[n]}

\* The first half of Add: the new address is listed and broadcast, and dialled.
Add(n, m) ==
    /\ <<n, m>> \in Calls \ made /\ Cardinality(made) < MaxCalls /\ adding[n] = None
    /\ LET net == [network[n] EXCEPT !.nodes = Append(@, m)]
       IN  /\ network' = [network EXCEPT ![n] = net]
           /\ msgs' = msgs \cup Broadcast(n, net)
    /\ dials' = dials \cup {<<n, m>>}
    /\ adding' = [adding EXCEPT ![n] = m]
    /\ made' = made \cup {<<n, m>>}
    /\ orderly' = (orderly /\ Settled /\ peers[m] = {})
    /\ UNCHANGED <<peers, several, opening, failed, dead, given>>

\* Add after its sleep: the new node gets the network as it is by now.
AddSend(n) ==
    /\ adding[n] \in peers[n]
    /\ msgs' = msgs \cup {AddFile(n, adding[n], adding[n], network[n])}
    /\ adding' = [adding EXCEPT ![n] = None]
    /\ UNCHANGED <<network, peers, several, opening, dials, failed, dead, made, given, orderly>>

\* Add after its sleep, when the connection is not registered yet: "peer not found".
AddFails(n) ==
    /\ <<n, adding[n]>> \in opening
    /\ adding' = [adding EXCEPT ![n] = None]
    /\ failed' = failed \cup {<<n, adding[n]>>}
    /\ UNCHANGED <<network, peers, several, opening, dials, msgs, dead, made, given, orderly>>

\* Add after its sleep, when Dial has not returned an address yet, or an error:
\* remoteAddr is nil.
AddPanics(n) ==
    /\ <<n, adding[n]>> \in dials \/ adding[n] \in dead
    /\ adding' = [adding EXCEPT ![n] = None]
    /\ failed' = failed \cup {<<n, adding[n]>>}
    /\ dead' = dead \cup {n}
    /\ UNCHANGED <<network, peers, several, opening, dials, msgs, made, given, orderly>>

\* The two have a connection, which one of them may still have to register.
Linked(n, m) == m \in peers[n] \/ n \in peers[m] \/ <<n, m>> \in opening

\* Transport.Dial: a connection, with a handleConn at both ends; or an error.
Dial(n, m) ==
    /\ <<n, m>> \in dials
    /\ dials' = dials \ {<<n, m>>}
    /\ IF m \in dead THEN UNCHANGED <<several, opening>>
       ELSE /\ opening' = opening \cup {<<n, m>>, <<m, n>>}
            /\ several' = IF Linked(n, m) THEN several \cup {<<n, m>>, <<m, n>>} ELSE several
    /\ UNCHANGED <<network, peers, msgs, adding, failed, dead, made, given, orderly>>

\* handleConn registers the connection before it reads from it.
OnPeer(n, m) ==
    /\ <<n, m>> \in opening
    /\ opening' = opening \ {<<n, m>>}
    /\ peers' = [peers EXCEPT ![n] = @ \cup {m}]
    /\ UNCHANGED <<network, several, dials, msgs, adding, failed, dead, made, given, orderly>>

\* A faulty variant: the new node does not dial the others.
DialsNobody(msg) == {}

\* Whom the new node dials: the members but itself and the sender.
MembersToDial(msg) ==
    {<<msg.to, x>> : x \in Range(msg.network.nodes) \ {msg.from, msg.addr}}

\* A faulty variant: a broadcast brings the key as well.
TakesKeyToo(msg) == msg.network

\* What handleMessageAddFile makes of network.
Taken(msg) ==
    IF msg.addr = None THEN [network[msg.to] EXCEPT !.nodes = msg.network.nodes]
    ELSE msg.network

\* There may be another copy of a broadcast on another connection.
ComesAgain(msg) == msg.addr = None /\ <<msg.from, msg.to>> \in several

handleMessageAddFile(msg) ==
    /\ msg \in msgs /\ msg.from \in peers[msg.to]
    /\ network' = [network EXCEPT ![msg.to] = Taken(msg)]
    /\ IF msg.addr = None THEN UNCHANGED <<dials, given>>
       ELSE /\ dials' = dials \cup MembersToDial(msg)
            /\ given' = [given EXCEPT ![msg.to] = @ \cup Range(msg.network.nodes)]
    /\ \/ msgs' = msgs \ {msg}
       \/ ComesAgain(msg) /\ UNCHANGED msgs
    /\ UNCHANGED <<peers, several, opening, adding, failed, dead, made, orderly>>

Step(n) ==
    \/ AddSend(n) \/ AddFails(n) \/ AddPanics(n)
    \/ \E m \in Nodes : Add(n, m) \/ Dial(n, m) \/ OnPeer(n, m)
    \/ \E msg \in {x \in msgs : x.to = n} : handleMessageAddFile(msg)

Next == \E n \in Nodes \ dead : Step(n)

Spec == Init /\ [][Next]_vars

-----------------------------------------------------------------------------
(* Properties.                                                              *)

\* The networks a node can have.
Networks == [key : Nodes, nodes : Seq(Nodes)]

\* The messages under way.
Messages == [from : Nodes, to : Nodes, addr : Nodes \cup {None}, network : Networks]

\* The values the variables take.
TypeOK ==
    /\ network \in [Nodes -> Networks] /\ peers \in [Nodes -> SUBSET Nodes]
    /\ several \subseteq Nodes \X Nodes /\ opening \subseteq Nodes \X Nodes /\ dials \subseteq Nodes \X Nodes
    /\ msgs \subseteq Messages /\ adding \in [Nodes -> Nodes \cup {None}]
    /\ failed \subseteq made /\ made \subseteq Calls /\ dead \subseteq Nodes
    /\ given \in [Nodes -> SUBSET Nodes] /\ orderly \in BOOLEAN

\* Every call of Add so far succeeded, and nothing is under way.
Quiet == Settled /\ failed = {}

\* A key reaches nobody but those its node added, those they added, and so on,
\* in whatever order calls, broadcasts and messages take effect: a set of nodes
\* that added nobody outside it keeps its keys to itself, also from nodes that its
\* members are connected with.
KeysFollowCalls ==
    \A S \in SUBSET Nodes :
        (\A c \in made : c[1] \in S => c[2] \in S)
            => \A n \in Nodes : network[n].key \in S => n \in S

\* handleMessageAddFile: "Dial every peer in the map".  Once nothing is under way a
\* node is connected with all the members of every network it was given, and they
\* with it, whoever dialled first and whatever the lists have become meanwhile; so
\* are the two ends of every call.
GivenAreMet ==
    Quiet =>
        /\ \A n \in Nodes : \A m \in given[n] \ {n} : m \in peers[n] /\ n \in peers[m]
        /\ \A c \in made : c[2] \in peers[c[1]] /\ c[1] \in peers[c[2]]

\* Where members add new nodes, one call after the other, as in server_test.go:
\* between the calls the members of each mesh are connected each with each and
\* with nobody else, use one key and have one list.  (Calls that overlap, and new
\* nodes that call Add with the address they join, as in main.go, are not orderly:
\* the second join overwrites the list of the node joined, mesh_handler.go:131.)
OrderlyMeshIsWhole ==
    Quiet /\ orderly =>
        \A n \in Nodes :
            /\ Range(network[n].nodes) = {n} \cup peers[n]
            /\ \A m \in peers[n] : network[m] = network[n]
=============================================================================
