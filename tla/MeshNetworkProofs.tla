--------------------------- MODULE MeshNetworkProofs ---------------------------
(***************************************************************************)
(* Proofs about a mesh, for any nodes, whoever calls Add with whom, and    *)
(* whatever the order in which calls, dials and messages take effect.      *)
(*                                                                         *)
(* The argument: keys travel in the messages of Add to the node added only *)
(* (KeyInv); a node dials whom it is told of, and each connection has two  *)
(* ends (MeetInv); and where calls do not overlap, the members of a mesh   *)
(* know what one call of Add has told them so far (CallPhase).             *)
(***************************************************************************)
EXTENDS MeshNetwork, TLAPS

\* n has its end of a connection with m, registered or not.
End(n, m) == m \in peers[n] \/ <<n, m>> \in opening

\* n and m are connected, or one dials the other.
Met(n, m) == <<n, m>> \in dials \/ <<m, n>> \in dials \/ End(n, m)

\* The call of Add a node is in was made, and so was the one that a message with an
\* address comes from.
CallInv ==
    /\ \A n \in Nodes : adding[n] # None => <<n, adding[n]>> \in made
    /\ \A msg \in msgs : msg.addr # None => msg.addr = msg.to /\ <<msg.from, msg.to>> \in made

\* A connection has two ends, and a node that panics has failed a call.
EndInv ==
    /\ \A n, m \in Nodes : End(n, m) => End(m, n)
    /\ dead # {} => failed # {}

MeshInv == TypeOK /\ CallInv /\ EndInv

-----------------------------------------------------------------------------
(* Types.                                                                    *)

\* The members on a list that one more is put on.
LEMMA RangeAppend ==
    ASSUME NEW S, NEW s \in Seq(S), NEW x \in S
    PROVE  Range(Append(s, x)) = Range(s) \cup {x}
  <1> DEFINE t == Append(s, x)
  <1>1. /\ DOMAIN s = 1 .. Len(s) /\ DOMAIN t = 1 .. (Len(s) + 1) /\ Len(s) \in Nat
        /\ \A i \in 1 .. Len(s) : t[i] = s[i]
        /\ t[Len(s) + 1] = x
    OBVIOUS
  <1>2. \A y \in Range(t) : y \in Range(s) \cup {x}
    BY <1>1 DEF Range
  <1>3. \A y \in Range(s) : y \in Range(t)
    BY <1>1 DEF Range
  <1>4. x \in Range(t)
    BY <1>1 DEF Range
  <1> QED
    BY <1>2, <1>3, <1>4

\* The members on a list.
LEMMA RangeIn ==
    ASSUME NEW S, NEW s \in Seq(S)
    PROVE  Range(s) \subseteq S
  BY DEF Range

\* What is made of a network by the assignments of Add and of the handler.
LEMMA Renewed ==
    ASSUME NEW net \in Networks, NEW s \in Seq(Nodes)
    PROVE  /\ [net EXCEPT !.nodes = s] \in Networks
           /\ [net EXCEPT !.nodes = s].nodes = s
           /\ [net EXCEPT !.nodes = s].key = net.key
  BY DEF Networks

\* Networks with the same fields are the same.
LEMMA SameNetwork ==
    ASSUME NEW net \in Networks, NEW other \in Networks, net.key = other.key, net.nodes = other.nodes
    PROVE  net = other
  BY DEF Networks

\* A message has the fields it is made of.
LEMMA AddFileFields ==
    ASSUME NEW from \in Nodes, NEW to \in Nodes, NEW addr \in Nodes \cup {None},
           NEW net \in Networks
    PROVE  /\ AddFile(from, to, addr, net) \in Messages
           /\ AddFile(from, to, addr, net).from = from /\ AddFile(from, to, addr, net).to = to
           /\ AddFile(from, to, addr, net).addr = addr
           /\ AddFile(from, to, addr, net).network = net
  BY DEF AddFile, Messages

\* What Add makes of the caller's network.
Listing(n, m) == [network[n] EXCEPT !.nodes = Append(@, m)]

LEMMA ListingType ==
    ASSUME TypeOK, NEW n \in Nodes, NEW m \in Nodes
    PROVE  /\ Listing(n, m) \in Networks /\ Listing(n, m).key = network[n].key
           /\ Listing(n, m).nodes = Append(network[n].nodes, m)
           /\ Range(Listing(n, m).nodes) = Range(network[n].nodes) \cup {m}
  <1>1. network[n] \in Networks /\ network[n].nodes \in Seq(Nodes)
    BY DEF TypeOK, Networks
  <1>2. Append(network[n].nodes, m) \in Seq(Nodes)
    BY <1>1
  <1>3. Listing(n, m) = [network[n] EXCEPT !.nodes = Append(network[n].nodes, m)]
    BY DEF Listing
  <1>4. /\ Listing(n, m) \in Networks /\ Listing(n, m).key = network[n].key
        /\ Listing(n, m).nodes = Append(network[n].nodes, m)
    <2>1. ASSUME NEW net \in Networks, NEW s \in Seq(Nodes), Listing(n, m) = [net EXCEPT !.nodes = s]
          PROVE  /\ Listing(n, m) \in Networks /\ Listing(n, m).key = net.key
                 /\ Listing(n, m).nodes = s
      BY <2>1, Renewed
    <2> QED
      BY <1>1, <1>2, <1>3, <2>1
  <1>5. Range(Append(network[n].nodes, m)) = Range(network[n].nodes) \cup {m}
    BY <1>1, RangeAppend
  <1> QED
    BY <1>4, <1>5

\* The messages of a broadcast.
LEMMA BroadcastType ==
    ASSUME TypeOK, NEW n \in Nodes, NEW net \in Networks, NEW msg \in Broadcast(n, net)
    PROVE  /\ msg \in Messages /\ msg.from = n /\ msg.to \in peers[n] /\ msg.addr = None
           /\ msg.network = net /\ msg = AddFile(n, msg.to, None, net)
  <1>1. PICK p \in peers[n] : msg = AddFile(n, p, None, net)
    BY DEF Broadcast
  <1>2. p \in Nodes
    BY DEF TypeOK
  <1> QED
    BY <1>1, <1>2, AddFileFields

\* What the handler makes of a network.
LEMMA TakenType ==
    ASSUME TypeOK, NEW msg \in msgs
    PROVE  /\ msg \in Messages /\ msg.from \in Nodes /\ msg.to \in Nodes
           /\ msg.network \in Networks /\ msg.addr \in Nodes \cup {None}
           /\ Range(msg.network.nodes) \subseteq Nodes
           /\ Taken(msg) \in Networks
           /\ Taken(msg).nodes = msg.network.nodes
           /\ msg.addr = None => Taken(msg).key = network[msg.to].key
           /\ msg.addr # None => Taken(msg) = msg.network
           /\ MembersToDial(msg) \subseteq Nodes \X Nodes
  <1>1. /\ msg \in Messages /\ msg.from \in Nodes /\ msg.to \in Nodes
        /\ msg.network \in Networks /\ msg.addr \in Nodes \cup {None}
    BY DEF TypeOK, Messages
  <1>2. network[msg.to] \in Networks /\ msg.network.nodes \in Seq(Nodes)
    BY <1>1 DEF TypeOK, Networks
  <1>3. Range(msg.network.nodes) \subseteq Nodes
    BY <1>2, RangeIn
  <1>4. MembersToDial(msg) \subseteq Nodes \X Nodes
    BY <1>1, <1>3 DEF MembersToDial
  <1> QED
    BY <1>1, <1>2, <1>3, <1>4, Renewed DEF Taken

LEMMA InitMesh == Init => MeshInv
  <1> SUFFICES ASSUME Init PROVE MeshInv
    OBVIOUS
  <1>1. \A n \in Nodes : InitializeNetwork(n) \in Networks
    BY DEF InitializeNetwork, Networks
  <1>2. TypeOK
    BY <1>1 DEF Init, TypeOK
  <1> QED
    BY <1>2 DEF Init, MeshInv, CallInv, EndInv, End


-----------------------------------------------------------------------------
(* What always holds.                                                        *)

LEMMA AddKeeps ==
    ASSUME MeshInv, NEW n \in Nodes, NEW m \in Nodes, Add(n, m)
    PROVE  MeshInv'
  <1> DEFINE net == Listing(n, m)
  <1>1. /\ network' = [network EXCEPT ![n] = net] /\ msgs' = msgs \cup Broadcast(n, net)
        /\ dials' = dials \cup {<<n, m>>} /\ adding' = [adding EXCEPT ![n] = m]
        /\ made' = made \cup {<<n, m>>} /\ <<n, m>> \in Calls
        /\ orderly' = (orderly /\ Settled /\ peers[m] = {})
        /\ UNCHANGED <<peers, several, opening, failed, dead, given>>
    BY DEF Add, Listing
  <1>2. net \in Networks
    BY ListingType DEF MeshInv
  <1>3. \A msg \in Broadcast(n, net) : msg \in Messages /\ msg.addr = None
    BY <1>2, BroadcastType DEF MeshInv
  <1> HIDE DEF net
  <1>4. TypeOK'
    BY <1>1, <1>2, <1>3 DEF MeshInv, TypeOK
  <1>5. CallInv'
    BY <1>1, <1>3 DEF MeshInv, TypeOK, CallInv
  <1>6. EndInv'
    BY <1>1 DEF MeshInv, EndInv, End
  <1> QED
    BY <1>4, <1>5, <1>6 DEF MeshInv

LEMMA AddSendKeeps ==
    ASSUME MeshInv, NEW n \in Nodes, AddSend(n)
    PROVE  MeshInv' /\ adding[n] \in Nodes /\ <<n, adding[n]>> \in made
  <1> DEFINE msg == AddFile(n, adding[n], adding[n], network[n])
  <1>1. /\ adding[n] \in peers[n] /\ msgs' = msgs \cup {msg}
        /\ adding' = [adding EXCEPT ![n] = None]
        /\ UNCHANGED <<network, peers, several, opening, dials, failed, dead, made, given, orderly>>
    BY DEF AddSend
  <1>2. adding[n] \in Nodes /\ network[n] \in Networks /\ adding[n] # None
    BY <1>1, CallsAssumption DEF MeshInv, TypeOK
  <1>3. msg \in Messages /\ msg.from = n /\ msg.to = adding[n] /\ msg.addr = adding[n]
    BY <1>2, AddFileFields
  <1>4. <<n, adding[n]>> \in made
    BY <1>2 DEF MeshInv, CallInv
  <1> HIDE DEF msg
  <1>5. TypeOK'
    BY <1>1, <1>3 DEF MeshInv, TypeOK
  <1>6. CallInv'
    BY <1>1, <1>3, <1>4 DEF MeshInv, TypeOK, CallInv
  <1>7. EndInv'
    BY <1>1 DEF MeshInv, EndInv, End
  <1> QED
    BY <1>2, <1>4, <1>5, <1>6, <1>7 DEF MeshInv

LEMMA AddFailsKeeps ==
    ASSUME MeshInv, NEW n \in Nodes, AddFails(n) \/ AddPanics(n)
    PROVE  MeshInv' /\ failed' # {}
  <1>1. /\ adding' = [adding EXCEPT ![n] = None]
        /\ failed' = failed \cup {<<n, adding[n]>>} /\ dead' \in {dead, dead \cup {n}}
        /\ UNCHANGED <<network, peers, several, opening, dials, msgs, made, given, orderly>>
    BY DEF AddFails, AddPanics
  <1>2. adding[n] \in Nodes
    BY DEF AddFails, AddPanics, MeshInv, TypeOK
  <1>3. <<n, adding[n]>> \in made
    BY <1>2, CallsAssumption DEF MeshInv, CallInv
  <1>4. TypeOK'
    BY <1>1, <1>3 DEF MeshInv, TypeOK
  <1>5. CallInv'
    BY <1>1 DEF MeshInv, TypeOK, CallInv
  <1>6. EndInv'
    BY <1>1 DEF MeshInv, EndInv, End
  <1> QED
    BY <1>1, <1>4, <1>5, <1>6 DEF MeshInv

LEMMA DialKeeps ==
    ASSUME MeshInv, NEW n \in Nodes, NEW m \in Nodes, Dial(n, m)
    PROVE  MeshInv'
  <1>1. /\ dials' = dials \ {<<n, m>>}
        /\ \/ UNCHANGED opening /\ UNCHANGED several
           \/ /\ opening' = opening \cup {<<n, m>>, <<m, n>>}
              /\ several' \in {several, several \cup {<<n, m>>, <<m, n>>}}
        /\ UNCHANGED <<network, peers, msgs, adding, failed, dead, made, given, orderly>>
    BY DEF Dial
  <1>2. TypeOK'
    BY <1>1 DEF MeshInv, TypeOK
  <1>3. CallInv'
    BY <1>1 DEF MeshInv, CallInv
  <1>4. EndInv'
    BY <1>1 DEF MeshInv, EndInv, End
  <1> QED
    BY <1>2, <1>3, <1>4 DEF MeshInv

LEMMA OnPeerKeeps ==
    ASSUME MeshInv, NEW n \in Nodes, NEW m \in Nodes, OnPeer(n, m)
    PROVE  /\ MeshInv'
           /\ \A x, y \in Nodes : End(x, y)' <=> End(x, y)
  <1>1. /\ <<n, m>> \in opening /\ opening' = opening \ {<<n, m>>}
        /\ peers' = [peers EXCEPT ![n] = @ \cup {m}]
        /\ UNCHANGED <<network, several, dials, msgs, adding, failed, dead, made, given, orderly>>
    BY DEF OnPeer
  <1>2. TypeOK'
    BY <1>1 DEF MeshInv, TypeOK
  <1>3. CallInv'
    BY <1>1 DEF MeshInv, CallInv
  <1>4. \A x, y \in Nodes : End(x, y)' <=> End(x, y)
    BY <1>1 DEF MeshInv, TypeOK, End
  <1>5. EndInv'
    BY <1>1, <1>4 DEF MeshInv, EndInv
  <1> QED
    BY <1>2, <1>3, <1>4, <1>5 DEF MeshInv

LEMMA HandleKeeps ==
    ASSUME MeshInv, NEW msg \in msgs, handleMessageAddFile(msg)
    PROVE  MeshInv'
  <1>1. /\ network' = [network EXCEPT ![msg.to] = Taken(msg)]
        /\ \/ UNCHANGED <<dials, given>>
           \/ /\ dials' = dials \cup MembersToDial(msg)
              /\ given' = [given EXCEPT ![msg.to] = @ \cup Range(msg.network.nodes)]
        /\ msgs' \subseteq msgs
        /\ UNCHANGED <<peers, several, opening, adding, failed, dead, made, orderly>>
    BY DEF handleMessageAddFile
  <1>2. /\ Taken(msg) \in Networks /\ msg.to \in Nodes /\ MembersToDial(msg) \subseteq Nodes \X Nodes
        /\ Range(msg.network.nodes) \subseteq Nodes
    BY TakenType DEF MeshInv
  <1>3. TypeOK'
    BY <1>1, <1>2 DEF MeshInv, TypeOK
  <1>4. CallInv'
    BY <1>1 DEF MeshInv, CallInv
  <1>5. EndInv'
    BY <1>1 DEF MeshInv, EndInv, End
  <1> QED
    BY <1>3, <1>4, <1>5 DEF MeshInv

\* The steps there are.
LEMMA NextKinds ==
    ASSUME MeshInv, Next
    PROVE  \/ \E n, m \in Nodes : Add(n, m)
           \/ \E n \in Nodes : AddSend(n)
           \/ \E n \in Nodes : AddFails(n) \/ AddPanics(n)
           \/ \E n, m \in Nodes : Dial(n, m)
           \/ \E n, m \in Nodes : OnPeer(n, m)
           \/ \E msg \in msgs : handleMessageAddFile(msg)
  <1>1. PICK n \in Nodes : Step(n)
    BY DEF Next
  <1>2. CASE AddSend(n) \/ AddFails(n) \/ AddPanics(n)
    BY <1>2
  <1>3. CASE \E m \in Nodes : Add(n, m) \/ Dial(n, m) \/ OnPeer(n, m)
    BY <1>3
  <1>4. CASE \E msg \in {x \in msgs : x.to = n} : handleMessageAddFile(msg)
    BY <1>4
  <1> QED
    BY <1>1, <1>2, <1>3, <1>4 DEF Step

LEMMA MeshStep == MeshInv /\ [Next]_vars => MeshInv'
  <1> SUFFICES ASSUME MeshInv, [Next]_vars PROVE MeshInv'
    OBVIOUS
  <1>1. CASE UNCHANGED vars
    BY <1>1 DEF vars, MeshInv, TypeOK, CallInv, EndInv, End
  <1>2. CASE Next
    BY <1>2, NextKinds, AddKeeps, AddSendKeeps, AddFailsKeeps, DialKeeps, OnPeerKeeps, HandleKeeps
  <1> QED
    BY <1>1, <1>2

LEMMA MeshAlways == Spec => []MeshInv
  BY InitMesh, MeshStep, PTL DEF Spec

\* Whoever calls Add with whom, networks, connections and messages are well-formed.
THEOREM MeshTypes == Spec => []TypeOK
  <1>1. MeshInv => TypeOK
    BY DEF MeshInv
  <1> QED
    BY MeshAlways, <1>1, PTL


-----------------------------------------------------------------------------
(* Keys.                                                                     *)

\* A set of nodes whose members added nobody outside it.
Closed(S) == \A c \in made : c[1] \in S => c[2] \in S

\* Keys made in such a set are used, and on their way, in the set only.
KeyInv ==
    \A S \in SUBSET Nodes :
        Closed(S) =>
            /\ \A n \in Nodes : network[n].key \in S => n \in S
            /\ \A msg \in msgs : msg.addr # None /\ msg.network.key \in S => msg.to \in S

LEMMA KeyInit == Init => KeyInv
  BY DEF Init, InitializeNetwork, KeyInv

LEMMA KeyAdd ==
    ASSUME MeshInv, KeyInv, NEW n \in Nodes, NEW m \in Nodes, Add(n, m)
    PROVE  KeyInv'
  <1> DEFINE net == Listing(n, m)
  <1>1. /\ network' = [network EXCEPT ![n] = net] /\ msgs' = msgs \cup Broadcast(n, net)
        /\ made' = made \cup {<<n, m>>}
    BY DEF Add, Listing
  <1>2. net \in Networks /\ net.key = network[n].key
    BY ListingType DEF MeshInv
  <1>3. \A msg \in Broadcast(n, net) : msg.addr = None
    BY <1>2, BroadcastType DEF MeshInv
  <1> HIDE DEF net
  <1>4. \A x \in Nodes : network'[x].key = network[x].key
    BY <1>1, <1>2 DEF MeshInv, TypeOK
  <1>5. \A S \in SUBSET Nodes : Closed(S)' => Closed(S)
    BY <1>1 DEF Closed
  <1> QED
    BY <1>1, <1>3, <1>4, <1>5 DEF KeyInv

LEMMA KeyAddSend ==
    ASSUME MeshInv, KeyInv, NEW n \in Nodes, AddSend(n)
    PROVE  KeyInv'
  <1> DEFINE msg == AddFile(n, adding[n], adding[n], network[n])
  <1>1. msgs' = msgs \cup {msg} /\ UNCHANGED <<network, made>>
    BY DEF AddSend
  <1>2. <<n, adding[n]>> \in made /\ adding[n] \in Nodes
    BY AddSendKeeps
  <1>3. msg.to = adding[n] /\ msg.network = network[n]
    BY <1>2, AddFileFields DEF MeshInv, TypeOK
  <1> HIDE DEF msg
  <1>4. ASSUME NEW S \in SUBSET Nodes, Closed(S), network[n].key \in S
        PROVE  adding[n] \in S
    <2>1. n \in S
      BY <1>4 DEF KeyInv
    <2> QED
      BY <1>2, <1>4, <2>1 DEF Closed
  <1>5. \A S \in SUBSET Nodes : Closed(S)' => Closed(S)
    BY <1>1 DEF Closed
  <1> QED
    BY <1>1, <1>3, <1>4, <1>5 DEF KeyInv

LEMMA KeyHandle ==
    ASSUME MeshInv, KeyInv, NEW msg \in msgs, handleMessageAddFile(msg)
    PROVE  KeyInv'
  <1>1. /\ network' = [network EXCEPT ![msg.to] = Taken(msg)]
        /\ msgs' \subseteq msgs /\ UNCHANGED made
    BY DEF handleMessageAddFile
  <1>2. /\ msg.to \in Nodes
        /\ msg.addr = None => Taken(msg).key = network[msg.to].key
        /\ msg.addr # None => Taken(msg) = msg.network
    BY TakenType DEF MeshInv
  <1>3. \A S \in SUBSET Nodes : Closed(S)' => Closed(S)
    BY <1>1 DEF Closed
  <1>4. ASSUME NEW S \in SUBSET Nodes, Closed(S), NEW n \in Nodes, network'[n].key \in S
        PROVE  n \in S
    <2>1. CASE n # msg.to
      BY <1>1, <1>4, <2>1 DEF KeyInv, MeshInv, TypeOK
    <2>2. CASE n = msg.to
      BY <1>1, <1>2, <1>4, <2>2 DEF KeyInv, MeshInv, TypeOK
    <2> QED
      BY <2>1, <2>2
  <1> QED
    BY <1>1, <1>3, <1>4 DEF KeyInv

LEMMA KeyStep == MeshInv /\ KeyInv /\ [Next]_vars => KeyInv'
  <1> SUFFICES ASSUME MeshInv, KeyInv, [Next]_vars PROVE KeyInv'
    OBVIOUS
  <1>1. CASE UNCHANGED <<network, msgs, made>>
    BY <1>1 DEF KeyInv, Closed
  <1>2. CASE UNCHANGED vars
    BY <1>1, <1>2 DEF vars
  <1>3. CASE \E n, m \in Nodes : Add(n, m)
    BY <1>3, KeyAdd
  <1>4. CASE \E n \in Nodes : AddSend(n)
    BY <1>4, KeyAddSend
  <1>5. CASE \E n \in Nodes : AddFails(n) \/ AddPanics(n)
    BY <1>1, <1>5 DEF AddFails, AddPanics
  <1>6. CASE \E n, m \in Nodes : Dial(n, m) \/ OnPeer(n, m)
    BY <1>1, <1>6 DEF Dial, OnPeer
  <1>7. CASE \E msg \in msgs : handleMessageAddFile(msg)
    BY <1>7, KeyHandle
  <1> QED
    BY <1>2, <1>3, <1>4, <1>5, <1>6, <1>7, NextKinds

\* Whoever calls Add with whom, and however calls, broadcasts and connections overlap,
\* a key reaches only nodes that its node added, those they added, and so on.
THEOREM KeysAlwaysFollowCalls == Spec => []KeysFollowCalls
  <1>1. KeyInv => KeysFollowCalls
    BY DEF KeyInv, Closed, KeysFollowCalls
  <1> QED
    BY MeshAlways, KeyInit, KeyStep, <1>1, PTL DEF Spec

-----------------------------------------------------------------------------
(* Connections.                                                              *)

\* As long as no call fails: a node has met, or will, whoever it was told of, and the
\* two ends of a call have met each other.
MeetInv ==
    failed = {} =>
        /\ \A n \in Nodes : \A m \in given[n] \ {n} : Met(n, m)
        /\ \A c \in made : Met(c[1], c[2])

LEMMA MeetInit == Init => MeetInv
  BY DEF Init, MeetInv

\* Who has met stays so, until a call fails.
LEMMA MetKept ==
    ASSUME MeshInv, [Next]_vars, failed = {}, NEW x \in Nodes, NEW y \in Nodes, Met(x, y)
    PROVE  Met(x, y)'
  <1>1. dead = {} /\ (End(x, y) <=> End(y, x))
    BY DEF MeshInv, EndInv
  <1>2. CASE UNCHANGED vars
    BY <1>2 DEF vars, Met, End
  <1>3. ASSUME NEW n \in Nodes, NEW m \in Nodes, Add(n, m) PROVE Met(x, y)'
    BY <1>3 DEF Add, Met, End
  <1>4. CASE \E n \in Nodes : AddSend(n) \/ AddFails(n) \/ AddPanics(n)
    BY <1>4 DEF AddSend, AddFails, AddPanics, Met, End
  <1>5. ASSUME NEW n \in Nodes, NEW m \in Nodes, Dial(n, m) PROVE Met(x, y)'
    <2>1. dials' = dials \ {<<n, m>>} /\ opening' = opening \cup {<<n, m>>, <<m, n>>} /\ peers' = peers
      BY <1>1, <1>5 DEF Dial
    <2> QED
      BY <2>1 DEF Met, End
  <1>6. ASSUME NEW n \in Nodes, NEW m \in Nodes, OnPeer(n, m) PROVE Met(x, y)'
    <2>1. (End(x, y)' <=> End(x, y)) /\ dials' = dials
      BY <1>6, OnPeerKeeps DEF OnPeer
    <2> QED
      BY <2>1 DEF Met
  <1>7. ASSUME NEW msg \in msgs, handleMessageAddFile(msg) PROVE Met(x, y)'
    <2>1. dials \subseteq dials' /\ UNCHANGED <<peers, opening>>
      BY <1>7 DEF handleMessageAddFile
    <2> QED
      BY <2>1 DEF Met, End
  <1> QED
    BY <1>2, <1>3, <1>4, <1>5, <1>6, <1>7, NextKinds

LEMMA MeetStep == MeshInv /\ MeetInv /\ [Next]_vars => MeetInv'
  <1> SUFFICES ASSUME MeshInv, MeetInv, [Next]_vars, failed' = {} PROVE MeetInv'
    BY DEF MeetInv
  <1>1. CASE failed = {} /\ UNCHANGED <<given, made>>
    <2>1. \A x \in Nodes : given[x] \subseteq Nodes
      BY DEF MeshInv, TypeOK
    <2>2. \A c \in made : c[1] \in Nodes /\ c[2] \in Nodes
      BY CallsAssumption DEF MeshInv, TypeOK
    <2>3. \A n \in Nodes : \A m \in given[n] \ {n} : Met(n, m)'
      BY <1>1, <2>1, MetKept DEF MeetInv
    <2>4. \A c \in made : Met(c[1], c[2])'
      BY <1>1, <2>2, MetKept DEF MeetInv
    <2> QED
      BY <1>1, <2>3, <2>4 DEF MeetInv
  <1>2. CASE UNCHANGED vars
    BY <1>1, <1>2 DEF vars
  <1>3. ASSUME NEW n \in Nodes, NEW m \in Nodes, Add(n, m) PROVE MeetInv'
    <2>1. failed = {} /\ given' = given /\ made' = made \cup {<<n, m>>} /\ <<n, m>> \in dials'
      BY <1>3 DEF Add, MeshInv, TypeOK
    <2>2. \A x \in Nodes : given[x] \subseteq Nodes
      BY DEF MeshInv, TypeOK
    <2>3. \A c \in made : c[1] \in Nodes /\ c[2] \in Nodes
      BY CallsAssumption DEF MeshInv, TypeOK
    <2>4. \A x \in Nodes : \A y \in given[x] \ {x} : Met(x, y)'
      BY <2>1, <2>2, MetKept DEF MeetInv
    <2>5. \A c \in made : Met(c[1], c[2])'
      BY <2>1, <2>3, MetKept DEF MeetInv
    <2>6. Met(n, m)'
      BY <2>1 DEF Met
    <2> QED
      BY <2>1, <2>4, <2>5, <2>6 DEF MeetInv
  <1>4. CASE \E n \in Nodes : AddSend(n)
    BY <1>1, <1>4 DEF AddSend
  <1>5. CASE \E n \in Nodes : AddFails(n) \/ AddPanics(n)
    BY <1>5, AddFailsKeeps
  <1>6. CASE \E n, m \in Nodes : Dial(n, m) \/ OnPeer(n, m)
    BY <1>1, <1>6 DEF Dial, OnPeer
  <1>7. ASSUME NEW msg \in msgs, handleMessageAddFile(msg) PROVE MeetInv'
    <2>1. failed = {} /\ made' = made /\ UNCHANGED <<peers, opening>>
      BY <1>7 DEF handleMessageAddFile
    <2>2. CASE UNCHANGED given
      BY <1>1, <2>1, <2>2
    <2>3. CASE ~UNCHANGED given
      <3>1. /\ msg.addr # None /\ dials' = dials \cup MembersToDial(msg)
            /\ given' = [given EXCEPT ![msg.to] = @ \cup Range(msg.network.nodes)]
            /\ msg.from \in peers[msg.to]
        BY <1>7, <2>3 DEF handleMessageAddFile
      <3>2. msg.addr = msg.to /\ msg.to \in Nodes /\ Range(msg.network.nodes) \subseteq Nodes
        BY <3>1, TakenType DEF MeshInv, CallInv
      <3>3. \A c \in made : c[1] \in Nodes /\ c[2] \in Nodes
        BY CallsAssumption DEF MeshInv, TypeOK
      <3>4. \A c \in made : Met(c[1], c[2])'
        BY <2>1, <3>3, MetKept DEF MeetInv
      <3>5. ASSUME NEW x \in Nodes, NEW y \in given[x] \ {x} PROVE Met(x, y)'
        BY <2>1, <3>5, MetKept DEF MeetInv, MeshInv, TypeOK
      <3>6. ASSUME NEW y \in Range(msg.network.nodes) \ {msg.to} PROVE Met(msg.to, y)'
        <4>1. CASE y = msg.from
          BY <2>1, <3>1, <4>1 DEF Met, End
        <4>2. CASE y # msg.from
          BY <3>1, <3>2, <3>6, <4>2 DEF Met, MembersToDial
        <4> QED
          BY <4>1, <4>2
      <3>7. \A x \in Nodes : given'[x] = IF x = msg.to THEN given[x] \cup Range(msg.network.nodes) ELSE given[x]
        BY <3>1, <3>2 DEF MeshInv, TypeOK
      <3>8. \A x \in Nodes : \A y \in given'[x] \ {x} : Met(x, y)'
        BY <3>5, <3>6, <3>7
      <3> QED
        BY <2>1, <3>4, <3>8 DEF MeetInv
    <2> QED
      BY <2>2, <2>3
  <1> QED
    BY <1>2, <1>3, <1>4, <1>5, <1>6, <1>7, NextKinds

\* Whoever calls Add with whom, once nothing is under way and no call failed, every node
\* is connected with all it was told to dial and all that called it or that it called.
THEOREM GivenAreAlwaysMet == Spec => []GivenAreMet
  <1>1. MeshInv /\ MeetInv => GivenAreMet
    <2> SUFFICES ASSUME MeshInv, MeetInv, Quiet PROVE GivenAreMet
      BY DEF GivenAreMet
    <2>1. failed = {} /\ opening = {} /\ dials = {}
      BY DEF Quiet, Settled
    <2>2. \A x, y \in Nodes : Met(x, y) => y \in peers[x] /\ x \in peers[y]
      BY <2>1 DEF Met, End, MeshInv, EndInv
    <2>3. \A x \in Nodes : given[x] \subseteq Nodes
      BY DEF MeshInv, TypeOK
    <2>4. \A c \in made : c[1] \in Nodes /\ c[2] \in Nodes
      BY CallsAssumption DEF MeshInv, TypeOK
    <2> QED
      BY <2>1, <2>2, <2>3, <2>4 DEF MeetInv, GivenAreMet
  <1> QED
    BY MeshAlways, MeetInit, MeetStep, <1>1, PTL DEF Spec


-----------------------------------------------------------------------------
(* Calls one after the other.                                                *)

\* No node is connected with itself.
ApartInv == \A n \in Nodes : n \notin peers[n] /\ <<n, n>> \notin opening \cup dials

\* What OrderlyMeshIsWhole promises.
Whole ==
    \A n \in Nodes :
        /\ Range(network[n].nodes) = {n} \cup peers[n]
        /\ \A m \in peers[n] : network[m] = network[n]

\* When a adds b: the other members of its mesh, and all of them.
Fellows(a, b) == Range(network[a].nodes) \ {a, b}
Group(a, b) == Fellows(a, b) \cup {a, b}

\* What a tells its fellows and b.
News(a, x) == AddFile(a, x, None, network[a])
Welcome(a, b) == AddFile(a, b, b, network[a])

\* The caller lists all, only it is in Add, and nothing else is under way.
CallerPart(a, b) ==
    /\ {a, b} \subseteq Range(network[a].nodes)
    /\ Fellows(a, b) \subseteq peers[a] /\ peers[a] \subseteq Group(a, b)
    /\ adding[a] \in {None, b} /\ \A n \in Nodes \ {a} : adding[n] = None
    /\ \A msg \in msgs : msg = Welcome(a, b) \/ (msg.to \in Fellows(a, b) /\ msg = News(a, msg.to))
    /\ opening \cup dials \subseteq Group(a, b) \X Group(a, b)

\* A fellow knows the others, and has the new list or will be told.
FellowPart(a, b, x) ==
    /\ Group(a, b) \ {x, b} \subseteq peers[x] /\ peers[x] \subseteq Group(a, b)
    /\ \/ network[x] = network[a]
       \/ network[x].key = network[a].key /\ News(a, x) \in msgs

\* The node added will be told, or was and has met, or will, the fellows.
NewPart(a, b) ==
    /\ peers[b] \subseteq Group(a, b)
    /\ \/ adding[a] = b
       \/ Welcome(a, b) \in msgs
       \/ network[b] = network[a] /\ \A x \in Fellows(a, b) : Met(b, x)

\* A node of another mesh does not notice.
OtherPart(a, b, n) ==
    /\ Range(network[n].nodes) = {n} \cup peers[n]
    /\ peers[n] \cap Group(a, b) = {}
    /\ \A m \in peers[n] : network[m] = network[n]

CallPhase(a, b) ==
    /\ <<a, b>> \in made
    /\ CallerPart(a, b) /\ NewPart(a, b)
    /\ \A x \in Fellows(a, b) : FellowPart(a, b, x)
    /\ \A n \in Nodes \ Group(a, b) : OtherPart(a, b, n)

\* As long as calls come one after the other and none fails.
OrderlyInv ==
    failed = {} /\ orderly =>
        \/ Settled /\ Whole
        \/ \E a, b \in Nodes : CallPhase(a, b)

LEMMA ApartStep == MeshInv /\ ApartInv /\ [Next]_vars => ApartInv'
  <1> SUFFICES ASSUME MeshInv, ApartInv, [Next]_vars PROVE ApartInv'
    OBVIOUS
  <1>1. CASE UNCHANGED vars
    BY <1>1 DEF vars, ApartInv
  <1>2. ASSUME NEW n \in Nodes, NEW m \in Nodes, Add(n, m) PROVE ApartInv'
    <2>1. n # m /\ dials' = dials \cup {<<n, m>>} /\ UNCHANGED <<peers, opening>>
      BY <1>2, CallsAssumption DEF Add
    <2> QED
      BY <2>1 DEF ApartInv
  <1>3. CASE \E n \in Nodes : AddSend(n) \/ AddFails(n) \/ AddPanics(n)
    BY <1>3 DEF AddSend, AddFails, AddPanics, ApartInv
  <1>4. ASSUME NEW n \in Nodes, NEW m \in Nodes, Dial(n, m) PROVE ApartInv'
    <2>1. /\ <<n, m>> \in dials /\ dials' \subseteq dials /\ peers' = peers
          /\ opening' \subseteq opening \cup {<<n, m>>, <<m, n>>}
      BY <1>4 DEF Dial
    <2> QED
      BY <2>1 DEF ApartInv
  <1>5. ASSUME NEW n \in Nodes, NEW m \in Nodes, OnPeer(n, m) PROVE ApartInv'
    BY <1>5 DEF OnPeer, ApartInv, MeshInv, TypeOK
  <1>6. ASSUME NEW msg \in msgs, handleMessageAddFile(msg) PROVE ApartInv'
    <2>1. \/ dials' = dials
          \/ dials' = dials \cup MembersToDial(msg) /\ msg.addr # None
      BY <1>6 DEF handleMessageAddFile
    <2>2. UNCHANGED <<peers, opening>>
      BY <1>6 DEF handleMessageAddFile
    <2>3. msg.addr # None => msg.addr = msg.to
      BY DEF MeshInv, CallInv
    <2>4. msg.addr # None => \A n \in Nodes : <<n, n>> \notin MembersToDial(msg)
      BY <2>3 DEF MembersToDial
    <2> QED
      BY <2>1, <2>2, <2>4 DEF ApartInv
  <1> QED
    BY <1>1, <1>2, <1>3, <1>4, <1>5, <1>6, NextKinds

\* What a call has told everybody when nothing is under way any more.
LEMMA PhaseEnds ==
    ASSUME MeshInv, MeetInv, failed = {}, Settled,
           NEW a \in Nodes, NEW b \in Nodes, CallPhase(a, b)
    PROVE  Whole
  <1> DEFINE F == Fellows(a, b)
             G == Group(a, b)
  <1>1. opening = {} /\ dials = {} /\ msgs = {} /\ adding[a] # b
    BY CallsAssumption DEF Settled
  <1>2. \A x, y \in Nodes : Met(x, y) => y \in peers[x] /\ x \in peers[y]
    BY <1>1 DEF Met, End, MeshInv, EndInv
  <1>3. b \in peers[a] /\ a \in peers[b]
    BY <1>2 DEF CallPhase, MeetInv
  <1>4. F \subseteq Nodes /\ G = F \cup {a, b} /\ Range(network[a].nodes) = G
    BY RangeIn DEF MeshInv, TypeOK, Networks, CallPhase, CallerPart, Fellows, Group
  <1>5. network[b] = network[a] /\ \A x \in F : x \in peers[b] /\ b \in peers[x]
    BY <1>1, <1>2, <1>4 DEF CallPhase, NewPart
  <1>6. {a} \cup peers[a] = G
    BY <1>3, <1>4 DEF CallPhase, CallerPart
  <1>7. {b} \cup peers[b] = G
    BY <1>3, <1>4, <1>5 DEF CallPhase, NewPart
  <1>8. \A x \in F : network[x] = network[a] /\ {x} \cup peers[x] = G
    BY <1>1, <1>4, <1>5 DEF CallPhase, FellowPart
  <1>9. \A n \in G : network[n] = network[a] /\ {n} \cup peers[n] = G
    BY <1>4, <1>5, <1>6, <1>7, <1>8
  <1>10. \A n \in Nodes \ G : Range(network[n].nodes) = {n} \cup peers[n] /\ \A m \in peers[n] : network[m] = network[n]
    BY DEF CallPhase, OtherPart
  <1> HIDE DEF F, G
  <1> QED
    BY <1>4, <1>9, <1>10 DEF Whole

\* A call that meets whole meshes and nothing under way begins a phase.
LEMMA PhaseBegins ==
    ASSUME MeshInv, ApartInv, Settled, Whole, NEW a \in Nodes, NEW b \in Nodes, Add(a, b), peers[b] = {}
    PROVE  CallPhase(a, b)'
  <1> DEFINE net == Listing(a, b)
             F == peers[a]
             G == peers[a] \cup {a, b}
  <1>1. /\ network' = [network EXCEPT ![a] = net] /\ msgs' = msgs \cup Broadcast(a, net)
        /\ dials' = dials \cup {<<a, b>>} /\ adding' = [adding EXCEPT ![a] = b]
        /\ made' = made \cup {<<a, b>>} /\ UNCHANGED <<peers, opening>> /\ a # b
    BY CallsAssumption DEF Add, Listing
  <1>2. opening = {} /\ dials = {} /\ msgs = {} /\ \A n \in Nodes : adding[n] = None
    BY DEF Settled
  <1>3. /\ net \in Networks /\ net.key = network[a].key
        /\ Range(net.nodes) = Range(network[a].nodes) \cup {b}
    BY ListingType DEF MeshInv
  <1>4. \A x, y \in Nodes : y \in peers[x] => x \in peers[y]
    BY <1>2 DEF MeshInv, EndInv, End
  <1>5. peers[a] \subseteq Nodes /\ a \notin peers[a] /\ b \notin peers[a]
    BY <1>4 DEF ApartInv, MeshInv, TypeOK
  <1>6. Range(network[a].nodes) = {a} \cup F
    BY DEF Whole
  <1>7. network'[a] = net /\ \A n \in Nodes \ {a} : network'[n] = network[n]
    BY <1>1 DEF MeshInv, TypeOK
  <1>8. \A p \in F : AddFile(a, p, None, net) \in msgs'
    BY <1>1 DEF Broadcast
  <1>9. \A msg \in msgs' : msg.to \in F /\ msg = AddFile(a, msg.to, None, net)
    BY <1>1, <1>2, <1>3, BroadcastType DEF MeshInv
  <1> HIDE DEF net
  <1>10. Fellows(a, b)' = F /\ Group(a, b)' = G
    BY <1>3, <1>5, <1>6, <1>7 DEF Fellows, Group
  <1>11. CallerPart(a, b)'
    <2>1. {a, b} \subseteq Range(network'[a].nodes)
      BY <1>3, <1>6, <1>7
    <2>2. adding'[a] = b /\ \A n \in Nodes \ {a} : adding'[n] = None
      BY <1>1, <1>2 DEF MeshInv, TypeOK
    <2>3. opening' \cup dials' \subseteq G \X G
      BY <1>1, <1>2
    <2> QED
      BY <1>1, <1>7, <1>9, <1>10, <2>1, <2>2, <2>3 DEF CallerPart, News
  <1>12. NewPart(a, b)'
    BY <1>1, <1>10 DEF NewPart, MeshInv, TypeOK
  <1>13. ASSUME NEW x \in F PROVE FellowPart(a, b, x)'
    <2>1. x \in Nodes /\ x # a /\ network[x] = network[a] /\ {x} \cup peers[x] = {a} \cup F
      BY <1>5, <1>6 DEF Whole
    <2>2. network'[x].key = network'[a].key
      BY <1>3, <1>7, <2>1
    <2> QED
      BY <1>1, <1>7, <1>8, <1>10, <2>1, <2>2 DEF FellowPart, News
  <1>14. ASSUME NEW n \in Nodes \ G PROVE OtherPart(a, b, n)'
    <2>1. \A y \in peers[n] : y \in Nodes /\ network[y] = network[n] /\ n \in peers[y]
      BY <1>4 DEF Whole, MeshInv, TypeOK
    <2>2. Range(network[n].nodes) = {n} \cup peers[n]
      BY DEF Whole
    <2>3. a \notin peers[n] /\ b \notin peers[n]
      BY <2>1
    <2>4. \A y \in F : y \notin peers[n]
      <3>1. SUFFICES ASSUME NEW y \in F, y \in peers[n] PROVE FALSE
        OBVIOUS
      <3>2. network[y] = network[a] /\ network[y] = network[n]
        BY <2>1, <3>1 DEF Whole
      <3> QED
        BY <1>6, <2>2, <3>2
    <2>5. n # a /\ \A m \in peers[n] : network'[m] = network'[n]
      BY <1>7, <2>1, <2>3
    <2> QED
      BY <1>1, <1>7, <1>10, <2>2, <2>3, <2>4, <2>5 DEF OtherPart
  <1>15. <<a, b>> \in made'
    BY <1>1
  <1> HIDE DEF F, G
  <1> QED
    BY <1>10, <1>11, <1>12, <1>13, <1>14, <1>15 DEF CallPhase


\* The two nodes of a call, its group and its messages.
LEMMA PhaseNodes ==
    ASSUME MeshInv, NEW a \in Nodes, NEW b \in Nodes, CallPhase(a, b)
    PROVE  /\ a # b /\ Fellows(a, b) \subseteq Nodes /\ a \notin Fellows(a, b) /\ b \notin Fellows(a, b)
           /\ Range(network[a].nodes) = Group(a, b)
           /\ network[a] \in Networks
           /\ Welcome(a, b).to = b /\ Welcome(a, b).addr = b /\ Welcome(a, b).from = a
           /\ Welcome(a, b).network = network[a]
           /\ \A x \in Nodes : /\ News(a, x).to = x /\ News(a, x).addr = None
                               /\ News(a, x).network = network[a]
           /\ b # None
  <1>1. <<a, b>> \in made /\ network[a] \in Networks /\ network[a].nodes \in Seq(Nodes)
    BY DEF MeshInv, TypeOK, Networks, CallPhase
  <1>2. a # b
    BY <1>1, CallsAssumption DEF MeshInv, TypeOK
  <1>3. Range(network[a].nodes) \subseteq Nodes
    BY <1>1, RangeIn
  <1>4. b \in Nodes \cup {None} /\ None \in Nodes \cup {None}
    OBVIOUS
  <1>5. /\ Welcome(a, b).to = b /\ Welcome(a, b).addr = b /\ Welcome(a, b).from = a
        /\ Welcome(a, b).network = network[a]
    BY <1>1, <1>4, AddFileFields DEF Welcome
  <1>6. ASSUME NEW x \in Nodes
        PROVE  News(a, x).to = x /\ News(a, x).addr = None /\ News(a, x).network = network[a]
    BY DEF News, AddFile
  <1>7. Range(network[a].nodes) = Group(a, b)
    BY DEF CallPhase, CallerPart, Fellows, Group
  <1> QED
    BY <1>1, <1>2, <1>3, <1>5, <1>6, <1>7, CallsAssumption DEF Fellows

\* Steps that change no network.
LEMMA PhaseSame ==
    ASSUME UNCHANGED network, NEW a, NEW b
    PROVE  /\ Fellows(a, b)' = Fellows(a, b) /\ Group(a, b)' = Group(a, b)
           /\ Welcome(a, b)' = Welcome(a, b) /\ \A x : News(a, x)' = News(a, x)
  BY DEF Fellows, Group, Welcome, News

LEMMA PhaseAddSend ==
    ASSUME MeshInv, NEW a \in Nodes, NEW b \in Nodes, CallPhase(a, b), NEW n \in Nodes, AddSend(n)
    PROVE  CallPhase(a, b)'
  <1>1. /\ adding[n] \in peers[n] /\ msgs' = msgs \cup {AddFile(n, adding[n], adding[n], network[n])}
        /\ adding' = [adding EXCEPT ![n] = None]
        /\ UNCHANGED <<network, peers, opening, dials, made>>
    BY DEF AddSend
  <1>2. adding[n] # None
    BY AddSendKeeps, CallsAssumption
  <1>3. n = a /\ adding[a] = b
    BY <1>2 DEF CallPhase, CallerPart
  <1>4. msgs' = msgs \cup {Welcome(a, b)}
    BY <1>1, <1>3 DEF Welcome
  <1>5. CallerPart(a, b)'
    BY <1>1, <1>3, <1>4, PhaseSame DEF CallPhase, CallerPart, MeshInv, TypeOK
  <1>6. NewPart(a, b)'
    BY <1>1, <1>4, PhaseSame DEF CallPhase, NewPart
  <1>7. \A x \in Fellows(a, b) : FellowPart(a, b, x)'
    BY <1>1, <1>4, PhaseSame DEF CallPhase, FellowPart
  <1>8. \A x \in Nodes \ Group(a, b) : OtherPart(a, b, x)'
    BY <1>1, PhaseSame DEF CallPhase, OtherPart
  <1> QED
    BY <1>1, <1>5, <1>6, <1>7, <1>8, PhaseSame DEF CallPhase

LEMMA PhaseDial ==
    ASSUME MeshInv, failed = {}, NEW a \in Nodes, NEW b \in Nodes, CallPhase(a, b),
           NEW n \in Nodes, NEW m \in Nodes, Dial(n, m)
    PROVE  CallPhase(a, b)'
  <1>1. /\ <<n, m>> \in dials /\ dials' \subseteq dials
        /\ opening' \subseteq opening \cup {<<n, m>>, <<m, n>>}
        /\ UNCHANGED <<network, peers, msgs, adding, made>>
    BY DEF Dial
  <1>2. [Next]_vars
    BY DEF Next, Step, MeshInv, EndInv
  <1>3. \A x, y \in Nodes : Met(x, y) => Met(x, y)'
    BY <1>2, MetKept
  <1>4. n \in Group(a, b) /\ m \in Group(a, b)
    BY <1>1 DEF CallPhase, CallerPart
  <1>5. CallerPart(a, b)'
    BY <1>1, <1>4, PhaseSame DEF CallPhase, CallerPart
  <1>6. NewPart(a, b)'
    BY <1>1, <1>3, PhaseNodes, PhaseSame DEF CallPhase, NewPart
  <1>7. \A x \in Fellows(a, b) : FellowPart(a, b, x)'
    BY <1>1, PhaseSame DEF CallPhase, FellowPart
  <1>8. \A x \in Nodes \ Group(a, b) : OtherPart(a, b, x)'
    BY <1>1, PhaseSame DEF CallPhase, OtherPart
  <1> QED
    BY <1>1, <1>5, <1>6, <1>7, <1>8, PhaseSame DEF CallPhase

LEMMA PhaseOnPeer ==
    ASSUME MeshInv, failed = {}, NEW a \in Nodes, NEW b \in Nodes, CallPhase(a, b),
           NEW n \in Nodes, NEW m \in Nodes, OnPeer(n, m)
    PROVE  CallPhase(a, b)'
  <1>1. /\ <<n, m>> \in opening /\ opening' \subseteq opening
        /\ peers' = [peers EXCEPT ![n] = @ \cup {m}]
        /\ UNCHANGED <<network, dials, msgs, adding, made>>
    BY DEF OnPeer
  <1>2. \A x, y \in Nodes : Met(x, y) => Met(x, y)'
    BY <1>1, OnPeerKeeps DEF Met
  <1>3. n \in Group(a, b) /\ m \in Group(a, b)
    BY <1>1 DEF CallPhase, CallerPart
  <1>4. \A x \in Nodes : peers'[x] = IF x = n THEN peers[x] \cup {m} ELSE peers[x]
    BY <1>1 DEF MeshInv, TypeOK
  <1>5. CallerPart(a, b)'
    BY <1>1, <1>3, <1>4, PhaseSame DEF CallPhase, CallerPart
  <1>6. NewPart(a, b)'
    BY <1>1, <1>2, <1>3, <1>4, PhaseNodes, PhaseSame DEF CallPhase, NewPart
  <1>7. ASSUME NEW x \in Fellows(a, b) PROVE FellowPart(a, b, x)'
    BY <1>1, <1>3, <1>4, PhaseNodes, PhaseSame DEF CallPhase, FellowPart
  <1>8. ASSUME NEW x \in Nodes \ Group(a, b) PROVE OtherPart(a, b, x)'
    <2>1. peers'[x] = peers[x]
      BY <1>3, <1>4
    <2> QED
      BY <1>1, <2>1, PhaseSame DEF CallPhase, OtherPart
  <1> QED
    BY <1>1, <1>5, <1>6, <1>7, <1>8, PhaseSame DEF CallPhase

\* A handler's network, where it becomes the caller's.
LEMMA PhaseTakes ==
    ASSUME MeshInv, NEW a \in Nodes, NEW b \in Nodes, CallPhase(a, b),
           NEW msg \in msgs, handleMessageAddFile(msg)
    PROVE  /\ msg.to \in Group(a, b) \ {a}
           /\ network' = [network EXCEPT ![msg.to] = network[a]]
           /\ network'[a] = network[a] /\ network'[msg.to] = network[a]
           /\ Fellows(a, b)' = Fellows(a, b) /\ Group(a, b)' = Group(a, b)
           /\ Welcome(a, b)' = Welcome(a, b) /\ \A x : News(a, x)' = News(a, x)
           /\ msg = Welcome(a, b) \/ (msg.to \in Fellows(a, b) /\ msg = News(a, msg.to))
  <1>1. msg = Welcome(a, b) \/ (msg.to \in Fellows(a, b) /\ msg = News(a, msg.to))
    BY DEF CallPhase, CallerPart
  <1>2. msg.to \in Nodes /\ msg.to \in Group(a, b) \ {a} /\ msg.network = network[a]
    BY <1>1, PhaseNodes DEF Group
  <1>3. Taken(msg) = network[a]
    <2>1. CASE msg = Welcome(a, b)
      BY <2>1, PhaseNodes DEF Taken
    <2>2. CASE msg.to \in Fellows(a, b) /\ msg = News(a, msg.to)
      <3>1. network[msg.to].key = network[a].key /\ msg.addr = None
        BY <2>2, PhaseNodes DEF CallPhase, FellowPart
      <3>2. /\ Taken(msg) \in Networks /\ Taken(msg).key = network[a].key
            /\ Taken(msg).nodes = network[a].nodes
        BY <1>2, <3>1, TakenType DEF MeshInv
      <3> QED
        BY <3>2, SameNetwork, PhaseNodes
    <2> QED
      BY <1>1, <2>1, <2>2
  <1>4. network' = [network EXCEPT ![msg.to] = network[a]]
    BY <1>3 DEF handleMessageAddFile
  <1>5. network'[a] = network[a] /\ network'[msg.to] = network[a]
    BY <1>2, <1>4 DEF MeshInv, TypeOK
  <1>6. /\ Fellows(a, b)' = Fellows(a, b) /\ Group(a, b)' = Group(a, b)
        /\ Welcome(a, b)' = Welcome(a, b) /\ \A x : News(a, x)' = News(a, x)
    BY <1>5 DEF Fellows, Group, Welcome, News
  <1> QED
    BY <1>1, <1>2, <1>4, <1>5, <1>6

LEMMA PhaseHandle ==
    ASSUME MeshInv, failed = {}, NEW a \in Nodes, NEW b \in Nodes, CallPhase(a, b),
           NEW msg \in msgs, handleMessageAddFile(msg)
    PROVE  CallPhase(a, b)'
  <1> DEFINE F == Fellows(a, b)
             G == Group(a, b)
  <1>1. /\ msg.to \in G \ {a} /\ network' = [network EXCEPT ![msg.to] = network[a]]
        /\ network'[a] = network[a] /\ network'[msg.to] = network[a]
        /\ Fellows(a, b)' = F /\ Group(a, b)' = G
        /\ Welcome(a, b)' = Welcome(a, b) /\ \A x : News(a, x)' = News(a, x)
        /\ msg = Welcome(a, b) \/ (msg.to \in F /\ msg = News(a, msg.to))
    BY PhaseTakes
  <1>2. /\ msgs' = msgs \/ msgs' = msgs \ {msg}
        /\ UNCHANGED <<peers, opening, adding, made>>
    BY DEF handleMessageAddFile
  <1>3. IF msg = Welcome(a, b) THEN dials' = dials \cup MembersToDial(msg) ELSE dials' = dials
    BY <1>1, PhaseNodes DEF handleMessageAddFile
  <1>4. /\ a # b /\ F \subseteq Nodes /\ a \notin F /\ b \notin F /\ G = F \cup {a, b}
        /\ Range(network[a].nodes) = G
        /\ Welcome(a, b).to = b /\ Welcome(a, b).addr = b /\ Welcome(a, b).from = a
        /\ Welcome(a, b).network = network[a] /\ b # None
        /\ \A x \in F : News(a, x).to = x /\ News(a, x).addr = None
    BY PhaseNodes DEF Group
  <1>5. msg = Welcome(a, b) => MembersToDial(msg) = {<<b, x>> : x \in F}
    BY <1>4 DEF MembersToDial, Fellows
  <1>6. \A x \in Nodes : network'[x] = IF x = msg.to THEN network[a] ELSE network[x]
    BY <1>1 DEF MeshInv, TypeOK
  <1>7. \A x, y \in Nodes : Met(x, y) => Met(x, y)'
    BY <1>2, <1>3 DEF Met, End
  <1>8. CallerPart(a, b)'
    BY <1>1, <1>2, <1>3, <1>4, <1>5 DEF CallPhase, CallerPart
  <1>9. NewPart(a, b)'
    <2>1. CASE msg = Welcome(a, b)
      <3>1. network'[b] = network'[a] /\ \A x \in F : Met(b, x)'
        BY <1>1, <1>3, <1>4, <1>5, <2>1 DEF Met
      <3> QED
        BY <1>1, <1>2, <3>1 DEF CallPhase, NewPart
    <2>2. CASE msg # Welcome(a, b)
      <3>1. network'[b] = network[b]
        BY <1>1, <1>4, <1>6, <2>2
      <3> QED
        BY <1>1, <1>2, <1>4, <1>7, <2>2, <3>1 DEF CallPhase, NewPart
    <2> QED
      BY <2>1, <2>2
  <1>10. ASSUME NEW x \in F PROVE FellowPart(a, b, x)'
    <2>1. FellowPart(a, b, x)
      BY DEF CallPhase
    <2>2. CASE x = msg.to
      BY <1>1, <1>2, <2>1, <2>2 DEF FellowPart
    <2>3. CASE x # msg.to
      BY <1>1, <1>2, <1>4, <1>6, <2>1, <2>3 DEF FellowPart
    <2> QED
      BY <2>2, <2>3
  <1>11. ASSUME NEW x \in Nodes \ G PROVE OtherPart(a, b, x)'
    <2>1. OtherPart(a, b, x)
      BY DEF CallPhase
    <2>2. x # msg.to /\ msg.to \notin peers[x] /\ peers[x] \subseteq Nodes
      BY <1>1, <2>1 DEF OtherPart, MeshInv, TypeOK
    <2> QED
      BY <1>1, <1>2, <1>6, <2>1, <2>2 DEF OtherPart
  <1>12. <<a, b>> \in made'
    BY <1>2 DEF CallPhase
  <1> HIDE DEF F, G
  <1> QED
    BY <1>1, <1>8, <1>9, <1>10, <1>11, <1>12 DEF CallPhase

LEMMA OrderlyInit == Init => OrderlyInv /\ ApartInv
  <1> SUFFICES ASSUME Init PROVE OrderlyInv /\ ApartInv
    OBVIOUS
  <1>1. Settled
    BY DEF Init, Settled
  <1>2. \A n \in Nodes : Range(network[n].nodes) = {n} /\ peers[n] = {}
    BY DEF Init, InitializeNetwork, Range
  <1> QED
    BY <1>1, <1>2 DEF Init, OrderlyInv, ApartInv, Whole

LEMMA OrderlyStep ==
    MeshInv /\ MeetInv /\ ApartInv /\ OrderlyInv /\ [Next]_vars => OrderlyInv'
  <1> SUFFICES ASSUME MeshInv, MeetInv, ApartInv, OrderlyInv, [Next]_vars, failed' = {}, orderly'
               PROVE  (Settled /\ Whole)' \/ \E a, b \in Nodes : CallPhase(a, b)'
    BY DEF OrderlyInv
  <1>1. CASE UNCHANGED vars
    <2>1. failed = {} /\ orderly
      BY <1>1 DEF vars
    <2>2. CASE Settled /\ Whole
      BY <1>1, <2>2 DEF vars, Settled, Whole
    <2>3. ASSUME NEW a \in Nodes, NEW b \in Nodes, CallPhase(a, b) PROVE CallPhase(a, b)'
      BY <1>1, <2>3 DEF vars, CallPhase, CallerPart, NewPart, FellowPart, OtherPart, Fellows, Group,
                        News, Welcome, Met, End
    <2> QED
      BY <2>1, <2>2, <2>3 DEF OrderlyInv
  <1>2. ASSUME NEW n \in Nodes, NEW m \in Nodes, Add(n, m)
        PROVE  \E a, b \in Nodes : CallPhase(a, b)'
    <2>1. failed = {} /\ orderly /\ Settled /\ peers[m] = {}
      BY <1>2 DEF Add
    <2>2. Whole
      BY <2>1, PhaseEnds DEF OrderlyInv
    <2> QED
      BY <1>2, <2>1, <2>2, PhaseBegins
  <1>3. CASE \E n \in Nodes : AddFails(n) \/ AddPanics(n)
    BY <1>3, AddFailsKeeps
  <1>4. ASSUME failed = {}, orderly, ~Settled PROVE \E a, b \in Nodes : CallPhase(a, b)
    BY <1>4 DEF OrderlyInv
  <1>5. ASSUME NEW n \in Nodes, AddSend(n) PROVE \E a, b \in Nodes : CallPhase(a, b)'
    <2>1. failed = {} /\ orderly /\ ~Settled
      BY <1>5, AddSendKeeps, CallsAssumption DEF AddSend, Settled
    <2> QED
      BY <1>4, <1>5, <2>1, PhaseAddSend
  <1>6. ASSUME NEW n \in Nodes, NEW m \in Nodes, Dial(n, m) PROVE \E a, b \in Nodes : CallPhase(a, b)'
    <2>1. failed = {} /\ orderly /\ ~Settled
      BY <1>6 DEF Dial, Settled
    <2> QED
      BY <1>4, <1>6, <2>1, PhaseDial
  <1>7. ASSUME NEW n \in Nodes, NEW m \in Nodes, OnPeer(n, m) PROVE \E a, b \in Nodes : CallPhase(a, b)'
    <2>1. failed = {} /\ orderly /\ ~Settled
      BY <1>7 DEF OnPeer, Settled
    <2> QED
      BY <1>4, <1>7, <2>1, PhaseOnPeer
  <1>8. ASSUME NEW msg \in msgs, handleMessageAddFile(msg) PROVE \E a, b \in Nodes : CallPhase(a, b)'
    <2>1. failed = {} /\ orderly /\ ~Settled
      BY <1>8 DEF handleMessageAddFile, Settled
    <2> QED
      BY <1>4, <1>8, <2>1, PhaseHandle
  <1> QED
    BY <1>1, <1>2, <1>3, <1>5, <1>6, <1>7, <1>8, NextKinds

\* Where calls come one after the other, each for a node that is in no mesh, the members
\* of each mesh are connected each with each, and have one key and one list, whenever
\* nothing is under way: for any number of nodes, meshes and calls, whoever calls.
THEOREM OrderlyMeshesAreWhole == Spec => []OrderlyMeshIsWhole
  <1>1. MeshInv /\ MeetInv /\ OrderlyInv => OrderlyMeshIsWhole
    <2> SUFFICES ASSUME MeshInv, MeetInv, OrderlyInv, Quiet, orderly PROVE Whole
      BY DEF OrderlyMeshIsWhole, Whole
    <2> QED
      BY PhaseEnds DEF OrderlyInv, Quiet
  <1> QED
    BY MeshAlways, MeetInit, MeetStep, OrderlyInit, OrderlyStep, ApartStep, <1>1, PTL DEF Spec
=============================================================================
