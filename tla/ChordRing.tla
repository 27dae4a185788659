------------------------------- MODULE ChordRing -------------------------------
(***************************************************************************)
(* Ring maintenance of the Chord architecture: Create, Join, stabilize,    *)
(* notify and checkPredecessor (chord.go, chord_util.go) and the handlers  *)
(* of the three messages they exchange (chord_handler.go), for nodes that  *)
(* run concurrently, crash and are started again.                          *)
(*                                                                         *)
(* Connections.  FileServer.peers is keyed by the remote address of a TCP  *)
(* connection, so a node that dialled m finds m under its listen address,  *)
(* while m knows the dialler only under an ephemeral port, good for        *)
(* nothing but answering on that connection.  peers[n] below is the set of *)
(* nodes n has an entry for under their listen address.  No code removes   *)
(* an entry, so an entry outlives its connection (broken).                 *)
(***************************************************************************)
EXTENDS RingIds, FiniteSets

CONSTANTS Nodes,       \* the nodes, each named by its ring identifier
          Seed,        \* the node started without -joinAddr
          Nil,         \* Go's nil predecessor
          MayLose,     \* may messages get lost on a connection that stands?
          MaxCrashes,   \* bound: how many crashes a behaviour may have
          MaxInFlight,  \* bound: how many messages may be in flight ...
          MaxAfterCrash \* ... and how many are sent to after a crash

ASSUME NodesAssumption == Nodes \subseteq Ids /\ Seed \in Nodes
ASSUME NilAssumption == Nil \notin Nodes
ASSUME LossAssumption == MayLose \in BOOLEAN
ASSUME BoundsAssumption == {MaxCrashes, MaxInFlight, MaxAfterCrash} \subseteq Nat

VARIABLES
    phase,    \* how far StartServer has got: see Phases
    contact,  \* joinAddr of a node that is joining
    succ,     \* ChordNode.successor
    pred,     \* ChordNode.predecessor
    peers,    \* FileServer.peers, the entries under a listen address
    dialing,  \* nodes whose Join has dialled and whose OnPeer has not run yet
    broken,   \* <<n, m>>: the connection of n's entry for m is dead
    suspects, \* <<n, p>>: checkPredecessor of n failed to dial p, before it locks
    msgs,     \* messages in flight
    crashes   \* number of crashes so far

vars == <<phase, contact, succ, pred, peers, dialing, broken, suspects, msgs, crashes>>
ringVars == <<succ, pred>>
connVars == <<peers, dialing, broken>>

\* "off": no process (not started yet, or it died);
\* "dialed": Join has dialled its contact, successor is still the node itself;
\* "linked": Join has set successor, not yet notified it;
\* "up": the maintenance routines run.
Phases == {"off", "dialed", "linked", "up"}

Running == {n \in Nodes : phase[n] # "off"}
Up == {n \in Nodes : phase[n] = "up"}

GetPredecessor(n, s)   == [type |-> "GetPredecessor", src |-> n, dst |-> s, node |-> n]
Response(s, n, p)      == [type |-> "GetPredecessorResponse", src |-> s, dst |-> n, node |-> p]
Notify(n, s)           == [type |-> "Notify", src |-> n, dst |-> s, node |-> n]
Messages ==
    [type : {"GetPredecessor", "Notify"}, src : Nodes, dst : Nodes, node : Nodes]
    \cup [type : {"GetPredecessorResponse"},
          src : Nodes, dst : Nodes, node : Nodes \cup {Nil}]

Init ==
    /\ phase = [n \in Nodes |-> "off"]
    /\ contact = [n \in Nodes |-> n]
    /\ succ = [n \in Nodes |-> n]
    /\ pred = [n \in Nodes |-> Nil]
    /\ peers = [n \in Nodes |-> {}]
    /\ dialing = {}
    /\ broken = {}
    /\ suspects = {}
    /\ msgs = {}
    /\ crashes = 0

-----------------------------------------------------------------------------
(* Transport.                                                              *)

\* Can n send to m through its peers entry?  A write to a dead connection
\* returns an error, which every caller below only logs.
Connected(n, m) == m \in peers[n] /\ <<n, m>> \notin broken

\* Transport.Dial returns once the connection stands; the goroutine it
\* starts enters the peer a little later (FileServer.OnPeer), which replaces
\* an entry that went dead.
Enter(n, m) ==
    /\ peers' = [peers EXCEPT ![n] = @ \cup {m}]
    /\ broken' = broken \ {<<n, m>>}

\* The delay matters to Join, whose notification gets lost when the entry is
\* late.
OnPeer(n) ==
    /\ n \in dialing
    /\ dialing' = dialing \ {n}
    /\ Enter(n, contact[n])
    /\ UNCHANGED <<phase, contact, ringVars, suspects, msgs, crashes>>

\* A lookup, or a client's store, get or delete, dials a node it has no
\* entry for: any running node may turn out to be the one asked.
LookupDial(n, m) ==
    /\ n \in Up
    /\ m \in Running \ (peers[n] \cup {n})
    /\ Enter(n, m)
    /\ UNCHANGED <<phase, contact, ringVars, dialing, suspects, msgs, crashes>>

InFlightBound == IF crashes = 0 THEN MaxInFlight ELSE MaxAfterCrash

\* sendMessage of a set of messages.
Send(ms) ==
    /\ Cardinality(msgs \cup ms) <= InFlightBound
    /\ msgs' = msgs \cup ms

-----------------------------------------------------------------------------
(* Creating and joining.                                                   *)

\* InitChord on the first node: NewChordNode, then Create.  (Join of a node's
\* own address does the same.)
Create ==
    /\ \A n \in Nodes : phase[n] = "off"
    /\ crashes = 0
    /\ phase' = [phase EXCEPT ![Seed] = "up"]
    /\ succ' = [succ EXCEPT ![Seed] = Seed]
    /\ pred' = [pred EXCEPT ![Seed] = Nil]
    /\ UNCHANGED <<contact, connVars, suspects, msgs, crashes>>

\* JoinChord up to and with the Dial of the contact.  (When the dial fails the
\* process exits, as if it had never been started.)
Join(n, c) ==
    /\ phase[n] = "off"
    /\ c \in Running \ {n}
    /\ phase' = [phase EXCEPT ![n] = "dialed"]
    /\ contact' = [contact EXCEPT ![n] = c]
    /\ succ' = [succ EXCEPT ![n] = n]
    /\ pred' = [pred EXCEPT ![n] = Nil]
    /\ dialing' = dialing \cup {n}
    /\ UNCHANGED <<peers, broken, suspects, msgs, crashes>>

\* A faulty variant: the node stays its own successor.
JoinLinkForgets(n) ==
    /\ phase[n] = "dialed"
    /\ phase' = [phase EXCEPT ![n] = "linked"]
    /\ UNCHANGED <<contact, ringVars, connVars, suspects, msgs, crashes>>

\* After half a second Join takes the contact for its successor, whatever
\* notify has made of successor meanwhile.
JoinLink(n) ==
    /\ phase[n] = "dialed"
    /\ phase' = [phase EXCEPT ![n] = "linked"]
    /\ succ' = [succ EXCEPT ![n] = contact[n]]
    /\ UNCHANGED <<contact, pred, connVars, suspects, msgs, crashes>>

\* sendNotify to the new successor, silently dropped when OnPeer has not run
\* yet; then the maintenance routines start.
JoinNotify(n) ==
    /\ phase[n] = "linked"
    /\ phase' = [phase EXCEPT ![n] = "up"]
    /\ Send(IF Connected(n, succ[n]) THEN {Notify(n, succ[n])} ELSE {})
    /\ UNCHANGED <<contact, ringVars, connVars, suspects, crashes>>

-----------------------------------------------------------------------------
(* The maintenance routines.                                               *)

\* One tick of stabilizeRoutine: ask the successor for its predecessor and
\* notify it, provided it is in the peer list.
Stabilize(n) ==
    /\ n \in Up
    /\ succ[n] # n
    /\ Connected(n, succ[n])
    /\ Send({GetPredecessor(n, succ[n]), Notify(n, succ[n])})
    /\ UNCHANGED <<phase, contact, ringVars, connVars, suspects, crashes>>

\* One tick of checkPredecessorRoutine: a predecessor that is in the peer map
\* counts as reachable, any other one is dialled.
CheckPredecessor(n) ==
    /\ n \in Up
    /\ \A p \in Nodes : <<n, p>> \notin suspects
    /\ pred[n] # Nil
    /\ pred[n] \notin peers[n]
    /\ IF pred[n] \in Running
       THEN Enter(n, pred[n]) /\ UNCHANGED suspects
       ELSE suspects' = suspects \cup {<<n, pred[n]>>} /\ UNCHANGED <<peers, broken>>
    /\ UNCHANGED <<phase, contact, ringVars, dialing, msgs, crashes>>

\* The rest of that tick after a failed Dial: lock, and forget the predecessor
\* (the one of now, not the one that was dialled).
RemovePredecessor(n) ==
    /\ \E p \in Nodes : <<n, p>> \in suspects
    /\ suspects' = {w \in suspects : w[1] # n}
    /\ pred' = [pred EXCEPT ![n] = Nil]
    /\ UNCHANGED <<phase, contact, succ, connVars, msgs, crashes>>

-----------------------------------------------------------------------------
(* Message handlers, run by the event loop of the receiver once its         *)
(* chordNode exists.  Equal messages in flight are one element of msgs, so  *)
(* handling one may leave another copy behind.                              *)

Consume(m) == {msgs, msgs \ {m}}

\* handleMessageGetPredecessor: answer on the connection the request came by.
HandleGetPredecessor(m) ==
    /\ m \in msgs /\ m.type = "GetPredecessor" /\ m.dst \in Running
    /\ \E rest \in Consume(m) :
          LET answered == rest \cup {Response(m.dst, m.src, pred[m.dst])}
          IN  Cardinality(answered) <= InFlightBound /\ msgs' = answered
    /\ UNCHANGED <<phase, contact, ringVars, connVars, suspects, crashes>>

\* Faulty variants: the interval is not looked at; its ends are swapped.
AdoptsAnySuccessor(m) == m.node # Nil /\ m.src = succ[m.dst]
AdoptsFartherSuccessor(m) ==
    m.node # Nil /\ m.src = succ[m.dst] /\ isBetween(m.node, succ[m.dst], m.dst, FALSE)

\* handleMessageGetPredecessorResponse: a node that lies between us and the
\* successor that answered becomes the successor.
AdoptsSuccessor(m) ==
    /\ m.node # Nil
    /\ m.src = succ[m.dst]
    /\ isBetween(m.node, m.dst, succ[m.dst], FALSE)

HandleGetPredecessorResponse(m) ==
    /\ m \in msgs /\ m.type = "GetPredecessorResponse" /\ m.dst \in Running
    /\ msgs' \in Consume(m)
    /\ succ' = IF AdoptsSuccessor(m) THEN [succ EXCEPT ![m.dst] = m.node] ELSE succ
    /\ UNCHANGED <<phase, contact, pred, connVars, suspects, crashes>>

\* A faulty variant: a node without a predecessor compares all the same.
AdoptsCloserOnly(m) ==
    /\ pred[m.dst] # Nil
    /\ isBetween(m.node, pred[m.dst], m.dst, FALSE)

\* notify: the sender becomes the predecessor if there is none or it lies
\* between the present one and us.
AdoptsPredecessor(m) ==
    \/ pred[m.dst] = Nil
    \/ isBetween(m.node, pred[m.dst], m.dst, FALSE)

\* Faulty variants: the successor stays; it becomes the former predecessor.
SuccessorKept(m) == succ[m.dst]
SuccessorFromOldPredecessor(m) == IF succ[m.dst] = m.dst THEN pred[m.dst] ELSE succ[m.dst]

\* A node that was alone also takes the sender for its successor.
SuccessorAfterNotify(m) == IF succ[m.dst] = m.dst THEN m.node ELSE succ[m.dst]

\* (The file transfer that notify starts at the end touches nothing of this.)
HandleNotify(m) ==
    /\ m \in msgs /\ m.type = "Notify" /\ m.dst \in Running
    /\ msgs' \in Consume(m)
    /\ IF AdoptsPredecessor(m)
       THEN /\ pred' = [pred EXCEPT ![m.dst] = m.node]
            /\ succ' = [succ EXCEPT ![m.dst] = SuccessorAfterNotify(m)]
       ELSE UNCHANGED ringVars
    /\ UNCHANGED <<phase, contact, connVars, suspects, crashes>>

-----------------------------------------------------------------------------
(* Failures.  A crash takes the node's state, its connections and what was  *)
(* sent to it; what it sent before may still arrive, but nobody can answer  *)
(* a request of it any more.  The others keep their entries for it.  The    *)
(* node may be started again: Join, with an address of the network.         *)

\* A message that arrives together with another one, or whose bytes a handler or
\* a client's Get reads, is never decoded (Connection, ChordFiles).
Lose(m) ==
    /\ MayLose /\ m \in msgs
    /\ msgs' = msgs \ {m}
    /\ UNCHANGED <<phase, contact, ringVars, connVars, suspects, crashes>>

Crash(n) ==
    /\ n \in Running
    /\ crashes < MaxCrashes
    /\ crashes' = crashes + 1
    /\ phase' = [phase EXCEPT ![n] = "off"]
    /\ LET Dialled == {k \in Nodes \ {n} : n \in peers[k] \/ (k \in dialing /\ contact[k] = n)}
       IN  /\ peers' = [k \in Nodes |-> IF k = n THEN {}
                                        ELSE IF k \in Dialled THEN peers[k] \cup {n}
                                        ELSE peers[k]]
           /\ broken' = {b \in broken : b[1] # n} \cup (Dialled \X {n})
    /\ dialing' = {k \in dialing : n \notin {k, contact[k]}}
    /\ suspects' = {w \in suspects : w[1] # n}
    /\ msgs' = {m \in msgs : m.dst # n /\ (m.src = n => m.type # "GetPredecessor")}
    /\ UNCHANGED <<contact, ringVars>>

-----------------------------------------------------------------------------
Handle(m) ==
    \/ HandleGetPredecessor(m)
    \/ HandleGetPredecessorResponse(m)
    \/ HandleNotify(m)

Next ==
    \/ Create
    \/ \E n, c \in Nodes : Join(n, c)
    \/ \E n \in Nodes : JoinLink(n)
    \/ \E n \in Nodes : JoinNotify(n)
    \/ \E n \in Nodes : OnPeer(n)
    \/ \E n, m \in Nodes : LookupDial(n, m)
    \/ \E n \in Nodes : Stabilize(n)
    \/ \E n \in Nodes : CheckPredecessor(n)
    \/ \E n \in Nodes : RemovePredecessor(n)
    \/ \E m \in msgs : Handle(m)
    \/ \E m \in msgs : Lose(m)
    \/ \E n \in Nodes : Crash(n)

Spec == Init /\ [][Next]_vars

(* Fairness: the tickers of the routines keep firing, the event loop and the  *)
(* goroutines of Dial and Join are scheduled, TCP delivers what was written.  *)
(* Of equal messages only finitely many are in flight, so that each one is    *)
(* used up at last, and of the notifications that stabilize sends again and   *)
(* again not all get lost.  (Stabilize has strong fairness only because       *)
(* MaxInFlight, which no code knows, must not starve it.)                     *)
(* Starting nodes, client lookups and crashes are up to the environment.      *)
Renotified == IF MayLose THEN {Notify(n, s) : n \in Nodes, s \in Nodes} ELSE {}

Fairness ==
    /\ \A n \in Nodes :
          /\ WF_vars(OnPeer(n))
          /\ WF_vars(JoinLink(n))
          /\ WF_vars(JoinNotify(n))
          /\ SF_vars(Stabilize(n))
          /\ WF_vars(CheckPredecessor(n))
          /\ WF_vars(RemovePredecessor(n))
    /\ \A m \in Messages : WF_vars(Handle(m) /\ m \notin msgs')
    /\ \A m \in Renotified : SF_vars(HandleNotify(m) /\ m \notin msgs')

FairSpec == Spec /\ Fairness

-----------------------------------------------------------------------------
(* Properties.                                                              *)

\* The values the variables take: a successor is never nil, whatever
\* predecessors come and go.
TypeOK ==
    /\ phase \in [Nodes -> Phases]
    /\ contact \in [Nodes -> Nodes]
    /\ succ \in [Nodes -> Nodes]
    /\ pred \in [Nodes -> Nodes \cup {Nil}]
    /\ peers \in [Nodes -> SUBSET Nodes]
    /\ dialing \subseteq Nodes
    /\ broken \subseteq Nodes \X Nodes
    /\ suspects \subseteq Nodes \X Nodes
    /\ msgs \subseteq Messages
    /\ crashes \in 0 .. MaxCrashes

\* Where a running node's successor chain goes on: while Join waits after its
\* dial the node is still its own successor, and bound to its contact.
NextHop(n) == IF phase[n] = "dialed" THEN contact[n] ELSE succ[n]

\* From every running node the successor chain leads to the seed.  (Said without
\* paths: no set of running nodes that is closed under successor leaves the seed
\* out.)
OnePiece ==
    \A S \in SUBSET Running :
        S # {} /\ (\A n \in S : NextHop(n) \in S) => Seed \in S

\* As long as no node has crashed the network never falls apart, whatever joins,
\* stabilize rounds and notifications overlap.
SeedReachable == crashes = 0 => OnePiece

\* A node that has accepted a predecessor is not alone any more, and notify
\* must have seen to it that it has left itself as successor: a ring of one
\* with a predecessor would answer every lookup with itself for ever, since
\* stabilize skips a node that is its own successor.
NotAloneWithPredecessor ==
    \A n \in Up : pred[n] # Nil => succ[n] # n

\* When no node has crashed and every one is the predecessor its successor knows, so that stabilize
\* has nothing left to change, the ring is the right one: each node's
\* successor is the next member clockwise.
AgreementIsOrder ==
    (crashes = 0 /\ Up = Running /\ \A n \in Up : pred[succ[n]] = n)
        => \A n \in Up : succ[n] = IdealSuccessor(Up, n)

\* The successor of p lies on the arc up to n.
NoFurtherThan(p, n) == succ[p] = n \/ isBetween(succ[p], p, n, FALSE)

\* No predecessor a node has accepted looks past that node.
Ordered == \A n \in Nodes : pred[n] # Nil => NoFurtherThan(pred[n], n)

\* As long as no node has crashed, the predecessor a node has accepted never looks
\* past it: its own successor lies on the arc up to that node.  Otherwise a lookup
\* passing through the predecessor would skip the node although the node believes
\* itself in place.  It takes notify, two maintenance threads and Join, which
\* overwrites the successor after its half second, to keep or lose this.
PredecessorLooksNoFurther == crashes = 0 => Ordered

\* The right ring of all nodes.
Ideal == \A n \in Nodes : /\ succ[n] = IdealSuccessor(Nodes, n)
                          /\ pred[succ[n]] = n

\* A ring of two nodes closes: once both have joined, it becomes and stays the
\* right one (until a node crashes), although any notification or answer may get
\* lost: the starter learns of the joiner only from its notify, and the routine
\* stabilizeRoutine (chord_util.go:295) repeats every step that failed.  It is
\* about two nodes on purpose.  With three the claim is false: a node adopts the
\* predecessor of its successor without a connection to it (chord_handler.go:272)
\* and then returns from every stabilize (chord_util.go:148); that is
\* EveryNodeStabilizes, refuted by the run RingStuck.
PairConverges ==
    (Cardinality(Nodes) = 2 /\ Up = Nodes /\ crashes = 0)
        ~> ([]Ideal \/ crashes > 0)

\* n is the successor of p and hears from it.
Hears(n, p) == {n, p} \subseteq Up /\ succ[p] = n /\ n # p /\ Connected(p, n)

\* checkPredecessor reads the predecessor, dials it without the lock and then
\* clears whatever notify has put there meanwhile, and an entry of the peer map
\* outlives its connection.  A node that hears from its predecessor does not
\* stay without one, also after crashes and restarts.
PredecessorComesBack ==
    \A n, p \in Nodes : []<>(Hears(n, p) => pred[n] # Nil)

\* Do all finger intervals of n start before its successor?
FixesFingersAlone(n) ==
    \A i \in 0 .. Bits - 1 : isBetween(fingerID(n, i), n, succ[n], TRUE)

\* "Stabilize verifies and updates the successor" (chord_util.go:125): a node
\* with a successor gets to a round with it, or with one it prefers.  The code
\* adopts a successor without dialling it and stabilize gives up on one that is
\* not in the peer list.  (Stated for a node whose finger intervals all start
\* before its successor, so that fixFinger asks nobody; for others a lookup may
\* happen to dial the successor.)
EveryNodeStabilizes ==
    \A n \in Nodes : (n \in Up /\ succ[n] # n /\ FixesFingersAlone(n))
                        ~> Connected(n, succ[n])
================================================================================
