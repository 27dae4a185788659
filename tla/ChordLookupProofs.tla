--------------------------- MODULE ChordLookupProofs ---------------------------
(***************************************************************************)
(* Proofs about Chord lookups, for any settled ring of any size, any       *)
(* identifier length and any number of requests in flight.                 *)
(*                                                                         *)
(* A lookup is forwarded to a node between the asker and the identifier,   *)
(* and what is not past the responsible node seen from there is not past   *)
(* it seen from the asker (ForwardedNotPast).  The invariant carries this  *)
(* over the wire: a request identifier that somebody waits for belongs to  *)
(* his request only, in flight, being served or answered (RequestInv).     *)
(***************************************************************************)
EXTENDS ChordLookup, FiniteSetTheorems, WellFoundedInduction, TLAPS

-----------------------------------------------------------------------------
(* Arithmetic on the circle.                                                *)

\* The circle is not empty, and the identifiers are the numbers below its size.
LEMMA Circle ==
    /\ 2^Bits \in Nat \ {0}
    /\ \A x \in Ids : x \in Nat /\ x < 2^Bits
    /\ Nodes \subseteq Ids /\ 0 \in Ids /\ 0 \in Slots
    /\ \A n \in Nodes : n # Nil
  <1>1. 2^Bits \in Int
    BY BitsAssumption
  <1>2. Creator \in 0 .. (2^Bits - 1)
    BY NodesAssumption, RolesAssumption DEF Ids
  <1>3. 2^Bits \in Nat \ {0}
    BY <1>1, <1>2
  <1> QED BY <1>3, NodesAssumption, NilAssumption, BitsAssumption DEF Ids, Slots

\* A finger interval starts at an identifier.
LEMMA FingerStart ==
    ASSUME NEW n \in Nodes, NEW i \in Slots
    PROVE  fingerID(n, i) \in Ids
  <1>1. n + 2^i \in Int
    <2>1. 2^i \in Int BY BitsAssumption DEF Slots
    <2> QED BY <2>1, Circle
  <1>2. \A a \in Int, b \in Nat \ {0} : a % b \in 0 .. (b - 1)
    OBVIOUS
  <1> QED BY <1>1, <1>2, Circle DEF fingerID, Ids

\* A set of numbers has a least one.
LEMMA Least ==
    ASSUME NEW S \in SUBSET Nat, S # {}
    PROVE  \E x \in S : \A y \in S : x <= y
  <1>1. IsWellFoundedOn(OpToRel(<, Nat), Nat)
    BY NatLessThanWellFounded, Zenon
  <1>2. PICK x \in S : \A y \in S : ~ (<<y, x>> \in OpToRel(<, Nat))
    BY <1>1, WFMin
  <1>3. \A y \in S : ~ (y < x)
    BY <1>2 DEF OpToRel
  <1> QED BY <1>3

\* Distances on the circle.
LEMMA ClockwiseNat ==
    \A x, y \in Ids : Clockwise(x, y) \in Nat /\ Clockwise(x, y) < 2^Bits
  BY Circle DEF Clockwise

\* There is a nearest node in every set of nodes.
LEMMA Nearest ==
    ASSUME NEW S \in SUBSET Nodes, S # {}, NEW id \in Ids
    PROVE  \E n \in S : \A m \in S : Clockwise(id, n) <= Clockwise(id, m)
  <1> DEFINE D == {Clockwise(id, n) : n \in S}
  <1>1. D \in SUBSET Nat /\ D # {}
    BY Circle, ClockwiseNat
  <1>2. PICK d \in D : \A e \in D : d <= e
    BY <1>1, Least
  <1> QED BY <1>2

\* The responsible node is a node, and the first from the identifier on.
LEMMA ResponsibleIsFirst ==
    ASSUME NEW id \in Ids
    PROVE  /\ Responsible(Nodes, id) \in Nodes
           /\ \A m \in Nodes : Clockwise(id, Responsible(Nodes, id)) <= Clockwise(id, m)
  <1>1. \E n \in Nodes : \A m \in Nodes : Clockwise(id, n) <= Clockwise(id, m)
    BY Nearest, RolesAssumption
  <1> QED BY <1>1 DEF Responsible

\* So is the successor of a node, of the others.
LEMMA SuccessorIsNext ==
    ASSUME NEW n \in Nodes
    PROVE  /\ successor[n] \in Nodes \ {n}
           /\ \A m \in Nodes \ {n} : Clockwise(n, successor[n]) <= Clockwise(n, m)
  <1>1. Nodes # {n}
    BY FS_Singleton, NodesAssumption
  <1>2. Nodes \ {n} # {}
    BY <1>1
  <1>3. \E m \in Nodes \ {n} : \A k \in Nodes \ {n} : Clockwise(n, m) <= Clockwise(n, k)
    BY <1>2, Nearest, Circle
  <1>4. successor[n] = CHOOSE m \in Nodes \ {n} :
                           \A k \in Nodes \ {n} : Clockwise(n, m) <= Clockwise(n, k)
    BY <1>1 DEF successor, IdealSuccessor
  <1> QED BY <1>3, <1>4

\* The successor lies past no responsible node.
LEMMA SuccessorNotPast ==
    ASSUME NEW n \in Nodes, NEW id \in Ids
    PROVE  NotPast(n, successor[n], id)
  <1>1. Responsible(Nodes, id) \in Nodes
    BY ResponsibleIsFirst
  <1> QED BY <1>1, SuccessorIsNext, ClockwiseNat, Circle DEF NotPast, Ahead

\* What is not past the responsible node for p is not past it for n, when p lies
\* between n and the identifier.
LEMMA ForwardedNotPast ==
    ASSUME NEW n \in Nodes, NEW p \in Nodes, NEW v \in Nodes, NEW id \in Ids,
           isBetween(p, n, id, FALSE), NotPast(p, v, id)
    PROVE  NotPast(n, v, id)
  <1> DEFINE r == Responsible(Nodes, id)
  <1>1. r \in Nodes /\ Clockwise(id, r) <= Clockwise(id, n)
    BY ResponsibleIsFirst
  <1> HIDE DEF r
  <1>2. /\ 2^Bits \in Nat /\ n \in Nat /\ p \in Nat /\ v \in Nat /\ id \in Nat /\ r \in Nat
        /\ n < 2^Bits /\ p < 2^Bits /\ v < 2^Bits /\ id < 2^Bits /\ r < 2^Bits
    BY <1>1, Circle
  <1>3. Ahead(p, v) <= Ahead(p, r)
    BY DEF NotPast, r
  <1>4. Ahead(n, v) <= Ahead(n, r)
    BY <1>1, <1>2, <1>3 DEF Ahead, Clockwise, isBetween
  <1> QED BY <1>4 DEF NotPast, r

-----------------------------------------------------------------------------
(* What a step does to the threads.                                         *)

\* The thread is in FindSuccessor.
InFindSuccessor(n, t) == thread[n][t].pc \in {"rlock", "wait", "got"}

\* The threads other than t of n do nothing.
Others(n, t) ==
    \A m \in Nodes, u \in Threads : m # n \/ u # t => thread'[m][u] = thread[m][u]

\* Thread t of n starts to look id up, for a finger slot or a request.
Starts(n, t, id, slot, back) ==
    /\ thread' \in [Nodes -> [Threads -> ThreadStates]] /\ Others(n, t)
    /\ thread'[n][t].pc = "rlock" /\ thread'[n][t].id = id
    /\ thread'[n][t].slot = slot /\ thread'[n][t].back = back

\* Thread t of n asks node `to' with request r.
Asked(n, t, to, r) ==
    /\ r \in Reqs /\ ~ Used(r)
    /\ thread' \in [Nodes -> [Threads -> ThreadStates]] /\ Others(n, t)
    /\ thread'[n][t].pc = "wait" /\ thread'[n][t].to = to /\ thread'[n][t].req = r
    /\ thread'[n][t].direct = (to \in peers[n])
    /\ thread'[n][t].id = thread[n][t].id /\ thread'[n][t].slot = thread[n][t].slot
    /\ thread'[n][t].back = thread[n][t].back
    /\ peers' = [peers EXCEPT ![n] = @ \cup {to}]
    /\ msgs' = msgs \cup {Request(n, to, r, thread[n][t].id)}
    /\ UNCHANGED <<fingers, found>>

\* Thread t of n gives up, or lets the write lock go.
Stops(n, t) ==
    /\ thread' \in [Nodes -> [Threads -> ThreadStates]] /\ Others(n, t)
    /\ thread'[n][t] = Idle

\* The state of a thread that does nothing.
LEMMA IdleState == Idle \in ThreadStates /\ Idle.pc = "idle"
  BY Circle DEF Idle, ThreadStates

\* A call of findSuccessorRemote.
LEMMA AskStep ==
    ASSUME TypeOK, NEW n \in Nodes, NEW t \in Threads, NEW to \in Nodes, Ask(n, t, to),
           UNCHANGED fingers
    PROVE  \E r \in Reqs : Asked(n, t, to, r)
  <1>1. PICK r \in Fresh(n) :
            /\ thread' = [thread EXCEPT ![n][t] =
                             [@ EXCEPT !.pc = "wait", !.to = to, !.req = r,
                                       !.direct = to \in peers[n], !.val = Nil]]
            /\ peers' = [peers EXCEPT ![n] = @ \cup {to}]
            /\ msgs' = msgs \cup {Request(n, to, r, thread[n][t].id)}
            /\ UNCHANGED found
    BY DEF Ask
  <1>2. r \in Reqs /\ ~ Used(r)
    BY DEF Fresh, Reqs
  <1> DEFINE s == thread[n][t]
             d == to \in peers[n]
             q == [s EXCEPT !.pc = "wait", !.to = to, !.req = r, !.direct = d, !.val = Nil]
  <1>3. s \in ThreadStates /\ d \in BOOLEAN
    BY DEF TypeOK
  <1>4. thread' = [thread EXCEPT ![n][t] = q]
    BY <1>1
  <1> HIDE DEF d
  <1>5. /\ q \in ThreadStates
        /\ q.pc = "wait" /\ q.to = to /\ q.req = r /\ q.direct = d
        /\ q.id = s.id /\ q.slot = s.slot /\ q.back = s.back
    BY <1>2, <1>3 DEF ThreadStates
  <1> HIDE DEF q
  <1>6. thread' \in [Nodes -> [Threads -> ThreadStates]] /\ thread'[n][t] = q /\ Others(n, t)
    BY <1>4, <1>5 DEF TypeOK, Others
  <1> QED BY <1>1, <1>2, <1>5, <1>6 DEF Asked, d

\* A lookup that starts.
LEMMA StartStep ==
    ASSUME TypeOK, NEW n \in Nodes, NEW t \in Threads, NEW q \in ThreadStates, q.pc = "rlock",
           thread' = [thread EXCEPT ![n][t] = q]
    PROVE  Starts(n, t, q.id, q.slot, q.back)
  <1>1. thread' \in [Nodes -> [Threads -> ThreadStates]] /\ thread'[n][t] = q /\ Others(n, t)
    BY DEF TypeOK, Others
  <1> QED BY <1>1 DEF Starts

\* A thread that stops.
LEMMA StopStep ==
    ASSUME TypeOK, NEW n \in Nodes, NEW t \in Threads, thread' = [thread EXCEPT ![n][t] = Idle]
    PROVE  Stops(n, t)
  BY IdleState DEF Stops, TypeOK, Others


-----------------------------------------------------------------------------
(* closestPrecedingNode.                                                    *)

\* Of finger slots there is a highest.
LEMMA Highest ==
    ASSUME NEW S \in SUBSET Slots, S # {}
    PROVE  \E i \in S : \A j \in S : j <= i
  <1> DEFINE D == {Bits - i : i \in S}
  <1>0. \A i \in S : i \in Int /\ Bits - i \in Nat
    BY BitsAssumption DEF Slots
  <1>1. D \in SUBSET Nat /\ D # {}
    BY <1>0
  <1>2. PICK d \in D : \A e \in D : d <= e
    BY <1>1, Least
  <1>3. PICK i \in S : d = Bits - i
    OBVIOUS
  <1>4. \A j \in S : Bits - i <= Bits - j
    BY <1>2, <1>3
  <1> QED BY <1>0, <1>4, BitsAssumption

\* Whoever is asked is a node between the asker and the identifier.
LEMMA ClosestIsBetween ==
    ASSUME TypeOK, NEW n \in Nodes, NEW id \in Ids, closestPrecedingNode(n, id) # n
    PROVE  /\ closestPrecedingNode(n, id) \in Nodes
           /\ isBetween(closestPrecedingNode(n, id), n, id, FALSE)
  <1>1. Preceding(n, id) # {} /\ Preceding(n, id) \in SUBSET Slots
    BY DEF closestPrecedingNode, Preceding
  <1>2. PICK i \in Preceding(n, id) : closestPrecedingNode(n, id) = fingers[n][i]
    BY <1>1, Highest DEF closestPrecedingNode
  <1>3. /\ i \in Slots /\ fingers[n][i] # Nil
        /\ isBetween(fingers[n][i], n, id, FALSE)
    BY <1>2, Zenon DEF Preceding
  <1>4. fingers[n][i] \in Nodes
    BY <1>3 DEF TypeOK
  <1> QED BY <1>2, <1>3, <1>4, Zenon

-----------------------------------------------------------------------------
(* The invariant.                                                           *)

\* Whoever waits asked a node between itself and the identifier, to which it has
\* a connection; what a thread holds as an answer is not past the responsible
\* node; an event loop looks something up for a request, fixFinger looks up the
\* identifier of the slot it sets.
ThreadInv(n, t) ==
    /\ thread[n][t].pc \in {"wait", "got"} =>
           /\ thread[n][t].to \in peers[n]
           /\ isBetween(thread[n][t].to, n, thread[n][t].id, FALSE)
    /\ thread[n][t].pc = "got" =>
           /\ thread[n][t].val \in Nodes
           /\ NotPast(n, thread[n][t].val, thread[n][t].id)
    /\ t = "loop" /\ InFindSuccessor(n, t) => thread[n][t].back \in Reqs
    /\ t = "finger" /\ InFindSuccessor(n, t) => thread[n][t].id = fingerID(n, thread[n][t].slot)
    /\ t = "finger" /\ thread[n][t].pc = "wlock" =>
           /\ thread[n][t].val \in Nodes
           /\ NotPast(n, thread[n][t].val, fingerID(n, thread[n][t].slot))

\* The event loop of p looks up what request r asked for.
Serves(p, r) == InFindSuccessor(p, "loop") /\ thread[p]["loop"].back = r

\* Where a thread waits and its request is in flight, being served or answered,
\* it is the request the thread sent, and the answer is good for the thread.
RequestInv ==
    \A n \in Nodes, t \in Threads : thread[n][t].pc = "wait" =>
        /\ \A m \in msgs : m.type = "FindSuccessor" /\ m.req = thread[n][t].req =>
               m.id = thread[n][t].id /\ m.dst = thread[n][t].to
        /\ \A p \in Nodes : Serves(p, thread[n][t].req) =>
               thread[p]["loop"].id = thread[n][t].id /\ p = thread[n][t].to
        /\ \A m \in msgs : m.type = "FindSuccessorResponse" /\ m.req = thread[n][t].req =>
               NotPast(n, m.node, thread[n][t].id)

LookupInv ==
    /\ TypeOK /\ LookupNeverOvershoots /\ RequestInv
    /\ \A n \in Nodes, t \in Threads : ThreadInv(n, t)

\* The messages are typed.
LEMMA MessageTypes ==
    /\ \A n, to \in Nodes, r \in Reqs, id \in Ids :
           /\ Request(n, to, r, id) \in Messages
           /\ Request(n, to, r, id).type = "FindSuccessor" /\ Request(n, to, r, id).dst = to
           /\ Request(n, to, r, id).req = r /\ Request(n, to, r, id).id = id
    /\ \A r \in Reqs, v \in Nodes :
           /\ Response(r, v) \in Messages /\ r[1] \in Nodes
           /\ Response(r, v).type = "FindSuccessorResponse"
           /\ Response(r, v).req = r /\ Response(r, v).node = v
    /\ \A n \in Nodes : NotifyMsg(n) \in Messages /\ NotifyMsg(n).type = "Notify"
    /\ \A m \in Messages :
           /\ m.dst \in Nodes
           /\ m.type \in {"FindSuccessor", "FindSuccessorResponse", "Notify"}
           /\ m.type = "FindSuccessor" => m.req \in Reqs /\ m.id \in Ids
           /\ m.type = "FindSuccessorResponse" => m.req \in Reqs /\ m.node \in Nodes
  <1>1. \A n, to \in Nodes, r \in Reqs, id \in Ids :
           /\ Request(n, to, r, id) \in Messages
           /\ Request(n, to, r, id).type = "FindSuccessor" /\ Request(n, to, r, id).dst = to
           /\ Request(n, to, r, id).req = r /\ Request(n, to, r, id).id = id
    BY DEF Request, Messages
  <1>2. \A r \in Reqs, v \in Nodes :
           /\ Response(r, v) \in Messages /\ r[1] \in Nodes
           /\ Response(r, v).type = "FindSuccessorResponse"
           /\ Response(r, v).req = r /\ Response(r, v).node = v
    BY DEF Response, Messages, Reqs
  <1>3. \A n \in Nodes : NotifyMsg(n) \in Messages /\ NotifyMsg(n).type = "Notify"
    BY DEF NotifyMsg, Messages
  <1>4. \A m \in Messages :
           /\ m.dst \in Nodes
           /\ m.type \in {"FindSuccessor", "FindSuccessorResponse", "Notify"}
           /\ m.type = "FindSuccessor" => m.req \in Reqs /\ m.id \in Ids
           /\ m.type = "FindSuccessorResponse" => m.req \in Reqs /\ m.node \in Nodes
    BY DEF Messages
  <1> QED BY <1>1, <1>2, <1>3, <1>4

\* A thread that does nothing keeps its invariant, and so do all when the one
\* that moves does.
LEMMA ThreadsKept ==
    ASSUME LookupInv, NEW n \in Nodes, NEW t \in Threads, Others(n, t),
           \A m \in Nodes : peers[m] \subseteq peers'[m],
           ThreadInv(n, t)'
    PROVE  \A m \in Nodes, u \in Threads : ThreadInv(m, u)'
  <1> SUFFICES ASSUME NEW m \in Nodes, NEW u \in Threads PROVE ThreadInv(m, u)'
    OBVIOUS
  <1>1. CASE m = n /\ u = t
    BY <1>1
  <1>2. CASE m # n \/ u # t
    <2>1. thread'[m][u] = thread[m][u]
      BY <1>2 DEF Others
    <2>2. ThreadInv(m, u) /\ peers[m] \subseteq peers'[m]
      BY DEF LookupInv
    <2> QED BY <2>1, <2>2 DEF ThreadInv, InFindSuccessor
  <1> QED BY <1>1, <1>2

\* A step after which nobody waits that did not wait before, which sends answers
\* that are good for all who wait for them, and after which a loop that serves a
\* request took it from the messages, keeps what is known of the requests.
LEMMA RequestsKept ==
    ASSUME RequestInv,
           \A n \in Nodes, t \in Threads :
               thread'[n][t].pc = "wait" => thread'[n][t] = thread[n][t],
           \A m \in msgs' : m \in msgs \/ m.type = "Notify" \/
               /\ m.type = "FindSuccessorResponse"
               /\ \A n \in Nodes, t \in Threads :
                      thread[n][t].pc = "wait" /\ thread[n][t].req = m.req =>
                          NotPast(n, m.node, thread[n][t].id),
           \A p \in Nodes :
               \/ ~ InFindSuccessor(p, "loop")'
               \/ /\ InFindSuccessor(p, "loop")
                  /\ thread'[p]["loop"].back = thread[p]["loop"].back
                  /\ thread'[p]["loop"].id = thread[p]["loop"].id
               \/ \E m \in msgs : /\ m.type = "FindSuccessor" /\ m.dst = p
                                  /\ m.req = thread'[p]["loop"].back
                                  /\ m.id = thread'[p]["loop"].id
    PROVE  RequestInv'
  <1> SUFFICES ASSUME NEW n \in Nodes, NEW t \in Threads, thread'[n][t].pc = "wait"
               PROVE  /\ \A m \in msgs' : m.type = "FindSuccessor" /\ m.req = thread'[n][t].req =>
                             m.id = thread'[n][t].id /\ m.dst = thread'[n][t].to
                      /\ \A p \in Nodes :
                             InFindSuccessor(p, "loop")' /\ thread'[p]["loop"].back = thread'[n][t].req =>
                             thread'[p]["loop"].id = thread'[n][t].id /\ p = thread'[n][t].to
                      /\ \A m \in msgs' :
                             m.type = "FindSuccessorResponse" /\ m.req = thread'[n][t].req =>
                                 NotPast(n, m.node, thread'[n][t].id)
    BY DEF RequestInv, Serves
  <1>1. thread'[n][t] = thread[n][t] /\ thread[n][t].pc = "wait"
    OBVIOUS
  <1>2. /\ \A m \in msgs : m.type = "FindSuccessor" /\ m.req = thread[n][t].req =>
               m.id = thread[n][t].id /\ m.dst = thread[n][t].to
        /\ \A p \in Nodes :
               InFindSuccessor(p, "loop") /\ thread[p]["loop"].back = thread[n][t].req =>
                   thread[p]["loop"].id = thread[n][t].id /\ p = thread[n][t].to
        /\ \A m \in msgs : m.type = "FindSuccessorResponse" /\ m.req = thread[n][t].req =>
               NotPast(n, m.node, thread[n][t].id)
    BY <1>1 DEF RequestInv, Serves
  <1> QED BY <1>1, <1>2

\* A request is sent.
LEMMA InvAsked ==
    ASSUME LookupInv, NEW n \in Nodes, NEW t \in Threads, NEW to \in Nodes, NEW r \in Reqs,
           InFindSuccessor(n, t), isBetween(to, n, thread[n][t].id, FALSE), Asked(n, t, to, r)
    PROVE  LookupInv'
  <1> DEFINE s == thread[n][t]
  <1>0. TypeOK /\ LookupNeverOvershoots /\ RequestInv /\ ThreadInv(n, t)
    BY DEF LookupInv
  <1>1. /\ ~ Used(r)
        /\ thread' \in [Nodes -> [Threads -> ThreadStates]] /\ Others(n, t)
        /\ thread'[n][t].pc = "wait" /\ thread'[n][t].to = to /\ thread'[n][t].req = r
        /\ thread'[n][t].id = s.id /\ thread'[n][t].slot = s.slot /\ thread'[n][t].back = s.back
        /\ peers' = [peers EXCEPT ![n] = @ \cup {to}]
        /\ msgs' = msgs \cup {Request(n, to, r, s.id)}
        /\ UNCHANGED <<fingers, found>>
    BY DEF Asked
  <1>2. s \in ThreadStates /\ s.id \in Ids
    BY <1>0 DEF TypeOK, ThreadStates
  <1>3. /\ peers' \in [Nodes -> SUBSET Nodes] /\ to \in peers'[n]
        /\ \A m \in Nodes : peers[m] \subseteq peers'[m]
    BY <1>0, <1>1 DEF TypeOK
  <1>4. msgs' \subseteq Messages
    BY <1>0, <1>1, <1>2, MessageTypes DEF TypeOK
  <1>5. TypeOK'
    BY <1>0, <1>1, <1>3, <1>4 DEF TypeOK
  <1>6. LookupNeverOvershoots'
    BY <1>0, <1>1 DEF LookupNeverOvershoots
  <1>7. ThreadInv(n, t)'
    BY <1>0, <1>1, <1>3 DEF ThreadInv, InFindSuccessor
  <1>8. RequestInv'
    <2> DEFINE q == Request(n, to, r, s.id)
    <2>1. q.type = "FindSuccessor" /\ q.dst = to /\ q.req = r /\ q.id = s.id
      BY <1>2, MessageTypes
    <2> HIDE DEF q
    <2>2. msgs' = msgs \cup {q}
      BY <1>1 DEF q
    <2>3. \A x \in msgs : x.type # "Notify" => x.req # r
      BY <1>1 DEF Used
    <2>4. \A p \in Nodes, v \in Threads : thread[p][v].req # r /\ thread[p][v].back # r
      BY <1>1 DEF Used
    <2>5. \A m \in Nodes, u \in Threads : (m = n /\ u = t) \/ thread'[m][u] = thread[m][u]
      BY <1>1 DEF Others
    <2>6. \A p \in Nodes : InFindSuccessor(p, "loop")' =>
              /\ InFindSuccessor(p, "loop")
              /\ thread'[p]["loop"].back = thread[p]["loop"].back
              /\ thread'[p]["loop"].id = thread[p]["loop"].id
      BY <1>1, <2>5 DEF InFindSuccessor, Threads
    <2>7. ASSUME NEW m \in Nodes, NEW u \in Threads, thread'[m][u].pc = "wait"
          PROVE  /\ \A x \in msgs' : x.type = "FindSuccessor" /\ x.req = thread'[m][u].req =>
                        x.id = thread'[m][u].id /\ x.dst = thread'[m][u].to
                 /\ \A p \in Nodes :
                        InFindSuccessor(p, "loop")' /\ thread'[p]["loop"].back = thread'[m][u].req =>
                        thread'[p]["loop"].id = thread'[m][u].id /\ p = thread'[m][u].to
                 /\ \A x \in msgs' :
                        x.type = "FindSuccessorResponse" /\ x.req = thread'[m][u].req =>
                            NotPast(m, x.node, thread'[m][u].id)
      <3>1. CASE m = n /\ u = t
        <4>1. \A p \in Nodes : InFindSuccessor(p, "loop")' => thread'[p]["loop"].back # r
          BY <2>4, <2>6 DEF Threads
        <4> QED BY <1>1, <2>1, <2>2, <2>3, <3>1, <4>1
      <3>2. CASE thread'[m][u] = thread[m][u]
        <4>1. thread[m][u].req # r /\ thread[m][u].pc = "wait"
          BY <2>4, <2>7, <3>2
        <4>2. /\ \A x \in msgs : x.type = "FindSuccessor" /\ x.req = thread[m][u].req =>
                     x.id = thread[m][u].id /\ x.dst = thread[m][u].to
              /\ \A p \in Nodes :
                     InFindSuccessor(p, "loop") /\ thread[p]["loop"].back = thread[m][u].req =>
                         thread[p]["loop"].id = thread[m][u].id /\ p = thread[m][u].to
              /\ \A x \in msgs : x.type = "FindSuccessorResponse" /\ x.req = thread[m][u].req =>
                     NotPast(m, x.node, thread[m][u].id)
          BY <1>0, <4>1 DEF RequestInv, Serves
        <4> QED BY <2>1, <2>2, <2>6, <3>2, <4>1, <4>2
      <3> QED BY <2>5, <3>1, <3>2
    <2> QED BY <2>7 DEF RequestInv, Serves
  <1> QED BY <1>1, <1>3, <1>5, <1>6, <1>7, <1>8, ThreadsKept DEF LookupInv


\* Does a message that was not there before hold an answer that is good for all
\* who wait for it?
NewMessages ==
    \A m \in msgs' : m \in msgs \/ m.type = "Notify" \/
        /\ m.type = "FindSuccessorResponse"
        /\ \A n \in Nodes, t \in Threads :
               thread[n][t].pc = "wait" /\ thread[n][t].req = m.req => NotPast(n, m.node, thread[n][t].id)

\* A thread leaves FindSuccessor, or does something else altogether.
LEMMA InvLeaves ==
    ASSUME LookupInv, NEW n \in Nodes, NEW t \in Threads, Others(n, t),
           thread'[n][t].pc \in {"idle", "wlock"},
           TypeOK', LookupNeverOvershoots', ThreadInv(n, t)', NewMessages,
           \A m \in Nodes : peers[m] \subseteq peers'[m]
    PROVE  LookupInv'
  <1>1. \A m \in Nodes, u \in Threads : (m = n /\ u = t) \/ thread'[m][u] = thread[m][u]
    BY DEF Others
  <1>2. \A m \in Nodes, u \in Threads :
            thread'[m][u].pc = "wait" => thread'[m][u] = thread[m][u]
    BY <1>1
  <1>3. \A p \in Nodes :
            \/ ~ InFindSuccessor(p, "loop")'
            \/ /\ InFindSuccessor(p, "loop")
               /\ thread'[p]["loop"].back = thread[p]["loop"].back
               /\ thread'[p]["loop"].id = thread[p]["loop"].id
    BY <1>1 DEF InFindSuccessor, Threads
  <1>4. RequestInv'
    BY <1>2, <1>3, RequestsKept DEF LookupInv, NewMessages
  <1> QED BY <1>4, ThreadsKept DEF LookupInv

\* A lookup starts.
LEMMA InvStarts ==
    ASSUME LookupInv, NEW n \in Nodes, NEW t \in Threads, NEW id, NEW slot, NEW back,
           Starts(n, t, id, slot, back), msgs' \subseteq msgs,
           UNCHANGED <<fingers, peers, found>>,
           t = "loop" => \E m \in msgs : /\ m.type = "FindSuccessor" /\ m.dst = n
                                        /\ m.req = back /\ m.id = id,
           t = "finger" => id = fingerID(n, slot)
    PROVE  LookupInv'
  <1>0. TypeOK /\ LookupNeverOvershoots /\ RequestInv /\ (\A x \in msgs : x \in Messages)
    BY DEF LookupInv, TypeOK
  <1>1. /\ thread' \in [Nodes -> [Threads -> ThreadStates]] /\ Others(n, t)
        /\ thread'[n][t].pc = "rlock" /\ thread'[n][t].id = id
        /\ thread'[n][t].slot = slot /\ thread'[n][t].back = back
    BY DEF Starts
  <1>2. \A m \in Nodes, u \in Threads : (m = n /\ u = t) \/ thread'[m][u] = thread[m][u]
    BY <1>1 DEF Others
  <1>3. TypeOK'
    BY <1>0, <1>1 DEF TypeOK
  <1>4. LookupNeverOvershoots'
    BY <1>0 DEF LookupNeverOvershoots
  <1>5. t = "loop" => back \in Reqs
    BY <1>0, MessageTypes
  <1>6. ThreadInv(n, t)'
    BY <1>1, <1>5 DEF ThreadInv, InFindSuccessor
  <1>7. \A m \in Nodes, u \in Threads :
            thread'[m][u].pc = "wait" => thread'[m][u] = thread[m][u]
    BY <1>1, <1>2
  <1>8. ASSUME NEW p \in Nodes
        PROVE  \/ ~ InFindSuccessor(p, "loop")'
               \/ /\ InFindSuccessor(p, "loop")
                  /\ thread'[p]["loop"].back = thread[p]["loop"].back
                  /\ thread'[p]["loop"].id = thread[p]["loop"].id
               \/ \E m \in msgs : /\ m.type = "FindSuccessor" /\ m.dst = p
                                  /\ m.req = thread'[p]["loop"].back
                                  /\ m.id = thread'[p]["loop"].id
    <2>1. CASE p = n /\ t = "loop"
      BY <1>1, <2>1
    <2>2. CASE thread'[p]["loop"] = thread[p]["loop"]
      BY <2>2 DEF InFindSuccessor
    <2> QED BY <1>2, <2>1, <2>2 DEF Threads
  <1>9. RequestInv'
    BY <1>0, <1>7, <1>8, RequestsKept
  <1> QED BY <1>1, <1>3, <1>4, <1>6, <1>9, ThreadsKept DEF LookupInv

\* A thread gives up, or lets the write lock go; a finger may be set.
LEMMA InvStops ==
    ASSUME LookupInv, NEW n \in Nodes, NEW t \in Threads, Stops(n, t), msgs' \subseteq msgs,
           UNCHANGED <<peers, found>>,
           fingers' \in [Nodes -> [Slots -> Nodes \cup {Nil}]], LookupNeverOvershoots'
    PROVE  LookupInv'
  <1>1. /\ thread' \in [Nodes -> [Threads -> ThreadStates]] /\ Others(n, t)
        /\ thread'[n][t].pc = "idle"
    BY IdleState DEF Stops
  <1>2. TypeOK /\ NewMessages
    BY DEF LookupInv, NewMessages
  <1>3. TypeOK'
    BY <1>1, <1>2 DEF TypeOK
  <1>4. ThreadInv(n, t)'
    BY <1>1 DEF ThreadInv, InFindSuccessor
  <1> QED BY <1>1, <1>2, <1>3, <1>4, InvLeaves

\* FindSuccessor returns.
LEMMA InvFinish ==
    ASSUME LookupInv, NEW n \in Nodes, NEW t \in Threads, NEW v \in Nodes,
           InFindSuccessor(n, t), NotPast(n, v, thread[n][t].id),
           Finish(n, t, v, msgs), UNCHANGED fingers
    PROVE  LookupInv'
  <1> DEFINE s == thread[n][t]
  <1>0. TypeOK /\ LookupNeverOvershoots /\ RequestInv /\ ThreadInv(n, t)
    BY DEF LookupInv
  <1>1. s \in ThreadStates /\ s.id \in Ids /\ s.slot \in Slots
    BY <1>0 DEF TypeOK, ThreadStates
  <1>2. CASE t = "loop"
    <2> DEFINE q == Response(s.back, v)
    <2>1. /\ thread' = [thread EXCEPT ![n][t] = Idle]
          /\ msgs' = msgs \cup {q}
          /\ peers' = [peers EXCEPT ![n] = @ \cup {s.back[1]}]
          /\ UNCHANGED found
      BY <1>2 DEF Finish
    <2>2. Stops(n, t)
      BY <1>0, <2>1, StopStep
    <2>3. /\ thread' \in [Nodes -> [Threads -> ThreadStates]] /\ Others(n, t)
          /\ thread'[n][t].pc = "idle"
      BY <2>2, IdleState DEF Stops
    <2>4. s.back \in Reqs
      BY <1>0, <1>2 DEF ThreadInv
    <2>5. /\ q \in Messages /\ s.back[1] \in Nodes /\ q.type = "FindSuccessorResponse"
          /\ q.req = s.back /\ q.node = v
      BY <2>4, MessageTypes
    <2> HIDE DEF q
    <2>6. /\ peers' \in [Nodes -> SUBSET Nodes]
          /\ \A m \in Nodes : peers[m] \subseteq peers'[m]
      BY <1>0, <2>1, <2>5 DEF TypeOK
    <2>7. TypeOK'
      BY <1>0, <2>1, <2>3, <2>5, <2>6 DEF TypeOK
    <2>8. LookupNeverOvershoots'
      BY <1>0, <2>1 DEF LookupNeverOvershoots
    <2>9. ThreadInv(n, t)'
      BY <2>3 DEF ThreadInv, InFindSuccessor
    <2>10. ASSUME NEW m \in Nodes, NEW u \in Threads,
                  thread[m][u].pc = "wait", thread[m][u].req = s.back
           PROVE  NotPast(m, v, thread[m][u].id)
      <3>1. n = thread[m][u].to /\ s.id = thread[m][u].id
        BY <1>0, <1>2, <2>10 DEF RequestInv, Serves
      <3>2. isBetween(n, m, s.id, FALSE)
        BY <2>10, <3>1 DEF LookupInv, ThreadInv
      <3> QED BY <1>1, <3>1, <3>2, ForwardedNotPast
    <2>11. NewMessages
      BY <2>1, <2>5, <2>10 DEF NewMessages
    <2> QED BY <2>3, <2>6, <2>7, <2>8, <2>9, <2>11, InvLeaves
  <1>3. CASE t = "finger"
    <2> DEFINE q == [Idle EXCEPT !.pc = "wlock", !.val = v, !.slot = s.slot]
    <2>1. /\ thread' = [thread EXCEPT ![n][t] = q]
          /\ UNCHANGED <<peers, found, msgs>>
      BY <1>3 DEF Finish
    <2>2. q \in ThreadStates /\ q.pc = "wlock" /\ q.val = v /\ q.slot = s.slot
      BY <1>1, Circle DEF Idle, ThreadStates
    <2> HIDE DEF q
    <2>3. thread' \in [Nodes -> [Threads -> ThreadStates]] /\ Others(n, t) /\ thread'[n][t] = q
      BY <1>0, <2>1, <2>2 DEF TypeOK, Others
    <2>4. TypeOK'
      BY <1>0, <2>1, <2>3 DEF TypeOK
    <2>5. LookupNeverOvershoots'
      BY <1>0, <2>1 DEF LookupNeverOvershoots
    <2>6. s.id = fingerID(n, s.slot)
      BY <1>0, <1>3 DEF ThreadInv
    <2>7. ThreadInv(n, t)'
      BY <1>3, <2>2, <2>3, <2>6 DEF ThreadInv, InFindSuccessor
    <2>8. NewMessages
      BY <2>1 DEF NewMessages
    <2> QED BY <2>1, <2>2, <2>3, <2>4, <2>5, <2>7, <2>8, InvLeaves
  <1>4. CASE t = "client"
    <2>1. /\ thread' = [thread EXCEPT ![n][t] = Idle]
          /\ found' = [found EXCEPT ![n] = [id |-> s.id, val |-> v]]
          /\ UNCHANGED <<peers, msgs>>
      BY <1>4 DEF Finish
    <2>2. Stops(n, t)
      BY <1>0, <2>1, StopStep
    <2>3. /\ thread' \in [Nodes -> [Threads -> ThreadStates]] /\ Others(n, t)
          /\ thread'[n][t].pc = "idle"
      BY <2>2, IdleState DEF Stops
    <2>4. /\ found' \in [Nodes -> [id : Ids, val : Nodes \cup {Nil}]]
          /\ found'[n].id = s.id /\ found'[n].val = v
          /\ \A m \in Nodes \ {n} : found'[m] = found[m]
      BY <1>0, <1>1, <2>1 DEF TypeOK
    <2>5. TypeOK'
      BY <1>0, <2>1, <2>3, <2>4 DEF TypeOK
    <2>6. LookupNeverOvershoots'
      BY <1>0, <2>4 DEF LookupNeverOvershoots
    <2>7. ThreadInv(n, t)'
      BY <2>3 DEF ThreadInv, InFindSuccessor
    <2>8. NewMessages
      BY <2>1 DEF NewMessages
    <2> QED BY <2>1, <2>3, <2>5, <2>6, <2>7, <2>8, InvLeaves
  <1> QED BY <1>2, <1>3, <1>4 DEF Threads


-----------------------------------------------------------------------------
(* The steps.                                                               *)

\* FindSuccessor up to an answer or a request.
LEMMA InvFindSuccessor ==
    ASSUME LookupInv, NEW n \in Nodes, NEW t \in Threads, FindSuccessor(n, t)
    PROVE  LookupInv'
  <1> DEFINE id == thread[n][t].id
             p == closestPrecedingNode(n, id)
  <1>1. TypeOK /\ id \in Ids /\ InFindSuccessor(n, t)
    BY DEF LookupInv, TypeOK, ThreadStates, FindSuccessor, InFindSuccessor
  <1>2. CASE AnswersItself(n, id)
    <2>1. Finish(n, t, successor[n], msgs) /\ UNCHANGED fingers
      BY <1>2 DEF FindSuccessor
    <2>2. successor[n] \in Nodes /\ NotPast(n, successor[n], id)
      BY <1>1, SuccessorIsNext, SuccessorNotPast
    <2> QED BY <1>1, <2>1, <2>2, InvFinish
  <1>3. CASE ~ AnswersItself(n, id)
    <2>1. Ask(n, t, p) /\ UNCHANGED fingers
      BY <1>3 DEF FindSuccessor
    <2>2. p # n
      BY <1>3 DEF AnswersItself
    <2>3. p \in Nodes /\ isBetween(p, n, id, FALSE)
      BY <1>1, <2>2, ClosestIsBetween
    <2> HIDE DEF p
    <2>4. PICK r \in Reqs : Asked(n, t, p, r)
      BY <1>1, <2>1, <2>3, AskStep
    <2> QED BY <1>1, <2>3, <2>4, InvAsked
  <1> QED BY <1>2, <1>3

\* The answer is there.
LEMMA InvReturn ==
    ASSUME LookupInv, NEW n \in Nodes, NEW t \in Threads, Return(n, t)
    PROVE  LookupInv'
  <1>1. /\ thread[n][t].pc = "got"
        /\ Finish(n, t, thread[n][t].val, msgs) /\ UNCHANGED fingers
    BY DEF Return
  <1>2. ThreadInv(n, t)
    BY DEF LookupInv
  <1>3. thread[n][t].val \in Nodes /\ NotPast(n, thread[n][t].val, thread[n][t].id)
    BY <1>1, <1>2 DEF ThreadInv
  <1> QED BY <1>1, <1>3, InvFinish DEF InFindSuccessor

\* The timer: once more, or an error.
LEMMA InvTimeout ==
    ASSUME LookupInv, NEW n \in Nodes, NEW t \in Threads, Timeout(n, t)
    PROVE  LookupInv'
  <1> DEFINE to == thread[n][t].to
  <1>1. /\ TypeOK /\ LookupNeverOvershoots /\ InFindSuccessor(n, t)
        /\ to \in peers[n] /\ isBetween(to, n, thread[n][t].id, FALSE)
    BY DEF LookupInv, ThreadInv, Timeout, HoldsRead, InFindSuccessor
  <1>2. to \in Nodes /\ UNCHANGED fingers
    BY <1>1 DEF TypeOK, Timeout
  <1>3. CASE thread[n][t].direct
    <2>1. Ask(n, t, to)
      BY <1>3 DEF Timeout
    <2>2. PICK r \in Reqs : Asked(n, t, to, r)
      BY <1>1, <1>2, <2>1, AskStep
    <2> QED BY <1>1, <1>2, <2>2, InvAsked
  <1>4. CASE ~ thread[n][t].direct
    <2>1. thread' = [thread EXCEPT ![n][t] = Idle] /\ UNCHANGED <<peers, msgs, found>>
      BY <1>4 DEF Timeout
    <2>2. Stops(n, t)
      BY <1>1, <2>1, StopStep
    <2>3. fingers' \in [Nodes -> [Slots -> Nodes \cup {Nil}]] /\ LookupNeverOvershoots'
      BY <1>1, <1>2, <2>1 DEF TypeOK, LookupNeverOvershoots
    <2> QED BY <2>1, <2>2, <2>3, InvStops
  <1> QED BY <1>3, <1>4

\* A finger is looked up.
LEMMA InvFixFinger ==
    ASSUME LookupInv, NEW n \in Nodes, NEW i \in Slots, fixFinger(n, i)
    PROVE  LookupInv'
  <1> DEFINE q == [Idle EXCEPT !.pc = "rlock", !.id = fingerID(n, i), !.slot = i]
  <1>1. thread' = [thread EXCEPT ![n]["finger"] = q] /\ UNCHANGED <<fingers, peers, msgs, found>>
    BY DEF fixFinger
  <1>2. fingerID(n, i) \in Ids
    BY FingerStart
  <1>3. q \in ThreadStates /\ q.pc = "rlock" /\ q.id = fingerID(n, i) /\ q.slot = i
    BY <1>2, Circle DEF Idle, ThreadStates
  <1> HIDE DEF q
  <1>4. Starts(n, "finger", q.id, q.slot, q.back)
    BY <1>1, <1>3, StartStep DEF LookupInv, Threads
  <1> QED BY <1>1, <1>3, <1>4, InvStarts DEF Threads

\* A finger is set.
LEMMA InvSetFinger ==
    ASSUME LookupInv, NEW n \in Nodes, SetFinger(n)
    PROVE  LookupInv'
  <1> DEFINE s == thread[n]["finger"]
  <1>1. /\ s.pc = "wlock"
        /\ fingers' = [fingers EXCEPT ![n][s.slot] = s.val]
        /\ thread' = [thread EXCEPT ![n]["finger"] = Idle]
        /\ UNCHANGED <<peers, msgs, found>>
    BY DEF SetFinger
  <1>2. TypeOK /\ LookupNeverOvershoots /\ ThreadInv(n, "finger") /\ s \in ThreadStates
    BY DEF LookupInv, TypeOK, Threads
  <1>3. s.slot \in Slots /\ s.val \in Nodes /\ NotPast(n, s.val, fingerID(n, s.slot))
    BY <1>1, <1>2 DEF ThreadInv, ThreadStates
  <1> HIDE DEF s
  <1>4. /\ fingers' \in [Nodes -> [Slots -> Nodes \cup {Nil}]]
        /\ fingers'[n][s.slot] = s.val
        /\ \A m \in Nodes, i \in Slots :
               (m = n /\ i = s.slot) \/ fingers'[m][i] = fingers[m][i]
    BY <1>1, <1>2, <1>3 DEF TypeOK
  <1>5. LookupNeverOvershoots'
    BY <1>1, <1>2, <1>3, <1>4 DEF LookupNeverOvershoots
  <1>6. Stops(n, "finger")
    BY <1>1, <1>2, StopStep DEF Threads
  <1> QED BY <1>1, <1>4, <1>5, <1>6, InvStops DEF Threads

\* A client's lookup.
LEMMA InvClientLookup ==
    ASSUME LookupInv, NEW n \in Nodes, NEW id \in Keys, ClientLookup(n, id)
    PROVE  LookupInv'
  <1> DEFINE q == [Idle EXCEPT !.pc = "rlock", !.id = id]
  <1>1. thread' = [thread EXCEPT ![n]["client"] = q] /\ UNCHANGED <<fingers, peers, msgs, found>>
    BY DEF ClientLookup
  <1>2. q \in ThreadStates /\ q.pc = "rlock"
    BY Circle, RolesAssumption DEF Idle, ThreadStates
  <1> HIDE DEF q
  <1>3. Starts(n, "client", q.id, q.slot, q.back)
    BY <1>1, <1>2, StartStep DEF LookupInv, Threads
  <1> QED BY <1>1, <1>3, InvStarts DEF Threads

\* The event loop takes a request.
LEMMA InvRequest ==
    ASSUME LookupInv, NEW m \in msgs, handleMessageFindSuccessor(m)
    PROVE  LookupInv'
  <1> DEFINE q == [Idle EXCEPT !.pc = "rlock", !.id = m.id, !.back = m.req]
  <1>1. /\ m.type = "FindSuccessor"
        /\ thread' = [thread EXCEPT ![m.dst]["loop"] = q]
        /\ msgs' \subseteq msgs /\ UNCHANGED <<fingers, peers, found>>
    BY DEF handleMessageFindSuccessor, LoopTakes
  <1>2. m.dst \in Nodes /\ m.req \in Reqs /\ m.id \in Ids
    BY <1>1, MessageTypes DEF LookupInv, TypeOK
  <1>3. q \in ThreadStates /\ q.pc = "rlock" /\ q.id = m.id /\ q.back = m.req
    BY <1>2, Circle DEF Idle, ThreadStates
  <1> HIDE DEF q
  <1>4. Starts(m.dst, "loop", q.id, q.slot, q.back)
    BY <1>1, <1>2, <1>3, StartStep DEF LookupInv, Threads
  <1> QED BY <1>1, <1>2, <1>3, <1>4, InvStarts DEF Threads

\* The event loop takes an answer: it is good for whoever waits for it.
LEMMA InvResponse ==
    ASSUME LookupInv, NEW m \in msgs, handleMessageFindSuccessorResponse(m)
    PROVE  LookupInv'
  <1> DEFINE n == m.dst
             f == [t \in Threads |-> IF Waits(n, t, m.req)
                                     THEN [thread[n][t] EXCEPT !.pc = "got", !.val = m.node]
                                     ELSE thread[n][t]]
  <1>0. TypeOK /\ LookupNeverOvershoots /\ RequestInv
    BY DEF LookupInv
  <1>1. /\ m.type = "FindSuccessorResponse"
        /\ thread' = [thread EXCEPT ![n] = f]
        /\ msgs' \subseteq msgs /\ UNCHANGED <<fingers, peers, found>>
    BY DEF handleMessageFindSuccessorResponse, LoopTakes
  <1>2. n \in Nodes /\ m.node \in Nodes
    BY <1>0, <1>1, MessageTypes DEF TypeOK
  <1>3. ASSUME NEW t \in Threads
        PROVE  /\ f[t] \in ThreadStates
               /\ ~ Waits(n, t, m.req) => f[t] = thread[n][t]
               /\ Waits(n, t, m.req) =>
                      /\ f[t].pc = "got" /\ f[t].val = m.node
                      /\ f[t].id = thread[n][t].id /\ f[t].to = thread[n][t].to
                      /\ f[t].slot = thread[n][t].slot /\ f[t].back = thread[n][t].back
    <2>1. thread[n][t] \in ThreadStates
      BY <1>0, <1>2 DEF TypeOK
    <2>2. CASE Waits(n, t, m.req)
      <3>1. f[t] = [thread[n][t] EXCEPT !.pc = "got", !.val = m.node]
        BY <2>2
      <3> HIDE DEF f
      <3> QED BY <1>2, <2>1, <2>2, <3>1 DEF ThreadStates
    <2>3. CASE ~ Waits(n, t, m.req)
      BY <2>1, <2>3
    <2> QED BY <2>2, <2>3
  <1>4. f \in [Threads -> ThreadStates]
    <2>1. \A t \in Threads : f[t] \in ThreadStates BY <1>3
    <2>2. f = [t \in Threads |-> f[t]] OBVIOUS
    <2> HIDE DEF f
    <2> QED BY <2>1, <2>2
  <1> HIDE DEF f
  <1>5. /\ thread' \in [Nodes -> [Threads -> ThreadStates]]
        /\ thread'[n] = f
        /\ \A k \in Nodes \ {n} : thread'[k] = thread[k]
    BY <1>0, <1>1, <1>2, <1>4 DEF TypeOK
  <1>6. TypeOK'
    BY <1>0, <1>1, <1>5 DEF TypeOK
  <1>7. LookupNeverOvershoots'
    BY <1>0, <1>1 DEF LookupNeverOvershoots
  <1>8. ASSUME NEW k \in Nodes, NEW t \in Threads
        PROVE  \/ thread'[k][t] = thread[k][t]
               \/ k = n /\ Waits(n, t, m.req) /\ thread'[k][t] = f[t]
    BY <1>3, <1>5, <1>8
  <1>9. ASSUME NEW k \in Nodes, NEW t \in Threads
        PROVE  ThreadInv(k, t)'
    <2>1. ThreadInv(k, t)
      BY DEF LookupInv
    <2>2. CASE thread'[k][t] = thread[k][t]
      BY <1>1, <2>1, <2>2 DEF ThreadInv, InFindSuccessor
    <2>3. CASE k = n /\ Waits(n, t, m.req) /\ thread'[k][t] = f[t]
      <3>1. NotPast(n, m.node, thread[n][t].id)
        BY <1>0, <1>1, <1>2, <2>3 DEF RequestInv, Waits
      <3>2. /\ f[t].pc = "got" /\ f[t].val = m.node
            /\ f[t].id = thread[n][t].id /\ f[t].to = thread[n][t].to
            /\ f[t].slot = thread[n][t].slot /\ f[t].back = thread[n][t].back
        BY <1>3, <2>3
      <3> QED BY <1>1, <1>2, <2>1, <2>3, <3>1, <3>2 DEF ThreadInv, InFindSuccessor, Waits
    <2> QED BY <1>8, <2>2, <2>3
  <1>10. RequestInv'
    <2>1. \A k \in Nodes, t \in Threads : thread'[k][t].pc = "wait" => thread'[k][t] = thread[k][t]
      BY <1>3, <1>8
    <2>2. ASSUME NEW p \in Nodes, InFindSuccessor(p, "loop")'
          PROVE  /\ InFindSuccessor(p, "loop")
                 /\ thread'[p]["loop"].back = thread[p]["loop"].back
                 /\ thread'[p]["loop"].id = thread[p]["loop"].id
      <3>1. CASE thread'[p]["loop"] = thread[p]["loop"]
        BY <2>2, <3>1 DEF InFindSuccessor
      <3>2. CASE p = n /\ Waits(n, "loop", m.req) /\ thread'[p]["loop"] = f["loop"]
        BY <1>3, <3>2 DEF InFindSuccessor, Waits, Threads
      <3> QED BY <1>8, <3>1, <3>2 DEF Threads
    <2> QED BY <1>0, <1>1, <2>1, <2>2, RequestsKept
  <1> QED BY <1>6, <1>7, <1>9, <1>10 DEF LookupInv

\* The event loop goes for the write lock of notify.
LEMMA InvNotifyMessage ==
    ASSUME LookupInv, NEW m \in msgs, handleMessageNotify(m)
    PROVE  LookupInv'
  <1>0. TypeOK /\ LookupNeverOvershoots /\ m.dst \in Nodes
    BY MessageTypes DEF LookupInv, TypeOK
  <1>1. /\ thread' = [thread EXCEPT ![m.dst]["loop"].pc = "wlock"]
        /\ msgs' \subseteq msgs /\ UNCHANGED <<fingers, peers, found>>
    BY DEF handleMessageNotify, LoopTakes
  <1> DEFINE q == [thread[m.dst]["loop"] EXCEPT !.pc = "wlock"]
  <1>q. q \in ThreadStates /\ q.pc = "wlock"
    <2>1. thread[m.dst]["loop"] \in ThreadStates
      BY <1>0 DEF TypeOK, Threads
    <2> QED BY <2>1 DEF ThreadStates
  <1>e. thread' = [thread EXCEPT ![m.dst]["loop"] = q]
    BY <1>1
  <1> HIDE DEF q
  <1>2. /\ thread' \in [Nodes -> [Threads -> ThreadStates]]
        /\ thread'[m.dst]["loop"].pc = "wlock"
        /\ Others(m.dst, "loop")
    BY <1>0, <1>q, <1>e DEF TypeOK, Threads, Others
  <1>3. TypeOK'
    BY <1>0, <1>1, <1>2 DEF TypeOK
  <1>4. LookupNeverOvershoots'
    BY <1>0, <1>1 DEF LookupNeverOvershoots
  <1>5. ThreadInv(m.dst, "loop")'
    BY <1>2 DEF ThreadInv, InFindSuccessor
  <1>6. NewMessages
    BY <1>1 DEF NewMessages
  <1> QED BY <1>0, <1>1, <1>2, <1>3, <1>4, <1>5, <1>6, InvLeaves DEF Threads

\* notify.
LEMMA InvNotify ==
    ASSUME LookupInv, NEW n \in Nodes, notify(n)
    PROVE  LookupInv'
  <1>1. /\ thread' = [thread EXCEPT ![n]["loop"] = Idle]
        /\ UNCHANGED <<fingers, peers, msgs, found>>
    BY DEF notify
  <1>2. TypeOK /\ LookupNeverOvershoots
    BY DEF LookupInv
  <1>3. Stops(n, "loop")
    BY <1>1, <1>2, StopStep DEF Threads
  <1>4. fingers' \in [Nodes -> [Slots -> Nodes \cup {Nil}]] /\ LookupNeverOvershoots'
    BY <1>1, <1>2 DEF TypeOK, LookupNeverOvershoots
  <1> QED BY <1>1, <1>3, <1>4, InvStops DEF Threads

\* A notification is sent.
LEMMA InvStabilizeNotify ==
    ASSUME LookupInv, NEW n \in Nodes, StabilizeNotify(n)
    PROVE  LookupInv'
  <1>1. msgs' = msgs \cup {NotifyMsg(n)} /\ UNCHANGED <<fingers, peers, thread, found>>
    BY DEF StabilizeNotify
  <1>2. TypeOK /\ LookupNeverOvershoots /\ RequestInv
    BY DEF LookupInv
  <1>3. NotifyMsg(n) \in Messages /\ NotifyMsg(n).type = "Notify"
    BY MessageTypes
  <1>4. TypeOK'
    BY <1>1, <1>2, <1>3 DEF TypeOK
  <1>5. LookupNeverOvershoots'
    BY <1>1, <1>2 DEF LookupNeverOvershoots
  <1>6. RequestInv'
    BY <1>1, <1>2, <1>3, RequestsKept DEF InFindSuccessor
  <1>7. ASSUME NEW m \in Nodes, NEW t \in Threads PROVE ThreadInv(m, t)'
    <2>1. ThreadInv(m, t)
      BY DEF LookupInv
    <2> QED BY <1>1, <2>1 DEF ThreadInv, InFindSuccessor
  <1> QED BY <1>4, <1>5, <1>6, <1>7 DEF LookupInv

\* Nothing happens.
LEMMA InvStutters == LookupInv /\ UNCHANGED vars => LookupInv'
  <1> SUFFICES ASSUME LookupInv, UNCHANGED vars PROVE LookupInv'
    OBVIOUS
  <1>1. UNCHANGED <<fingers, peers, thread, msgs, found>>
    BY DEF vars
  <1>2. TypeOK' /\ LookupNeverOvershoots'
    BY <1>1 DEF LookupInv, TypeOK, LookupNeverOvershoots
  <1>3. RequestInv'
    BY <1>1, RequestsKept DEF LookupInv, InFindSuccessor
  <1>4. ASSUME NEW m \in Nodes, NEW t \in Threads PROVE ThreadInv(m, t)'
    <2>1. ThreadInv(m, t)
      BY DEF LookupInv
    <2> QED BY <1>1, <2>1 DEF ThreadInv, InFindSuccessor
  <1> QED BY <1>2, <1>3, <1>4 DEF LookupInv

\* The initial states satisfy the invariant.
LEMMA LookupInit == Init => LookupInv
  <1> SUFFICES ASSUME Init PROVE LookupInv
    OBVIOUS
  <1>1. \A n \in Nodes : successor[n] \in Nodes
    BY SuccessorIsNext
  <1>2. \A n \in Nodes, t \in Threads : thread[n][t] = Idle /\ thread[n][t].pc = "idle"
    BY IdleState DEF Init
  <1>3. thread \in [Nodes -> [Threads -> ThreadStates]]
    BY IdleState DEF Init
  <1>4. \A n \in Nodes : found[n] = [id |-> 0, val |-> Nil]
    BY DEF Init
  <1>5. \A n \in Nodes, i \in Slots : fingers[n][i] \in {n, Nil}
    BY DEF Init
  <1>6. TypeOK
    <2>1. fingers \in [Nodes -> [Slots -> Nodes \cup {Nil}]]
      BY DEF Init
    <2>2. peers \in [Nodes -> SUBSET Nodes]
      BY <1>1 DEF Init
    <2>3. found \in [Nodes -> [id : Ids, val : Nodes \cup {Nil}]]
      BY Circle DEF Init
    <2>4. msgs \subseteq Messages
      BY DEF Init
    <2> QED BY <1>3, <2>1, <2>2, <2>3, <2>4 DEF TypeOK
  <1>7. LookupNeverOvershoots
    BY <1>4, <1>5 DEF LookupNeverOvershoots
  <1>8. RequestInv /\ \A n \in Nodes, t \in Threads : ThreadInv(n, t)
    BY <1>2 DEF RequestInv, ThreadInv, InFindSuccessor
  <1> QED BY <1>6, <1>7, <1>8 DEF LookupInv

\* Every step keeps the invariant.
LEMMA LookupStep == LookupInv /\ [Next]_vars => LookupInv'
  BY InvFindSuccessor, InvReturn, InvTimeout, InvFixFinger, InvSetFinger, InvClientLookup,
     InvStabilizeNotify, InvRequest, InvResponse, InvNotifyMessage, InvNotify, InvStutters
  DEF Next

\* The invariant holds in every behaviour.
LEMMA LookupInvariant == Spec => []LookupInv
  BY LookupInit, LookupStep, PTL DEF Spec


-----------------------------------------------------------------------------
(* A node that waits for itself.                                            *)

\* FindSuccessor and its end change the state of the thread that calls it only.
LEMMA OnlyTheCaller ==
    ASSUME TypeOK, NEW n \in Nodes, NEW t \in Threads,
           FindSuccessor(n, t) \/ Return(n, t)
    PROVE  Others(n, t)
  <1>1. ASSUME NEW v, Finish(n, t, v, msgs) PROVE Others(n, t)
    <2>1. PICK q : thread' = [thread EXCEPT ![n][t] = q]
      BY <1>1 DEF Finish, Threads
    <2> QED BY <2>1 DEF Others, TypeOK
  <1>2. ASSUME NEW to, Ask(n, t, to) PROVE Others(n, t)
    <2>1. PICK q : thread' = [thread EXCEPT ![n][t] = q]
      BY <1>2 DEF Ask
    <2> QED BY <2>1 DEF Others, TypeOK
  <1> QED BY <1>1, <1>2 DEF FindSuccessor, Return

\* While the event loop of n is busy and a thread of n holds the read lock, a
\* thread of n moves only where it was idle, had its answer, got the read lock,
\* or was woken by its timer; and a timer that asks again leaves it waiting as
\* before.
LEMMA BusyLoop ==
    ASSUME LookupInv, [Next]_vars, NEW n \in Nodes, NEW u \in Threads,
           thread[n]["loop"].pc # "idle", NEW h \in Threads, HoldsRead(n, h)
    PROVE  \/ thread'[n][u] = thread[n][u]
           \/ thread[n][u].pc \in {"idle", "got"}
           \/ thread[n][u].pc = "rlock" /\ ReadFree(n)
           \/ thread[n][u].pc = "wait" /\ (thread[n][u].direct => NeedsAnswer(n, u)')
  <1> DEFINE G == \/ thread'[n][u] = thread[n][u]
                  \/ thread[n][u].pc \in {"idle", "got"}
                  \/ thread[n][u].pc = "rlock" /\ ReadFree(n)
                  \/ thread[n][u].pc = "wait" /\ (thread[n][u].direct => NeedsAnswer(n, u)')
  <1>0. TypeOK /\ ~ WriteFree(n) /\ "loop" \in Threads /\ "finger" \in Threads
        /\ "client" \in Threads
    BY DEF LookupInv, WriteFree, Threads
  <1>1. ASSUME NEW k \in Nodes, NEW t \in Threads, Others(k, t), ~ (k = n /\ t = u) PROVE G
    BY <1>1 DEF Others
  <1>2. ASSUME NEW k \in Nodes, NEW t \in Threads, FindSuccessor(k, t) PROVE G
    <2>1. CASE k = n /\ t = u
      BY <1>2, <2>1 DEF FindSuccessor
    <2> QED BY <1>0, <1>1, <1>2, <2>1, OnlyTheCaller
  <1>3. ASSUME NEW k \in Nodes, NEW t \in Threads, Return(k, t) PROVE G
    <2>1. CASE k = n /\ t = u
      BY <1>3, <2>1 DEF Return
    <2> QED BY <1>0, <1>1, <1>3, <2>1, OnlyTheCaller
  <1>4. ASSUME NEW k \in Nodes, NEW t \in Threads, Timeout(k, t) PROVE G
    <2> DEFINE to == thread[k][t].to
    <2>1. to \in peers[k] /\ to \in Nodes /\ thread[k][t].pc \in {"wait", "got"}
      BY <1>0, <1>4 DEF LookupInv, ThreadInv, Timeout, HoldsRead, TypeOK
    <2>2. CASE thread[k][t].direct
      <3>1. Ask(k, t, to) /\ UNCHANGED fingers
        BY <1>4, <2>2 DEF Timeout
      <3>2. PICK r \in Reqs : Asked(k, t, to, r)
        BY <1>0, <2>1, <3>1, AskStep
      <3>3. Others(k, t) /\ NeedsAnswer(k, t)'
        BY <2>1, <3>2 DEF Asked, NeedsAnswer
      <3>4. CASE k = n /\ t = u
        BY <2>1, <3>3, <3>4
      <3> QED BY <1>1, <3>3, <3>4
    <2>3. CASE ~ thread[k][t].direct
      <3>1. thread' = [thread EXCEPT ![k][t] = Idle]
        BY <1>4, <2>3 DEF Timeout
      <3>2. Others(k, t)
        BY <1>0, <3>1, StopStep DEF Stops
      <3>3. CASE k = n /\ t = u
        BY <2>1, <2>3, <3>3
      <3> QED BY <1>1, <3>2, <3>3
    <2> QED BY <2>2, <2>3
  <1>5. ASSUME NEW k \in Nodes, NEW i \in Slots, fixFinger(k, i) PROVE G
    <2>1. thread[k]["finger"].pc = "idle" /\ Others(k, "finger")
      <3>1. PICK q : thread' = [thread EXCEPT ![k]["finger"] = q]
        BY <1>5 DEF fixFinger
      <3> QED BY <1>0, <1>5, <3>1 DEF fixFinger, Others, TypeOK
    <2> QED BY <1>0, <1>1, <2>1
  <1>6. ASSUME NEW k \in Nodes, SetFinger(k) PROVE G
    <2>1. WriteFree(k) /\ Others(k, "finger")
      BY <1>0, <1>6, StopStep DEF SetFinger, Stops
    <2> QED BY <1>0, <1>1, <2>1
  <1>7. ASSUME NEW k \in Nodes, NEW id \in Keys, ClientLookup(k, id) PROVE G
    <2>1. thread[k]["client"].pc = "idle" /\ Others(k, "client")
      <3>1. PICK q : thread' = [thread EXCEPT ![k]["client"] = q]
        BY <1>7 DEF ClientLookup
      <3> QED BY <1>0, <1>7, <3>1 DEF ClientLookup, Others, TypeOK
    <2> QED BY <1>0, <1>1, <2>1
  <1>8. ASSUME NEW k \in Nodes, StabilizeNotify(k) PROVE G
    BY <1>8 DEF StabilizeNotify
  <1>9. ASSUME NEW m \in msgs, \/ handleMessageFindSuccessor(m)
                               \/ handleMessageFindSuccessorResponse(m)
                               \/ handleMessageNotify(m)
        PROVE  G
    <2>1. m.dst # n
      BY <1>9 DEF handleMessageFindSuccessor, handleMessageFindSuccessorResponse,
                  handleMessageNotify, LoopTakes
    <2>2. PICK q : thread' = [thread EXCEPT ![m.dst] = q]
      BY <1>9 DEF handleMessageFindSuccessor, handleMessageFindSuccessorResponse,
                  handleMessageNotify
    <2> QED BY <1>0, <2>1, <2>2 DEF TypeOK
  <1>10. ASSUME NEW k \in Nodes, notify(k) PROVE G
    <2>1. WriteFree(k) /\ Others(k, "loop")
      BY <1>0, <1>10, StopStep DEF notify, Stops
    <2> QED BY <1>0, <1>1, <2>1
  <1>11. CASE UNCHANGED vars
    BY <1>11 DEF vars
  <1>12. CASE Next
    <2>1. CASE \/ \E k \in Nodes, t \in Threads : FindSuccessor(k, t)
               \/ \E k \in Nodes, t \in Threads : Return(k, t)
               \/ \E k \in Nodes, t \in Threads : Timeout(k, t)
      BY <1>2, <1>3, <1>4, <2>1
    <2>2. CASE \/ \E k \in Nodes, i \in Slots : fixFinger(k, i)
               \/ \E k \in Nodes : SetFinger(k)
               \/ \E k \in Nodes, id \in Keys : ClientLookup(k, id)
               \/ \E k \in Nodes : StabilizeNotify(k)
               \/ \E k \in Nodes : notify(k)
      BY <1>5, <1>6, <1>7, <1>8, <1>10, <2>2
    <2>3. CASE \/ \E m \in msgs : handleMessageFindSuccessor(m)
               \/ \E m \in msgs : handleMessageFindSuccessorResponse(m)
               \/ \E m \in msgs : handleMessageNotify(m)
      BY <1>9, <2>3
    <2> QED BY <1>12, <2>1, <2>2, <2>3 DEF Next
  <1>13. G
    BY <1>11, <1>12
  <1> QED BY <1>13

\* Nothing brings such a node back.
LEMMA WedgedStep ==
    ASSUME LookupInv, [Next]_vars, NEW n \in Nodes, Wedged(n)
    PROVE  Wedged(n)'
  <1>0. "loop" \in Threads
    BY DEF Threads
  <1>1. PICK h \in Threads : NeedsAnswer(n, h)
    BY <1>0 DEF Wedged
  <1>2. HoldsRead(n, h) /\ thread[n]["loop"].pc # "idle"
    BY <1>1 DEF Wedged, NeedsAnswer, HoldsRead
  <1>3. \A u \in Threads :
            \/ thread'[n][u] = thread[n][u]
            \/ thread[n][u].pc \in {"idle", "got"}
            \/ thread[n][u].pc = "rlock" /\ ReadFree(n)
            \/ thread[n][u].pc = "wait" /\ (thread[n][u].direct => NeedsAnswer(n, u)')
    BY <1>2, BusyLoop
  <1>4. \A u \in Threads : NeedsAnswer(n, u) => NeedsAnswer(n, u)'
    BY <1>3 DEF NeedsAnswer
  <1>5. CASE NeedsAnswer(n, "loop")
    BY <1>0, <1>4, <1>5 DEF Wedged
  <1>6. CASE thread[n]["loop"].pc = "wlock"
    <2>1. thread'[n]["loop"].pc = "wlock"
      BY <1>0, <1>3, <1>6
    <2> QED BY <1>1, <1>4, <2>1 DEF Wedged
  <1>7. CASE thread[n]["loop"].pc = "rlock" /\ ~ ReadFree(n)
    <2>1. PICK w \in Threads : thread[n][w].pc = "wlock"
      BY <1>7 DEF ReadFree
    <2>2. thread'[n][w].pc = "wlock"
      BY <1>3, <2>1
    <2>3. thread'[n]["loop"].pc = "rlock"
      BY <1>0, <1>3, <1>7
    <2>4. ~ ReadFree(n)'
      BY <2>2 DEF ReadFree
    <2> QED BY <1>1, <1>4, <2>3, <2>4 DEF Wedged
  <1> QED BY <1>5, <1>6, <1>7 DEF Wedged

-----------------------------------------------------------------------------
(* Theorems.                                                                *)

\* The variables of the lookups keep their types, for any ring of any size.
THEOREM LookupTypes == Spec => []TypeOK
  <1>1. LookupInv => TypeOK
    BY DEF LookupInv
  <1> QED BY <1>1, LookupInvariant, PTL

\* FindSuccessor and fixFinger, for any settled ring and any number of lookups,
\* forwarded, retried and answered late: what a node gets never lies past the
\* node responsible for the identifier.
THEOREM LookupsNeverOvershoot == Spec => []LookupNeverOvershoots
  <1>1. LookupInv => LookupNeverOvershoots
    BY DEF LookupInv
  <1> QED BY <1>1, LookupInvariant, PTL

\* Why NoDeadlock matters, of the event loop of a node and ChordNode.mtx: a node whose
\* event loop waits for what only that event loop can bring stays so for ever, whatever
\* timeouts, retries and messages come.
THEOREM WedgedStaysForEver == Spec => [][\A n \in Nodes : Wedged(n) => Wedged(n)']_vars
  <1>1. LookupInv /\ [Next]_vars => [\A n \in Nodes : Wedged(n) => Wedged(n)']_vars
    BY WedgedStep
  <1> QED BY <1>1, LookupInvariant, PTL DEF Spec
================================================================================
