---------------------------- MODULE ChordRingProofs ----------------------------
(***************************************************************************)
(* Proofs about ChordRing: type correctness, and that without crashes the  *)
(* ring stays in one piece (SeedReachable) and in order                    *)
(* (PredecessorLooksNoFurther), and cannot come to rest in a wrong order   *)
(* (AgreementIsOrder), for any number of nodes and any identifier length.  *)
(***************************************************************************)
EXTENDS ChordRing, TLAPS

-----------------------------------------------------------------------------
(* Facts about arcs of the identifier circle.                               *)

\* isBetween is the arc it is meant to be, for identifiers of any length: id lies no
\* further ahead of from than to does, and where the ends do not count, it lies strictly
\* between.  An arc from an identifier to itself is the whole circle if its ends count
\* and nothing if they do not.
THEOREM BetweenIsClockwise ==
  ASSUME NEW id \in Ids, NEW from \in Ids, NEW to \in Ids
  PROVE  /\ isBetween(id, from, to, TRUE) <=>
                from = to \/ Clockwise(from, id) <= Clockwise(from, to)
         /\ isBetween(id, from, to, FALSE) <=>
                id # from /\ Clockwise(from, id) < Clockwise(from, to)
<1>1. 2^Bits \in Int
  BY BitsAssumption
<1>2. \A x \in Ids : x \in Int /\ 0 <= x /\ x < 2^Bits
  BY <1>1 DEF Ids
<1>. QED
  BY <1>1, <1>2 DEF isBetween, Clockwise

\* y lies on the arc from x up to, but without, s.
OnArc(y, x, s) == y = x \/ isBetween(y, x, s, FALSE)

\* A hop from y to z goes forward and not past s.
Forward(y, z, s) == z = s \/ isBetween(z, y, s, FALSE)

\* Identifiers are integers, so the provers may compute with them.
LEMMA IdsAreIntegers == \A n \in Nodes : n \in Int
<1>1. 2^Bits \in Int
  BY BitsAssumption
<1>. QED
  BY <1>1, NodesAssumption DEF Ids

\* Going less far than a forward hop does is forward, too.
LEMMA ShorterHop ==
  ASSUME NEW n \in Int, NEW t \in Int, NEW x \in Int, NEW s \in Int,
         isBetween(x, n, t, FALSE), Forward(n, t, s)
  PROVE  Forward(n, x, s)
BY DEF isBetween, Forward

\* The arc from a node x between n and t up to t does not hold n.
LEMMA ArcSkips ==
  ASSUME NEW n \in Int, NEW t \in Int, NEW x \in Int, NEW y \in Int,
         isBetween(x, n, t, FALSE), OnArc(y, x, t)
  PROVE  y # n
BY DEF isBetween, OnArc

\* That arc is part of any arc on which n hops forward to t.
LEMMA ArcWithin ==
  ASSUME NEW n \in Int, NEW t \in Int, NEW x \in Int, NEW y \in Int,
         NEW a \in Int, NEW s \in Int, a # s,
         isBetween(x, n, t, FALSE), OnArc(y, x, t), OnArc(n, a, s), Forward(n, t, s)
  PROVE  OnArc(y, a, s)
BY DEF isBetween, OnArc, Forward

\* And a hop that is forward on it is forward on the larger one.
LEMMA ForwardWithin ==
  ASSUME NEW n \in Int, NEW t \in Int, NEW x \in Int, NEW y \in Int, NEW z \in Int,
         NEW s \in Int,
         isBetween(x, n, t, FALSE), OnArc(y, x, t), Forward(n, t, s), Forward(y, z, t)
  PROVE  Forward(y, z, s)
BY DEF isBetween, OnArc, Forward
-----------------------------------------------------------------------------
(* Paths.  hop stands for the next hops of all nodes.  x leads to s: no set  *)
(* that contains x and follows the hops which stay on the arc from x to s    *)
(* and do not jump over s leaves s out.                                      *)

Leads(hop, x, s) ==
    \A S \in SUBSET Nodes :
        (x \in S /\ \A y \in S : OnArc(y, x, s) /\ Forward(y, hop[y], s) => hop[y] \in S)
            => s \in S

\* No closed set of members leaves the seed out.
AllReachSeed(hop, members) ==
    \A S \in SUBSET members : S # {} /\ (\A n \in S : hop[n] \in S) => Seed \in S

\* A node leads to where it hops.
LEMMA HopLeads ==
  ASSUME NEW hop \in [Nodes -> Nodes], NEW n \in Nodes
  PROVE  Leads(hop, n, hop[n])
BY DEF Leads, OnArc, Forward

\* A node that hopped to itself may hop anywhere: no path is lost.
LEMMA HopFromSelf ==
  ASSUME NEW hop \in [Nodes -> Nodes], NEW n \in Nodes, hop[n] = n, NEW t \in Nodes,
         NEW a \in Nodes, NEW s \in Nodes, Leads(hop, a, s)
  PROVE  Leads([hop EXCEPT ![n] = t], a, s)
BY DEF Leads

\* What a stabilize round does: n hopped to t and now hops to x, which is on
\* the way and leads to t.  No path is lost: from x to t the hops are the old
\* ones, since n is not on that arc.
LEMMA HopCloser ==
  ASSUME NEW hop \in [Nodes -> Nodes], NEW n \in Nodes, NEW x \in Nodes,
         isBetween(x, n, hop[n], FALSE), Leads(hop, x, hop[n]),
         NEW a \in Nodes, NEW s \in Nodes, a # s, Leads(hop, a, s)
  PROVE  Leads([hop EXCEPT ![n] = x], a, s)
<1>. DEFINE new == [hop EXCEPT ![n] = x]
            t == hop[n]
<1>. SUFFICES ASSUME NEW S \in SUBSET Nodes, a \in S,
                     \A y \in S : OnArc(y, a, s) /\ Forward(y, new[y], s) => new[y] \in S
              PROVE  s \in S
  BY DEF Leads
<1>0. /\ n \in Int /\ x \in Int /\ a \in Int /\ s \in Int /\ t \in Int
      /\ \A y \in S : y \in Int /\ hop[y] \in Int
  BY IdsAreIntegers
<1>1. ASSUME n \in S, OnArc(n, a, s), Forward(n, t, s)
      PROVE  t \in S
  <2>1. x \in S
    <3>1. Forward(n, x, s)
      BY <1>0, <1>1, ShorterHop
    <3>2. new[n] = x
      OBVIOUS
    <3>. QED
      BY <1>1, <3>1, <3>2
  <2>2. ASSUME NEW y \in S, OnArc(y, x, t), Forward(y, hop[y], t)
        PROVE  hop[y] \in S
    <3>1. y # n
      BY <1>0, <2>2, ArcSkips
    <3>2. OnArc(y, a, s)
      BY <1>0, <1>1, <2>2, ArcWithin
    <3>3. Forward(y, hop[y], s)
      BY <1>0, <1>1, <2>2, ForwardWithin
    <3>4. new[y] = hop[y]
      BY <3>1
    <3>. HIDE DEF new
    <3>. QED
      BY <3>2, <3>3, <3>4
  <2>. QED
    BY <2>1, <2>2 DEF Leads
<1>2. ASSUME NEW y \in S, OnArc(y, a, s), Forward(y, hop[y], s)
      PROVE  hop[y] \in S
  <2>1. CASE y = n
    BY <1>1, <1>2, <2>1
  <2>2. CASE y # n
    <3>1. new[y] = hop[y]
      BY <2>2
    <3>. HIDE DEF new
    <3>. QED
      BY <1>2, <3>1
  <2>. QED
    BY <2>1, <2>2
<1>. QED
  BY <1>2 DEF Leads

\* Nor is the seed lost to anyone.
LEMMA HopCloserKeepsSeed ==
  ASSUME NEW hop \in [Nodes -> Nodes], NEW n \in Nodes, NEW x \in Nodes,
         isBetween(x, n, hop[n], FALSE), Leads(hop, x, hop[n]),
         NEW members \in SUBSET Nodes, AllReachSeed(hop, members)
  PROVE  AllReachSeed([hop EXCEPT ![n] = x], members)
<1>. DEFINE new == [hop EXCEPT ![n] = x]
<1>. SUFFICES ASSUME NEW S \in SUBSET members, S # {}, \A y \in S : new[y] \in S
              PROVE  Seed \in S
  BY DEF AllReachSeed
<1>1. ASSUME NEW y \in S, y # n
      PROVE  hop[y] \in S
  BY <1>1
<1>2. ASSUME n \in S
      PROVE  hop[n] \in S
  <2>1. x \in S
    BY <1>2
  <2>2. ASSUME NEW y \in S, OnArc(y, x, hop[n])
        PROVE  y # n
    <3>1. n \in Int /\ x \in Int /\ y \in Int /\ hop[n] \in Int
      BY IdsAreIntegers
    <3>. QED
      BY <2>2, <3>1, ArcSkips
  <2>3. S \in SUBSET Nodes
    OBVIOUS
  <2>. HIDE DEF new
  <2>. QED
    BY <1>1, <2>1, <2>2, <2>3 DEF Leads
<1>3. \A y \in S : hop[y] \in S
  BY <1>1, <1>2
<1>. QED
  BY <1>3 DEF AllReachSeed
-----------------------------------------------------------------------------
(* Type correctness, crashes included.                                      *)

\* Every action keeps the types.
LEMMA TypeStep ==
  ASSUME TypeOK, [Next]_vars
  PROVE  TypeOK'
<1>. USE DEF TypeOK, connVars, ringVars
<1>1. CASE Create
  BY <1>1, NodesAssumption DEF Create, Phases
<1>2. CASE \E n, c \in Nodes : Join(n, c)
  BY <1>2 DEF Join, Phases
<1>3. CASE \E n \in Nodes : JoinLink(n)
  BY <1>3 DEF JoinLink, Phases
<1>4. CASE \E n \in Nodes : JoinNotify(n)
  <2>. PICK n \in Nodes : JoinNotify(n)
    BY <1>4
  <2>1. msgs' \subseteq Messages
    BY DEF JoinNotify, Send, Notify, Messages
  <2>. QED
    BY <2>1 DEF JoinNotify, Phases
<1>5. CASE \E n \in Nodes : OnPeer(n)
  BY <1>5 DEF OnPeer, Enter
<1>6. CASE \E n, m \in Nodes : LookupDial(n, m)
  BY <1>6 DEF LookupDial, Enter
<1>7. CASE \E n \in Nodes : Stabilize(n)
  <2>. PICK n \in Nodes : Stabilize(n)
    BY <1>7
  <2>1. msgs' \subseteq Messages
    BY DEF Stabilize, Send, Notify, GetPredecessor, Messages
  <2>. QED
    BY <2>1 DEF Stabilize
<1>8. CASE \E n \in Nodes : CheckPredecessor(n)
  BY <1>8 DEF CheckPredecessor, Enter
<1>9. CASE \E n \in Nodes : RemovePredecessor(n)
  BY <1>9 DEF RemovePredecessor
<1>10. CASE \E m \in msgs : Handle(m)
  <2>. PICK m \in msgs : Handle(m)
    BY <1>10
  <2>0. /\ m \in Messages /\ m.src \in Nodes /\ m.dst \in Nodes
        /\ m.node \in Nodes \cup {Nil}
    BY DEF Messages
  <2>1. CASE HandleGetPredecessor(m)
    <3>1. Response(m.dst, m.src, pred[m.dst]) \in Messages
      BY <2>0 DEF Response, Messages
    <3>. QED
      BY <2>1, <3>1 DEF HandleGetPredecessor, Consume
  <2>2. CASE HandleGetPredecessorResponse(m)
    BY <2>0, <2>2 DEF HandleGetPredecessorResponse, AdoptsSuccessor, Consume
  <2>3. CASE HandleNotify(m)
    <3>1. m.node \in Nodes
      BY <2>3 DEF HandleNotify, Messages
    <3>. QED
      BY <2>0, <2>3, <3>1 DEF HandleNotify, SuccessorAfterNotify, Consume
  <2>. QED
    BY <2>1, <2>2, <2>3 DEF Handle
<1>11. CASE \E n \in Nodes : Crash(n)
  <2>. PICK n \in Nodes : Crash(n)
    BY <1>11
  <2>1. crashes' \in 0 .. MaxCrashes
    BY BoundsAssumption DEF Crash
  <2>. QED
    BY <2>1 DEF Crash, Phases
<1>12. CASE UNCHANGED vars
  BY <1>12 DEF vars
<1>13. CASE \E m \in msgs : Lose(m)
  BY <1>13 DEF Lose
<1>. QED
  BY <1>1, <1>2, <1>3, <1>4, <1>5, <1>6, <1>7, <1>8, <1>9, <1>10, <1>11, <1>12, <1>13
  DEF Next

\* Every reachable state has its types, however many nodes join and crash.
THEOREM TypeCorrect == Spec => []TypeOK
<1>1. Init => TypeOK
  BY BoundsAssumption DEF Init, TypeOK, Phases, Messages
<1>2. TypeOK /\ [Next]_vars => TypeOK'
  BY TypeStep
<1>. QED
  BY <1>1, <1>2, PTL DEF Spec
-----------------------------------------------------------------------------
(* The inductive invariant behind SeedReachable and                          *)
(* PredecessorLooksNoFurther.  A stabilize round replaces succ[n] = t by a   *)
(* predecessor x that t had when it answered.  The network stays in one      *)
(* piece because x still leads to t by hops that avoid n: every node that    *)
(* anyone takes for a predecessor, or tells anyone of, leads to its          *)
(* successor by hops on the arc between them.                                *)

Hops == [n \in Nodes |-> NextHop(n)]

\* Who takes part: the processes that run, in the order Join brings them in.
MemberInv ==
    /\ \A n \in Nodes : phase[n] = "off" => succ[n] = n /\ pred[n] = Nil
    /\ \A n \in Running : Hops[n] \in Running
    /\ \A n \in Running : n # Seed => Hops[n] # n
    /\ phase[Seed] \in {"off", "up"}
    /\ Running # {} => Seed \in Running
    /\ \A n \in Nodes : pred[n] # Nil => pred[n] \in Running
    /\ \A m \in msgs : /\ m.src \in Running /\ m.dst \in Running
                       /\ m.node # Nil => m.node \in Running

\* The node whose predecessor a message claims to name.
Subject(m) == IF m.type = "Notify" THEN m.dst ELSE m.src

Claims(m) == m.type # "GetPredecessor" /\ m.node # Nil

ArcInv ==
    /\ \A n \in Nodes : pred[n] # Nil => pred[n] # n /\ Leads(Hops, pred[n], n)
    /\ \A m \in msgs : Claims(m) =>
          m.node # Subject(m) /\ Leads(Hops, m.node, Subject(m))

\* Who is named as a predecessor has set its successor in Join, and looks no
\* further than the node it precedes.
Settled(n) == phase[n] \in {"linked", "up"}

OrderInv ==
    /\ \A n \in Nodes : pred[n] # Nil => Settled(pred[n]) /\ NoFurtherThan(pred[n], n)
    /\ \A m \in msgs : m.type = "Notify" => Settled(m.node) /\ NoFurtherThan(m.node, m.dst)

RingInv == TypeOK /\ MemberInv /\ ArcInv /\ OnePiece /\ OrderInv

\* Hops maps nodes to nodes.
LEMMA HopsType == ASSUME TypeOK PROVE Hops \in [Nodes -> Nodes]
BY DEF TypeOK, Hops, NextHop

\* So it does in the next state.
LEMMA HopsTypeNext == ASSUME TypeOK' PROVE Hops' \in [Nodes -> Nodes]
BY DEF TypeOK, Hops, NextHop

\* OnePiece, as the reachability the lemmas above speak of.
LEMMA ReachDef == OnePiece <=> AllReachSeed(Hops, Running)
BY DEF OnePiece, AllReachSeed, Hops, Running

\* The same of the next state.
LEMMA ReachDefNext == OnePiece' <=> AllReachSeed(Hops', Running')
BY DEF OnePiece, AllReachSeed, Hops, Running

\* ArcInv survives a step that loses no path and names only predecessors that
\* lead where they should.
LEMMA KeepArcs ==
  ASSUME TypeOK, TypeOK', ArcInv,
         \A a, s \in Nodes : a # s /\ Leads(Hops, a, s) => Leads(Hops', a, s),
         \A n \in Nodes : pred'[n] # Nil =>
             pred'[n] = pred[n] \/ (pred'[n] # n /\ Leads(Hops, pred'[n], n)),
         \A m \in msgs' : Claims(m) =>
             m \in msgs \/ (m.node # Subject(m) /\ Leads(Hops, m.node, Subject(m)))
  PROVE  ArcInv'
<1>1. ASSUME NEW n \in Nodes, pred'[n] # Nil
      PROVE  pred'[n] # n /\ Leads(Hops', pred'[n], n)
  <2>1. pred'[n] \in Nodes
    BY <1>1 DEF TypeOK
  <2>2. pred'[n] # n /\ Leads(Hops, pred'[n], n)
    BY <1>1 DEF ArcInv
  <2>. QED
    BY <2>1, <2>2
<1>2. ASSUME NEW m \in msgs', Claims(m)
      PROVE  m.node # Subject(m) /\ Leads(Hops', m.node, Subject(m))
  <2>1. m.node \in Nodes /\ Subject(m) \in Nodes
    BY <1>2 DEF TypeOK, Messages, Claims, Subject
  <2>2. m.node # Subject(m) /\ Leads(Hops, m.node, Subject(m))
    BY <1>2 DEF ArcInv
  <2>. QED
    BY <2>1, <2>2
<1>. QED
  BY <1>1, <1>2 DEF ArcInv

\* OrderInv survives a step in which settled nodes stay settled and look no
\* further than before, unless they were alone.
LEMMA KeepOrder ==
  ASSUME TypeOK, TypeOK', ArcInv, OrderInv,
         \A p \in Nodes : Settled(p) =>
             /\ Settled(p)'
             /\ \/ succ'[p] = succ[p]
                \/ succ[p] = p
                \/ isBetween(succ'[p], p, succ[p], FALSE),
         \A n \in Nodes : pred'[n] # Nil =>
             \/ pred'[n] = pred[n]
             \/ pred'[n] # n /\ Settled(pred'[n]) /\ NoFurtherThan(pred'[n], n),
         \A m \in msgs' : m.type = "Notify" =>
             m \in msgs \/ (m.node # m.dst /\ Settled(m.node) /\ NoFurtherThan(m.node, m.dst))
  PROVE  OrderInv'
<1>1. ASSUME NEW p \in Nodes, NEW n \in Nodes, p # n, Settled(p), NoFurtherThan(p, n)
      PROVE  Settled(p)' /\ NoFurtherThan(p, n)'
  <2>1. p \in Int /\ n \in Int /\ succ[p] \in Int /\ succ'[p] \in Int
    BY IdsAreIntegers DEF TypeOK
  <2>2. Forward(p, succ[p], n)
    BY <1>1 DEF NoFurtherThan, Forward
  <2>3. succ[p] # p
    BY <1>1, <2>1, <2>2 DEF Forward, isBetween
  <2>4. Forward(p, succ'[p], n)
    <3>1. CASE succ'[p] = succ[p]
      BY <2>2, <3>1
    <3>2. CASE isBetween(succ'[p], p, succ[p], FALSE)
      BY <2>1, <2>2, <3>2, ShorterHop
    <3>. QED
      BY <1>1, <2>3, <3>1, <3>2
  <2>. QED
    BY <1>1, <2>4 DEF NoFurtherThan, Forward
<1>2. ASSUME NEW n \in Nodes, pred'[n] # Nil
      PROVE  (Settled(pred[n]) /\ NoFurtherThan(pred[n], n))'
  <2>1. pred'[n] \in Nodes
    BY <1>2 DEF TypeOK
  <2>2. pred'[n] # n /\ Settled(pred'[n]) /\ NoFurtherThan(pred'[n], n)
    BY <1>2 DEF ArcInv, OrderInv
  <2>3. PICK p \in Nodes : p = pred'[n]
    BY <2>1
  <2>4. Settled(p)' /\ NoFurtherThan(p, n)'
    BY <1>1, <2>2, <2>3
  <2>. QED
    BY <2>3, <2>4 DEF Settled, NoFurtherThan
<1>3. ASSUME NEW m \in msgs', m.type = "Notify"
      PROVE  Settled(m.node)' /\ NoFurtherThan(m.node, m.dst)'
  <2>1. m.node \in Nodes /\ m.dst \in Nodes
    BY <1>3 DEF TypeOK, Messages
  <2>2. m.node # m.dst /\ Settled(m.node) /\ NoFurtherThan(m.node, m.dst)
    <3>1. CASE m \in msgs
      BY <1>3, <3>1, <2>1, NilAssumption DEF ArcInv, OrderInv, Claims, Subject
    <3>2. CASE m \notin msgs
      BY <1>3, <3>2
    <3>. QED
      BY <3>1, <3>2
  <2>. QED
    BY <1>1, <2>1, <2>2
<1>. QED
  BY <1>2, <1>3 DEF OrderInv

\* Steps that do not touch the ring and at most take messages away.
LEMMA QuietStep ==
  ASSUME RingInv, TypeOK', UNCHANGED <<phase, contact, succ, pred>>, msgs' \subseteq msgs
  PROVE  RingInv'
<1>1. Hops' = Hops /\ Running' = Running
  BY DEF Hops, NextHop, Running
<1>2. MemberInv'
  BY <1>1 DEF RingInv, MemberInv
<1>3. ArcInv'
  BY <1>1 DEF RingInv, ArcInv
<1>4. OnePiece'
  BY <1>1, ReachDef, ReachDefNext DEF RingInv
<1>5. OrderInv'
  BY DEF RingInv, OrderInv, Settled, NoFurtherThan
<1>. QED
  BY <1>2, <1>3, <1>4, <1>5 DEF RingInv

\* Create keeps the invariant: the seed points at itself.
LEMMA CreateStep ==
  ASSUME RingInv, TypeOK', Create
  PROVE  RingInv'
<1>. USE DEF RingInv
<1>1. Running = {} /\ Running' = {Seed}
  BY NodesAssumption DEF Create, Running, TypeOK
<1>2. msgs = {} /\ msgs' = {} /\ \A n \in Nodes : pred'[n] = Nil /\ succ'[n] = n
  BY <1>1, NodesAssumption DEF Create, MemberInv, Running, TypeOK
<1>3. \A n \in Nodes : Hops'[n] = n
  BY <1>2, NodesAssumption DEF Hops, NextHop, Create, TypeOK
<1>4. MemberInv'
  BY <1>1, <1>2, <1>3, NodesAssumption DEF MemberInv, Create, TypeOK
<1>5. ArcInv' /\ OrderInv'
  BY <1>2 DEF ArcInv, OrderInv
<1>6. OnePiece'
  BY <1>1, ReachDefNext DEF AllReachSeed
<1>. QED
  BY <1>4, <1>5, <1>6

\* Join up to its dial keeps it: the node that starts points at itself and is no
\* member yet.
LEMMA JoinStep ==
  ASSUME RingInv, TypeOK', NEW n \in Nodes, NEW c \in Nodes, Join(n, c)
  PROVE  RingInv'
<1>. USE DEF RingInv
<1>0. Hops \in [Nodes -> Nodes]
  BY HopsType
<1>1. n \notin Running /\ c \in Running /\ c # n /\ Running' = Running \cup {n} /\ n # Seed
  BY DEF Join, Running, TypeOK, MemberInv
<1>2. succ' = succ /\ pred' = pred /\ msgs' = msgs
  BY DEF Join, MemberInv, TypeOK
<1>3. Hops[n] = n /\ Hops' = [Hops EXCEPT ![n] = c]
  <2>1. phase[n] = "off" /\ succ[n] = n
    BY DEF Join, MemberInv
  <2>2. Hops[n] = n
    BY <2>1 DEF Hops, NextHop
  <2>3. NextHop(n)' = c
    BY DEF Join, NextHop, TypeOK
  <2>4. \A k \in Nodes \ {n} : NextHop(k)' = NextHop(k)
    BY <1>2 DEF Join, NextHop, TypeOK
  <2>. QED
    BY <2>2, <2>3, <2>4 DEF Hops
<1>4. MemberInv'
  <2>1. \A k \in Nodes : phase'[k] = "off" => phase[k] = "off"
    BY DEF Join, TypeOK
  <2>2. phase'[Seed] = phase[Seed]
    BY <1>1, NodesAssumption DEF Join, TypeOK
  <2>3. \A k \in Running' : Hops'[k] \in Running' /\ (k # Seed => Hops'[k] # k)
    BY <1>0, <1>1, <1>3 DEF MemberInv, Running
  <2>4. Seed \in Running
    BY <1>1 DEF MemberInv
  <2>. QED
    BY <1>1, <1>2, <2>1, <2>2, <2>3, <2>4 DEF MemberInv
<1>5. ArcInv'
  <2>1. \A a, s \in Nodes : Leads(Hops, a, s) => Leads(Hops', a, s)
    BY <1>0, <1>3, HopFromSelf
  <2>. QED
    BY <1>2, <2>1, KeepArcs
<1>6. OnePiece'
  <2>. SUFFICES ASSUME NEW S \in SUBSET Running', S # {}, \A k \in S : Hops'[k] \in S
                PROVE  Seed \in S
    BY ReachDefNext DEF AllReachSeed
  <2>1. S \ {n} \in SUBSET Running
    BY <1>1
  <2>2. S \ {n} # {}
    <3>1. CASE n \in S
      BY <1>0, <1>1, <1>3, <3>1
    <3>. QED
      BY <3>1
  <2>3. \A k \in S \ {n} : Hops[k] \in S \ {n}
    BY <1>0, <1>1, <1>3, <2>1 DEF MemberInv, Running
  <2>. QED
    BY <2>1, <2>2, <2>3, ReachDef DEF AllReachSeed
<1>7. OrderInv'
  <2>1. \A p \in Nodes : Settled(p) => Settled(p)'
    BY DEF Join, Settled, TypeOK
  <2>. QED
    BY <1>2, <2>1, KeepOrder
<1>. QED
  BY <1>4, <1>5, <1>6, <1>7

\* The assignment of the successor in Join keeps it.
LEMMA JoinLinkStep ==
  ASSUME RingInv, TypeOK', NEW n \in Nodes, JoinLink(n)
  PROVE  RingInv'
<1>. USE DEF RingInv
<1>1. Hops' = Hops /\ Running' = Running
  BY DEF JoinLink, Hops, NextHop, Running, TypeOK
<1>2. pred' = pred /\ msgs' = msgs
  BY DEF JoinLink
<1>3. n # Seed
  BY DEF JoinLink, MemberInv
<1>4. MemberInv'
  <2>1. \A k \in Nodes : phase'[k] = "off" => phase[k] = "off" /\ succ'[k] = succ[k]
    BY DEF JoinLink, TypeOK
  <2>2. phase'[Seed] = phase[Seed]
    BY <1>3, NodesAssumption DEF JoinLink, TypeOK
  <2>. QED
    BY <1>1, <1>2, <2>1, <2>2 DEF MemberInv
<1>5. ArcInv' /\ OnePiece'
  BY <1>1, <1>2, ReachDef, ReachDefNext DEF ArcInv
<1>6. OrderInv'
  <2>1. \A p \in Nodes : Settled(p) => Settled(p)' /\ succ'[p] = succ[p]
    BY DEF JoinLink, Settled, TypeOK
  <2>. QED
    BY <1>2, <2>1, KeepOrder
<1>. QED
  BY <1>4, <1>5, <1>6

\* A step that only sends requests and notifications from n to its successor,
\* at most ending n's Join.
LEMMA SendStep ==
  ASSUME RingInv, TypeOK', NEW n \in Nodes, Settled(n), succ[n] # n,
         phase' = [phase EXCEPT ![n] = "up"], UNCHANGED <<contact, succ, pred>>,
         msgs' \subseteq msgs \cup {GetPredecessor(n, succ[n]), Notify(n, succ[n])}
  PROVE  RingInv'
<1>. USE DEF RingInv
<1>0. Hops \in [Nodes -> Nodes]
  BY HopsType
<1>1. Hops' = Hops /\ Running' = Running
  BY DEF Settled, Hops, NextHop, Running, TypeOK
<1>2. n \in Running /\ Hops[n] = succ[n] /\ succ[n] \in Nodes
  BY DEF Settled, Running, Hops, NextHop, TypeOK
<1>3. MemberInv'
  <2>1. \A k \in Nodes : phase'[k] = "off" => phase[k] = "off"
    BY DEF TypeOK
  <2>2. phase'[Seed] \in {"off", "up"}
    BY NodesAssumption DEF MemberInv, TypeOK
  <2>3. \A m \in msgs' : /\ m.src \in Running' /\ m.dst \in Running'
                         /\ m.node # Nil => m.node \in Running'
    BY <1>1, <1>2 DEF MemberInv, GetPredecessor, Notify
  <2>. QED
    BY <1>1, <2>1, <2>2, <2>3 DEF MemberInv
<1>4. OnePiece'
  BY <1>1, ReachDef, ReachDefNext
<1>5. ArcInv'
  <2>1. Leads(Hops, n, succ[n])
    BY <1>0, <1>2, HopLeads
  <2>2. \A m \in msgs' : Claims(m) =>
            m \in msgs \/ (m.node # Subject(m) /\ Leads(Hops, m.node, Subject(m)))
    <3>1. ~ Claims(GetPredecessor(n, succ[n]))
      BY DEF Claims, GetPredecessor
    <3>2. LET m == Notify(n, succ[n]) IN m.node = n /\ Subject(m) = succ[n]
      BY DEF Subject, Notify
    <3>. QED
      BY <2>1, <3>1, <3>2
  <2>. QED
    BY <1>1, <2>2, KeepArcs
<1>6. OrderInv'
  <2>1. \A p \in Nodes : Settled(p) => Settled(p)' /\ succ'[p] = succ[p]
    BY DEF Settled, TypeOK
  <2>2. \A m \in msgs' : m.type = "Notify" =>
            m \in msgs \/ (m.node # m.dst /\ Settled(m.node) /\ NoFurtherThan(m.node, m.dst))
    <3>1. GetPredecessor(n, succ[n]).type # "Notify"
      BY DEF GetPredecessor
    <3>2. LET m == Notify(n, succ[n]) IN m.node = n /\ m.dst = succ[n]
      BY DEF Notify
    <3>3. NoFurtherThan(n, succ[n])
      BY DEF NoFurtherThan
    <3>. QED
      BY <3>1, <3>2, <3>3
  <2>. QED
    BY <2>1, <2>2, KeepOrder
<1>. QED
  BY <1>3, <1>4, <1>5, <1>6

\* Forgetting a predecessor keeps it.
LEMMA RemoveStep ==
  ASSUME RingInv, TypeOK', NEW n \in Nodes, RemovePredecessor(n)
  PROVE  RingInv'
<1>. USE DEF RingInv
<1>1. UNCHANGED <<phase, contact, succ, msgs>>
  BY DEF RemovePredecessor
<1>2. Hops' = Hops /\ Running' = Running
  BY <1>1 DEF Hops, NextHop, Running
<1>3. \A k \in Nodes : pred'[k] = Nil \/ pred'[k] = pred[k]
  BY DEF RemovePredecessor, TypeOK
<1>4. MemberInv'
  BY <1>1, <1>2, <1>3 DEF MemberInv
<1>5. ArcInv'
  BY <1>1, <1>2, <1>3 DEF ArcInv
<1>6. OnePiece'
  BY <1>2, ReachDef, ReachDefNext
<1>7. OrderInv'
  BY <1>1, <1>3 DEF OrderInv, Settled, NoFurtherThan
<1>. QED
  BY <1>4, <1>5, <1>6, <1>7

\* handleMessageGetPredecessor keeps it: the predecessor it sends lies between
\* the two nodes.
LEMMA AnswerStep ==
  ASSUME RingInv, TypeOK', NEW m \in msgs, HandleGetPredecessor(m)
  PROVE  RingInv'
<1>. USE DEF RingInv
<1>. DEFINE r == Response(m.dst, m.src, pred[m.dst])
<1>1. UNCHANGED <<phase, contact, succ, pred>> /\ msgs' \subseteq msgs \cup {r}
  BY DEF HandleGetPredecessor, Consume, ringVars
<1>2. Hops' = Hops /\ Running' = Running
  BY <1>1 DEF Hops, NextHop, Running
<1>3. /\ r.src = m.dst /\ r.dst = m.src /\ r.node = pred[m.dst]
      /\ r.type = "GetPredecessorResponse"
  BY DEF Response
<1>4. m.src \in Nodes /\ m.dst \in Nodes
  BY DEF TypeOK, Messages
<1>. HIDE DEF r
<1>5. MemberInv'
  BY <1>1, <1>2, <1>3, <1>4 DEF MemberInv
<1>6. ArcInv'
  <2>1. Claims(r) => r.node # Subject(r) /\ Leads(Hops, r.node, Subject(r))
    BY <1>3, <1>4 DEF Claims, Subject, ArcInv
  <2>. QED
    BY <1>1, <1>2, <2>1, KeepArcs
<1>7. OnePiece'
  BY <1>2, ReachDef, ReachDefNext
<1>8. OrderInv'
  <2>1. \A p \in Nodes : Settled(p) => Settled(p)'
    BY <1>1 DEF Settled
  <2>. QED
    BY <1>1, <1>3, <2>1, KeepOrder
<1>. QED
  BY <1>5, <1>6, <1>7, <1>8

\* What adopting a closer successor does to the hops.
LEMMA AdoptHops ==
  ASSUME RingInv, NEW m \in msgs, HandleGetPredecessorResponse(m), AdoptsSuccessor(m)
  PROVE  /\ m.dst \in Running /\ m.node \in Running /\ m.node # m.dst
         /\ \/ Hops' = Hops
            \/ /\ Hops' = [Hops EXCEPT ![m.dst] = m.node]
               /\ isBetween(m.node, m.dst, Hops[m.dst], FALSE)
               /\ Leads(Hops, m.node, Hops[m.dst])
<1>. USE DEF RingInv
<1>. DEFINE n == m.dst
            x == m.node
<1>1. /\ n \in Nodes /\ x \in Nodes /\ n \in Running /\ m.src = succ[n]
      /\ isBetween(x, n, succ[n], FALSE) /\ m.type = "GetPredecessorResponse"
  BY DEF HandleGetPredecessorResponse, AdoptsSuccessor, TypeOK, Messages
<1>2. UNCHANGED <<phase, contact>>
  BY DEF HandleGetPredecessorResponse
<1>3. succ' = [succ EXCEPT ![n] = x]
  BY DEF HandleGetPredecessorResponse
<1>4. x # n /\ x \in Running /\ Leads(Hops, x, succ[n])
  <2>1. n \in Int /\ x \in Int /\ succ[n] \in Int
    BY <1>1, IdsAreIntegers DEF TypeOK
  <2>2. x # n
    BY <1>1, <2>1 DEF isBetween
  <2>3. x \in Running
    BY <1>1, NilAssumption DEF MemberInv
  <2>4. Leads(Hops, m.node, Subject(m))
    BY <1>1, NilAssumption DEF ArcInv, Claims
  <2>. QED
    BY <1>1, <2>2, <2>3, <2>4 DEF Subject
<1>. HIDE DEF n, x
<1>5. \/ phase[n] = "dialed" /\ Hops' = Hops
      \/ phase[n] # "dialed" /\ Hops[n] = succ[n] /\ Hops' = [Hops EXCEPT ![n] = x]
  <2>1. \A k \in Nodes \ {n} : NextHop(k)' = NextHop(k)
    BY <1>1, <1>2, <1>3 DEF NextHop, TypeOK
  <2>2. CASE phase[n] = "dialed"
    <3>1. NextHop(n)' = NextHop(n)
      BY <1>2, <2>2 DEF NextHop
    <3>. QED
      BY <2>1, <2>2, <3>1 DEF Hops
  <2>3. CASE phase[n] # "dialed"
    <3>1. NextHop(n)' = x /\ NextHop(n) = succ[n]
      BY <1>1, <1>2, <1>3, <2>3 DEF NextHop, TypeOK
    <3>. QED
      BY <1>1, <2>1, <2>3, <3>1 DEF Hops
  <2>. QED
    BY <2>2, <2>3
<1>. QED
  BY <1>1, <1>4, <1>5 DEF n, x

\* The step the invariant is made for: a closer successor is adopted.
LEMMA AdoptStep ==
  ASSUME RingInv, TypeOK', NEW m \in msgs, HandleGetPredecessorResponse(m), AdoptsSuccessor(m)
  PROVE  RingInv'
<1>. USE DEF RingInv
<1>. DEFINE n == m.dst
            x == m.node
<1>0. Hops \in [Nodes -> Nodes]
  BY HopsType
<1>1. /\ n \in Nodes /\ x \in Nodes /\ n \in Running /\ m.src = succ[n]
      /\ isBetween(x, n, succ[n], FALSE) /\ m.type = "GetPredecessorResponse"
  BY DEF HandleGetPredecessorResponse, AdoptsSuccessor, TypeOK, Messages
<1>2. UNCHANGED <<phase, contact, pred>> /\ msgs' \subseteq msgs
  BY DEF HandleGetPredecessorResponse, Consume
<1>3. succ' = [succ EXCEPT ![n] = x]
  BY DEF HandleGetPredecessorResponse
<1>4. Running' = Running
  BY <1>2 DEF Running
<1>5. x # n /\ x \in Running
  BY AdoptHops
<1>. DEFINE Closer == isBetween(x, n, Hops[n], FALSE) /\ Leads(Hops, x, Hops[n])
<1>6. Hops' = Hops \/ (Closer /\ Hops' = [Hops EXCEPT ![n] = x])
  BY AdoptHops
<1>. HIDE DEF n, x, Closer
<1>7. MemberInv'
  <2>1. \A k \in Running : Hops'[k] \in Running /\ (k # Seed => Hops'[k] # k)
    BY <1>0, <1>1, <1>5, <1>6 DEF MemberInv, Running
  <2>2. \A k \in Nodes : phase'[k] = "off" => succ'[k] = k /\ pred'[k] = Nil
    BY <1>1, <1>2, <1>3 DEF MemberInv, Running, TypeOK
  <2>. QED
    BY <1>2, <1>4, <2>1, <2>2 DEF MemberInv
<1>8. ArcInv'
  <2>1. \A a, s \in Nodes : a # s /\ Leads(Hops, a, s) => Leads(Hops', a, s)
    <3>1. CASE Hops' = Hops
      BY <3>1
    <3>2. CASE Closer /\ Hops' = [Hops EXCEPT ![n] = x]
      BY <1>0, <1>1, <1>5, <3>2, HopCloser DEF Closer
    <3>. QED
      BY <1>6, <3>1, <3>2
  <2>. QED
    BY <1>2, <2>1, KeepArcs
<1>9. OnePiece'
  <2>1. Running \in SUBSET Nodes /\ AllReachSeed(Hops, Running)
    BY ReachDef DEF Running
  <2>2. AllReachSeed(Hops', Running)
    <3>1. CASE Hops' = Hops
      BY <2>1, <3>1
    <3>2. CASE Closer /\ Hops' = [Hops EXCEPT ![n] = x]
      BY <1>0, <1>1, <1>5, <2>1, <3>2, HopCloserKeepsSeed DEF Closer
    <3>. QED
      BY <1>6, <3>1, <3>2
  <2>. QED
    BY <1>4, <2>2, ReachDefNext
<1>10. OrderInv'
  <2>1. \A p \in Nodes : succ'[p] = succ[p] \/ isBetween(succ'[p], p, succ[p], FALSE)
    BY <1>1, <1>3 DEF TypeOK
  <2>2. \A p \in Nodes : Settled(p) => Settled(p)'
    BY <1>2 DEF Settled
  <2>. QED
    BY <1>2, <2>1, <2>2, KeepOrder
<1>. QED
  BY <1>7, <1>8, <1>9, <1>10

\* handleMessageGetPredecessorResponse keeps it, the successor being adopted or
\* not.
LEMMA ResponseStep ==
  ASSUME RingInv, TypeOK', NEW m \in msgs, HandleGetPredecessorResponse(m)
  PROVE  RingInv'
<1>1. CASE AdoptsSuccessor(m)
  BY <1>1, AdoptStep
<1>2. CASE ~ AdoptsSuccessor(m)
  <2>1. UNCHANGED <<phase, contact, succ, pred>> /\ msgs' \subseteq msgs
    BY <1>2 DEF HandleGetPredecessorResponse, Consume
  <2>. QED
    BY <2>1, QuietStep
<1>. QED
  BY <1>1, <1>2

\* What notify does to the hops: only the lonely seed gets another one.
LEMMA NotifyHops ==
  ASSUME RingInv, NEW m \in msgs, HandleNotify(m)
  PROVE  /\ m.dst \in Running /\ m.node \in Running /\ m.node # m.dst
         /\ Leads(Hops, m.node, m.dst)
         /\ \/ Hops' = Hops
            \/ /\ m.dst = Seed /\ Hops[Seed] = Seed
               /\ Hops' = [Hops EXCEPT ![Seed] = m.node]
<1>. USE DEF RingInv
<1>. DEFINE n == m.dst
            x == m.node
<1>1. n \in Nodes /\ x \in Nodes /\ n \in Running /\ m.type = "Notify"
  BY DEF HandleNotify, TypeOK, Messages
<1>2. UNCHANGED <<phase, contact>>
  BY DEF HandleNotify
<1>3. x \in Running /\ x # n /\ Leads(Hops, x, n)
  BY <1>1, NilAssumption DEF MemberInv, ArcInv, Claims, Subject
<1>4. \A k \in Nodes : succ'[k] = succ[k] \/ (k = n /\ succ[k] = k /\ succ'[k] = x)
  BY <1>1 DEF HandleNotify, SuccessorAfterNotify, ringVars, TypeOK
<1>. HIDE DEF n, x
<1>5. \/ Hops' = Hops
      \/ n = Seed /\ Hops[n] = n /\ Hops' = [Hops EXCEPT ![n] = x]
  <2>1. \A k \in Nodes \ {n} : NextHop(k)' = NextHop(k)
    BY <1>2, <1>4 DEF NextHop
  <2>2. CASE phase[n] = "dialed" \/ succ'[n] = succ[n]
    <3>1. NextHop(n)' = NextHop(n)
      BY <1>2, <2>2 DEF NextHop
    <3>. QED
      BY <2>1, <3>1 DEF Hops
  <2>3. CASE phase[n] # "dialed" /\ succ'[n] # succ[n]
    <3>1. NextHop(n)' = x /\ NextHop(n) = n
      BY <1>1, <1>2, <1>4, <2>3 DEF NextHop
    <3>2. Hops[n] = n /\ Hops' = [Hops EXCEPT ![n] = x]
      BY <1>1, <2>1, <3>1 DEF Hops
    <3>. QED
      BY <1>1, <3>2 DEF MemberInv
  <2>. QED
    BY <2>2, <2>3
<1>. QED
  BY <1>1, <1>3, <1>5 DEF n, x

\* handleMessageNotify keeps it, with all that notify changes.
LEMMA NotifyStep ==
  ASSUME RingInv, TypeOK', NEW m \in msgs, HandleNotify(m)
  PROVE  RingInv'
<1>. USE DEF RingInv
<1>. DEFINE n == m.dst
            x == m.node
<1>0. Hops \in [Nodes -> Nodes]
  BY HopsType
<1>1. n \in Nodes /\ x \in Nodes /\ n \in Running /\ m.type = "Notify"
  BY DEF HandleNotify, TypeOK, Messages
<1>2. UNCHANGED <<phase, contact>> /\ msgs' \subseteq msgs
  BY DEF HandleNotify, Consume
<1>3. Running' = Running
  BY <1>2 DEF Running
<1>4. x \in Running /\ x # n /\ Leads(Hops, x, n) /\ Settled(x) /\ NoFurtherThan(x, n)
  BY <1>1, NilAssumption DEF MemberInv, ArcInv, OrderInv, Claims, Subject
<1>5. /\ \A k \in Nodes : pred'[k] = pred[k] \/ (k = n /\ pred'[k] = x)
      /\ \A k \in Nodes : succ'[k] = succ[k] \/ (k = n /\ succ[k] = k /\ succ'[k] = x)
  BY <1>1 DEF HandleNotify, SuccessorAfterNotify, ringVars, TypeOK
<1>. HIDE DEF n, x
<1>6. \/ Hops' = Hops
      \/ n = Seed /\ Hops[n] = n /\ Hops' = [Hops EXCEPT ![n] = x]
  BY NotifyHops DEF n, x
<1>7. MemberInv'
  <2>1. \A k \in Running : Hops'[k] \in Running /\ (k # Seed => Hops'[k] # k)
    BY <1>0, <1>1, <1>4, <1>6 DEF MemberInv, Running
  <2>2. \A k \in Nodes : phase'[k] = "off" => succ'[k] = k /\ pred'[k] = Nil
    BY <1>1, <1>2, <1>5 DEF MemberInv, Running
  <2>3. \A k \in Nodes : pred'[k] # Nil => pred'[k] \in Running
    BY <1>4, <1>5 DEF MemberInv
  <2>. QED
    BY <1>2, <1>3, <2>1, <2>2, <2>3 DEF MemberInv
<1>8. ArcInv'
  <2>1. \A a, s \in Nodes : a # s /\ Leads(Hops, a, s) => Leads(Hops', a, s)
    BY <1>0, <1>1, <1>6, HopFromSelf
  <2>2. \A k \in Nodes : pred'[k] # Nil =>
            pred'[k] = pred[k] \/ (pred'[k] # k /\ Leads(Hops, pred'[k], k))
    BY <1>4, <1>5
  <2>. QED
    BY <1>2, <2>1, <2>2, KeepArcs
<1>9. OnePiece'
  <2>. SUFFICES ASSUME NEW S \in SUBSET Running, S # {}, \A k \in S : Hops'[k] \in S,
                       Seed \notin S
                PROVE  FALSE
    BY <1>3, ReachDefNext DEF AllReachSeed
  <2>1. \A k \in S : k \in Nodes /\ Hops'[k] = Hops[k]
    BY <1>0, <1>6 DEF Running
  <2>. QED
    BY <2>1, ReachDef DEF AllReachSeed
<1>10. OrderInv'
  <2>1. \A p \in Nodes : Settled(p) => Settled(p)'
    BY <1>2 DEF Settled
  <2>2. \A k \in Nodes : pred'[k] # Nil =>
            \/ pred'[k] = pred[k]
            \/ pred'[k] # k /\ Settled(pred'[k]) /\ NoFurtherThan(pred'[k], k)
    BY <1>4, <1>5
  <2>3. \A p \in Nodes : succ'[p] = succ[p] \/ succ[p] = p
    BY <1>5
  <2>. QED
    BY <1>2, <2>1, <2>2, <2>3, KeepOrder
<1>. QED
  BY <1>7, <1>8, <1>9, <1>10

\* Every step keeps the invariant while no node crashes.
LEMMA RingInvStep ==
  ASSUME RingInv, [Next]_vars, crashes' = 0
  PROVE  RingInv'
<1>0. TypeOK /\ TypeOK'
  BY TypeStep DEF RingInv
<1>. USE <1>0
<1>1. CASE Create
  BY <1>1, CreateStep
<1>2. CASE \E n, c \in Nodes : Join(n, c)
  BY <1>2, JoinStep
<1>3. CASE \E n \in Nodes : JoinLink(n)
  BY <1>3, JoinLinkStep
<1>4. CASE \E n \in Nodes : JoinNotify(n)
  <2>. PICK n \in Nodes : JoinNotify(n)
    BY <1>4
  <2>1. Settled(n) /\ succ[n] # n
    BY DEF JoinNotify, Settled, RingInv, MemberInv, Running, Hops, NextHop
  <2>2. phase' = [phase EXCEPT ![n] = "up"] /\ UNCHANGED <<contact, succ, pred>>
    BY DEF JoinNotify, ringVars
  <2>3. msgs' \subseteq msgs \cup {GetPredecessor(n, succ[n]), Notify(n, succ[n])}
    BY DEF JoinNotify, Send
  <2>. QED
    BY <2>1, <2>2, <2>3, SendStep
<1>5. CASE \E n \in Nodes : OnPeer(n)
  BY <1>5, QuietStep DEF OnPeer, ringVars
<1>6. CASE \E n, m \in Nodes : LookupDial(n, m)
  BY <1>6, QuietStep DEF LookupDial, ringVars
<1>7. CASE \E n \in Nodes : Stabilize(n)
  <2>. PICK n \in Nodes : Stabilize(n)
    BY <1>7
  <2>1. Settled(n) /\ succ[n] # n
    BY DEF Stabilize, Settled, Up
  <2>2. phase' = [phase EXCEPT ![n] = "up"] /\ UNCHANGED <<contact, succ, pred>>
    BY DEF Stabilize, ringVars, Up, TypeOK
  <2>3. msgs' \subseteq msgs \cup {GetPredecessor(n, succ[n]), Notify(n, succ[n])}
    BY DEF Stabilize, Send
  <2>. QED
    BY <2>1, <2>2, <2>3, SendStep
<1>8. CASE \E n \in Nodes : CheckPredecessor(n)
  BY <1>8, QuietStep DEF CheckPredecessor, ringVars
<1>9. CASE \E n \in Nodes : RemovePredecessor(n)
  BY <1>9, RemoveStep
<1>10. CASE \E m \in msgs : Handle(m)
  BY <1>10, AnswerStep, ResponseStep, NotifyStep DEF Handle
<1>11. CASE \E n \in Nodes : Crash(n)
  BY <1>11 DEF Crash, TypeOK
<1>12. CASE UNCHANGED vars
  BY <1>12, QuietStep DEF vars
<1>13. CASE \E m \in msgs : Lose(m)
  BY <1>13, QuietStep DEF Lose, ringVars
<1>. QED
  BY <1>1, <1>2, <1>3, <1>4, <1>5, <1>6, <1>7, <1>8, <1>9, <1>10, <1>11, <1>12, <1>13
  DEF Next

\* The initial states satisfy it.
LEMMA RingInvInit ==
  ASSUME Init
  PROVE  RingInv
<1>1. TypeOK
  BY BoundsAssumption DEF Init, TypeOK, Phases, Messages
<1>2. Running = {}
  BY DEF Init, Running
<1>3. MemberInv
  BY <1>2, NodesAssumption DEF Init, MemberInv
<1>4. ArcInv /\ OrderInv
  BY DEF Init, ArcInv, OrderInv
<1>5. OnePiece
  BY <1>2 DEF OnePiece
<1>. QED
  BY <1>1, <1>3, <1>4, <1>5 DEF RingInv

\* A count of crashes that is zero was zero before.
LEMMA CrashesGrow ==
  ASSUME TypeOK, [Next]_vars, crashes' = 0
  PROVE  crashes = 0
<1>1. CASE \E n \in Nodes : Crash(n)
  BY <1>1 DEF Crash, TypeOK
<1>2. CASE ~ \E n \in Nodes : Crash(n)
  BY <1>2 DEF Next, vars, Create, Join, JoinLink, JoinNotify, OnPeer, LookupDial, Stabilize,
              CheckPredecessor, RemovePredecessor, Handle, HandleGetPredecessor,
              HandleGetPredecessorResponse, HandleNotify, Lose
<1>. QED
  BY <1>1, <1>2

\* The invariant holds until the first crash.
CrashFreeInv == TypeOK /\ (crashes = 0 => RingInv)

LEMMA RingInvariant == Spec => []CrashFreeInv
<1>1. Init => CrashFreeInv
  BY RingInvInit DEF CrashFreeInv, RingInv
<1>2. CrashFreeInv /\ [Next]_vars => CrashFreeInv'
  BY TypeStep, CrashesGrow, RingInvStep DEF CrashFreeInv
<1>. QED
  BY <1>1, <1>2, PTL DEF Spec

\* As long as no node has crashed, the ring that Create, Join, stabilize, notify
\* and checkPredecessor maintain never falls apart: from every running node the
\* successor chain leads to the seed, in every interleaving, with any number of
\* nodes and whatever node each of them joined through.
THEOREM RingStaysConnected == Spec => []SeedReachable
<1>1. CrashFreeInv => SeedReachable
  BY DEF CrashFreeInv, RingInv, SeedReachable
<1>. QED
  BY <1>1, RingInvariant, PTL

\* As long as no node has crashed, the predecessor a node has accepted by notify
\* never has a successor beyond that node.
THEOREM RingStaysOrdered == Spec => []PredecessorLooksNoFurther
<1>1. CrashFreeInv => PredecessorLooksNoFurther
  BY DEF CrashFreeInv, RingInv, OrderInv, PredecessorLooksNoFurther, Ordered
<1>. QED
  BY <1>1, RingInvariant, PTL

-----------------------------------------------------------------------------
(* A node with a predecessor is not its own successor, crashes included.     *)

AloneInv ==
    /\ \A n \in Running : pred[n] # Nil => succ[n] # n
    /\ \A n \in Nodes : phase[n] = "dialed" => contact[n] # n
    /\ \A n \in Nodes : phase[n] = "linked" => succ[n] # n
    /\ \A m \in msgs : m.type = "Notify" => m.node # m.dst

\* Every step keeps AloneInv.
LEMMA AloneStep ==
  ASSUME TypeOK, AloneInv, [Next]_vars
  PROVE  AloneInv'
<1>. USE DEF TypeOK, ringVars, connVars
<1>1. CASE Create
  BY <1>1, NodesAssumption DEF Create, AloneInv, Running
<1>2. CASE \E n, c \in Nodes : Join(n, c)
  BY <1>2 DEF Join, AloneInv, Running
<1>3. CASE \E n \in Nodes : JoinLink(n)
  BY <1>3 DEF JoinLink, AloneInv, Running
<1>4. CASE \E n \in Nodes : JoinNotify(n)
  <2>. PICK n \in Nodes : JoinNotify(n)
    BY <1>4
  <2>1. \A m \in msgs' : m.type = "Notify" => m.node # m.dst
    BY DEF JoinNotify, Send, Notify, AloneInv
  <2>. QED
    BY <2>1 DEF JoinNotify, AloneInv, Running
<1>5. CASE \/ \E n \in Nodes : OnPeer(n) \/ CheckPredecessor(n)
           \/ \E n, m \in Nodes : LookupDial(n, m)
           \/ UNCHANGED vars
  BY <1>5 DEF OnPeer, CheckPredecessor, LookupDial, AloneInv, Running, vars
<1>6. CASE \E n \in Nodes : Stabilize(n)
  <2>. PICK n \in Nodes : Stabilize(n)
    BY <1>6
  <2>1. \A m \in msgs' : m.type = "Notify" => m.node # m.dst
    BY DEF Stabilize, Send, Notify, GetPredecessor, AloneInv
  <2>. QED
    BY <2>1 DEF Stabilize, AloneInv, Running
<1>7. CASE \E n \in Nodes : RemovePredecessor(n)
  BY <1>7 DEF RemovePredecessor, AloneInv, Running
<1>8. CASE \E m \in msgs : Handle(m)
  <2>. PICK m \in msgs : Handle(m)
    BY <1>8
  <2>0. m.dst \in Nodes
    BY DEF Messages
  <2>1. CASE HandleGetPredecessor(m)
    <3>1. Response(m.dst, m.src, pred[m.dst]).type # "Notify"
      BY DEF Response
    <3>. QED
      BY <2>1, <3>1 DEF HandleGetPredecessor, Consume, AloneInv, Running
  <2>2. CASE HandleGetPredecessorResponse(m)
    <3>1. AdoptsSuccessor(m) => m.node # m.dst
      <4>1. m.dst \in Int /\ succ[m.dst] \in Int
        BY <2>0, IdsAreIntegers
      <4>. QED
        BY <4>1 DEF AdoptsSuccessor, isBetween
    <3>. QED
      BY <2>0, <2>2, <3>1 DEF HandleGetPredecessorResponse, Consume, AloneInv, Running
  <2>3. CASE HandleNotify(m)
    <3>1. m.node # m.dst
      BY <2>3 DEF HandleNotify, AloneInv
    <3>. QED
      BY <2>0, <2>3, <3>1
      DEF HandleNotify, SuccessorAfterNotify, Consume, AloneInv, Running
  <2>. QED
    BY <2>1, <2>2, <2>3 DEF Handle
<1>9. CASE \E n \in Nodes : Crash(n)
  BY <1>9 DEF Crash, AloneInv, Running
<1>10. CASE \E m \in msgs : Lose(m)
  BY <1>10 DEF Lose, AloneInv, Running
<1>. QED
  BY <1>1, <1>2, <1>3, <1>4, <1>5, <1>6, <1>7, <1>8, <1>9, <1>10 DEF Next

\* Crashes and restarts or not, a node that has a predecessor is never its own
\* successor: notify gives a lonely node a successor with its predecessor, Join
\* and stabilize never put the node itself back.
THEOREM NeverAloneWithPredecessor == Spec => []NotAloneWithPredecessor
<1>1. Init => AloneInv
  BY DEF Init, AloneInv, Running
<1>2. TypeOK /\ AloneInv /\ [Next]_vars => AloneInv'
  BY AloneStep
<1>3. AloneInv => NotAloneWithPredecessor
  BY DEF AloneInv, NotAloneWithPredecessor, Up, Running
<1>. QED
  BY <1>1, <1>2, <1>3, TypeCorrect, PTL DEF Spec

-----------------------------------------------------------------------------
(* Agreement is order.  When every node is the predecessor its successor     *)
(* knows, the successors form one cycle; that it winds around the circle     *)
(* only once takes a further invariant: from the seed the chain leads back   *)
(* to the seed without jumping over it.                                      *)

Winds(hop, members) ==
    \E S \in SUBSET members :
        /\ Seed \in S
        /\ \A z \in S : hop[z] \in S /\ ~ isBetween(Seed, z, hop[z], FALSE)

OneWind == Running # {} => Winds(Hops, Running)

\* Who leads to t hops forward, and either arrives or gets to a node on the same
\* arc that leads to t, too.
LEMMA LeadsOn ==
  ASSUME NEW hop \in [Nodes -> Nodes], NEW z \in Nodes, NEW t \in Nodes, z # t,
         Leads(hop, z, t)
  PROVE  /\ Forward(z, hop[z], t)
         /\ hop[z] = t \/ (isBetween(hop[z], z, t, FALSE) /\ Leads(hop, hop[z], t))
<1>0. z \in Int /\ t \in Int /\ hop[z] \in Int /\ \A y \in Nodes : y \in Int /\ hop[y] \in Int
  BY IdsAreIntegers
<1>1. Forward(z, hop[z], t)
  <2>. SUFFICES ASSUME ~ Forward(z, hop[z], t)
                PROVE  FALSE
    OBVIOUS
  <2>1. t \in {z}
    BY DEF Leads
  <2>. QED
    BY <2>1
<1>2. ASSUME hop[z] # t
      PROVE  isBetween(hop[z], z, t, FALSE) /\ Leads(hop, hop[z], t)
  <2>1. isBetween(hop[z], z, t, FALSE)
    BY <1>1, <1>2 DEF Forward
  <2>2. ASSUME NEW S \in SUBSET Nodes, hop[z] \in S,
               \A y \in S : OnArc(y, hop[z], t) /\ Forward(y, hop[y], t) => hop[y] \in S
        PROVE  t \in S
    <3>. DEFINE T == {y \in S : OnArc(y, hop[z], t) \/ y = t} \cup {z}
    <3>1. hop[z] \in T
      BY <2>2 DEF OnArc
    <3>2. ASSUME NEW y \in T, Forward(y, hop[y], t)
          PROVE  hop[y] \in T
      <4>1. CASE y = z
        BY <3>1, <4>1
      <4>2. CASE y = t
        <5>1. hop[t] = t
          BY <1>0, <3>2, <4>2 DEF Forward, isBetween
        <5>. QED
          BY <4>2, <5>1
      <4>3. CASE y \in S /\ OnArc(y, hop[z], t) /\ y # t
        <5>1. hop[y] \in S
          BY <2>2, <3>2, <4>3
        <5>2. OnArc(hop[y], hop[z], t) \/ hop[y] = t
          <6>1. y \in Int /\ hop[y] \in Int
            BY <1>0, <4>3
          <6>. QED
            BY <1>0, <3>2, <4>3, <6>1 DEF Forward, OnArc, isBetween
        <5>. QED
          BY <5>1, <5>2
      <4>. QED
        BY <4>1, <4>2, <4>3
    <3>3. t \in T
      BY <3>2 DEF Leads
    <3>. QED
      BY <3>3
  <2>3. Leads(hop, hop[z], t)
    BY <2>2 DEF Leads
  <2>. QED
    BY <2>1, <2>3
<1>. QED
  BY <1>1, <1>2

\* A stabilize round: n hopped to t and now hops to x, which leads to t.
LEMMA AdoptWinds ==
  ASSUME NEW hop \in [Nodes -> Nodes], NEW members \in SUBSET Nodes,
         \A k \in members : hop[k] \in members,
         NEW n \in members, NEW x \in members,
         isBetween(x, n, hop[n], FALSE), Leads(hop, x, hop[n]), Winds(hop, members)
  PROVE  Winds([hop EXCEPT ![n] = x], members)
<1>. DEFINE new == [hop EXCEPT ![n] = x]
            t == hop[n]
            arc == {z \in members : OnArc(z, x, t) /\ Leads(hop, z, t)}
<1>0. /\ n \in Int /\ x \in Int /\ t \in Int /\ Seed \in Int
      /\ \A y \in members : y \in Int /\ hop[y] \in Int
  BY IdsAreIntegers, NodesAssumption
<1>1. PICK S \in SUBSET members :
          /\ Seed \in S
          /\ \A z \in S : hop[z] \in S /\ ~ isBetween(Seed, z, hop[z], FALSE)
  BY DEF Winds
<1>2. new[n] = x /\ \A z \in members \ {n} : new[z] = hop[z]
  OBVIOUS
<1>. HIDE DEF new
<1>3. CASE n \notin S
  <2>1. \A z \in S : new[z] = hop[z]
    BY <1>2, <1>3
  <2>. QED
    BY <1>1, <2>1 DEF Winds, new
<1>4. CASE n \in S
  <2>1. t \in S /\ ~ isBetween(Seed, n, t, FALSE)
    BY <1>1, <1>4
  <2>2. x \in arc
    BY DEF OnArc
  <2>3. ASSUME NEW z \in arc
        PROVE  new[z] \in S \cup arc /\ ~ isBetween(Seed, z, new[z], FALSE)
    <3>1. z \in members /\ OnArc(z, x, t) /\ Leads(hop, z, t) /\ z \in Int /\ hop[z] \in Int
      BY <1>0
    <3>2. z # n /\ z # t
      BY <1>0, <3>1, ArcSkips DEF OnArc, isBetween
    <3>3. /\ Forward(z, hop[z], t)
          /\ hop[z] = t \/ (isBetween(hop[z], z, t, FALSE) /\ Leads(hop, hop[z], t))
      BY <3>1, <3>2, LeadsOn
    <3>4. hop[z] \in S \cup arc
      <4>1. CASE hop[z] = t
        BY <2>1, <4>1
      <4>2. CASE isBetween(hop[z], z, t, FALSE) /\ Leads(hop, hop[z], t)
        <5>1. OnArc(hop[z], x, t)
          BY <1>0, <3>1, <4>2 DEF OnArc, isBetween
        <5>. QED
          BY <3>1, <4>2, <5>1
      <4>. QED
        BY <3>3, <4>1, <4>2
    <3>5. ~ isBetween(Seed, z, hop[z], FALSE)
      BY <1>0, <2>1, <3>1, <3>3 DEF OnArc, isBetween, Forward
    <3>. QED
      BY <1>2, <3>1, <3>2, <3>4, <3>5
  <2>4. ASSUME NEW z \in S
        PROVE  new[z] \in S \cup arc /\ ~ isBetween(Seed, z, new[z], FALSE)
    <3>1. CASE z = n
      <4>1. ~ isBetween(Seed, n, x, FALSE)
        BY <1>0, <2>1 DEF isBetween
      <4>. QED
        BY <1>2, <2>2, <3>1, <4>1
    <3>2. CASE z # n
      BY <1>1, <1>2, <3>2
    <3>. QED
      BY <3>1, <3>2
  <2>5. S \cup arc \in SUBSET members /\ Seed \in S \cup arc
    BY <1>1
  <2>. HIDE DEF arc
  <2>. QED
    BY <2>3, <2>4, <2>5 DEF Winds, new
<1>. QED
  BY <1>3, <1>4

\* The lonely seed takes for its successor a node that leads to it.
LEMMA FirstHopWinds ==
  ASSUME NEW hop \in [Nodes -> Nodes], NEW members \in SUBSET Nodes,
         \A k \in members : hop[k] \in members,
         Seed \in members, NEW x \in members, x # Seed, Leads(hop, x, Seed)
  PROVE  Winds([hop EXCEPT ![Seed] = x], members)
<1>. DEFINE new == [hop EXCEPT ![Seed] = x]
            path == {z \in members : z # Seed /\ Leads(hop, z, Seed)}
<1>1. new[Seed] = x /\ \A z \in members \ {Seed} : new[z] = hop[z]
  BY NodesAssumption
<1>. HIDE DEF new
<1>2. Seed \in Int /\ x \in Int
  BY IdsAreIntegers, NodesAssumption
<1>3. new[Seed] \in path /\ ~ isBetween(Seed, Seed, new[Seed], FALSE)
  BY <1>1, <1>2 DEF isBetween
<1>4. ASSUME NEW z \in path
      PROVE  new[z] \in {Seed} \cup path /\ ~ isBetween(Seed, z, new[z], FALSE)
  <2>1. z \in members /\ z # Seed /\ Leads(hop, z, Seed) /\ z \in Int /\ hop[z] \in Int
    BY IdsAreIntegers
  <2>2. /\ Forward(z, hop[z], Seed)
        /\ hop[z] = Seed \/ (isBetween(hop[z], z, Seed, FALSE) /\ Leads(hop, hop[z], Seed))
    BY <2>1, LeadsOn, NodesAssumption
  <2>3. hop[z] \in {Seed} \cup path
    BY <2>1, <2>2
  <2>4. ~ isBetween(Seed, z, hop[z], FALSE)
    BY <1>2, <2>1, <2>2 DEF isBetween, Forward
  <2>. QED
    BY <1>1, <2>1, <2>3, <2>4
<1>5. {Seed} \cup path \in SUBSET members
  OBVIOUS
<1>. HIDE DEF path
<1>6. /\ Seed \in {Seed} \cup path
      /\ \A z \in {Seed} \cup path :
             new[z] \in {Seed} \cup path /\ ~ isBetween(Seed, z, new[z], FALSE)
  BY <1>3, <1>4
<1>. QED
  BY <1>5, <1>6 DEF Winds, new

\* OneWind survives a step in which the members stay and hop as they did.
LEMMA SameHopsWind ==
  ASSUME OneWind, Running # {}, Running \subseteq Running',
         \A k \in Running : Hops'[k] = Hops[k]
  PROVE  OneWind'
<1>1. PICK S \in SUBSET Running :
          /\ Seed \in S
          /\ \A z \in S : Hops[z] \in S /\ ~ isBetween(Seed, z, Hops[z], FALSE)
  BY DEF OneWind, Winds
<1>2. S \in SUBSET Running'
  OBVIOUS
<1>3. \A z \in S : Hops'[z] \in S /\ ~ isBetween(Seed, z, Hops'[z], FALSE)
  BY <1>1
<1>4. Winds(Hops', Running')
  BY <1>1, <1>2, <1>3 DEF Winds
<1>. QED
  BY <1>4 DEF OneWind

\* Every step keeps it while no node crashes.
LEMMA OneWindStep ==
  ASSUME RingInv, OneWind, [Next]_vars, crashes' = 0
  PROVE  OneWind'
<1>0. TypeOK /\ TypeOK' /\ MemberInv
  BY TypeStep DEF RingInv
<1>. USE <1>0
<1>1. Hops \in [Nodes -> Nodes] /\ Running \in SUBSET Nodes
      /\ \A k \in Running : Hops[k] \in Running
  BY HopsType DEF Running, MemberInv
<1>2. ASSUME UNCHANGED <<phase, contact, succ>>
      PROVE  OneWind'
  BY <1>2 DEF OneWind, Winds, Hops, NextHop, Running
<1>3. CASE Create
  <2>1. Running' = {Seed}
    BY <1>3, NodesAssumption DEF Create, Running, TypeOK
  <2>2. Hops'[Seed] = Seed
    BY <1>3, NodesAssumption DEF Create, Hops, NextHop, TypeOK
  <2>3. ~ isBetween(Seed, Seed, Seed, FALSE)
    BY IdsAreIntegers, NodesAssumption DEF isBetween
  <2>4. {Seed} \in SUBSET Running' /\ Seed \in {Seed}
    BY <2>1
  <2>5. \A z \in {Seed} : Hops'[z] \in {Seed} /\ ~ isBetween(Seed, z, Hops'[z], FALSE)
    BY <2>2, <2>3
  <2>6. Winds(Hops', Running')
    BY <2>4, <2>5 DEF Winds
  <2>. QED
    BY <2>6 DEF OneWind
<1>4. CASE \E n, c \in Nodes : Join(n, c)
  <2>. PICK n \in Nodes, c \in Nodes : Join(n, c)
    BY <1>4
  <2>1. n \notin Running /\ c \in Running /\ Running \subseteq Running'
    BY DEF Join, Running, TypeOK
  <2>2. \A k \in Nodes \ {n} : NextHop(k)' = NextHop(k)
    BY DEF Join, NextHop, TypeOK
  <2>3. \A k \in Running : Hops'[k] = Hops[k]
    BY <2>1, <2>2 DEF Hops, Running
  <2>. QED
    BY <2>1, <2>3, SameHopsWind
<1>5. CASE \E n \in Nodes : JoinLink(n) \/ JoinNotify(n)
  <2>. PICK n \in Nodes : JoinLink(n) \/ JoinNotify(n)
    BY <1>5
  <2>1. Hops' = Hops /\ Running' = Running
    BY DEF JoinLink, JoinNotify, Hops, NextHop, Running, TypeOK, ringVars
  <2>. QED
    BY <2>1 DEF OneWind
<1>6. CASE \E n \in Nodes : OnPeer(n) \/ Stabilize(n) \/ CheckPredecessor(n)
                            \/ RemovePredecessor(n)
  BY <1>2, <1>6 DEF OnPeer, Stabilize, CheckPredecessor, RemovePredecessor, ringVars
<1>7. CASE \/ \E n, m \in Nodes : LookupDial(n, m)
           \/ \E m \in msgs : Lose(m)
           \/ UNCHANGED vars
  BY <1>2, <1>7 DEF LookupDial, Lose, vars, ringVars
<1>8. CASE \E m \in msgs : Handle(m)
  <2>. PICK m \in msgs : Handle(m)
    BY <1>8
  <2>1. CASE HandleGetPredecessor(m)
    BY <1>2, <2>1 DEF HandleGetPredecessor, ringVars
  <2>2. CASE HandleGetPredecessorResponse(m) /\ ~ AdoptsSuccessor(m)
    BY <1>2, <2>2 DEF HandleGetPredecessorResponse
  <2>3. CASE HandleGetPredecessorResponse(m) /\ AdoptsSuccessor(m)
    <3>1. Running' = Running
      BY <2>3 DEF HandleGetPredecessorResponse, Running
    <3>2. m.dst \in Running /\ m.node \in Running /\ Winds(Hops, Running)
      BY <2>3, AdoptHops DEF OneWind
    <3>3. Winds(Hops', Running)
      <4>1. CASE Hops' = Hops
        BY <3>2, <4>1
      <4>2. CASE /\ Hops' = [Hops EXCEPT ![m.dst] = m.node]
                 /\ isBetween(m.node, m.dst, Hops[m.dst], FALSE)
                 /\ Leads(Hops, m.node, Hops[m.dst])
        BY <1>1, <3>2, <4>2, AdoptWinds
      <4>. QED
        BY <2>3, <4>1, <4>2, AdoptHops
    <3>. QED
      BY <3>1, <3>3 DEF OneWind
  <2>4. CASE HandleNotify(m)
    <3>1. Running' = Running
      BY <2>4 DEF HandleNotify, Running
    <3>2. m.node \in Running /\ m.dst \in Running /\ Winds(Hops, Running)
      BY <2>4, NotifyHops DEF OneWind
    <3>3. Winds(Hops', Running)
      <4>1. CASE Hops' = Hops
        BY <3>2, <4>1
      <4>2. CASE /\ m.dst = Seed /\ Hops[Seed] = Seed
                 /\ Hops' = [Hops EXCEPT ![Seed] = m.node]
        <5>1. m.node # Seed /\ Leads(Hops, m.node, Seed)
          BY <2>4, <4>2, NotifyHops
        <5>. QED
          BY <1>1, <3>2, <4>2, <5>1, FirstHopWinds
      <4>. QED
        BY <2>4, <4>1, <4>2, NotifyHops
    <3>. QED
      BY <3>1, <3>3 DEF OneWind
  <2>. QED
    BY <2>1, <2>2, <2>3, <2>4 DEF Handle
<1>9. CASE \E n \in Nodes : Crash(n)
  BY <1>9 DEF Crash, TypeOK
<1>. QED
  BY <1>3, <1>4, <1>5, <1>6, <1>7, <1>8, <1>9 DEF Next

\* It holds until the first crash.
LEMMA OneWindInvariant == Spec => [](crashes = 0 => RingInv /\ OneWind)
<1>. DEFINE Inv == CrashFreeInv /\ (crashes = 0 => OneWind)
<1>1. Init => Inv
  <2>1. Init => Running = {}
    BY DEF Init, Running
  <2>. QED
    BY <2>1, RingInvInit DEF CrashFreeInv, RingInv, OneWind
<1>2. Inv /\ [Next]_vars => Inv'
  BY TypeStep, CrashesGrow, RingInvStep, OneWindStep DEF CrashFreeInv
<1>3. Inv => (crashes = 0 => RingInv /\ OneWind)
  BY DEF CrashFreeInv
<1>. QED
  BY <1>1, <1>2, <1>3, PTL DEF Spec

\* In agreement: each member hops to a member, no two to the same one.
Cycle(hop, members) ==
    /\ \A z \in members : hop[z] \in members
    /\ \A y, z \in members : hop[y] = hop[z] => y = z

Closed(hop, T) == \A z \in T : hop[z] \in T

\* Then there is one cycle: who can be reached from the seed is everybody.
LEMMA SeedReachesAll ==
  ASSUME NEW hop, NEW members, Cycle(hop, members), AllReachSeed(hop, members),
         NEW T \in SUBSET members, Seed \in T, Closed(hop, T)
  PROVE  T = members
<1>. DEFINE R == {y \in members : \A U \in SUBSET members :
                                      Seed \in U /\ Closed(hop, U) => y \in U}
<1>1. R \in SUBSET members /\ Seed \in R
  OBVIOUS
<1>2. Closed(hop, R)
  <2>. SUFFICES ASSUME NEW z \in R, NEW U \in SUBSET members, Seed \in U, Closed(hop, U)
                PROVE  hop[z] \in members /\ hop[z] \in U
    BY DEF Closed
  <2>1. z \in members /\ z \in U
    OBVIOUS
  <2>. QED
    BY <2>1 DEF Closed, Cycle
<1>3. ASSUME NEW U \in SUBSET members, Seed \in U, Closed(hop, U)
      PROVE  R \subseteq U
  BY <1>3
<1>. HIDE DEF R
<1>4. Closed(hop, members \ R)
  <2>. SUFFICES ASSUME NEW v \in members, v \notin R, hop[v] \in R
                PROVE  FALSE
    BY DEF Closed, Cycle
  <2>1. Closed(hop, R \ {hop[v]})
    <3>. SUFFICES ASSUME NEW z \in R, hop[z] = hop[v]
                  PROVE  FALSE
      BY <1>2 DEF Closed
    <3>. QED
      BY <1>1 DEF Cycle
  <2>2. CASE hop[v] # Seed
    <3>1. R \subseteq R \ {hop[v]}
      BY <1>1, <1>3, <2>1, <2>2
    <3>. QED
      BY <3>1
  <2>3. CASE hop[v] = Seed
    <3>1. R \ {Seed} = {}
      BY <1>1, <2>1, <2>3 DEF AllReachSeed, Closed
    <3>2. hop[Seed] = Seed
      BY <1>1, <1>2, <3>1 DEF Closed
    <3>3. v = Seed
      BY <1>1, <2>3, <3>2 DEF Cycle
    <3>. QED
      BY <1>1, <3>3
  <2>. QED
    BY <2>2, <2>3
<1>5. members \ R = {}
  BY <1>1, <1>4 DEF AllReachSeed, Closed
<1>. QED
  BY <1>3, <1>5

\* How far a node lies from the seed.
Position(n) == Clockwise(Seed, n)

\* The range of the identifiers.
LEMMA IdRange ==
  /\ 2^Bits \in Int
  /\ \A n \in Nodes : n \in Int /\ 0 <= n /\ n < 2^Bits
  /\ Seed \in Int /\ 0 <= Seed /\ Seed < 2^Bits
<1>1. 2^Bits \in Int
  BY BitsAssumption
<1>2. ASSUME NEW n \in Nodes
      PROVE  n \in Int /\ 0 <= n /\ n < 2^Bits
  BY <1>1, <1>2, NodesAssumption DEF Ids
<1>. QED
  BY <1>1, <1>2, NodesAssumption

\* Positions are the numbers from 0, no two nodes have the same, and a hop that
\* does not jump over the seed leads to a higher one.
LEMMA Positions ==
  /\ \A n \in Nodes : Position(n) \in Nat
  /\ Position(Seed) = 0
  /\ \A n, m \in Nodes : Position(n) = Position(m) => n = m
  /\ \A n, m \in Nodes : m # n /\ m # Seed /\ ~ isBetween(Seed, n, m, FALSE)
                            => Position(n) < Position(m)
BY IdRange DEF Position, Clockwise, isBetween

\* The distances from a node z follow from the positions.
LEMMA NearerByPosition ==
  ASSUME NEW z \in Nodes, NEW w \in Nodes, NEW y \in Nodes, w # z, y # z,
         \/ w = Seed /\ Position(y) <= Position(z)
         \/ /\ Position(z) < Position(w)
            /\ Position(y) <= Position(z) \/ Position(w) <= Position(y)
  PROVE  Clockwise(z, w) <= Clockwise(z, y)
BY IdRange DEF Position, Clockwise

\* Two nodes are at different distances from any third.
LEMMA DistancesDiffer ==
  ASSUME NEW z \in Nodes, NEW w \in Nodes, NEW y \in Nodes,
         Clockwise(z, w) <= Clockwise(z, y), Clockwise(z, y) <= Clockwise(z, w)
  PROVE  w = y
BY IdRange DEF Clockwise

\* A cycle that winds around once visits the members in the order of the circle.
LEMMA OneWindIsOrder ==
  ASSUME NEW hop, NEW members \in SUBSET Nodes, Seed \in members,
         Cycle(hop, members), AllReachSeed(hop, members), Winds(hop, members),
         NEW n \in members
  PROVE  hop[n] = IdealSuccessor(members, n)
<1>0. \A z \in members : z \in Nodes /\ hop[z] \in members /\ hop[z] \in Nodes
  BY DEF Cycle
<1>1. ASSUME NEW T \in SUBSET members, Seed \in T, \A z \in T : hop[z] \in T
      PROVE  T = members
  BY <1>1, SeedReachesAll DEF Closed
<1>2. \A z \in members : ~ isBetween(Seed, z, hop[z], FALSE)
  <2>1. PICK S \in SUBSET members :
            /\ Seed \in S
            /\ \A z \in S : hop[z] \in S /\ ~ isBetween(Seed, z, hop[z], FALSE)
    BY DEF Winds
  <2>2. S = members
    BY <1>1, <2>1
  <2>. QED
    BY <2>1, <2>2
<1>3. CASE \E z \in members : hop[z] = z
  <2>. PICK z \in members : hop[z] = z
    BY <1>3
  <2>1. z = Seed
    <3>1. {z} \in SUBSET members /\ {z} # {} /\ \A k \in {z} : hop[k] \in {z}
      OBVIOUS
    <3>2. Seed \in {z}
      BY <3>1 DEF AllReachSeed
    <3>. QED
      BY <3>2
  <2>2. members = {Seed}
    <3>1. {Seed} \in SUBSET members /\ \A k \in {Seed} : hop[k] \in {Seed}
      BY <2>1
    <3>2. {Seed} = members
      BY <1>1, <3>1
    <3>. QED
      BY <3>2
  <2>. QED
    BY <2>1, <2>2 DEF IdealSuccessor
<1>4. CASE \A z \in members : hop[z] # z
  <2>1. /\ \A z \in members : Position(z) \in Nat /\ Position(hop[z]) \in Nat
        /\ Position(Seed) = 0
        /\ \A y, z \in members : Position(y) = Position(z) => y = z
    BY <1>0, Positions
  <2>2. \A z \in members : hop[z] # Seed => Position(z) < Position(hop[z])
    BY <1>0, <1>2, <1>4, Positions
  <2>. DEFINE
         \* no member before z hops over z ...
         Before(z) == \A y \in members : Position(y) < Position(z) =>
                          hop[y] # Seed /\ Position(hop[y]) <= Position(z)
         \* ... and z hops over no member
         After(z) == \A y \in members :
                         Position(z) < Position(y) =>
                             hop[z] # Seed /\ Position(hop[z]) <= Position(y)
  <2>3. ASSUME NEW z \in members, Before(z)
        PROVE  After(z)
    <3>. DEFINE T == {y \in members : \/ Position(y) <= Position(z)
                                      \/ hop[z] # Seed /\ Position(hop[z]) <= Position(y)}
    <3>1. Seed \in T
      BY <2>1
    <3>2. ASSUME NEW y \in T
          PROVE  hop[y] \in T
      <4>0. y \in members /\ hop[y] \in members
        BY <1>0
      <4>1. CASE Position(y) < Position(z)
        BY <2>3, <4>0, <4>1
      <4>2. CASE y = z
        BY <2>1, <4>0, <4>2
      <4>3. CASE hop[z] # Seed /\ Position(hop[z]) <= Position(y)
        BY <2>1, <2>2, <4>0, <4>3
      <4>4. \/ Position(y) < Position(z)
            \/ Position(y) = Position(z)
            \/ hop[z] # Seed /\ Position(hop[z]) <= Position(y)
        BY <2>1, <4>0
      <4>. QED
        BY <2>1, <4>0, <4>1, <4>2, <4>3, <4>4
    <3>3. T = members
      BY <1>1, <3>1, <3>2
    <3>. QED
      BY <2>1, <3>3
  <2>4. \A z \in members : Before(z)
    <3>. DEFINE T == {z \in members : Before(z)}
    <3>1. Seed \in T
      BY <2>1
    <3>2. ASSUME NEW z \in T
          PROVE  hop[z] \in T
      <4>0. z \in members /\ hop[z] \in members /\ Before(z) /\ After(z)
        BY <1>0, <2>3
      <4>. SUFFICES ASSUME NEW y \in members, Position(y) < Position(hop[z])
                    PROVE  hop[y] # Seed /\ Position(hop[y]) <= Position(hop[z])
        BY <4>0
      <4>1. hop[z] # Seed
        BY <2>1
      <4>2. Position(y) <= Position(z)
        BY <2>1, <4>0, <4>1
      <4>3. CASE y = z
        BY <2>1, <4>1, <4>3
      <4>4. CASE Position(y) < Position(z)
        BY <2>1, <2>2, <4>0, <4>1, <4>4
      <4>. QED
        BY <2>1, <4>0, <4>2, <4>3, <4>4
    <3>3. T = members
      BY <1>1, <3>1, <3>2
    <3>. QED
      BY <3>3
  <2>5. After(n)
    BY <2>3, <2>4
  <2>6. hop[n] \in members \ {n}
    BY <1>0, <1>4
  <2>7. ASSUME NEW k \in members \ {n}
        PROVE  Clockwise(n, hop[n]) <= Clockwise(n, k)
    <3>1. /\ hop[n] = Seed \/ Position(n) < Position(hop[n])
          /\ Position(k) <= Position(n) \/ (hop[n] # Seed /\ Position(hop[n]) <= Position(k))
      BY <2>1, <2>2, <2>5
    <3>. QED
      BY <1>0, <2>6, <3>1, NearerByPosition
  <2>8. ASSUME NEW m \in members \ {n},
               \A k \in members \ {n} : Clockwise(n, m) <= Clockwise(n, k)
        PROVE  m = hop[n]
    BY <1>0, <2>6, <2>7, <2>8, DistancesDiffer
  <2>9. members # {n}
    BY <2>6
  <2>10. PICK i \in members \ {n} :
            /\ i = IdealSuccessor(members, n)
            /\ \A k \in members \ {n} : Clockwise(n, i) <= Clockwise(n, k)
    BY <2>6, <2>7, <2>9 DEF IdealSuccessor
  <2>. QED
    BY <2>8, <2>10
<1>. QED
  BY <1>3, <1>4

\* As long as no node has crashed: when every node is the predecessor its
\* successor knows, so that neither stabilize nor notify has anything left to
\* change, then every node's successor is the next member clockwise.  The ring
\* cannot come to rest in a wrong order.
THEOREM AgreementMeansOrder == Spec => []AgreementIsOrder
<1>1. ASSUME RingInv, OneWind, Up = Running, \A n \in Up : pred[succ[n]] = n, NEW n \in Up
      PROVE  succ[n] = IdealSuccessor(Up, n)
  <2>1. \A z \in Up : z \in Nodes /\ Hops[z] = succ[z]
    BY DEF Up, Hops, NextHop
  <2>2. Up \in SUBSET Nodes /\ Seed \in Up
    BY <1>1 DEF RingInv, MemberInv, Up
  <2>3. Cycle(Hops, Up)
    <3>1. \A z \in Up : Hops[z] \in Up
      BY <1>1 DEF RingInv, MemberInv
    <3>2. \A y, z \in Up : Hops[y] = Hops[z] => y = z
      BY <1>1, <2>1
    <3>. QED
      BY <3>1, <3>2 DEF Cycle
  <2>4. AllReachSeed(Hops, Up)
    BY <1>1, ReachDef DEF RingInv
  <2>5. Winds(Hops, Up)
    BY <1>1 DEF OneWind
  <2>6. Hops[n] = IdealSuccessor(Up, n)
    BY <2>2, <2>3, <2>4, <2>5, OneWindIsOrder
  <2>. QED
    BY <2>1, <2>6
<1>2. (crashes = 0 => RingInv /\ OneWind) => AgreementIsOrder
  BY <1>1 DEF AgreementIsOrder
<1>. QED
  BY <1>2, OneWindInvariant, PTL
================================================================================
