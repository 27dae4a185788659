---------------------------- MODULE MeshFilesProofs ----------------------------
(***************************************************************************)
(* Proofs about MeshFiles, for any nodes, configurations and bound: the    *)
(* types; that a Get returns the file or an error (GetIsFile); and, where  *)
(* calls do not overlap and no node dies, that no stream is taken by the   *)
(* wrong reader, that calls have done their work when all is quiet         *)
(* (LastCallDone), and that a Get ends, with the file (LoneGetFindsFile).  *)
(***************************************************************************)
EXTENDS MeshFiles, FiniteSetTheorems, SequenceTheorems, TLAPS

-----------------------------------------------------------------------------
(* Types.                                                                   *)

Numbers == 0 .. Cardinality(Nodes)
StoreMessages == [type : {"store"}, part : Numbers, total : Numbers]
Streams == [type : {"stream"}, use : {"store", "answer"}, file : Files]

\* What a connection carries.
Items == {MessageGetFile, MessageDeleteFile} \cup StoreMessages \cup Streams

Calls == [pc : {"idle", "part", "data", "stream", "asked", "collect", "delete"},
          left : SUBSET Nodes, at : Nodes \cup {None}, num : Nat, total : Nat,
          parts : SUBSET Files, got : {None, "file", "error", "wrong"}]

Types ==
    /\ mode \in Modes /\ listed \subseteq Nodes /\ peers \in [Nodes -> SUBSET Nodes]
    /\ disk \in [Nodes -> Files \cup {None}]
    /\ chan \in [Nodes -> [Nodes -> Seq(Items)]]
    /\ loop \in [Nodes -> [from : Nodes, msg : StoreMessages] \cup {None}]
    /\ client \in [Nodes -> Calls]
    /\ dead \subseteq Nodes /\ events \in 0 .. MaxEvents
    /\ seen \in [last : {None, "store", "remove"}, overlapped : BOOLEAN, cut : BOOLEAN,
                 totals : SUBSET Numbers]

\* A call waits for peers of its node only, what it sends is numbered by members,
\* and only where files are not cut does it send copies.
CallInv ==
    /\ \A n \in Nodes : loop[n] # None => loop[n].from \in peers[n]
    /\ \A n \in Nodes : client[n].left \subseteq peers[n]
    /\ \A n \in Nodes : client[n].pc \in {"part", "data"} => client[n].total \in Numbers
    /\ \A n \in Nodes : client[n].pc = "data" => client[n].num <= client[n].total
    /\ \A n \in Nodes : client[n].pc = "stream" => ~ Split

-----------------------------------------------------------------------------
(* What Get returns.  As long as no file has lost its end, every file in the *)
(* mesh is whole and encrypted as often as its place asks for.               *)

\* How often a file on the disk is encrypted.
Layers == IF EncType = "None" THEN 0 ELSE 1

Sound == ~ seen.cut /\ (Split \/ EncType = "None")

\* A file cut into a number of parts that some Store has used.
Known(ts, total) == Split => total \in ts
Clear(ts, f) == f.layers = 0 /\ f.whole /\ Known(ts, f.total)
Kept(ts, f) == f.layers = Layers /\ f.whole /\ Known(ts, f.total)

Fits(ts, x) ==
    /\ x.type = "store" => Known(ts, x.total)
    /\ x.type = "stream" /\ x.use = "store" => x.file.layers = 0 /\ x.file.whole
    /\ x.type = "stream" /\ x.use = "answer" => Kept(ts, x.file)

OneTotal(ts) == \A s, t \in ts : s = t

CallFits(ts, c) ==
    /\ \A f \in c.parts : Clear(ts, f)
    /\ c.total # 0 \/ c.pc \in {"part", "data"} => Known(ts, c.total)
    /\ OneTotal(ts) => c.got # "wrong"

DiskInv == \A n \in Nodes \ dead : disk[n] # None => Kept(seen.totals, disk[n])
ChanInv == \A n, m \in Nodes : \A i \in DOMAIN chan[n][m] : Fits(seen.totals, chan[n][m][i])
LoopInv == \A n \in Nodes : loop[n] # None => Known(seen.totals, loop[n].msg.total)
ClientInv == \A n \in Nodes : CallFits(seen.totals, client[n])

FileInv == Sound => DiskInv /\ ChanInv /\ LoopInv /\ ClientInv

-----------------------------------------------------------------------------
(* The constants, and encryption.                                           *)

\* The configuration is one of those the flags can give.
LEMMA Config ==
  ASSUME mode \in Modes
  PROVE  Split \in BOOLEAN /\ EncType \in {"AES", "CC20", "None"}
BY ModesAssumption DEF Split, EncType

\* As many parts as members are at most as many as nodes.
LEMMA Members ==
  ASSUME listed \subseteq Nodes
  PROVE  /\ Cardinality(listed) \in Numbers /\ Numbers \subseteq Nat /\ 0 \in Numbers
         /\ Cardinality(Nodes) \in Nat
<1>1. IsFiniteSet(Nodes)
  BY StartsAssumption
<1>2. Cardinality(Nodes) \in Nat /\ Cardinality(listed) \in Nat
      /\ Cardinality(listed) <= Cardinality(Nodes)
  BY <1>1, FS_CardinalityType, FS_Subset
<1>. QED
  BY <1>2 DEF Numbers

\* Encryption changes the layers only, and is undone by decryption.
LEMMA Encryption ==
  ASSUME mode \in Modes, NEW f \in Files
  PROVE  /\ encrypt(f) \in Files /\ decrypt(f) \in Files
         /\ encrypt(f).part = f.part /\ encrypt(f).total = f.total /\ encrypt(f).whole = f.whole
         /\ decrypt(f).part = f.part /\ decrypt(f).total = f.total /\ decrypt(f).whole = f.whole
         /\ f.layers = 0 => encrypt(f).layers = Layers
         /\ f.layers = Layers => decrypt(f).layers = 0
         /\ EncType = "None" => encrypt(f) = f /\ decrypt(f) = f
<1>1. EncType \in {"AES", "CC20", "None"}
  BY Config
<1>2. \A l \in Int : /\ [f EXCEPT !.layers = l] \in Files
                     /\ [f EXCEPT !.layers = l].part = f.part /\ [f EXCEPT !.layers = l].total = f.total
                     /\ [f EXCEPT !.layers = l].whole = f.whole /\ [f EXCEPT !.layers = l].layers = l
  BY DEF Files
<1>3. f.layers \in Int
  BY DEF Files
<1>4. CASE EncType = "AES"
  <2>1. encrypt(f) = [f EXCEPT !.layers = f.layers + 1] /\ decrypt(f) = [f EXCEPT !.layers = f.layers - 1]
    BY <1>4 DEF encrypt, decrypt
  <2>2. f.layers + 1 \in Int /\ f.layers - 1 \in Int /\ Layers = 1
    BY <1>3, <1>4 DEF Layers
  <2>. QED
    BY <1>2, <1>3, <1>4, <2>1, <2>2
<1>5. CASE EncType = "CC20"
  <2>1. encrypt(f) = [f EXCEPT !.layers = 1 - f.layers] /\ decrypt(f) = [f EXCEPT !.layers = 1 - f.layers]
    BY <1>5 DEF encrypt, decrypt
  <2>2. 1 - f.layers \in Int /\ Layers = 1
    BY <1>3, <1>5 DEF Layers
  <2>. QED
    BY <1>2, <1>3, <1>5, <2>1, <2>2
<1>6. CASE EncType = "None"
  <2>1. encrypt(f) = f /\ decrypt(f) = f /\ Layers = 0
    BY <1>6 DEF encrypt, decrypt, Layers
  <2>. QED
    BY <1>3, <2>1
<1>. QED
  BY <1>1, <1>4, <1>5, <1>6

\* A part of the file as the sender reads it.
LEMMA PlainFiles ==
  ASSUME NEW i \in Nat, NEW t \in Nat
  PROVE  /\ Plain(i, t) \in Files /\ Plain(i, t).layers = 0 /\ Plain(i, t).whole = TRUE
         /\ Plain(i, t).total = t
         /\ [Plain(i, t) EXCEPT !.whole = FALSE] \in Files
<1>1. Plain(i, t) = [part |-> i, total |-> t, layers |-> 0, whole |-> TRUE]
  BY DEF Plain
<1>2. 0 \in Int /\ TRUE \in BOOLEAN
  OBVIOUS
<1>3. Plain(i, t) \in Files
  BY <1>1, <1>2 DEF Files
<1>4. \A f \in Files : [f EXCEPT !.whole = FALSE] \in Files
  BY DEF Files
<1>. QED
  BY <1>1, <1>3, <1>4

\* What is sent.
LEMMA ItemTypes ==
  /\ MessageGetFile \in Items /\ MessageDeleteFile \in Items
  /\ \A i, t \in Numbers : MessageStoreFile(i, t) \in Items
  /\ \A use \in {"store", "answer"} : \A f \in Files : Stream(use, f) \in Items
BY DEF Items, MessageStoreFile, Stream, StoreMessages, Streams

\* What is on a connection is a message or a stream.
LEMMA ItemKinds ==
  ASSUME NEW x \in Items
  PROVE  /\ ~ IsMessage(x) => x \in Streams /\ x.file \in Files
         /\ x.type = "store" => x \in StoreMessages
         /\ x.type = "stream" => x \in Streams
<1>1. MessageGetFile.type = "get" /\ MessageDeleteFile.type = "delete"
  BY DEF MessageGetFile, MessageDeleteFile
<1>2. /\ \A y \in StoreMessages : y.type = "store"
      /\ \A y \in Streams : y.type = "stream" /\ y.file \in Files
  BY DEF StoreMessages, Streams
<1>. QED
  BY <1>1, <1>2 DEF Items, IsMessage

-----------------------------------------------------------------------------
(* What the steps do to the variables.                                      *)

\* Everything on a connection is from X or was there before.
Adds(X) ==
    /\ chan' \in [Nodes -> [Nodes -> Seq(Items)]]
    /\ \A n, m \in Nodes : \A i \in DOMAIN chan'[n][m] :
           chan'[n][m][i] \in X \/ \E k \in DOMAIN chan[n][m] : chan'[n][m][i] = chan[n][m][k]

\* Only the disk, the call, the event loop of n change.
Writes(n, f) == disk' \in [Nodes -> Files \cup {None}] /\ disk'[n] = f
                /\ \A k \in Nodes \ {n} : disk'[k] = disk[k]
Moves(n, c) == client' \in [Nodes -> Calls] /\ client'[n] = c
               /\ \A k \in Nodes \ {n} : client'[k] = client[k]

\* Nothing is sent.
LEMMA AddsNothing ==
  ASSUME Types, chan' = chan
  PROVE  Adds({})
BY DEF Types, Adds

\* Something is sent.
LEMMA ToAdds ==
  ASSUME Types, NEW n \in Nodes, NEW S, NEW x \in Items, chan' = To(n, S, x)
  PROVE  Adds({x})
<1>. DEFINE row == [p \in Nodes |-> IF p \in S \ dead THEN Append(chan[n][p], x) ELSE chan[n][p]]
<1>1. chan \in [Nodes -> [Nodes -> Seq(Items)]]
  BY DEF Types
<1>2. row \in [Nodes -> Seq(Items)]
  BY <1>1
<1>3. \A p \in Nodes : row[p] = Append(chan[n][p], x) \/ row[p] = chan[n][p]
  OBVIOUS
<1>4. chan' = [chan EXCEPT ![n] = row]
  BY DEF To
<1>. HIDE DEF row
<1>5. /\ chan' \in [Nodes -> [Nodes -> Seq(Items)]] /\ chan'[n] = row
      /\ \A m \in Nodes \ {n} : chan'[m] = chan[m]
  BY <1>1, <1>2, <1>4
<1>6. \A p \in Nodes : \A i \in DOMAIN row[p] :
          row[p][i] = x \/ \E k \in DOMAIN chan[n][p] : row[p][i] = chan[n][p][k]
  <2>. SUFFICES ASSUME NEW p \in Nodes, NEW i \in DOMAIN row[p]
                PROVE  row[p][i] = x \/ \E k \in DOMAIN chan[n][p] : row[p][i] = chan[n][p][k]
    OBVIOUS
  <2>1. chan[n][p] \in Seq(Items)
    BY <1>1
  <2>2. \A q \in Seq(Items) : \A j \in DOMAIN Append(q, x) :
            Append(q, x)[j] = x \/ \E k \in DOMAIN q : Append(q, x)[j] = q[k]
    OBVIOUS
  <2>3. CASE row[p] = Append(chan[n][p], x)
    <3>1. i \in DOMAIN Append(chan[n][p], x)
      BY <2>3
    <3>2. \/ Append(chan[n][p], x)[i] = x
          \/ \E k \in DOMAIN chan[n][p] : Append(chan[n][p], x)[i] = chan[n][p][k]
      BY <2>1, <2>2, <3>1
    <3>. QED
      BY <2>3, <3>2
  <2>4. CASE row[p] = chan[n][p]
    BY <2>4
  <2>. QED
    BY <1>3, <2>3, <2>4
<1>7. ASSUME NEW a \in Nodes, NEW b \in Nodes, NEW i \in DOMAIN chan'[a][b]
      PROVE  chan'[a][b][i] \in {x} \/ \E k \in DOMAIN chan[a][b] : chan'[a][b][i] = chan[a][b][k]
  <2>1. CASE a = n
    <3>1. chan'[a][b] = row[b]
      BY <1>5, <2>1
    <3>. QED
      BY <1>6, <2>1, <3>1
  <2>2. CASE a # n
    BY <1>5, <2>2
  <2>. QED
    BY <2>1, <2>2
<1>. QED
  BY <1>5, <1>7 DEF Adds

\* Something is taken.
LEMMA TookAdds ==
  ASSUME Types, NEW m \in Nodes, NEW p \in Nodes, Waiting(m, p)
  PROVE  /\ Took(m, p) \in [Nodes -> [Nodes -> Seq(Items)]]
         /\ \A a, b \in Nodes : \A i \in DOMAIN Took(m, p)[a][b] :
                \E k \in DOMAIN chan[a][b] : Took(m, p)[a][b][i] = chan[a][b][k]
         /\ Head(chan[p][m]) \in Items
         /\ \E k \in DOMAIN chan[p][m] : Head(chan[p][m]) = chan[p][m][k]
         /\ chan' = Took(m, p) => Adds({})
<1>1. chan \in [Nodes -> [Nodes -> Seq(Items)]] /\ chan[p][m] # <<>>
  BY DEF Types, Waiting
<1>2. chan[p][m] \in Seq(Items)
  BY <1>1
<1>. DEFINE q == chan[p][m]
            r == Tail(q)
            t == Took(m, p)
<1>3. /\ r \in Seq(Items) /\ \A i \in DOMAIN r : \E k \in DOMAIN q : r[i] = q[k]
      /\ Head(q) \in Items /\ \E k \in DOMAIN q : Head(q) = q[k]
  <2>1. \A s \in Seq(Items) : s # <<>> =>
            /\ Tail(s) \in Seq(Items) /\ Head(s) = s[1] /\ s[1] \in Items /\ 1 \in DOMAIN s
            /\ \A i \in DOMAIN Tail(s) : i + 1 \in DOMAIN s /\ Tail(s)[i] = s[i + 1]
    OBVIOUS
  <2>2. q \in Seq(Items) /\ q # <<>>
    BY <1>1, <1>2
  <2>. HIDE DEF q
  <2>. QED
    BY <2>1, <2>2
<1>4. t = [chan EXCEPT ![p] = [chan[p] EXCEPT ![m] = r]]
  BY <1>1 DEF Took
<1>. HIDE DEF r, t
<1>5. /\ t \in [Nodes -> [Nodes -> Seq(Items)]] /\ t[p][m] = r
      /\ \A a, b \in Nodes : <<a, b>> # <<p, m>> => t[a][b] = chan[a][b]
  BY <1>1, <1>3, <1>4
<1>6. \A a, b \in Nodes : \A i \in DOMAIN t[a][b] : \E k \in DOMAIN chan[a][b] : t[a][b][i] = chan[a][b][k]
  <2>. SUFFICES ASSUME NEW a \in Nodes, NEW b \in Nodes, NEW i \in DOMAIN t[a][b]
                PROVE  \E k \in DOMAIN chan[a][b] : t[a][b][i] = chan[a][b][k]
    OBVIOUS
  <2>1. CASE <<a, b>> = <<p, m>>
    BY <1>3, <1>5, <2>1
  <2>2. CASE <<a, b>> # <<p, m>>
    BY <1>5, <2>2
  <2>. QED
    BY <2>1, <2>2
<1>7. chan' = t => Adds({})
  <2>. SUFFICES ASSUME chan' = t
                PROVE  Adds({})
    OBVIOUS
  <2>1. \A a, b \in Nodes : \A i \in DOMAIN chan'[a][b] :
            \E k \in DOMAIN chan[a][b] : chan'[a][b][i] = chan[a][b][k]
    BY <1>6
  <2>2. chan' \in [Nodes -> [Nodes -> Seq(Items)]]
    BY <1>5
  <2>. QED
    BY <2>1, <2>2 DEF Adds
<1>. QED
  BY <1>3, <1>5, <1>6, <1>7 DEF t


\* The seen variable, for a step that may cut files and count totals.
Sees(cut, ts) ==
    /\ seen' \in [last : {None, "store", "remove"}, overlapped : BOOLEAN, cut : BOOLEAN,
                  totals : SUBSET Numbers]
    /\ seen'.totals = seen.totals \cup ts /\ (seen.cut => seen'.cut) /\ (cut => seen'.cut)

\* A call begins.
LEMMA CalledEffect ==
  ASSUME Types, NEW n \in Nodes, NEW last \in {None, "store", "remove"}, NEW ts \in SUBSET Numbers,
         Called(n, last, ts)
  PROVE  /\ Sees(FALSE, ts) /\ events' \in 0 .. MaxEvents /\ n \in listed /\ client[n].pc = "idle"
         /\ UNCHANGED <<mode, listed, peers, loop, dead, crossed>>
<1>1. /\ seen' = [seen EXCEPT !.last = last, !.overlapped = @ \/ ~ Quiet, !.totals = @ \cup ts]
      /\ events < MaxEvents /\ events' = events + 1 /\ n \in listed /\ client[n].pc = "idle"
      /\ UNCHANGED <<mode, listed, peers, loop, dead, crossed>>
  BY DEF Called, Happens
<1>2. events' \in 0 .. MaxEvents
  BY <1>1, BoundsAssumption DEF Types
<1>3. Sees(FALSE, ts)
  <2>. DEFINE o == seen.overlapped \/ ~ Quiet
  <2>1. o \in BOOLEAN
    OBVIOUS
  <2>2. seen' = [seen EXCEPT !.last = last, !.overlapped = o, !.totals = seen.totals \cup ts]
    BY <1>1
  <2>. HIDE DEF o
  <2>. QED
    BY <2>1, <2>2 DEF Sees, Types
<1>. QED
  BY <1>1, <1>2, <1>3

\* The call of n goes on.
LEMMA MovesOn ==
  ASSUME Types, NEW n \in Nodes, NEW c \in Calls, client' = [client EXCEPT ![n] = c]
  PROVE  Moves(n, c)
BY DEF Types, Moves

\* A file is written, or deleted.
LEMMA DiskWritten ==
  ASSUME Types, NEW n \in Nodes, NEW f \in Files \cup {None}, disk' = [disk EXCEPT ![n] = f]
  PROVE  Writes(n, f)
BY DEF Types, Writes

\* A call that has just begun, or ended.
LEMMA IdleCalls ==
  /\ Idle \in Calls /\ Idle.left = {} /\ Idle.parts = {} /\ Idle.total = 0 /\ Idle.got = None
  /\ Idle.pc = "idle"
  /\ \A got \in {None, "file", "error", "wrong"} :
         /\ [Idle EXCEPT !.got = got] \in Calls /\ [Idle EXCEPT !.got = got].left = {}
         /\ [Idle EXCEPT !.got = got].parts = {} /\ [Idle EXCEPT !.got = got].total = 0
         /\ [Idle EXCEPT !.got = got].pc = "idle" /\ [Idle EXCEPT !.got = got].got = got
  /\ \A pc \in {"stream", "asked", "delete"} :
         /\ [Idle EXCEPT !.pc = pc] \in Calls /\ [Idle EXCEPT !.pc = pc].left = {}
         /\ [Idle EXCEPT !.pc = pc].parts = {} /\ [Idle EXCEPT !.pc = pc].total = 0
         /\ [Idle EXCEPT !.pc = pc].pc = pc /\ [Idle EXCEPT !.pc = pc].got = None
BY DEF Idle, Calls

\* A store of parts begins.
LEMMA StoreSplitEffect ==
  ASSUME Types, NEW n \in Nodes, storeSplit(n)
  PROVE  \E t \in Numbers, c \in Calls :
             /\ Split /\ Sees(FALSE, {t}) /\ events' \in 0 .. MaxEvents
             /\ UNCHANGED <<mode, listed, peers, loop, dead, crossed, chan>>
             /\ Writes(n, encrypt(Plain(1, t)))
             /\ Moves(n, c) /\ c.pc = "part" /\ c.left = peers[n] /\ c.total = t
             /\ c.parts = {} /\ c.got = None
<1>. DEFINE t == Cardinality(listed)
            c == [Idle EXCEPT !.pc = "part", !.left = peers[n], !.num = 2, !.total = t]
<1>1. /\ Split /\ Called(n, "store", {t}) /\ disk' = [disk EXCEPT ![n] = encrypt(Plain(1, t))]
      /\ client' = [client EXCEPT ![n] = c] /\ UNCHANGED chan
  BY DEF storeSplit
<1>2. t \in Numbers /\ t \in Nat
  BY Members DEF Types
<1>. HIDE DEF t
<1>3. c \in Calls /\ c.pc = "part" /\ c.left = peers[n] /\ c.total = t /\ c.parts = {} /\ c.got = None
  BY <1>2 DEF Idle, Calls, Types
<1>. HIDE DEF c
<1>4. Moves(n, c)
  BY <1>1, <1>3, MovesOn
<1>5. encrypt(Plain(1, t)) \in Files
  BY <1>2, PlainFiles, Encryption DEF Types
<1>6. Writes(n, encrypt(Plain(1, t)))
  BY <1>1, <1>5, DiskWritten
<1>7. /\ Sees(FALSE, {t}) /\ events' \in 0 .. MaxEvents
      /\ UNCHANGED <<mode, listed, peers, loop, dead, crossed>>
  BY <1>1, <1>2, CalledEffect
<1>. QED
  BY <1>1, <1>2, <1>3, <1>4, <1>6, <1>7

\* A store of copies begins.
LEMMA StoreAllEffect ==
  ASSUME Types, NEW n \in Nodes, storeAll(n)
  PROVE  \E c \in Calls :
             /\ ~ Split /\ Sees(FALSE, {0}) /\ events' \in 0 .. MaxEvents
             /\ UNCHANGED <<mode, listed, peers, loop, dead, crossed>>
             /\ Writes(n, encrypt(Plain(0, 0))) /\ Adds({MessageStoreFile(0, 0)})
             /\ Moves(n, c) /\ c.pc = "stream" /\ c.left = {} /\ c.total = 0
             /\ c.parts = {} /\ c.got = None
<1>. DEFINE c == [Idle EXCEPT !.pc = "stream"]
<1>1. /\ ~ Split /\ Called(n, "store", {0}) /\ disk' = [disk EXCEPT ![n] = encrypt(Plain(0, 0))]
      /\ client' = [client EXCEPT ![n] = c]
  BY DEF storeAll
<1>2. PICK r \in Reached(n) : chan' = To(n, r[1], MessageStoreFile(0, 0))
  BY DEF storeAll
<1>3. /\ c \in Calls /\ c.pc = "stream" /\ c.left = {} /\ c.total = 0 /\ c.parts = {}
      /\ c.got = None
  BY IdleCalls
<1>. HIDE DEF c
<1>4. Moves(n, c)
  BY <1>1, <1>3, MovesOn
<1>5. encrypt(Plain(0, 0)) \in Files
  BY PlainFiles, Encryption DEF Types
<1>6. Writes(n, encrypt(Plain(0, 0)))
  BY <1>1, <1>5, DiskWritten
<1>7. /\ Sees(FALSE, {0}) /\ events' \in 0 .. MaxEvents
      /\ UNCHANGED <<mode, listed, peers, loop, dead, crossed>>
  <2>1. {0} \in SUBSET Numbers
    BY Members DEF Types
  <2>. QED
    BY <1>1, <2>1, CalledEffect
<1>8. MessageStoreFile(0, 0) \in Items
  BY Members, ItemTypes DEF Types
<1>9. Adds({MessageStoreFile(0, 0)})
  <2>. DEFINE S == r[1]
              x == MessageStoreFile(0, 0)
  <2>1. chan' = To(n, S, x) /\ x \in Items
    BY <1>2, <1>8
  <2>. HIDE DEF S, x
  <2>2. Adds({x})
    BY <2>1, ToAdds
  <2>. QED
    BY <2>2 DEF x
<1>. QED
  BY <1>1, <1>3, <1>4, <1>6, <1>7, <1>9

\* Get and Remove begin.
LEMMA AskEffect ==
  ASSUME Types, NEW n \in Nodes, getAllLocal(n) \/ AskPeers(n) \/ Remove(n)
  PROVE  \E c \in Calls :
             /\ Sees(FALSE, {}) /\ events' \in 0 .. MaxEvents
             /\ UNCHANGED <<mode, listed, peers, loop, dead, crossed, disk>>
             /\ Adds({MessageGetFile, MessageDeleteFile})
             /\ Moves(n, c) /\ c.pc \in {"idle", "asked", "delete"} /\ c.left = {}
             /\ \/ c.total = 0 /\ c.parts = {}
                \/ /\ disk[n] # None /\ c.total = disk[n].total
                   /\ c.parts = {decrypt(disk[n])}
             /\ \/ c.got \in {None, "error"}
                \/ ~ Split /\ disk[n] # None /\ c.got = Content(disk[n])
<1>. DEFINE X == {MessageGetFile, MessageDeleteFile}
<1>0. MessageGetFile \in Items /\ MessageDeleteFile \in Items
  BY ItemTypes
<1>1. \A x \in X : Adds({x}) => Adds(X)
  BY DEF Adds
<1>2. ASSUME NEW S, NEW x \in X, chan' = To(n, S, x)
      PROVE  Adds(X)
  <2>1. x \in Items
    BY <1>0
  <2>2. Adds({x})
    BY <1>2, <2>1, ToAdds
  <2>. QED
    BY <1>1, <2>2
<1>3. ASSUME NEW last \in {None, "store", "remove"}, Called(n, last, {})
      PROVE  /\ Sees(FALSE, {}) /\ events' \in 0 .. MaxEvents
             /\ UNCHANGED <<mode, listed, peers, loop, dead, crossed>>
  BY <1>3, CalledEffect
<1>4. seen.last \in {None, "store", "remove"}
  BY DEF Types
<1>5. disk[n] \in Files \cup {None}
  BY DEF Types
<1>6. CASE getAllLocal(n)
  <2>. DEFINE c == [Idle EXCEPT !.got = Content(disk[n])]
  <2>1. /\ ~ Split /\ disk[n] # None /\ Called(n, seen.last, {})
        /\ client' = [client EXCEPT ![n] = c] /\ UNCHANGED <<disk, chan>>
    BY <1>6 DEF getAllLocal
  <2>2. Content(disk[n]) \in {None, "file", "error", "wrong"}
    BY DEF Content
  <2>3. c \in Calls /\ c.pc = "idle" /\ c.left = {} /\ c.total = 0 /\ c.parts = {} /\ c.got = Content(disk[n])
    BY <2>2, IdleCalls
  <2>. HIDE DEF c
  <2>4. Moves(n, c)
    BY <2>1, <2>3, MovesOn
  <2>5. Adds(X)
    <3>1. Adds({})
      BY <2>1, AddsNothing
    <3>. QED
      BY <3>1 DEF Adds
  <2>. QED
    BY <1>3, <1>4, <2>1, <2>3, <2>4, <2>5
<1>7. CASE AskPeers(n)
  <2>0. disk' = disk /\ Called(n, seen.last, {})
    BY <1>7 DEF AskPeers
  <2>1. PICK r \in Reached(n) :
            /\ chan' = To(n, r[1], MessageGetFile)
            /\ client' = [client EXCEPT ![n] =
                 IF ~ r[2] THEN [Idle EXCEPT !.got = "error"]
                 ELSE IF disk[n] = None THEN [Idle EXCEPT !.pc = "asked"]
                 ELSE [Idle EXCEPT !.pc = "asked", !.parts = {decrypt(disk[n])},
                                   !.total = disk[n].total]]
    BY <1>7 DEF AskPeers
  <2>2. Adds(X)
    <3>. DEFINE S == r[1]
    <3>1. chan' = To(n, S, MessageGetFile) /\ MessageGetFile \in X
      BY <2>1
    <3>. HIDE DEF S, X
    <3>. QED
      BY <1>2, <3>1
  <2>. DEFINE c == IF ~ r[2] THEN [Idle EXCEPT !.got = "error"]
                   ELSE IF disk[n] = None THEN [Idle EXCEPT !.pc = "asked"]
                   ELSE [Idle EXCEPT !.pc = "asked", !.parts = {decrypt(disk[n])},
                                     !.total = disk[n].total]
  <2>3. /\ c \in Calls /\ c.pc \in {"idle", "asked"} /\ c.left = {} /\ c.got \in {None, "error"}
        /\ \/ c.total = 0 /\ c.parts = {}
           \/ disk[n] # None /\ c.total = disk[n].total /\ c.parts = {decrypt(disk[n])}
    <3>1. CASE ~ r[2]
      BY <3>1, IdleCalls
    <3>2. CASE r[2] /\ disk[n] = None
      BY <3>2, IdleCalls
    <3>3. CASE r[2] /\ disk[n] # None
      <4>1. disk[n] \in Files
        BY <1>5, <3>3
      <4>2. decrypt(disk[n]) \in Files /\ disk[n].total \in Nat
        BY <4>1, Encryption DEF Types, Files
      <4>3. c = [Idle EXCEPT !.pc = "asked", !.parts = {decrypt(disk[n])}, !.total = disk[n].total]
        BY <3>3
      <4>. QED
        BY <3>3, <4>2, <4>3 DEF Idle, Calls
    <3>. QED
      BY <3>1, <3>2, <3>3
  <2>4. client' = [client EXCEPT ![n] = c]
    BY <2>1
  <2>. HIDE DEF c, X
  <2>5. Moves(n, c)
    BY <2>3, <2>4, MovesOn
  <2>. QED
    BY <1>3, <1>4, <2>0, <2>2, <2>3, <2>5 DEF X
<1>8. CASE Remove(n)
  <2>0. disk' = disk /\ Called(n, "remove", {})
    BY <1>8 DEF Remove
  <2>1. PICK r \in Reached(n) :
            /\ chan' = To(n, r[1], MessageDeleteFile)
            /\ client' = [client EXCEPT ![n] = IF r[2] THEN [Idle EXCEPT !.pc = "delete"] ELSE Idle]
    BY <1>8 DEF Remove
  <2>2. Adds(X)
    <3>. DEFINE S == r[1]
    <3>1. chan' = To(n, S, MessageDeleteFile) /\ MessageDeleteFile \in X
      BY <2>1
    <3>. HIDE DEF S, X
    <3>. QED
      BY <1>2, <3>1
  <2>. DEFINE c == IF r[2] THEN [Idle EXCEPT !.pc = "delete"] ELSE Idle
  <2>3. /\ c \in Calls /\ c.pc \in {"idle", "delete"} /\ c.left = {} /\ c.total = 0 /\ c.parts = {}
        /\ c.got = None
    BY IdleCalls
  <2>4. client' = [client EXCEPT ![n] = c]
    BY <2>1
  <2>. HIDE DEF c, X
  <2>5. Moves(n, c)
    BY <2>3, <2>4, MovesOn
  <2>. QED
    BY <1>3, <2>0, <2>2, <2>3, <2>5 DEF X
<1>. QED
  BY <1>6, <1>7, <1>8


\* A call goes on.
LEMMA GoesEffect ==
  ASSUME Types, NEW n \in Nodes, NEW c \in Calls, Goes(n, c)
  PROVE  Moves(n, c) /\ UNCHANGED <<mode, listed, peers, loop, dead, events, crossed>>
BY MovesOn DEF Goes

\* Nothing is seen.
LEMMA SeesNothing ==
  ASSUME Types, seen' = seen
  PROVE  Sees(FALSE, {})
BY DEF Sees, Types

\* The call while the data of a part, and then the next part, are to be sent.
DataCall(d, p) == [d EXCEPT !.pc = "data", !.at = p]
PartCall(d) == [d EXCEPT !.pc = "part", !.left = @ \ {d.at}, !.at = None, !.num = @ + 1]

\* They change what their names say.
LEMMA StoreCalls ==
  ASSUME NEW d \in Calls
  PROVE  /\ \A p \in Nodes :
                /\ DataCall(d, p) \in Calls /\ DataCall(d, p).pc = "data"
                /\ DataCall(d, p).left = d.left /\ DataCall(d, p).num = d.num
                /\ DataCall(d, p).total = d.total /\ DataCall(d, p).parts = d.parts
                /\ DataCall(d, p).got = d.got
         /\ PartCall(d) \in Calls /\ PartCall(d).pc = "part" /\ PartCall(d).left = d.left \ {d.at}
         /\ PartCall(d).total = d.total /\ PartCall(d).parts = d.parts /\ PartCall(d).got = d.got
<1>1. ASSUME NEW p \in Nodes
      PROVE  /\ DataCall(d, p) \in Calls /\ DataCall(d, p).pc = "data"
             /\ DataCall(d, p).left = d.left /\ DataCall(d, p).num = d.num
             /\ DataCall(d, p).total = d.total /\ DataCall(d, p).parts = d.parts
             /\ DataCall(d, p).got = d.got
  BY DEF DataCall, Calls
<1>. DEFINE a == d.left \ {d.at}
            k == d.num + 1
<1>2. a \in SUBSET Nodes /\ k \in Nat
  BY DEF Calls
<1>3. PartCall(d) = [d EXCEPT !.pc = "part", !.left = a, !.at = None, !.num = k]
  BY DEF PartCall
<1>. HIDE DEF a, k
<1>4. PartCall(d) \in Calls
  BY <1>2, <1>3 DEF Calls
<1>5. /\ PartCall(d).pc = "part" /\ PartCall(d).left = a /\ PartCall(d).total = d.total
      /\ PartCall(d).parts = d.parts /\ PartCall(d).got = d.got
  BY <1>2, <1>3 DEF Calls
<1>. QED
  BY <1>1, <1>4, <1>5 DEF a

\* A store sends a part, or its message.
LEMMA SendEffect ==
  ASSUME Types, CallInv, NEW n \in Nodes, (\E p \in Nodes : SendPart(n, p)) \/ SendData(n)
  PROVE  \E c \in Calls, x \in Items :
             /\ UNCHANGED <<mode, listed, peers, loop, dead, events, crossed, disk, seen>>
             /\ Adds({x}) /\ Moves(n, c)
             /\ client[n].pc \in {"part", "data"} /\ c.pc \in {"part", "data"}
             /\ c.left \subseteq client[n].left
             /\ c.total = client[n].total /\ c.parts = client[n].parts /\ c.got = client[n].got
             /\ c.pc = "data" => c.num <= c.total
             /\ \/ x.type = "store" /\ x.total = client[n].total
                \/ x.type = "stream" /\ x.use = "store" /\ x.file.layers = 0 /\ x.file.whole
<1>0. client[n] \in Calls
  BY DEF Types
<1>1. CASE \E p \in Nodes : SendPart(n, p)
  <2>. PICK p \in Nodes : SendPart(n, p)
    BY <1>1
  <2>. DEFINE c == DataCall(client[n], p)
              x == MessageStoreFile(client[n].num, client[n].total)
  <2>1. /\ client[n].pc = "part" /\ client[n].num <= client[n].total
        /\ chan' = To(n, {p}, x) /\ UNCHANGED <<disk, seen>>
    BY DEF SendPart
  <2>2. Goes(n, c)
    BY DEF SendPart, DataCall
  <2>3. client[n].total \in Numbers /\ client[n].num \in Numbers
    <3>1. client[n].total \in Numbers /\ client[n].num \in Nat
      BY <1>0, <2>1 DEF CallInv, Calls
    <3>2. Cardinality(Nodes) \in Nat
      BY Members DEF Types
    <3>. QED
      BY <2>1, <3>1, <3>2 DEF Numbers
  <2>4. x \in Items /\ x.type = "store" /\ x.total = client[n].total
    BY <2>3, ItemTypes DEF MessageStoreFile
  <2>5. c \in Calls /\ c.pc = "data" /\ c.left = client[n].left /\ c.total = client[n].total
        /\ c.num = client[n].num /\ c.parts = client[n].parts /\ c.got = client[n].got
    BY <1>0, StoreCalls
  <2>. HIDE DEF c, x
  <2>6. Adds({x})
    BY <2>1, <2>4, ToAdds
  <2>7. Moves(n, c) /\ UNCHANGED <<mode, listed, peers, loop, dead, events, crossed>>
    BY <2>2, <2>5, GoesEffect
  <2>. QED
    BY <2>1, <2>4, <2>5, <2>6, <2>7
<1>2. CASE SendData(n)
  <2>. DEFINE c == PartCall(client[n])
              f == Plain(client[n].num, client[n].total)
              x == Stream("store", f)
  <2>1. /\ client[n].pc = "data" /\ chan' = To(n, {client[n].at}, x) /\ UNCHANGED <<disk, seen>>
    BY <1>2 DEF SendData
  <2>2. Goes(n, c)
    BY <1>2 DEF SendData, PartCall
  <2>3. client[n].num \in Nat /\ client[n].total \in Nat
    BY <1>0 DEF Calls
  <2>4. f \in Files /\ f.layers = 0 /\ f.whole
    BY <2>3, PlainFiles
  <2>. HIDE DEF f
  <2>5. x \in Items /\ x.type = "stream" /\ x.use = "store" /\ x.file = f
    BY <2>4, ItemTypes DEF Stream
  <2>6. c \in Calls /\ c.pc = "part" /\ c.left = client[n].left \ {client[n].at}
        /\ c.total = client[n].total /\ c.parts = client[n].parts /\ c.got = client[n].got
    BY <1>0, StoreCalls
  <2>. HIDE DEF c, x
  <2>7. Adds({x})
    <3>. DEFINE S == {client[n].at}
    <3>1. chan' = To(n, S, x)
      BY <2>1
    <3>. HIDE DEF S
    <3>. QED
      BY <2>5, <3>1, ToAdds
  <2>8. Moves(n, c) /\ UNCHANGED <<mode, listed, peers, loop, dead, events, crossed>>
    BY <2>2, <2>6, GoesEffect
  <2>. QED
    BY <2>1, <2>4, <2>5, <2>6, <2>7, <2>8
<1>. QED
  BY <1>1, <1>2

\* The copies are streamed.
LEMMA StreamAllEffect ==
  ASSUME Types, NEW n \in Nodes, StreamAll(n)
  PROVE  \E f \in Files :
             /\ UNCHANGED <<mode, listed, peers, loop, dead, events, crossed, disk>>
             /\ Adds({Stream("store", f)}) /\ Moves(n, Idle)
             /\ Sees(~ f.whole, {})
             /\ f.whole => f = encrypt(Plain(0, 0))
<1>. DEFINE copy == encrypt(Plain(0, 0))
            beginning == [copy EXCEPT !.whole = FALSE]
<1>1. PICK r \in Reached(n) : \E f \in {copy, beginning} :
          /\ chan' = To(n, r[1], Stream("store", f))
          /\ seen' = [seen EXCEPT !.cut = @ \/ ~ f.whole]
  BY DEF StreamAll
<1>2. PICK f \in {copy, beginning} :
          /\ chan' = To(n, r[1], Stream("store", f))
          /\ seen' = [seen EXCEPT !.cut = @ \/ ~ f.whole]
  BY <1>1
<1>3. Returns(n, None) /\ disk' = disk
  BY DEF StreamAll
<1>4. copy \in Files
  BY PlainFiles, Encryption DEF Types
<1>5. beginning \in Files /\ beginning.whole = FALSE
  BY <1>4 DEF Files
<1>. HIDE DEF copy, beginning
<1>6. f \in Files /\ (f.whole => f = copy)
  BY <1>4, <1>5
<1>7. Stream("store", f) \in Items
  BY <1>6, ItemTypes
<1>8. Adds({Stream("store", f)})
  <2>. DEFINE S == r[1]
              x == Stream("store", f)
  <2>1. chan' = To(n, S, x) /\ x \in Items
    BY <1>2, <1>7
  <2>. HIDE DEF S, x
  <2>2. Adds({x})
    BY <2>1, ToAdds
  <2>. QED
    BY <2>2 DEF x
<1>9. Moves(n, Idle) /\ UNCHANGED <<mode, listed, peers, loop, dead, events, crossed>>
  <2>1. [Idle EXCEPT !.got = None] = Idle
    BY DEF Idle
  <2>2. Goes(n, Idle)
    BY <1>3, <2>1 DEF Returns
  <2>. QED
    BY <2>2, IdleCalls, GoesEffect
<1>10. Sees(~ f.whole, {})
  <2>. DEFINE b == seen.cut \/ ~ f.whole
  <2>1. b \in BOOLEAN /\ (seen.cut => b) /\ (~ f.whole => b)
    OBVIOUS
  <2>2. seen' = [seen EXCEPT !.cut = b]
    BY <1>2
  <2>. HIDE DEF b
  <2>. QED
    BY <2>1, <2>2 DEF Sees, Types
<1>. QED
  BY <1>3, <1>6, <1>8, <1>9, <1>10 DEF copy


\* A call returns.
LEMMA ReturnsEffect ==
  ASSUME Types, NEW n \in Nodes, NEW got \in {None, "file", "error", "wrong"}, Returns(n, got)
  PROVE  \E c \in Calls :
             /\ Moves(n, c) /\ c.pc = "idle" /\ c.left = {} /\ c.total = 0 /\ c.parts = {}
             /\ c.got = got
             /\ UNCHANGED <<mode, listed, peers, loop, dead, events, crossed>>
<1>. DEFINE c == [Idle EXCEPT !.got = got]
<1>1. c \in Calls /\ c.left = {} /\ c.parts = {} /\ c.total = 0 /\ c.pc = "idle" /\ c.got = got
  BY IdleCalls
<1>2. Goes(n, c)
  BY DEF Returns
<1>. HIDE DEF c
<1>3. Moves(n, c) /\ UNCHANGED <<mode, listed, peers, loop, dead, events, crossed>>
  BY <1>1, <1>2, GoesEffect
<1>. QED
  BY <1>1, <1>3

\* A store or a Remove returns.
LEMMA DoneEffect ==
  ASSUME Types, NEW n \in Nodes, SendFails(n) \/ StoreReturns(n) \/ DeleteLocal(n)
  PROVE  \E c \in Calls :
             /\ Moves(n, c) /\ c.pc = "idle" /\ c.left = {} /\ c.total = 0 /\ c.parts = {}
             /\ c.got = None
             /\ UNCHANGED <<mode, listed, peers, loop, dead, events, crossed, chan, seen>>
             /\ disk' = disk \/ Writes(n, None)
<1>1. Returns(n, None) /\ UNCHANGED <<chan, seen>>
  BY DEF SendFails, StoreReturns, DeleteLocal
<1>2. disk' = disk \/ disk' = [disk EXCEPT ![n] = None]
  BY DEF SendFails, StoreReturns, DeleteLocal
<1>3. disk' = disk \/ Writes(n, None)
  BY <1>2, DiskWritten
<1>. QED
  BY <1>1, <1>3, ReturnsEffect

\* What a Get of parts returns is the file unless a part of another cutting, or one that
\* is not as it was, is among those of the right number.
LEMMA CombineGives ==
  ASSUME NEW n
  PROVE  /\ Combine(n) \in {"file", "error", "wrong"}
         /\ Combine(n) = "wrong" =>
                /\ client[n].total # 0
                /\ \E f \in client[n].parts : ~ IsTheFile(f) \/ f.total # client[n].total
BY DEF Combine

\* A Get returns.
LEMMA GetReturnsEffect ==
  ASSUME Types, NEW n \in Nodes, GetReturns(n)
  PROVE  \E c \in Calls :
             /\ Moves(n, c) /\ c.pc = "idle" /\ c.left = {} /\ c.total = 0 /\ c.parts = {}
             /\ UNCHANGED <<mode, listed, peers, loop, dead, events, crossed, chan, seen, disk>>
             /\ \/ c.got = "error"
                \/ Split /\ c.got = Combine(n)
                \/ ~ Split /\ disk[n] # None /\ c.got = Content(disk[n])
<1>. DEFINE got == IF Split THEN Combine(n) ELSE IF disk[n] = None THEN "error" ELSE Content(disk[n])
<1>1. Returns(n, got) /\ UNCHANGED <<disk, chan, seen>>
  BY DEF GetReturns
<1>2. got \in {None, "file", "error", "wrong"}
  BY CombineGives DEF Content
<1>3. \/ got = "error"
      \/ Split /\ got = Combine(n)
      \/ ~ Split /\ disk[n] # None /\ got = Content(disk[n])
  OBVIOUS
<1>. HIDE DEF got
<1>4. PICK c \in Calls :
          /\ Moves(n, c) /\ c.pc = "idle" /\ c.left = {} /\ c.total = 0 /\ c.parts = {}
          /\ c.got = got
          /\ UNCHANGED <<mode, listed, peers, loop, dead, events, crossed>>
  BY <1>1, <1>2, ReturnsEffect
<1>. QED
  BY <1>1, <1>3, <1>4

\* A Get begins to read.
LEMMA ReadAnswersEffect ==
  ASSUME Types, NEW n \in Nodes, ReadAnswers(n)
  PROVE  \E c \in Calls :
             /\ Moves(n, c) /\ c.pc = "collect" /\ c.left = peers[n] /\ c.total = client[n].total
             /\ c.parts = client[n].parts /\ c.got = client[n].got
             /\ UNCHANGED <<mode, listed, peers, loop, dead, events, crossed, chan, seen, disk>>
<1>. DEFINE c == [client[n] EXCEPT !.pc = "collect", !.left = peers[n]]
<1>1. Goes(n, c) /\ UNCHANGED <<disk, chan, seen>>
  BY DEF ReadAnswers
<1>2. client[n] \in Calls /\ peers[n] \in SUBSET Nodes
  BY DEF Types
<1>3. \A d \in Calls, l \in SUBSET Nodes :
          LET e == [d EXCEPT !.pc = "collect", !.left = l]
          IN  /\ e \in Calls /\ e.pc = "collect" /\ e.left = l /\ e.total = d.total
              /\ e.parts = d.parts /\ e.got = d.got
  BY DEF Calls
<1>4. /\ c \in Calls /\ c.pc = "collect" /\ c.left = peers[n] /\ c.total = client[n].total
      /\ c.parts = client[n].parts /\ c.got = client[n].got
  BY <1>2, <1>3
<1>. HIDE DEF c
<1>5. Moves(n, c) /\ UNCHANGED <<mode, listed, peers, loop, dead, events, crossed>>
  BY <1>1, <1>4, GoesEffect
<1>. QED
  BY <1>1, <1>4, <1>5

\* The call after an answer was read: from the peers k, with the parts q of t.
LeftCall(d, k) == [d EXCEPT !.left = k]
PartsCall(d, q, t) == [d EXCEPT !.parts = q, !.total = t]

\* They change what their names say.
LEMMA CollectCalls ==
  ASSUME NEW d \in Calls
  PROVE  /\ \A k \in SUBSET Nodes :
                /\ LeftCall(d, k) \in Calls /\ LeftCall(d, k).left = k /\ LeftCall(d, k).pc = d.pc
                /\ LeftCall(d, k).parts = d.parts /\ LeftCall(d, k).total = d.total
                /\ LeftCall(d, k).got = d.got
         /\ \A q \in SUBSET Files, t \in Nat :
                /\ PartsCall(d, q, t) \in Calls /\ PartsCall(d, q, t).parts = q
                /\ PartsCall(d, q, t).total = t /\ PartsCall(d, q, t).pc = d.pc
                /\ PartsCall(d, q, t).got = d.got
BY DEF LeftCall, PartsCall, Calls

\* A Get reads an answer.
LEMMA CollectEffect ==
  ASSUME Types, NEW n \in Nodes, NEW p \in Nodes, Collect(n, p)
  PROVE  \E c \in Calls, x \in Streams :
             /\ Moves(n, c) /\ Adds({}) /\ x.use = "answer"
             /\ \E k \in DOMAIN chan[p][n] : x = chan[p][n][k]
             /\ c.pc = "collect" /\ c.left \subseteq client[n].left /\ c.got = client[n].got
             /\ \/ ~ Split /\ c.parts = client[n].parts /\ c.total = client[n].total
                   /\ \E f \in Files : /\ Writes(n, f) /\ f.layers = x.file.layers
                                       /\ f.whole = x.file.whole
                \/ /\ Split /\ disk' = disk
                   /\ c.parts \subseteq client[n].parts \cup {decrypt(x.file)}
                   /\ c.total = client[n].total \/ (disk[n] # None /\ c.total = disk[n].total)
             /\ UNCHANGED <<mode, listed, peers, loop, dead, events, crossed, seen>>
<1>. DEFINE x == Head(chan[p][n])
            c == [Collected(n, x.file) EXCEPT !.left = @ \ {p}]
<1>1. /\ client[n].pc = "collect" /\ Waiting(n, p) /\ ~ IsMessage(x) /\ x.use = "answer"
      /\ disk' = IF Split THEN disk
                 ELSE [disk EXCEPT ![n] = [x.file EXCEPT !.part = 0, !.total = 0]]
      /\ chan' = Took(n, p) /\ seen' = seen
  BY DEF Collect, Took
<1>2. Goes(n, c)
  BY DEF Collect
<1>3. Adds({}) /\ x \in Items /\ \E k \in DOMAIN chan[p][n] : x = chan[p][n][k]
  BY <1>1, TookAdds
<1>4. x \in Streams /\ x.file \in Files
  BY <1>1, <1>3, ItemKinds
<1>5. client[n] \in Calls /\ disk[n] \in Files \cup {None}
  BY DEF Types
<1>. HIDE DEF x
<1>6. decrypt(x.file) \in Files
  BY <1>4, Encryption DEF Types
<1>. DEFINE d == client[n]
            l == d.left \ {p}
            ps == {g \in d.parts : g.part # x.file.part} \cup {decrypt(x.file)}
            t == IF d.total = 0 /\ disk[n] # None THEN disk[n].total ELSE d.total
<1>7. l \in SUBSET Nodes /\ ps \in SUBSET Files /\ t \in Nat
  <2>1. d.left \in SUBSET Nodes /\ d.parts \in SUBSET Files /\ d.total \in Nat
    BY <1>5 DEF Calls
  <2>2. disk[n] # None => disk[n].total \in Nat
    BY <1>5 DEF Files
  <2>. QED
    BY <1>6, <2>1, <2>2
<1>8. \/ ~ Split /\ c = LeftCall(d, l)
      \/ Split /\ c = LeftCall(PartsCall(d, ps, t), l)
  BY DEF Collected, LeftCall, PartsCall
<1>11. /\ c \in Calls /\ c.pc = "collect" /\ c.left = l /\ c.got = d.got
       /\ \/ ~ Split /\ c.parts = d.parts /\ c.total = d.total
          \/ Split /\ c.parts = ps /\ c.total = t
  <2>1. d \in Calls /\ d.pc = "collect"
    BY <1>1, <1>5
  <2>. HIDE DEF ps, t, l, c, d
  <2>2. CASE ~ Split /\ c = LeftCall(d, l)
    BY <1>7, <2>1, <2>2, CollectCalls
  <2>3. CASE Split /\ c = LeftCall(PartsCall(d, ps, t), l)
    <3>. DEFINE o == PartsCall(d, ps, t)
    <3>1. o \in Calls /\ o.parts = ps /\ o.total = t /\ o.pc = d.pc /\ o.got = d.got
      BY <1>7, <2>1, CollectCalls
    <3>2. c = LeftCall(o, l)
      BY <2>3
    <3>. HIDE DEF o
    <3>. QED
      BY <1>7, <2>1, <2>3, <3>1, <3>2, CollectCalls
  <2>. QED
    BY <1>8, <2>2, <2>3
<1>12. Moves(n, c) /\ UNCHANGED <<mode, listed, peers, loop, dead, events, crossed>>
  BY <1>2, <1>11, GoesEffect
<1>13. CASE Split
  BY <1>1, <1>3, <1>4, <1>11, <1>12, <1>13
<1>14. CASE ~ Split
  <2>. DEFINE f == [x.file EXCEPT !.part = 0, !.total = 0]
  <2>1. f \in Files /\ f.layers = x.file.layers /\ f.whole = x.file.whole
    BY <1>4 DEF Files
  <2>2. disk' = [disk EXCEPT ![n] = f]
    BY <1>1, <1>14
  <2>. HIDE DEF f
  <2>3. Writes(n, f)
    BY <2>1, <2>2, DiskWritten
  <2>. QED
    BY <1>1, <1>3, <1>4, <1>11, <1>12, <1>14, <2>1, <2>3
<1>. QED
  BY <1>13, <1>14

\* A Get finds the end of a connection.
LEMMA CollectFailsEffect ==
  ASSUME Types, NEW n \in Nodes, NEW p \in Nodes, CollectFails(n, p)
  PROVE  \E c \in Calls :
             /\ Moves(n, c) /\ c.pc = "idle" /\ c.left = {} /\ c.total = 0 /\ c.parts = {}
             /\ c.got = "error"
             /\ UNCHANGED <<mode, listed, peers, loop, dead, events, crossed, chan>>
             /\ \/ UNCHANGED <<disk, seen>>
                \/ Sees(TRUE, {}) /\ \E f \in Files : Writes(n, f)
<1>1. /\ Returns(n, "error") /\ chan' = chan
      /\ \/ UNCHANGED <<disk, seen>>
         \/ /\ disk' = [disk EXCEPT ![n] = [Plain(0, 0) EXCEPT !.whole = FALSE]]
            /\ seen' = [seen EXCEPT !.cut = TRUE]
  BY DEF CollectFails
<1>2. [Plain(0, 0) EXCEPT !.whole = FALSE] \in Files
  BY PlainFiles
<1>3. ASSUME seen' = [seen EXCEPT !.cut = TRUE]
      PROVE  Sees(TRUE, {})
  BY <1>3 DEF Sees, Types
<1>4. PICK c \in Calls :
          /\ Moves(n, c) /\ c.pc = "idle" /\ c.left = {} /\ c.total = 0 /\ c.parts = {}
          /\ c.got = "error"
          /\ UNCHANGED <<mode, listed, peers, loop, dead, events, crossed>>
  BY <1>1, ReturnsEffect
<1>5. UNCHANGED <<disk, seen>> \/ (Sees(TRUE, {}) /\ \E f \in Files : Writes(n, f))
  BY <1>1, <1>2, <1>3, DiskWritten
<1>. QED
  BY <1>1, <1>4, <1>5


\* The value v is on the connection from a to b.
Was(a, b, v) == \E k \in DOMAIN chan[a][b] : v = chan[a][b][k]

\* A stream is put on a connection from which something may have been taken.
LEMMA Appended ==
  ASSUME Types, NEW m \in Nodes, NEW p \in Nodes, NEW x \in Items,
         NEW t \in [Nodes -> [Nodes -> Seq(Items)]],
         \A a, b \in Nodes : \A i \in DOMAIN t[a][b] : Was(a, b, t[a][b][i]),
         chan' = [t EXCEPT ![m][p] = Append(@, x)]
  PROVE  Adds({x})
<1>. DEFINE r == Append(t[m][p], x)
<1>1. t[m][p] \in Seq(Items)
  OBVIOUS
<1>2. \A q \in Seq(Items) :
          /\ Append(q, x) \in Seq(Items)
          /\ \A j \in DOMAIN Append(q, x) :
                 Append(q, x)[j] = x \/ (j \in DOMAIN q /\ Append(q, x)[j] = q[j])
  OBVIOUS
<1>3. r \in Seq(Items) /\ \A j \in DOMAIN r : r[j] = x \/ (j \in DOMAIN t[m][p] /\ r[j] = t[m][p][j])
  BY <1>1, <1>2
<1>4. chan' = [t EXCEPT ![m] = [t[m] EXCEPT ![p] = r]]
  OBVIOUS
<1>. HIDE DEF r
<1>5. /\ chan' \in [Nodes -> [Nodes -> Seq(Items)]] /\ chan'[m][p] = r
      /\ \A a, b \in Nodes : <<a, b>> # <<m, p>> => chan'[a][b] = t[a][b]
  BY <1>3, <1>4
<1>6. ASSUME NEW a \in Nodes, NEW b \in Nodes, NEW i \in DOMAIN chan'[a][b]
      PROVE  chan'[a][b][i] = x \/ Was(a, b, chan'[a][b][i])
  <2>1. \A j \in DOMAIN t[a][b] : Was(a, b, t[a][b][j])
    OBVIOUS
  <2>2. CASE a = m /\ b = p
    <3>1. chan'[a][b][i] = r[i] /\ i \in DOMAIN r
      BY <1>5, <2>2
    <3>2. r[i] = x \/ (i \in DOMAIN t[a][b] /\ r[i] = t[a][b][i])
      BY <1>3, <2>2, <3>1
    <3>. QED
      BY <2>1, <3>1, <3>2
  <2>3. CASE ~ (a = m /\ b = p)
    <3>1. chan'[a][b] = t[a][b]
      BY <1>5, <2>3
    <3>. QED
      BY <2>1, <3>1
  <2>. QED
    BY <2>2, <2>3
<1>7. chan' \in [Nodes -> [Nodes -> Seq(Items)]]
  BY <1>5
<1>8. \A a, b \in Nodes : \A i \in DOMAIN chan'[a][b] :
          chan'[a][b][i] \in {x} \/ \E k \in DOMAIN chan[a][b] : chan'[a][b][i] = chan[a][b][k]
  <2>1. \A a, b \in Nodes : \A i \in DOMAIN chan'[a][b] :
            chan'[a][b][i] \in {x} \/ Was(a, b, chan'[a][b][i])
    BY <1>6
  <2>. QED
    BY <2>1 DEF Was
<1>. QED
  BY <1>7, <1>8 DEF Adds

\* The event loop serves a file.
LEMMA ServeEffect ==
  ASSUME Types, NEW m \in Nodes, NEW p \in Nodes, handleMessageGetFile(m, p)
  PROVE  /\ UNCHANGED <<mode, listed, peers, client, dead, events, crossed, seen, disk, loop>>
         /\ Adds({}) \/ (disk[m] # None /\ Adds({Stream("answer", disk[m])}))
<1>1. /\ Waiting(m, p)
      /\ UNCHANGED <<mode, listed, peers, client, dead, events, crossed, seen, disk, loop>>
  BY DEF handleMessageGetFile, Handled
<1>2. CASE chan' = Took(m, p)
  BY <1>1, <1>2, TookAdds
<1>3. CASE disk[m] # None /\ chan' = [Took(m, p) EXCEPT ![m][p] = Append(@, Stream("answer", disk[m]))]
  <2>1. disk[m] \in Files
    BY <1>3 DEF Types
  <2>. DEFINE x == Stream("answer", disk[m])
              t == Took(m, p)
  <2>2. x \in Items
    BY <2>1, ItemTypes
  <2>3. /\ t \in [Nodes -> [Nodes -> Seq(Items)]]
        /\ \A a, b \in Nodes : \A i \in DOMAIN t[a][b] : Was(a, b, t[a][b][i])
    BY <1>1, TookAdds DEF Was
  <2>4. chan' = [t EXCEPT ![m][p] = Append(@, x)]
    BY <1>3
  <2>. HIDE DEF x, t
  <2>5. Adds({x})
    BY <2>2, <2>3, <2>4, Appended
  <2>. QED
    BY <1>1, <1>3, <2>5 DEF x
<1>. QED
  BY <1>1, <1>2, <1>3 DEF handleMessageGetFile

\* The event loop deletes a file.
LEMMA DeleteEffect ==
  ASSUME Types, NEW m \in Nodes, NEW p \in Nodes, handleMessageDeleteFile(m, p)
  PROVE  /\ UNCHANGED <<mode, listed, peers, client, dead, events, crossed, seen, loop>>
         /\ Adds({}) /\ Writes(m, None)
<1>1. /\ Waiting(m, p) /\ chan' = Took(m, p) /\ disk' = [disk EXCEPT ![m] = None]
      /\ UNCHANGED <<mode, listed, peers, client, dead, events, crossed, seen, loop>>
  BY DEF handleMessageDeleteFile, Handled
<1>. QED
  BY <1>1, TookAdds, DiskWritten

\* Only the event loop of m changes.
Waits(m, w) == loop' \in [Nodes -> [from : Nodes, msg : StoreMessages] \cup {None}] /\ loop'[m] = w
               /\ \A k \in Nodes \ {m} : loop'[k] = loop[k]

\* It stops waiting.
LEMMA WaitsNot ==
  ASSUME Types, NEW m \in Nodes, loop' = [loop EXCEPT ![m] = None]
  PROVE  Waits(m, None)
BY DEF Types, Waits

\* What a loop waits for.
LEMMA LoopFields ==
  ASSUME Types, NEW m \in Nodes, loop[m] # None
  PROVE  /\ loop[m].from \in Nodes /\ loop[m].msg \in StoreMessages
         /\ loop[m].msg.part \in Nat /\ loop[m].msg.total \in Nat
<1>1. loop[m] \in [from : Nodes, msg : StoreMessages]
  BY DEF Types
<1>2. loop[m].from \in Nodes /\ loop[m].msg \in StoreMessages
  BY <1>1
<1>3. Numbers \subseteq Nat
  BY Members DEF Types
<1>. QED
  BY <1>2, <1>3 DEF StoreMessages

\* The event loop takes the message of a store.
LEMMA TakeEffect ==
  ASSUME Types, NEW m \in Nodes, NEW p \in Nodes, handleMessageStoreFile(m, p)
  PROVE  \E w \in [from : Nodes, msg : StoreMessages] :
             /\ UNCHANGED <<mode, listed, peers, client, dead, events, crossed, seen, disk>>
             /\ Adds({}) /\ Waits(m, w) /\ w.from = p /\ p \in peers[m]
             /\ \E k \in DOMAIN chan[p][m] : w.msg = chan[p][m][k]
<1>. DEFINE x == Head(chan[p][m])
            w == [from |-> p, msg |-> x]
<1>1. /\ Waiting(m, p) /\ p \in peers[m] /\ x.type = "store" /\ chan' = Took(m, p)
      /\ loop' = [loop EXCEPT ![m] = w]
      /\ UNCHANGED <<mode, listed, peers, client, dead, events, crossed, seen, disk>>
  BY DEF handleMessageStoreFile, Handled
<1>2. Adds({}) /\ x \in Items /\ \E k \in DOMAIN chan[p][m] : x = chan[p][m][k]
  BY <1>1, TookAdds
<1>3. x \in StoreMessages
  BY <1>1, <1>2, ItemKinds
<1>. HIDE DEF x
<1>4. w \in [from : Nodes, msg : StoreMessages] /\ w.from = p /\ w.msg = x
  BY <1>3
<1>. HIDE DEF w
<1>6. Waits(m, w)
  BY <1>1, <1>4 DEF Types, Waits
<1>. QED
  BY <1>1, <1>2, <1>4, <1>6

\* A stored part, with the numbers of its message.
Numbered(f, msg) == [f EXCEPT !.part = msg.part, !.total = msg.total]

\* It is what it was.
LEMMA NumberedFile ==
  ASSUME NEW f \in Files, NEW msg, msg.part \in Nat, msg.total \in Nat
  PROVE  /\ Numbered(f, msg) \in Files /\ Numbered(f, msg).layers = f.layers
         /\ Numbered(f, msg).whole = f.whole /\ Numbered(f, msg).total = msg.total
<1>. DEFINE i == msg.part
            t == msg.total
<1>1. i \in Nat /\ t \in Nat
  OBVIOUS
<1>2. Numbered(f, msg) = [f EXCEPT !.part = i, !.total = t]
  BY DEF Numbered
<1>. HIDE DEF i, t
<1>3. /\ Numbered(f, msg) \in Files /\ Numbered(f, msg).layers = f.layers
      /\ Numbered(f, msg).whole = f.whole /\ Numbered(f, msg).total = t
  BY <1>1, <1>2 DEF Files
<1>. QED
  BY <1>3 DEF t

\* The event loop stores the stream it has waited for.
LEMMA StorePartEffect ==
  ASSUME Types, NEW m \in Nodes, StorePart(m)
  PROVE  \E f \in Files, p \in Nodes, x \in Streams :
             /\ UNCHANGED <<mode, listed, peers, client, dead, events, crossed, seen>>
             /\ Adds({}) /\ Waits(m, None) /\ Writes(m, encrypt(f))
             /\ \E k \in DOMAIN chan[p][m] : x = chan[p][m][k]
             /\ x.use = "store" /\ f.layers = x.file.layers /\ f.whole = x.file.whole
             /\ loop[m] # None /\ f.total = loop[m].msg.total
<1>. DEFINE p == loop[m].from
            msg == loop[m].msg
            x == Head(chan[p][m])
            f == Numbered(x.file, msg)
<1>1. /\ loop[m] # None /\ Waiting(m, p) /\ ~ IsMessage(x) /\ x.use = "store"
      /\ disk' = [disk EXCEPT ![m] = encrypt(f)]
      /\ chan' = Took(m, p) /\ loop' = [loop EXCEPT ![m] = None]
      /\ UNCHANGED <<mode, listed, peers, client, dead, events, crossed, seen>>
  BY DEF StorePart, Numbered
<1>2. p \in Nodes /\ msg.part \in Nat /\ msg.total \in Nat
  BY <1>1, LoopFields
<1>. HIDE DEF p, msg
<1>3. Adds({}) /\ x \in Items /\ \E k \in DOMAIN chan[p][m] : x = chan[p][m][k]
  BY <1>1, <1>2, TookAdds
<1>4. x \in Streams /\ x.file \in Files
  BY <1>1, <1>3, ItemKinds
<1>. HIDE DEF x
<1>5. f \in Files /\ f.layers = x.file.layers /\ f.whole = x.file.whole /\ f.total = msg.total
  BY <1>2, <1>4, NumberedFile
<1>. HIDE DEF f
<1>6. encrypt(f) \in Files
  BY <1>5, Encryption DEF Types
<1>7. Writes(m, encrypt(f)) /\ Waits(m, None)
  BY <1>1, <1>6, DiskWritten, WaitsNot
<1>8. \E k \in DOMAIN chan[p][m] : x = chan[p][m][k]
  BY <1>3
<1>9. f.total = loop[m].msg.total
  BY <1>5 DEF msg
<1>. QED
  BY <1>1, <1>2, <1>3, <1>4, <1>5, <1>7, <1>8, <1>9

-----------------------------------------------------------------------------
(* Failures.                                                                *)

\* A stream that has lost its end is a stream.
LEMMA CutStreams ==
  ASSUME NEW x \in Streams
  PROVE  [x EXCEPT !.file.whole = FALSE] \in Streams
<1>. DEFINE f == [x.file EXCEPT !.whole = FALSE]
<1>1. x.file \in Files
  BY DEF Streams
<1>2. f \in Files
  BY <1>1 DEF Files
<1>3. [x EXCEPT !.file.whole = FALSE] = [x EXCEPT !.file = f]
  OBVIOUS
<1>. HIDE DEF f
<1>4. [x EXCEPT !.file = f] \in Streams
  BY <1>2 DEF Streams
<1>. QED
  BY <1>3, <1>4

\* What arrives is no longer than what was sent.
LEMMA Arrivals ==
  ASSUME NEW q \in Seq(Items), NEW r \in Arrives(q)
  PROVE  r \in Seq(Items) /\ DOMAIN r \subseteq DOMAIN q
<1>. DEFINE Firsts == {SubSeq(q, 1, i) : i \in 0 .. Len(q)}
<1>1. ASSUME NEW k \in Firsts
      PROVE  k \in Seq(Items) /\ DOMAIN k \subseteq DOMAIN q
  <2>1. PICK i \in 0 .. Len(q) : k = SubSeq(q, 1, i)
    OBVIOUS
  <2>2. Len(q) \in Nat /\ 1 \in 1 .. Len(q) + 1
    OBVIOUS
  <2>3. k \in Seq(Items) /\ Len(k) = i
    BY <2>1, <2>2, SubSeqProperties
  <2>4. DOMAIN k = 1 .. i /\ DOMAIN q = 1 .. Len(q)
    BY <2>3
  <2>. QED
    BY <2>2, <2>3, <2>4
<1>. HIDE DEF Firsts
<1>2. \/ r \in Firsts
      \/ \E k \in Firsts : /\ k # <<>> /\ ~ IsMessage(k[Len(k)])
                           /\ r = [k EXCEPT ![Len(k)] = [@ EXCEPT !.file.whole = FALSE]]
  BY DEF Arrives, Firsts
<1>3. ASSUME NEW k \in Firsts, k # <<>>, ~ IsMessage(k[Len(k)]),
             r = [k EXCEPT ![Len(k)] = [@ EXCEPT !.file.whole = FALSE]]
      PROVE  r \in Seq(Items) /\ DOMAIN r \subseteq DOMAIN q
  <2>1. k \in Seq(Items) /\ DOMAIN k \subseteq DOMAIN q
    BY <1>1
  <2>2. Len(k) \in DOMAIN k
    BY <1>3, <2>1
  <2>3. k[Len(k)] \in Items
    BY <2>1, <2>2
  <2>4. k[Len(k)] \in Streams
    BY <1>3, <2>3, ItemKinds
  <2>. DEFINE x == k[Len(k)]
              y == [x EXCEPT !.file.whole = FALSE]
  <2>5. y \in Items
    BY <2>4, CutStreams DEF Items
  <2>6. r = [k EXCEPT ![Len(k)] = y]
    BY <1>3
  <2>. HIDE DEF y
  <2>7. r \in Seq(Items) /\ DOMAIN r = DOMAIN k
    BY <2>1, <2>2, <2>5, <2>6
  <2>. QED
    BY <2>1, <2>7
<1>. QED
  BY <1>1, <1>2, <1>3

\* A process ends: without its call and its event loop, and without a file that has lost
\* its end, nothing new is on a connection.
LEMMA StopsEffect ==
  ASSUME Types, NEW n \in Nodes, Stops(n)
  PROVE  /\ UNCHANGED <<mode, listed, peers, crossed>> /\ dead' = dead \cup {n}
         /\ Moves(n, Idle) /\ Waits(n, None) /\ Sees(FALSE, {})
         /\ chan' \in [Nodes -> [Nodes -> Seq(Items)]]
         /\ ~ seen'.cut => Adds({})
<1>1. /\ UNCHANGED <<mode, listed, peers, crossed>> /\ dead' = dead \cup {n}
      /\ client' = [client EXCEPT ![n] = Idle] /\ loop' = [loop EXCEPT ![n] = None]
  BY DEF Stops
<1>2. Moves(n, Idle) /\ Waits(n, None)
  BY <1>1, IdleCalls, MovesOn, WaitsNot
<1>3. PICK out \in [Nodes -> UNION {Arrives(chan[n][p]) : p \in Nodes}] :
          /\ \A p \in Nodes : out[p] \in Arrives(chan[n][p])
          /\ chan' = [p \in Nodes |-> IF p = n THEN out ELSE [chan[p] EXCEPT ![n] = <<>>]]
          /\ seen' = [seen EXCEPT !.cut = @ \/ \E p \in Nodes : \E i \in DOMAIN out[p] :
                                        out[p][i] # chan[n][p][i]]
  BY DEF Stops
<1>4. chan \in [Nodes -> [Nodes -> Seq(Items)]]
  BY DEF Types
<1>5. \A p \in Nodes : out[p] \in Seq(Items) /\ DOMAIN out[p] \subseteq DOMAIN chan[n][p]
  BY <1>3, <1>4, Arrivals
<1>6. out \in [Nodes -> Seq(Items)]
  BY <1>3, <1>5
<1>7. \A p \in Nodes : [chan[p] EXCEPT ![n] = <<>>] \in [Nodes -> Seq(Items)]
  <2>1. <<>> \in Seq(Items)
    OBVIOUS
  <2>. QED
    BY <1>4, <2>1
<1>8. /\ chan' \in [Nodes -> [Nodes -> Seq(Items)]] /\ chan'[n] = out
      /\ \A p \in Nodes \ {n} : chan'[p] = [chan[p] EXCEPT ![n] = <<>>]
  BY <1>3, <1>6, <1>7
<1>. DEFINE lost == \E p \in Nodes : \E i \in DOMAIN out[p] : out[p][i] # chan[n][p][i]
            b == seen.cut \/ lost
<1>9. b \in BOOLEAN /\ (seen.cut => b) /\ (lost => b)
  OBVIOUS
<1>10. seen' = [seen EXCEPT !.cut = b]
  BY <1>3
<1>11. /\ Sees(FALSE, {})
       /\ lost => seen'.cut
  <2>. HIDE DEF b, lost
  <2>1. seen' \in [last : {None, "store", "remove"}, overlapped : BOOLEAN, cut : BOOLEAN,
                   totals : SUBSET Numbers] /\ seen'.totals = seen.totals /\ seen'.cut = b
    BY <1>9, <1>10 DEF Types
  <2>. QED
    BY <1>9, <2>1 DEF Sees
<1>12. ASSUME ~ seen'.cut
       PROVE  Adds({})
  <2>1. \A p \in Nodes : \A i \in DOMAIN out[p] : out[p][i] = chan[n][p][i]
    BY <1>11, <1>12
  <2>2. ASSUME NEW a \in Nodes, NEW c \in Nodes, NEW i \in DOMAIN chan'[a][c]
        PROVE  \E k \in DOMAIN chan[a][c] : chan'[a][c][i] = chan[a][c][k]
    <3>1. CASE a = n
      <4>1. i \in DOMAIN out[c] /\ chan'[a][c][i] = out[c][i]
        BY <1>8, <3>1
      <4>2. i \in DOMAIN chan[n][c]
        BY <1>5, <4>1
      <4>. QED
        BY <2>1, <3>1, <4>1, <4>2
    <3>2. CASE a # n /\ c = n
      <4>1. chan'[a][c] = <<>>
        BY <1>4, <1>8, <3>2
      <4>. QED
        BY <4>1
    <3>3. CASE a # n /\ c # n
      <4>1. chan'[a][c] = chan[a][c]
        BY <1>4, <1>8, <3>3
      <4>. QED
        BY <4>1
    <3>. QED
      BY <3>1, <3>2, <3>3
  <2>3. chan' \in [Nodes -> [Nodes -> Seq(Items)]]
    BY <1>8
  <2>. QED
    BY <2>2, <2>3 DEF Adds
<1>13. chan' \in [Nodes -> [Nodes -> Seq(Items)]]
  BY <1>8
<1>14. Sees(FALSE, {})
  BY <1>11
<1>. QED
  BY <1>1, <1>2, <1>12, <1>13, <1>14

\* A node panics, or a part never arrives.
LEMMA PanicEffect ==
  ASSUME Types, NEW m \in Nodes, Panic(m)
  PROVE  Stops(m) /\ events' = events /\ \E f \in Files : Writes(m, f)
<1>. DEFINE i == loop[m].msg.part
            t == loop[m].msg.total
            g == [Plain(i, t) EXCEPT !.whole = FALSE]
<1>1. loop[m] # None /\ Stops(m) /\ events' = events /\ disk' = [disk EXCEPT ![m] = encrypt(g)]
  BY DEF Panic
<1>2. i \in Nat /\ t \in Nat
  BY <1>1, LoopFields
<1>. HIDE DEF i, t
<1>3. g \in Files
  BY <1>2, PlainFiles
<1>. HIDE DEF g
<1>4. encrypt(g) \in Files
  BY <1>3, Encryption DEF Types
<1>. QED
  BY <1>1, <1>4, DiskWritten


-----------------------------------------------------------------------------
(* What a step has to show for the invariants.                              *)

\* What fits goes on to fit when totals are added.
LEMMA Monotone ==
  ASSUME NEW ts, NEW us, ts \subseteq us
  PROVE  /\ \A t : Known(ts, t) => Known(us, t)
         /\ \A f : Clear(ts, f) => Clear(us, f)
         /\ \A f : Kept(ts, f) => Kept(us, f)
         /\ \A x : Fits(ts, x) => Fits(us, x)
         /\ \A c : CallFits(ts, c) => CallFits(us, c)
<1>1. \A t : Known(ts, t) => Known(us, t)
  BY DEF Known
<1>2. \A f : Clear(ts, f) => Clear(us, f)
  BY <1>1 DEF Clear
<1>3. \A f : Kept(ts, f) => Kept(us, f)
  BY <1>1 DEF Kept
<1>4. \A x : Fits(ts, x) => Fits(us, x)
  BY <1>1, <1>3 DEF Fits
<1>5. OneTotal(us) => OneTotal(ts)
  BY DEF OneTotal
<1>6. \A c : CallFits(ts, c) => CallFits(us, c)
  BY <1>1, <1>2, <1>5 DEF CallFits
<1>. QED
  BY <1>1, <1>2, <1>3, <1>4, <1>6

\* After the step no file has lost its end, and what is new in the mesh fits.
SoundAfter == ~ seen'.cut /\ (Split \/ EncType = "None")
DiskFits == \A n \in Nodes \ dead' :
                disk'[n] = disk[n] \/ disk'[n] = None \/ Kept(seen'.totals, disk'[n])
ChanFits == \A n, m \in Nodes : \A i \in DOMAIN chan'[n][m] :
                Was(n, m, chan'[n][m][i]) \/ Fits(seen'.totals, chan'[n][m][i])
LoopFits == \A n \in Nodes :
                loop'[n] = loop[n] \/ loop'[n] = None \/ Known(seen'.totals, loop'[n].msg.total)
ClientFits == \A n \in Nodes : client'[n] = client[n] \/ CallFits(seen'.totals, client'[n])

\* Then so does everything.
LEMMA FileKept ==
  ASSUME FileInv, mode' = mode, seen.totals \subseteq seen'.totals, seen.cut => seen'.cut,
         dead \subseteq dead',
         SoundAfter => DiskFits /\ ChanFits /\ LoopFits /\ ClientFits
  PROVE  FileInv'
<1>1. Sound' <=> SoundAfter
  BY DEF Sound, SoundAfter, Split, EncType
<1>2. SUFFICES ASSUME SoundAfter
               PROVE  (DiskInv /\ ChanInv /\ LoopInv /\ ClientInv)'
  BY <1>1 DEF FileInv
<1>3. DiskInv /\ ChanInv /\ LoopInv /\ ClientInv
  BY <1>2 DEF FileInv, Sound, SoundAfter
<1>4. DiskFits /\ ChanFits /\ LoopFits /\ ClientFits
  BY <1>2
<1>. DEFINE ts == seen.totals
            us == seen'.totals
<1>5. /\ \A t : Known(ts, t) => Known(us, t)
      /\ \A f : Kept(ts, f) => Kept(us, f)
      /\ \A x : Fits(ts, x) => Fits(us, x)
      /\ \A c : CallFits(ts, c) => CallFits(us, c)
  <2>1. ts \subseteq us
    OBVIOUS
  <2>. HIDE DEF ts, us
  <2>. QED
    BY <2>1, Monotone
<1>6. DiskInv'
  <2>1. \A n \in Nodes \ dead' : disk'[n] # None => Kept(us, disk'[n])
    BY <1>3, <1>4, <1>5 DEF DiskInv, DiskFits
  <2>. QED
    BY <2>1 DEF DiskInv, Kept, Known, Layers, EncType, Split
<1>7. ChanInv'
  <2>1. \A n, m \in Nodes : \A i \in DOMAIN chan'[n][m] : Fits(us, chan'[n][m][i])
    BY <1>3, <1>4, <1>5 DEF ChanInv, ChanFits, Was
  <2>. QED
    BY <2>1 DEF ChanInv, Fits, Kept, Known, Layers, EncType, Split
<1>8. LoopInv'
  <2>1. \A n \in Nodes : loop'[n] # None => Known(us, loop'[n].msg.total)
    BY <1>3, <1>4, <1>5 DEF LoopInv, LoopFits
  <2>. QED
    BY <2>1 DEF LoopInv, Known, Split
<1>9. ClientInv'
  <2>1. \A n \in Nodes : CallFits(us, client'[n])
    BY <1>3, <1>4, <1>5 DEF ClientInv, ClientFits
  <2>. QED
    BY <2>1 DEF ClientInv, CallFits, Clear, OneTotal, Known, Split
<1>. QED
  BY <1>6, <1>7, <1>8, <1>9

\* When everything new fits.
LEMMA NewFits ==
  ASSUME Types
  PROVE  /\ disk' = disk => DiskFits
         /\ \A n \in Nodes : \A f : Writes(n, f) /\ (f = None \/ n \in dead' \/ Kept(seen'.totals, f))
                => DiskFits
         /\ chan' = chan => ChanFits
         /\ \A X : Adds(X) /\ (\A x \in X : Fits(seen'.totals, x)) => ChanFits
         /\ loop' = loop => LoopFits
         /\ \A n \in Nodes : \A w : Waits(n, w) /\ (w = None \/ Known(seen'.totals, w.msg.total))
                => LoopFits
         /\ client' = client => ClientFits
         /\ \A n \in Nodes : \A c : Moves(n, c) /\ CallFits(seen'.totals, c) => ClientFits
<1>1. disk' = disk => DiskFits
  BY DEF DiskFits
<1>2. \A n \in Nodes : \A f : Writes(n, f) /\ (f = None \/ n \in dead' \/ Kept(seen'.totals, f))
          => DiskFits
  BY DEF DiskFits, Writes
<1>3. chan' = chan => ChanFits
  BY DEF ChanFits, Was
<1>4. \A X : Adds(X) /\ (\A x \in X : Fits(seen'.totals, x)) => ChanFits
  BY DEF ChanFits, Was, Adds
<1>5. loop' = loop => LoopFits
  BY DEF LoopFits
<1>6. \A n \in Nodes : \A w : Waits(n, w) /\ (w = None \/ Known(seen'.totals, w.msg.total)) => LoopFits
  BY DEF LoopFits, Waits
<1>7. client' = client => ClientFits
  BY DEF ClientFits
<1>8. \A n \in Nodes : \A c : Moves(n, c) /\ CallFits(seen'.totals, c) => ClientFits
  BY DEF ClientFits, Moves
<1>. QED
  BY <1>1, <1>2, <1>3, <1>4, <1>5, <1>6, <1>7, <1>8

\* A call that waits for peers of its node, and numbers parts by members.
CallGoes(c, ps) ==
    /\ c.left \subseteq ps
    /\ c.pc \in {"part", "data"} => c.total \in Numbers
    /\ c.pc = "data" => c.num <= c.total
    /\ c.pc = "stream" => ~ Split

\* The calls of all nodes do.
LEMMA CallKept ==
  ASSUME CallInv, mode' = mode, \A n \in Nodes : peers[n] \subseteq peers'[n],
         \A n \in Nodes : loop'[n] = loop[n] \/ loop'[n] = None \/ loop'[n].from \in peers'[n],
         \A n \in Nodes : client'[n] = client[n] \/ CallGoes(client'[n], peers'[n])
  PROVE  CallInv'
<1>1. \A n \in Nodes : CallGoes(client[n], peers[n])
  BY DEF CallInv, CallGoes
<1>2. \A n \in Nodes : CallGoes(client'[n], peers'[n])
  BY <1>1 DEF CallGoes
<1>3. \A n \in Nodes : loop'[n] # None => loop'[n].from \in peers'[n]
  BY DEF CallInv
<1>. QED
  BY <1>2, <1>3 DEF CallInv, CallGoes, Numbers, Split


\* One call goes on.
LEMMA OneCallKept ==
  ASSUME CallInv, mode' = mode, peers' = peers, loop' = loop,
         NEW n \in Nodes, NEW c, Moves(n, c), CallGoes(c, peers[n])
  PROVE  CallInv'
<1>1. \A k \in Nodes : client'[k] = client[k] \/ CallGoes(client'[k], peers'[k])
  BY DEF Moves
<1>. QED
  BY <1>1, CallKept

\* Encryption takes a file to the disk, and decryption from it.
LEMMA KeptFiles ==
  ASSUME mode \in Modes, NEW ts, NEW f \in Files
  PROVE  /\ Kept(ts, f) => Clear(ts, decrypt(f)) /\ Content(f) = "file"
         /\ Clear(ts, f) => Kept(ts, encrypt(f))
BY Encryption DEF Kept, Clear, Content, IsTheFile

\* Nothing is not the wrong file.
LEMMA NoneIsNotWrong == None # "wrong"
BY BoundsAssumption

\* As long as no file has lost its end, all that is in the mesh fits.
LEMMA SoundBefore ==
  ASSUME FileInv, seen.cut => seen'.cut, SoundAfter
  PROVE  Sound /\ DiskInv /\ ChanInv /\ LoopInv /\ ClientInv
BY DEF FileInv, Sound, SoundAfter

-----------------------------------------------------------------------------
(* The calls.                                                               *)

Inv == Types /\ CallInv /\ FileInv

\* What a call may hold when it is under way or has returned.
LEMMA EmptyCallFits ==
  ASSUME NEW ts, NEW c, c.parts = {}, c.total = 0, c.pc \notin {"part", "data"}, c.got # "wrong"
  PROVE  CallFits(ts, c)
BY DEF CallFits

\* A store of parts begins.
LEMMA StoreSplitStep ==
  ASSUME Inv, NEW n \in Nodes \ dead, storeSplit(n)
  PROVE  Inv'
<1>0. Types /\ CallInv /\ FileInv
  BY DEF Inv
<1>1. PICK t \in Numbers, c \in Calls :
          /\ Split /\ Sees(FALSE, {t}) /\ events' \in 0 .. MaxEvents
          /\ UNCHANGED <<mode, listed, peers, loop, dead, crossed, chan>>
          /\ Writes(n, encrypt(Plain(1, t)))
          /\ Moves(n, c) /\ c.pc = "part" /\ c.left = peers[n] /\ c.total = t
          /\ c.parts = {} /\ c.got = None
  BY <1>0, StoreSplitEffect
<1>2. Types'
  BY <1>0, <1>1 DEF Types, Sees, Writes, Moves
<1>3. CallInv'
  <2>1. CallGoes(c, peers[n])
    BY <1>1 DEF CallGoes
  <2>. QED
    BY <1>0, <1>1, <2>1, OneCallKept
<1>4. t \in Nat /\ t \in seen'.totals
  BY <1>0, <1>1, Members DEF Types, Sees
<1>5. Kept(seen'.totals, encrypt(Plain(1, t)))
  <2>1. Plain(1, t) \in Files /\ Clear(seen'.totals, Plain(1, t))
    BY <1>4, PlainFiles DEF Clear, Known
  <2>. QED
    BY <1>0, <2>1, KeptFiles DEF Types
<1>6. CallFits(seen'.totals, c)
  BY <1>1, <1>4, NoneIsNotWrong DEF CallFits, Known
<1>7. DiskFits /\ ChanFits /\ LoopFits /\ ClientFits
  BY <1>0, <1>1, <1>5, <1>6, NewFits
<1>8. FileInv'
  BY <1>0, <1>1, <1>7, FileKept DEF Sees
<1>. QED
  BY <1>2, <1>3, <1>8 DEF Inv

\* A store of copies begins.
LEMMA StoreAllStep ==
  ASSUME Inv, NEW n \in Nodes \ dead, storeAll(n)
  PROVE  Inv'
<1>0. Types /\ CallInv /\ FileInv
  BY DEF Inv
<1>1. PICK c \in Calls :
          /\ ~ Split /\ Sees(FALSE, {0}) /\ events' \in 0 .. MaxEvents
          /\ UNCHANGED <<mode, listed, peers, loop, dead, crossed>>
          /\ Writes(n, encrypt(Plain(0, 0))) /\ Adds({MessageStoreFile(0, 0)})
          /\ Moves(n, c) /\ c.pc = "stream" /\ c.left = {} /\ c.total = 0
          /\ c.parts = {} /\ c.got = None
  BY <1>0, StoreAllEffect
<1>2. Types'
  BY <1>0, <1>1 DEF Types, Sees, Writes, Moves, Adds
<1>3. CallInv'
  <2>1. CallGoes(c, peers[n])
    BY <1>1 DEF CallGoes
  <2>. QED
    BY <1>0, <1>1, <2>1, OneCallKept
<1>5. Kept(seen'.totals, encrypt(Plain(0, 0)))
  <2>0. Known(seen'.totals, Plain(0, 0).total)
    BY <1>1 DEF Known
  <2>1. Plain(0, 0) \in Files /\ Clear(seen'.totals, Plain(0, 0))
    BY <2>0, PlainFiles DEF Clear
  <2>. QED
    BY <1>0, <2>1, KeptFiles DEF Types
<1>6. CallFits(seen'.totals, c)
  BY <1>1, EmptyCallFits, NoneIsNotWrong
<1>7. Fits(seen'.totals, MessageStoreFile(0, 0))
  BY <1>1 DEF Fits, Known, MessageStoreFile
<1>8. \A x \in {MessageStoreFile(0, 0)} : Fits(seen'.totals, x)
  BY <1>7
<1>9. DiskFits /\ ChanFits /\ LoopFits /\ ClientFits
  BY <1>0, <1>1, <1>5, <1>6, <1>8, NewFits
<1>10. FileInv'
  BY <1>0, <1>1, <1>9, FileKept DEF Sees
<1>. QED
  BY <1>2, <1>3, <1>10 DEF Inv

\* Get and Remove begin.
LEMMA AskStep ==
  ASSUME Inv, NEW n \in Nodes \ dead, getAllLocal(n) \/ AskPeers(n) \/ Remove(n)
  PROVE  Inv'
<1>0. Types /\ CallInv /\ FileInv
  BY DEF Inv
<1>1. PICK c \in Calls :
          /\ Sees(FALSE, {}) /\ events' \in 0 .. MaxEvents
          /\ UNCHANGED <<mode, listed, peers, loop, dead, crossed, disk>>
          /\ Adds({MessageGetFile, MessageDeleteFile})
          /\ Moves(n, c) /\ c.pc \in {"idle", "asked", "delete"} /\ c.left = {}
          /\ \/ c.total = 0 /\ c.parts = {}
             \/ /\ disk[n] # None /\ c.total = disk[n].total
                /\ c.parts = {decrypt(disk[n])}
          /\ \/ c.got \in {None, "error"}
             \/ ~ Split /\ disk[n] # None /\ c.got = Content(disk[n])
  BY <1>0, AskEffect
<1>2. Types'
  BY <1>0, <1>1 DEF Types, Sees, Moves, Adds
<1>3. CallInv'
  <2>1. CallGoes(c, peers[n])
    BY <1>1 DEF CallGoes
  <2>. QED
    BY <1>0, <1>1, <2>1, OneCallKept
<1>4. ASSUME SoundAfter
      PROVE  DiskFits /\ ChanFits /\ LoopFits /\ ClientFits
  <2>1. DiskInv /\ seen'.totals = seen.totals
    BY <1>0, <1>1, <1>4, SoundBefore DEF Sees
  <2>2. ASSUME disk[n] # None
        PROVE  /\ Clear(seen'.totals, decrypt(disk[n])) /\ Content(disk[n]) = "file"
               /\ Known(seen'.totals, disk[n].total)
    <3>1. disk[n] \in Files /\ Kept(seen'.totals, disk[n])
      BY <1>0, <2>1, <2>2 DEF Types, DiskInv
    <3>. QED
      BY <1>0, <3>1, KeptFiles DEF Types, Kept
  <2>3. c.got # "wrong"
    BY <1>1, <2>2, NoneIsNotWrong
  <2>4. CallFits(seen'.totals, c)
    <3>1. CASE c.total = 0 /\ c.parts = {}
      BY <1>1, <2>3, <3>1, EmptyCallFits
    <3>2. CASE disk[n] # None /\ c.total = disk[n].total /\ c.parts = {decrypt(disk[n])}
      BY <2>2, <2>3, <3>2 DEF CallFits
    <3>. QED
      BY <1>1, <3>1, <3>2
  <2>5. \A x \in {MessageGetFile, MessageDeleteFile} : Fits(seen'.totals, x)
    BY DEF Fits, MessageGetFile, MessageDeleteFile
  <2>. QED
    BY <1>0, <1>1, <2>4, <2>5, NewFits
<1>5. FileInv'
  BY <1>0, <1>1, <1>4, FileKept DEF Sees
<1>. QED
  BY <1>2, <1>3, <1>5 DEF Inv


\* A store sends a part, or its message.
LEMMA SendStep ==
  ASSUME Inv, NEW n \in Nodes \ dead, (\E p \in Nodes : SendPart(n, p)) \/ SendData(n)
  PROVE  Inv'
<1>0. Types /\ CallInv /\ FileInv
  BY DEF Inv
<1>1. PICK c \in Calls : \E x \in Items :
          /\ UNCHANGED <<mode, listed, peers, loop, dead, events, crossed, disk, seen>>
          /\ Adds({x}) /\ Moves(n, c)
          /\ client[n].pc \in {"part", "data"} /\ c.pc \in {"part", "data"}
          /\ c.left \subseteq client[n].left
          /\ c.total = client[n].total /\ c.parts = client[n].parts /\ c.got = client[n].got
          /\ c.pc = "data" => c.num <= c.total
          /\ \/ x.type = "store" /\ x.total = client[n].total
             \/ x.type = "stream" /\ x.use = "store" /\ x.file.layers = 0 /\ x.file.whole
  BY <1>0, SendEffect
<1>2. PICK x \in Items :
          /\ UNCHANGED <<mode, listed, peers, loop, dead, events, crossed, disk, seen>>
          /\ Adds({x}) /\ Moves(n, c)
          /\ client[n].pc \in {"part", "data"} /\ c.pc \in {"part", "data"}
          /\ c.left \subseteq client[n].left
          /\ c.total = client[n].total /\ c.parts = client[n].parts /\ c.got = client[n].got
          /\ c.pc = "data" => c.num <= c.total
          /\ \/ x.type = "store" /\ x.total = client[n].total
             \/ x.type = "stream" /\ x.use = "store" /\ x.file.layers = 0 /\ x.file.whole
  BY <1>1
<1>3. Types'
  BY <1>0, <1>2 DEF Types, Moves, Adds
<1>4. CallInv'
  <2>1. CallGoes(c, peers[n])
    BY <1>0, <1>2 DEF CallGoes, CallInv
  <2>. QED
    BY <1>0, <1>2, <2>1, OneCallKept
<1>5. ASSUME SoundAfter
      PROVE  DiskFits /\ ChanFits /\ LoopFits /\ ClientFits
  <2>1. ClientInv
    BY <1>0, <1>2, <1>5, SoundBefore
  <2>2. CallFits(seen'.totals, client[n])
    BY <1>2, <2>1 DEF ClientInv
  <2>3. Known(seen'.totals, client[n].total)
    BY <1>2, <2>2 DEF CallFits
  <2>4. CallFits(seen'.totals, c)
    BY <1>2, <2>2, <2>3 DEF CallFits
  <2>5. Fits(seen'.totals, x)
    BY <1>2, <2>3 DEF Fits
  <2>6. \A y \in {x} : Fits(seen'.totals, y)
    BY <2>5
  <2>. QED
    BY <1>0, <1>2, <2>4, <2>6, NewFits
<1>6. FileInv'
  BY <1>0, <1>2, <1>5, FileKept
<1>. QED
  BY <1>3, <1>4, <1>6 DEF Inv

\* The copies are streamed.
LEMMA StreamAllStep ==
  ASSUME Inv, NEW n \in Nodes \ dead, StreamAll(n)
  PROVE  Inv'
<1>0. Types /\ CallInv /\ FileInv
  BY DEF Inv
<1>1. PICK f \in Files :
          /\ UNCHANGED <<mode, listed, peers, loop, dead, events, crossed, disk>>
          /\ Adds({Stream("store", f)}) /\ Moves(n, Idle)
          /\ Sees(~ f.whole, {})
          /\ f.whole => f = encrypt(Plain(0, 0))
  BY <1>0, StreamAllEffect
<1>2. ~ Split
  BY <1>0 DEF StreamAll, CallInv
<1>3. Types'
  BY <1>0, <1>1 DEF Types, Moves, Adds, Sees
<1>4. CallInv'
  <2>1. CallGoes(Idle, peers[n])
    BY IdleCalls DEF CallGoes
  <2>. QED
    BY <1>0, <1>1, <2>1, OneCallKept
<1>5. ASSUME SoundAfter
      PROVE  DiskFits /\ ChanFits /\ LoopFits /\ ClientFits
  <2>1. f.whole /\ EncType = "None"
    BY <1>1, <1>2, <1>5 DEF SoundAfter, Sees
  <2>2. f = Plain(0, 0)
    BY <1>1, <2>1 DEF encrypt
  <2>3. f.layers = 0
    BY <2>2, PlainFiles
  <2>4. Fits(seen'.totals, Stream("store", f))
    BY <2>1, <2>3 DEF Fits, Stream
  <2>5. CallFits(seen'.totals, Idle)
    BY IdleCalls, EmptyCallFits, NoneIsNotWrong
  <2>6. \A y \in {Stream("store", f)} : Fits(seen'.totals, y)
    BY <2>4
  <2>. QED
    BY <1>0, <1>1, <2>5, <2>6, NewFits
<1>6. FileInv'
  BY <1>0, <1>1, <1>5, FileKept DEF Sees
<1>. QED
  BY <1>3, <1>4, <1>6 DEF Inv

\* A call returns that has nothing to say.
LEMMA DoneStep ==
  ASSUME Inv, NEW n \in Nodes \ dead, SendFails(n) \/ StoreReturns(n) \/ DeleteLocal(n)
  PROVE  Inv'
<1>0. Types /\ CallInv /\ FileInv
  BY DEF Inv
<1>1. PICK c \in Calls :
          /\ Moves(n, c) /\ c.pc = "idle" /\ c.left = {} /\ c.total = 0 /\ c.parts = {}
          /\ c.got = None
          /\ UNCHANGED <<mode, listed, peers, loop, dead, events, crossed, chan, seen>>
          /\ disk' = disk \/ Writes(n, None)
  BY <1>0, DoneEffect
<1>2. Types'
  BY <1>0, <1>1 DEF Types, Moves, Writes
<1>3. CallInv'
  <2>1. CallGoes(c, peers[n])
    BY <1>1 DEF CallGoes
  <2>. QED
    BY <1>0, <1>1, <2>1, OneCallKept
<1>4. CallFits(seen'.totals, c)
  BY <1>1, EmptyCallFits, NoneIsNotWrong
<1>5. DiskFits /\ ChanFits /\ LoopFits /\ ClientFits
  BY <1>0, <1>1, <1>4, NewFits
<1>6. FileInv'
  BY <1>0, <1>1, <1>5, FileKept
<1>. QED
  BY <1>2, <1>3, <1>6 DEF Inv

\* A Get returns: parts of one cutting, as they were, are the file.
LEMMA GetReturnsStep ==
  ASSUME Inv, NEW n \in Nodes \ dead, GetReturns(n)
  PROVE  Inv'
<1>0. Types /\ CallInv /\ FileInv
  BY DEF Inv
<1>1. PICK c \in Calls :
          /\ Moves(n, c) /\ c.pc = "idle" /\ c.left = {} /\ c.total = 0 /\ c.parts = {}
          /\ UNCHANGED <<mode, listed, peers, loop, dead, events, crossed, chan, seen, disk>>
          /\ \/ c.got = "error"
             \/ Split /\ c.got = Combine(n)
             \/ ~ Split /\ disk[n] # None /\ c.got = Content(disk[n])
  BY <1>0, GetReturnsEffect
<1>2. Types'
  BY <1>0, <1>1 DEF Types, Moves
<1>3. CallInv'
  <2>1. CallGoes(c, peers[n])
    BY <1>1 DEF CallGoes
  <2>. QED
    BY <1>0, <1>1, <2>1, OneCallKept
<1>4. ASSUME SoundAfter
      PROVE  DiskFits /\ ChanFits /\ LoopFits /\ ClientFits
  <2>1. DiskInv /\ ClientInv
    BY <1>0, <1>1, <1>4, SoundBefore
  <2>2. CallFits(seen.totals, client[n])
    BY <2>1 DEF ClientInv
  <2>3. ASSUME OneTotal(seen.totals), Split
        PROVE  Combine(n) # "wrong"
    <3>1. SUFFICES ASSUME client[n].total # 0, NEW f \in client[n].parts,
                          ~ IsTheFile(f) \/ f.total # client[n].total
                   PROVE  FALSE
      BY CombineGives
    <3>2. Clear(seen.totals, f) /\ Known(seen.totals, client[n].total)
      BY <2>2, <3>1 DEF CallFits
    <3>3. IsTheFile(f)
      BY <3>2 DEF Clear, IsTheFile
    <3>4. f.total \in seen.totals /\ client[n].total \in seen.totals
      BY <2>3, <3>2 DEF Clear, Known
    <3>. QED
      BY <2>3, <3>1, <3>3, <3>4 DEF OneTotal
  <2>4. ASSUME disk[n] # None
        PROVE  Content(disk[n]) = "file"
    <3>1. disk[n] \in Files /\ Kept(seen.totals, disk[n])
      BY <1>0, <2>1, <2>4 DEF Types, DiskInv
    <3>. QED
      BY <1>0, <3>1, KeptFiles DEF Types
  <2>5. OneTotal(seen.totals) => c.got # "wrong"
    BY <1>1, <2>3, <2>4
  <2>6. CallFits(seen'.totals, c)
    BY <1>1, <2>5 DEF CallFits
  <2>. QED
    BY <1>0, <1>1, <2>6, NewFits
<1>5. FileInv'
  BY <1>0, <1>1, <1>4, FileKept
<1>. QED
  BY <1>2, <1>3, <1>5 DEF Inv

\* A Get begins to read.
LEMMA ReadAnswersStep ==
  ASSUME Inv, NEW n \in Nodes \ dead, ReadAnswers(n)
  PROVE  Inv'
<1>0. Types /\ CallInv /\ FileInv
  BY DEF Inv
<1>1. PICK c \in Calls :
          /\ Moves(n, c) /\ c.pc = "collect" /\ c.left = peers[n] /\ c.total = client[n].total
          /\ c.parts = client[n].parts /\ c.got = client[n].got
          /\ UNCHANGED <<mode, listed, peers, loop, dead, events, crossed, chan, seen, disk>>
  BY <1>0, ReadAnswersEffect
<1>2. Types'
  BY <1>0, <1>1 DEF Types, Moves
<1>3. CallInv'
  <2>1. CallGoes(c, peers[n])
    BY <1>1 DEF CallGoes
  <2>. QED
    BY <1>0, <1>1, <2>1, OneCallKept
<1>4. ASSUME SoundAfter
      PROVE  DiskFits /\ ChanFits /\ LoopFits /\ ClientFits
  <2>1. ClientInv
    BY <1>0, <1>1, <1>4, SoundBefore
  <2>2. CallFits(seen'.totals, c)
    BY <1>1, <2>1 DEF ClientInv, CallFits
  <2>. QED
    BY <1>0, <1>1, <2>2, NewFits
<1>5. FileInv'
  BY <1>0, <1>1, <1>4, FileKept
<1>. QED
  BY <1>2, <1>3, <1>5 DEF Inv


\* A Get reads an answer.
LEMMA CollectStep ==
  ASSUME Inv, NEW n \in Nodes \ dead, NEW p \in Nodes, Collect(n, p)
  PROVE  Inv'
<1>0. Types /\ CallInv /\ FileInv
  BY DEF Inv
<1>1. PICK c \in Calls : \E x \in Streams :
          /\ Moves(n, c) /\ Adds({}) /\ x.use = "answer"
          /\ \E k \in DOMAIN chan[p][n] : x = chan[p][n][k]
          /\ c.pc = "collect" /\ c.left \subseteq client[n].left /\ c.got = client[n].got
          /\ \/ ~ Split /\ c.parts = client[n].parts /\ c.total = client[n].total
                /\ \E f \in Files : /\ Writes(n, f) /\ f.layers = x.file.layers
                                    /\ f.whole = x.file.whole
             \/ /\ Split /\ disk' = disk
                /\ c.parts \subseteq client[n].parts \cup {decrypt(x.file)}
                /\ c.total = client[n].total \/ (disk[n] # None /\ c.total = disk[n].total)
          /\ UNCHANGED <<mode, listed, peers, loop, dead, events, crossed, seen>>
  BY <1>0, CollectEffect
<1>2. PICK x \in Streams :
          /\ Moves(n, c) /\ Adds({}) /\ x.use = "answer"
          /\ \E k \in DOMAIN chan[p][n] : x = chan[p][n][k]
          /\ c.pc = "collect" /\ c.left \subseteq client[n].left /\ c.got = client[n].got
          /\ \/ ~ Split /\ c.parts = client[n].parts /\ c.total = client[n].total
                /\ \E f \in Files : /\ Writes(n, f) /\ f.layers = x.file.layers
                                    /\ f.whole = x.file.whole
             \/ /\ Split /\ disk' = disk
                /\ c.parts \subseteq client[n].parts \cup {decrypt(x.file)}
                /\ c.total = client[n].total \/ (disk[n] # None /\ c.total = disk[n].total)
          /\ UNCHANGED <<mode, listed, peers, loop, dead, events, crossed, seen>>
  BY <1>1
<1>3. disk' \in [Nodes -> Files \cup {None}]
  BY <1>0, <1>2 DEF Types, Writes
<1>4. Types'
  BY <1>0, <1>2, <1>3 DEF Types, Moves, Adds
<1>5. CallInv'
  <2>1. CallGoes(c, peers[n])
    BY <1>0, <1>2 DEF CallGoes, CallInv
  <2>. QED
    BY <1>0, <1>2, <2>1, OneCallKept
<1>6. ASSUME SoundAfter
      PROVE  DiskFits /\ ChanFits /\ LoopFits /\ ClientFits
  <2>1. DiskInv /\ ChanInv /\ ClientInv /\ seen' = seen
    BY <1>0, <1>2, <1>6, SoundBefore
  <2>2. CallFits(seen.totals, client[n])
    BY <2>1 DEF ClientInv
  <2>3. x.file \in Files /\ Kept(seen.totals, x.file)
    <3>1. Fits(seen.totals, x)
      BY <1>2, <2>1 DEF ChanInv
    <3>2. x.type = "stream" /\ x.file \in Files
      BY DEF Streams
    <3>. QED
      BY <1>2, <3>1, <3>2 DEF Fits
  <2>4. CASE ~ Split /\ c.parts = client[n].parts /\ c.total = client[n].total
             /\ \E f \in Files : /\ Writes(n, f) /\ f.layers = x.file.layers
                                 /\ f.whole = x.file.whole
    <3>1. PICK f \in Files : Writes(n, f) /\ f.layers = x.file.layers /\ f.whole = x.file.whole
      BY <2>4
    <3>2. Known(seen'.totals, f.total)
      BY <2>4 DEF Known
    <3>3. Kept(seen'.totals, f)
      BY <2>3, <3>1, <3>2 DEF Kept
    <3>4. CallFits(seen'.totals, c)
      BY <1>2, <2>1, <2>2, <2>4 DEF CallFits
    <3>. QED
      BY <1>0, <1>2, <3>1, <3>3, <3>4, NewFits
  <2>5. CASE /\ Split /\ disk' = disk
             /\ c.parts \subseteq client[n].parts \cup {decrypt(x.file)}
             /\ c.total = client[n].total \/ (disk[n] # None /\ c.total = disk[n].total)
    <3>1. Clear(seen.totals, decrypt(x.file))
      BY <1>0, <2>3, KeptFiles DEF Types
    <3>2. \A f \in c.parts : Clear(seen.totals, f)
      BY <2>2, <2>5, <3>1 DEF CallFits
    <3>3. c.total # 0 => Known(seen.totals, c.total)
      BY <2>1, <2>2, <2>5 DEF CallFits, DiskInv, Kept
    <3>4. CallFits(seen'.totals, c)
      BY <1>2, <2>1, <2>2, <3>2, <3>3 DEF CallFits
    <3>. QED
      BY <1>0, <1>2, <2>5, <3>4, NewFits
  <2>. QED
    BY <1>2, <2>4, <2>5
<1>7. FileInv'
  BY <1>0, <1>2, <1>6, FileKept
<1>. QED
  BY <1>4, <1>5, <1>7 DEF Inv

\* A Get finds the end of a connection.
LEMMA CollectFailsStep ==
  ASSUME Inv, NEW n \in Nodes \ dead, NEW p \in Nodes, CollectFails(n, p)
  PROVE  Inv'
<1>0. Types /\ CallInv /\ FileInv
  BY DEF Inv
<1>1. PICK c \in Calls :
          /\ Moves(n, c) /\ c.pc = "idle" /\ c.left = {} /\ c.total = 0 /\ c.parts = {}
          /\ c.got = "error"
          /\ UNCHANGED <<mode, listed, peers, loop, dead, events, crossed, chan>>
          /\ \/ UNCHANGED <<disk, seen>>
             \/ Sees(TRUE, {}) /\ \E f \in Files : Writes(n, f)
  BY <1>0, CollectFailsEffect
<1>2. disk' \in [Nodes -> Files \cup {None}]
  BY <1>0, <1>1 DEF Types, Writes
<1>3. Types'
  BY <1>0, <1>1, <1>2 DEF Types, Moves, Sees
<1>4. CallInv'
  <2>1. CallGoes(c, peers[n])
    BY <1>1 DEF CallGoes
  <2>. QED
    BY <1>0, <1>1, <2>1, OneCallKept
<1>5. SoundAfter => UNCHANGED <<disk, seen>>
  BY <1>1 DEF SoundAfter, Sees
<1>6. CallFits(seen'.totals, c)
  BY <1>1, EmptyCallFits
<1>7. SoundAfter => DiskFits /\ ChanFits /\ LoopFits /\ ClientFits
  BY <1>0, <1>1, <1>5, <1>6, NewFits
<1>8. FileInv'
  BY <1>0, <1>1, <1>7, FileKept DEF Sees
<1>. QED
  BY <1>3, <1>4, <1>8 DEF Inv

-----------------------------------------------------------------------------
(* The event loops.                                                         *)

\* A file is served.
LEMMA ServeStep ==
  ASSUME Inv, NEW m \in Nodes \ dead, NEW p \in Nodes, handleMessageGetFile(m, p)
  PROVE  Inv'
<1>0. Types /\ CallInv /\ FileInv
  BY DEF Inv
<1>1. /\ UNCHANGED <<mode, listed, peers, client, dead, events, crossed, seen, disk, loop>>
      /\ Adds({}) \/ (disk[m] # None /\ Adds({Stream("answer", disk[m])}))
  BY <1>0, ServeEffect
<1>2. Types'
  BY <1>0, <1>1 DEF Types, Adds
<1>3. CallInv'
  BY <1>0, <1>1, CallKept
<1>4. ASSUME SoundAfter
      PROVE  DiskFits /\ ChanFits /\ LoopFits /\ ClientFits
  <2>1. DiskInv
    BY <1>0, <1>1, <1>4, SoundBefore
  <2>2. ASSUME disk[m] # None
        PROVE  \A x \in {Stream("answer", disk[m])} : Fits(seen'.totals, x)
    <3>1. Kept(seen'.totals, disk[m])
      BY <1>1, <2>1, <2>2 DEF DiskInv
    <3>. QED
      BY <3>1 DEF Fits, Stream
  <2>3. ChanFits
    <3>1. CASE Adds({})
      BY <1>0, <3>1, NewFits
    <3>2. CASE disk[m] # None /\ Adds({Stream("answer", disk[m])})
      BY <1>0, <2>2, <3>2, NewFits
    <3>. QED
      BY <1>1, <3>1, <3>2
  <2>. QED
    BY <1>0, <1>1, <2>3, NewFits
<1>5. FileInv'
  BY <1>0, <1>1, <1>4, FileKept
<1>. QED
  BY <1>2, <1>3, <1>5 DEF Inv

\* A file is deleted.
LEMMA DeleteStep ==
  ASSUME Inv, NEW m \in Nodes \ dead, NEW p \in Nodes, handleMessageDeleteFile(m, p)
  PROVE  Inv'
<1>0. Types /\ CallInv /\ FileInv
  BY DEF Inv
<1>1. /\ UNCHANGED <<mode, listed, peers, client, dead, events, crossed, seen, loop>>
      /\ Adds({}) /\ Writes(m, None)
  BY <1>0, DeleteEffect
<1>2. Types'
  BY <1>0, <1>1 DEF Types, Adds, Writes
<1>3. CallInv'
  BY <1>0, <1>1, CallKept
<1>4. DiskFits /\ ChanFits /\ LoopFits /\ ClientFits
  BY <1>0, <1>1, NewFits
<1>5. FileInv'
  BY <1>0, <1>1, <1>4, FileKept
<1>. QED
  BY <1>2, <1>3, <1>5 DEF Inv

\* The message of a store is taken.
LEMMA TakeStep ==
  ASSUME Inv, NEW m \in Nodes \ dead, NEW p \in Nodes, handleMessageStoreFile(m, p)
  PROVE  Inv'
<1>0. Types /\ CallInv /\ FileInv
  BY DEF Inv
<1>1. PICK w \in [from : Nodes, msg : StoreMessages] :
          /\ UNCHANGED <<mode, listed, peers, client, dead, events, crossed, seen, disk>>
          /\ Adds({}) /\ Waits(m, w) /\ w.from = p /\ p \in peers[m]
          /\ \E k \in DOMAIN chan[p][m] : w.msg = chan[p][m][k]
  BY <1>0, TakeEffect
<1>2. Types'
  BY <1>0, <1>1 DEF Types, Adds, Waits
<1>3. CallInv'
  <2>1. \A k \in Nodes : loop'[k] = loop[k] \/ loop'[k].from \in peers'[k]
    BY <1>1 DEF Waits
  <2>. QED
    BY <1>0, <1>1, <2>1, CallKept
<1>4. ASSUME SoundAfter
      PROVE  DiskFits /\ ChanFits /\ LoopFits /\ ClientFits
  <2>1. Fits(seen'.totals, w.msg)
    BY <1>0, <1>1, <1>4, SoundBefore DEF ChanInv
  <2>2. w.msg.type = "store"
    BY DEF StoreMessages
  <2>3. Known(seen'.totals, w.msg.total)
    BY <2>1, <2>2 DEF Fits
  <2>. QED
    BY <1>0, <1>1, <2>3, NewFits
<1>5. FileInv'
  BY <1>0, <1>1, <1>4, FileKept
<1>. QED
  BY <1>2, <1>3, <1>5 DEF Inv

\* A part is stored.
LEMMA StorePartStep ==
  ASSUME Inv, NEW m \in Nodes \ dead, StorePart(m)
  PROVE  Inv'
<1>0. Types /\ CallInv /\ FileInv
  BY DEF Inv
<1>1. PICK f \in Files : \E p \in Nodes, x \in Streams :
          /\ UNCHANGED <<mode, listed, peers, client, dead, events, crossed, seen>>
          /\ Adds({}) /\ Waits(m, None) /\ Writes(m, encrypt(f))
          /\ \E k \in DOMAIN chan[p][m] : x = chan[p][m][k]
          /\ x.use = "store" /\ f.layers = x.file.layers /\ f.whole = x.file.whole
          /\ loop[m] # None /\ f.total = loop[m].msg.total
  BY <1>0, StorePartEffect
<1>2. PICK p \in Nodes, x \in Streams :
          /\ UNCHANGED <<mode, listed, peers, client, dead, events, crossed, seen>>
          /\ Adds({}) /\ Waits(m, None) /\ Writes(m, encrypt(f))
          /\ \E k \in DOMAIN chan[p][m] : x = chan[p][m][k]
          /\ x.use = "store" /\ f.layers = x.file.layers /\ f.whole = x.file.whole
          /\ loop[m] # None /\ f.total = loop[m].msg.total
  BY <1>1
<1>3. Types'
  BY <1>0, <1>2 DEF Types, Adds, Waits, Writes
<1>4. CallInv'
  <2>1. \A k \in Nodes : loop'[k] = loop[k] \/ loop'[k] = None
    BY <1>2 DEF Waits
  <2>. QED
    BY <1>0, <1>2, <2>1, CallKept
<1>5. ASSUME SoundAfter
      PROVE  DiskFits /\ ChanFits /\ LoopFits /\ ClientFits
  <2>1. ChanInv /\ LoopInv
    BY <1>0, <1>2, <1>5, SoundBefore
  <2>2. Fits(seen.totals, x)
    BY <1>2, <2>1 DEF ChanInv
  <2>3. x.type = "stream"
    BY DEF Streams
  <2>4. f.layers = 0 /\ f.whole
    BY <1>2, <2>2, <2>3 DEF Fits
  <2>5. Known(seen'.totals, f.total)
    BY <1>2, <2>1 DEF LoopInv
  <2>6. Kept(seen'.totals, encrypt(f))
    BY <1>0, <2>4, <2>5, KeptFiles DEF Clear, Types
  <2>. QED
    BY <1>0, <1>2, <2>6, NewFits
<1>6. FileInv'
  BY <1>0, <1>2, <1>5, FileKept
<1>. QED
  BY <1>3, <1>4, <1>6 DEF Inv

\* A part does not arrive.
LEMMA StorePartFailsStep ==
  ASSUME Inv, NEW m \in Nodes \ dead, StorePartFails(m)
  PROVE  Inv'
<1>0. Types /\ CallInv /\ FileInv
  BY DEF Inv
<1>1. UNCHANGED <<mode, listed, peers, chan, disk, client, dead, events, crossed, seen>>
  BY DEF StorePartFails, connVars
<1>2. Waits(m, None)
  BY <1>0, WaitsNot DEF StorePartFails
<1>3. Types'
  BY <1>0, <1>1, <1>2 DEF Types, Waits
<1>4. CallInv'
  <2>1. \A k \in Nodes : loop'[k] = loop[k] \/ loop'[k] = None
    BY <1>2 DEF Waits
  <2>. QED
    BY <1>0, <1>1, <2>1, CallKept
<1>5. DiskFits /\ ChanFits /\ LoopFits /\ ClientFits
  BY <1>0, <1>1, <1>2, NewFits
<1>6. FileInv'
  BY <1>0, <1>1, <1>5, FileKept
<1>. QED
  BY <1>3, <1>4, <1>6 DEF Inv


-----------------------------------------------------------------------------
(* Failures, and the growth of the mesh.                                    *)

\* A process ends, and its last write may end with it.
LEMMA StopsStep ==
  ASSUME Inv, NEW n \in Nodes \ dead, Stops(n), events' \in 0 .. MaxEvents,
         disk' = disk \/ \E f \in Files : Writes(n, f)
  PROVE  Inv'
<1>0. Types /\ CallInv /\ FileInv
  BY DEF Inv
<1>1. /\ UNCHANGED <<mode, listed, peers, crossed>> /\ dead' = dead \cup {n}
      /\ Moves(n, Idle) /\ Waits(n, None) /\ Sees(FALSE, {})
      /\ chan' \in [Nodes -> [Nodes -> Seq(Items)]]
      /\ ~ seen'.cut => Adds({})
  BY <1>0, StopsEffect
<1>2. disk' \in [Nodes -> Files \cup {None}]
  BY <1>0 DEF Types, Writes
<1>3. Types'
  BY <1>0, <1>1, <1>2 DEF Types, Moves, Waits, Sees
<1>4. CallInv'
  <2>1. \A k \in Nodes : loop'[k] = loop[k] \/ loop'[k] = None
    BY <1>1 DEF Waits
  <2>2. CallGoes(Idle, peers'[n])
    BY IdleCalls DEF CallGoes
  <2>3. \A k \in Nodes : client'[k] = client[k] \/ CallGoes(client'[k], peers'[k])
    BY <1>1, <2>2 DEF Moves
  <2>. QED
    BY <1>0, <1>1, <2>1, <2>3, CallKept
<1>5. ASSUME SoundAfter
      PROVE  DiskFits /\ ChanFits /\ LoopFits /\ ClientFits
  <2>1. Adds({})
    BY <1>1, <1>5 DEF SoundAfter
  <2>2. CallFits(seen'.totals, Idle)
    BY IdleCalls, EmptyCallFits, NoneIsNotWrong
  <2>3. DiskFits
    <3>1. n \in dead'
      BY <1>1
    <3>. QED
      BY <1>0, <3>1, NewFits
  <2>. QED
    BY <1>0, <1>1, <2>1, <2>2, <2>3, NewFits
<1>6. FileInv'
  BY <1>0, <1>1, <1>5, FileKept DEF Sees
<1>. QED
  BY <1>3, <1>4, <1>6 DEF Inv

\* A node crashes or panics.
LEMMA FailureStep ==
  ASSUME Inv, NEW n \in Nodes \ dead, Crash(n) \/ Panic(n)
  PROVE  Inv'
<1>0. Types
  BY DEF Inv
<1>1. CASE Crash(n)
  <2>1. Stops(n) /\ disk' = disk /\ events < MaxEvents /\ events' = events + 1
    BY <1>1 DEF Crash, Happens
  <2>2. events' \in 0 .. MaxEvents
    BY <1>0, <2>1, BoundsAssumption DEF Types
  <2>. QED
    BY <2>1, <2>2, StopsStep
<1>2. CASE Panic(n)
  <2>1. Stops(n) /\ events' = events /\ \E f \in Files : Writes(n, f)
    BY <1>0, <1>2, PanicEffect
  <2>2. events' \in 0 .. MaxEvents
    BY <1>0, <2>1 DEF Types
  <2>. QED
    BY <2>1, <2>2, StopsStep
<1>. QED
  BY <1>1, <1>2

\* The mesh grows, or calls cross.
LEMMA GrowthStep ==
  ASSUME Inv, NEW n \in Nodes \ dead,
         Add(n) \/ (\E m \in Nodes : OnPeer(n, m)) \/ (\E p \in Nodes : Cross(n, p))
  PROVE  Inv'
<1>0. Types /\ CallInv /\ FileInv
  BY DEF Inv
<1>. DEFINE o == seen.overlapped \/ ~ Quiet
<1>1. /\ UNCHANGED <<mode, chan, disk, loop, client, dead>>
      /\ seen' = seen \/ seen' = [seen EXCEPT !.last = None, !.overlapped = o]
  BY DEF Add, OnPeer, Cross, connVars
<1>2. Sees(FALSE, {})
  <2>1. o \in BOOLEAN
    OBVIOUS
  <2>. HIDE DEF o
  <2>2. CASE seen' = seen
    BY <1>0, <2>2, SeesNothing
  <2>3. CASE seen' = [seen EXCEPT !.last = None, !.overlapped = o]
    BY <1>0, <2>1, <2>3 DEF Types, Sees
  <2>. QED
    BY <1>1, <2>2, <2>3
<1>3. /\ listed' \subseteq Nodes /\ events' \in 0 .. MaxEvents
      /\ peers' \in [Nodes -> SUBSET Nodes] /\ \A k \in Nodes : peers[k] \subseteq peers'[k]
  <2>1. CASE Add(n)
    <3>1. events < MaxEvents /\ events' = events + 1 /\ listed' = listed \cup {n} /\ peers' = peers
      BY <2>1 DEF Add, Happens, connVars
    <3>. QED
      BY <1>0, <3>1, BoundsAssumption DEF Types
  <2>2. CASE \E m \in Nodes : OnPeer(n, m)
    <3>1. PICK m \in Nodes : OnPeer(n, m)
      BY <2>2
    <3>2. /\ m # n /\ listed' = listed /\ events' = events
          /\ peers' = [peers EXCEPT ![n] = @ \cup {m}, ![m] = @ \cup {n}]
      BY <3>1 DEF OnPeer
    <3>. QED
      BY <1>0, <3>2 DEF Types
  <2>3. CASE \E p \in Nodes : Cross(n, p)
    <3>1. listed' = listed /\ events' = events /\ peers' = peers
      BY <2>3 DEF Cross, connVars
    <3>. QED
      BY <1>0, <3>1 DEF Types
  <2>. QED
    BY <2>1, <2>2, <2>3
<1>4. Types'
  BY <1>0, <1>1, <1>2, <1>3 DEF Types, Sees
<1>5. CallInv'
  BY <1>0, <1>1, <1>3, CallKept
<1>6. DiskFits /\ ChanFits /\ LoopFits /\ ClientFits
  BY <1>0, <1>1, NewFits
<1>7. FileInv'
  BY <1>0, <1>1, <1>2, <1>6, FileKept DEF Sees
<1>. QED
  BY <1>4, <1>5, <1>7 DEF Inv

-----------------------------------------------------------------------------
(* The theorems.                                                            *)

\* It holds at the start.
LEMMA InitInv == Init => Inv
<1>. SUFFICES ASSUME Init
              PROVE  Inv
  OBVIOUS
<1>1. listed \subseteq Nodes
  BY StartsAssumption DEF Init
<1>2. Types
  <2>1. /\ mode \in Modes /\ peers \in [Nodes -> SUBSET Nodes]
        /\ disk \in [Nodes -> Files \cup {None}]
        /\ loop \in [Nodes -> [from : Nodes, msg : StoreMessages] \cup {None}]
        /\ dead \subseteq Nodes
    BY <1>1 DEF Init
  <2>2. chan \in [Nodes -> [Nodes -> Seq(Items)]]
    <3>1. <<>> \in Seq(Items)
      OBVIOUS
    <3>2. [m \in Nodes |-> <<>>] \in [Nodes -> Seq(Items)]
      BY <3>1
    <3>. QED
      BY <3>2 DEF Init
  <2>3. client \in [Nodes -> Calls]
    BY IdleCalls DEF Init
  <2>4. events \in 0 .. MaxEvents
    BY BoundsAssumption DEF Init
  <2>5. seen \in [last : {None, "store", "remove"}, overlapped : BOOLEAN, cut : BOOLEAN,
                  totals : SUBSET Numbers]
    BY DEF Init
  <2>. QED
    BY <1>1, <2>1, <2>2, <2>3, <2>4, <2>5 DEF Types
<1>3. \A n \in Nodes : client[n] = Idle /\ loop[n] = None /\ disk[n] = None
  BY DEF Init
<1>4. CallInv
  BY <1>3, IdleCalls DEF CallInv
<1>5. FileInv
  <2>1. DiskInv /\ LoopInv
    BY <1>3 DEF DiskInv, LoopInv
  <2>2. ChanInv
    <3>1. \A n, m \in Nodes : chan[n][m] = <<>>
      BY DEF Init
    <3>2. \A n, m \in Nodes : DOMAIN chan[n][m] = {}
      BY <3>1
    <3>. QED
      BY <3>2 DEF ChanInv
  <2>3. CallFits(seen.totals, Idle)
    BY IdleCalls, EmptyCallFits, NoneIsNotWrong
  <2>4. ClientInv
    BY <1>3, <2>3 DEF ClientInv
  <2>. QED
    BY <2>1, <2>2, <2>4 DEF FileInv
<1>. QED
  BY <1>2, <1>4, <1>5 DEF Inv

\* Every step keeps it.
LEMMA StepInv == Inv /\ [Next]_vars => Inv'
<1>. SUFFICES ASSUME Inv, [Next]_vars
              PROVE  Inv'
  OBVIOUS
<1>1. CASE UNCHANGED vars
  <2>0. Types /\ CallInv /\ FileInv
    BY DEF Inv
  <2>1. UNCHANGED <<mode, listed, peers, disk, chan, loop, client, dead, events, seen>>
    BY <1>1 DEF vars
  <2>2. Types'
    BY <2>0, <2>1 DEF Types
  <2>3. CallInv'
    BY <2>0, <2>1, CallKept
  <2>4. DiskFits /\ ChanFits /\ LoopFits /\ ClientFits
    BY <2>0, <2>1, NewFits
  <2>5. FileInv'
    BY <2>0, <2>1, <2>4, FileKept
  <2>. QED
    BY <2>2, <2>3, <2>5 DEF Inv
<1>2. ASSUME NEW n \in Nodes \ dead, Step(n)
      PROVE  Inv'
  <2>1. CASE Add(n) \/ (\E m \in Nodes : OnPeer(n, m)) \/ (\E p \in Nodes : Cross(n, p))
    BY <2>1, GrowthStep
  <2>2. CASE Request(n)
    BY <2>2, StoreSplitStep, StoreAllStep, AskStep DEF Request
  <2>3. CASE Client(n)
    <3>1. CASE \E p \in Nodes : SendPart(n, p) \/ Collect(n, p) \/ CollectFails(n, p)
      BY <3>1, SendStep, CollectStep, CollectFailsStep
    <3>2. CASE SendData(n)
      BY <3>2, SendStep
    <3>3. CASE SendFails(n) \/ StoreReturns(n) \/ DeleteLocal(n)
      BY <3>3, DoneStep
    <3>4. CASE StreamAll(n)
      BY <3>4, StreamAllStep
    <3>5. CASE ReadAnswers(n)
      BY <3>5, ReadAnswersStep
    <3>6. CASE GetReturns(n)
      BY <3>6, GetReturnsStep
    <3>. QED
      BY <2>3, <3>1, <3>2, <3>3, <3>4, <3>5, <3>6 DEF Client
  <2>4. CASE EventLoop(n)
    <3>1. CASE \E p \in Nodes : \/ handleMessageGetFile(n, p) \/ handleMessageDeleteFile(n, p)
                                \/ handleMessageStoreFile(n, p)
      BY <3>1, ServeStep, DeleteStep, TakeStep
    <3>2. CASE StorePart(n)
      BY <3>2, StorePartStep
    <3>3. CASE StorePartFails(n)
      BY <3>3, StorePartFailsStep
    <3>4. CASE Panic(n)
      BY <3>4, FailureStep
    <3>. QED
      BY <2>4, <3>1, <3>2, <3>3, <3>4 DEF EventLoop
  <2>5. CASE Crash(n)
    BY <2>5, FailureStep
  <2>. QED
    BY <1>2, <2>1, <2>2, <2>3, <2>4, <2>5 DEF Step
<1>. QED
  BY <1>1, <1>2 DEF Next

\* It is an invariant: nodes hold, send and read only files that are as often encrypted
\* as their place asks for, whole, and of a number of parts that some Store used.
THEOREM FilesFit == Spec => []Inv
<1>. QED
  BY InitInv, StepInv, PTL DEF Spec

\* The variables have their types: what the handlers put on a connection is a message
\* or a stream, and a call or an event loop waits only for peers of its node.
THEOREM MeshFilesTypes == Spec => []TypeOK
<1>1. Inv => TypeOK
  <2>. SUFFICES ASSUME Inv
                PROVE  TypeOK
    OBVIOUS
  <2>1. Types /\ CallInv
    BY DEF Inv
  <2>2. ASSUME NEW x \in Items
        PROVE  \/ x \in {MessageGetFile, MessageDeleteFile}
               \/ x.type = "store" /\ {x.part, x.total} \subseteq 0 .. Cardinality(Nodes)
               \/ x.type = "stream" /\ x.file \in Files
    <3>1. \A y \in StoreMessages : y.type = "store" /\ {y.part, y.total} \subseteq Numbers
      BY DEF StoreMessages
    <3>2. \A y \in Streams : y.type = "stream" /\ y.file \in Files
      BY DEF Streams
    <3>. QED
      BY <3>1, <3>2 DEF Items, Numbers
  <2>3. \A n, m \in Nodes : \A i \in DOMAIN chan[n][m] : chan[n][m][i] \in Items
    <3>1. \A n, m \in Nodes : chan[n][m] \in Seq(Items)
      BY <2>1 DEF Types
    <3>2. \A q \in Seq(Items) : \A i \in DOMAIN q : q[i] \in Items
      OBVIOUS
    <3>. QED
      BY <3>1, <3>2
  <2>4. \A n \in Nodes : loop[n] # None => loop[n].from \in peers[n] /\ loop[n].msg.type = "store"
    <3>1. \A n \in Nodes : loop[n] # None => loop[n].msg \in StoreMessages
      BY <2>1, LoopFields
    <3>2. \A y \in StoreMessages : y.type = "store"
      BY DEF StoreMessages
    <3>. QED
      BY <2>1, <3>1, <3>2 DEF CallInv
  <2>5. \A n \in Nodes : client[n].left \subseteq peers[n] /\ client[n].parts \subseteq Files
    BY <2>1 DEF Types, CallInv, Calls
  <2>6. /\ mode \in Modes /\ listed \subseteq Nodes /\ peers \in [Nodes -> SUBSET Nodes]
        /\ \A n \in Nodes : disk[n] \in Files \cup {None}
        /\ dead \subseteq Nodes /\ events \in 0 .. MaxEvents
    BY <2>1 DEF Types
  <2>. QED
    BY <2>2, <2>3, <2>4, <2>5, <2>6 DEF TypeOK
<1>. QED
  BY <1>1, FilesFit, PTL

\* GetIsFile: from whichever nodes the parts or the copy come, while nodes store, delete,
\* join and crash, a Get that returns without an error returns the file.
THEOREM GetsAreFiles == Spec => []GetIsFile
<1>1. Inv => GetIsFile
  <2>. SUFFICES ASSUME Inv, ~ seen.cut, Cardinality(seen.totals) <= 1, Split \/ EncType = "None",
                       NEW n \in Nodes
                PROVE  client[n].got # "wrong"
    BY DEF GetIsFile
  <2>1. ClientInv /\ Types
    BY DEF Inv, FileInv, Sound
  <2>2. OneTotal(seen.totals)
    <3>1. IsFiniteSet(seen.totals)
      <4>1. seen.totals \in SUBSET Numbers
        <5>1. seen \in [last : {None, "store", "remove"}, overlapped : BOOLEAN, cut : BOOLEAN,
                        totals : SUBSET Numbers]
          BY <2>1 DEF Types
        <5>. QED
          BY <5>1
      <4>2. IsFiniteSet(Numbers)
        <5>1. Cardinality(Nodes) \in Nat
          BY <2>1, Members DEF Types
        <5>2. 0 \in Int /\ Cardinality(Nodes) \in Int
          BY <5>1
        <5>. QED
          BY <5>2, FS_Interval DEF Numbers
      <4>. QED
        BY <4>1, <4>2, FS_Subset
    <3>2. SUFFICES ASSUME NEW s \in seen.totals, NEW t \in seen.totals, s # t
                   PROVE  FALSE
      BY DEF OneTotal
    <3>3. {s, t} \subseteq seen.totals /\ Cardinality({s, t}) = 2
      <4>1. IsFiniteSet({s}) /\ Cardinality({s}) = 1
        BY FS_Singleton
      <4>2. Cardinality({s} \cup {t}) = 1 + 1
        BY <3>2, <4>1, FS_AddElement
      <4>3. {s, t} = {s} \cup {t}
        OBVIOUS
      <4>. QED
        BY <4>2, <4>3
    <3>4. Cardinality({s, t}) <= Cardinality(seen.totals)
      BY <3>1, <3>3, FS_Subset
    <3>5. Cardinality(seen.totals) \in Nat
      BY <3>1, FS_CardinalityType
    <3>. QED
      BY <3>3, <3>4, <3>5
  <2>. QED
    BY <2>1, <2>2 DEF ClientInv, CallFits
<1>. QED
  BY <1>1, FilesFit, PTL


-----------------------------------------------------------------------------
(* Calls one at a time.  As long as calls do not overlap and no node dies,   *)
(* one node at a time has a call, and the connections carry nothing else.    *)

Serial == ~ seen.overlapped /\ dead = {}
Connected == \A n \in listed : peers[n] = listed \ {n}

\* What a Store makes: a part of as many as there are members, or a copy.
Total == IF Split THEN Cardinality(listed) ELSE 0
Holds(p, i) == disk[p] # None /\ disk[p].part = i /\ disk[p].total = Total
Job(i) == MessageStoreFile(i, Total)

\* The caller n has not sent to p; it has sent the message about part i; it has sent
\* the part as well.  (A mesh that is not connected may have more parts than peers.)
Untold(n, p) == chan[n][p] = <<>> /\ loop[p] = None
Told(n, p, i) ==
    \/ chan[n][p] = <<Job(i)>> /\ loop[p] = None
    \/ chan[n][p] = <<>> /\ loop[p] = [from |-> n, msg |-> Job(i)]
Sent(n, p, i) ==
    \/ \E f \in Files : chan[n][p] = <<Job(i), Stream("store", f)>> /\ loop[p] = None
    \/ \E f \in Files : chan[n][p] = <<Stream("store", f)>> /\ loop[p] = [from |-> n, msg |-> Job(i)]
    \/ Untold(n, p) /\ (Connected => Holds(p, i))

\* The peers that come later, and those between the two.
Later(n) == {p \in client[n].left : \/ client[n].pc = "part"
                                    \/ client[n].pc = "data" /\ p # client[n].at}
Now(n) == {p \in peers[n] : \/ client[n].pc = "stream"
                            \/ client[n].pc = "data" /\ p = client[n].at}

\* Only n has a call, and only the peers of n have something to take.
Alone(n) == \A k \in Nodes \ {n} : client[k].pc = "idle"
NoLoops == \A m \in Nodes : loop[m] = None
OnlyFrom(n) == \A k, m \in Nodes : k # n \/ m \notin peers[n] => chan[k][m] = <<>>

Distinct(S, a) == /\ \A p \in S : a[p] \in 1 .. Total
                  /\ \A p, q \in S : p # q => a[p] # a[q]

\* Node p gets part a[p]: those told so far have different parts below the next one,
\* and as many parts as peers are left.
InTurn(n, a) ==
    /\ client[n].pc \in {"part", "data"} => client[n].total = Total
    /\ client[n].pc = "data" => client[n].at \in client[n].left /\ a[client[n].at] = client[n].num
    /\ Connected =>
           /\ Distinct(listed \ Later(n), a)
           /\ client[n].pc \in {"part", "data"} =>
                  /\ \A p \in listed \ client[n].left : a[p] < client[n].num
                  /\ Cardinality(client[n].left) + client[n].num = Total + 1

\* Node n stores the file, or what it has sent is still being stored.
StorePhase(n, a) ==
    /\ seen.last = "store" /\ Alone(n) /\ OnlyFrom(n)
    /\ client[n].pc \in (IF Split THEN {"idle", "part", "data"} ELSE {"idle", "stream"})
    /\ \A m \in Nodes \ peers[n] : loop[m] = None
    /\ Holds(n, a[n])
    /\ \A p \in peers[n] : /\ p \in Later(n) => Untold(n, p)
                           /\ p \in Now(n) => Told(n, p, a[p])
                           /\ p \notin Later(n) \cup Now(n) => Sent(n, p, a[p])
    /\ IF Split THEN InTurn(n, a) ELSE \A p \in Nodes : a[p] = 0

\* What the nodes have after a Store, a Remove, when all is quiet.
Placed(a) == (\A p \in listed : Holds(p, a[p])) /\ (Split => Distinct(listed, a))
Gone == \A p \in Nodes : disk[p] = None
Rests(a) == Connected => /\ seen.last = "store" => Placed(a)
                         /\ seen.last = "remove" => Gone

\* What n asked p has not been taken; it has been answered; both are done.
Asked(n, p) == chan[n][p] = <<MessageGetFile>> /\ chan[p][n] = <<>>
Answered(n, p, f) == chan[n][p] = <<>> /\ chan[p][n] = <<Stream("answer", f)>>
Nothing(n, p) == chan[n][p] = <<>> /\ chan[p][n] = <<>>

\* The peers whose answers n has not read.
Left(n) == IF client[n].pc = "asked" THEN peers[n] ELSE client[n].left

\* Node n gets the file, with what it has collected and what is on its way.
AskPhase(n, a) ==
    /\ Alone(n) /\ NoLoops /\ Rests(a) /\ client[n].pc \in {"asked", "collect"}
    /\ \A k, m \in Nodes : ~ (k = n /\ m \in peers[n]) /\ ~ (m = n /\ k \in peers[n])
                               => chan[k][m] = <<>>
    /\ \A p \in peers[n] : Asked(n, p) \/ Nothing(n, p) \/ \E f \in Files : Answered(n, p, f)
    /\ \A p \in peers[n] \ Left(n) : Nothing(n, p)
    /\ Connected /\ seen.last = "store" =>
           /\ Split /\ client[n].total = Total
           /\ client[n].parts = {decrypt(disk[p]) : p \in listed \ Left(n)}
           /\ \A p \in Left(n) : Asked(n, p) \/ Answered(n, p, disk[p])
    /\ Connected /\ seen.last = "remove" => \A p \in peers[n] : chan[p][n] = <<>>

\* Node n removes the file, or what it has sent is still on its way.
RemovePhase(n) ==
    /\ seen.last = "remove" /\ Alone(n) /\ OnlyFrom(n) /\ NoLoops
    /\ client[n].pc \in {"delete", "idle"}
    /\ \A p \in peers[n] : \/ chan[n][p] = <<MessageDeleteFile>>
                           \/ chan[n][p] = <<>> /\ disk[p] = None
    /\ client[n].pc = "idle" => disk[n] = None

Phase(n, a) == StorePhase(n, a) \/ AskPhase(n, a) \/ RemovePhase(n)

OneCall(a) == \/ Quiet /\ Rests(a)
              \/ \E n \in listed : Phase(n, a)

SerialInv == Serial => ~ crossed /\ \E a \in [Nodes -> Numbers] : OneCall(a)

\* Only members have peers and files, and only the dead cut files short.
MemberInv ==
    /\ \A n \in Nodes : peers[n] \subseteq listed \ {n} /\ (peers[n] # {} => n \in listed)
    /\ \A n \in Nodes : disk[n] # None => n \in listed
    /\ dead = {} => ~ seen.cut

-----------------------------------------------------------------------------
(* One step at a time: what becomes of each connection.                     *)

\* Sequences of at most two.
LEMMA ShortSequences ==
  ASSUME NEW x, NEW y
  PROVE  /\ <<x>> # <<>> /\ Head(<<x>>) = x /\ Tail(<<x>>) = <<>> /\ Append(<<>>, x) = <<x>>
         /\ <<x, y>> # <<>> /\ Head(<<x, y>>) = x /\ Tail(<<x, y>>) = <<y>>
         /\ Append(<<x>>, y) = <<x, y>>
<1>. DEFINE S == {x, y}
<1>1. <<x>> \in Seq(S) /\ <<x, y>> \in Seq(S) /\ <<>> \in Seq(S) /\ <<y>> \in Seq(S)
  OBVIOUS
<1>2. Len(<<x>>) = 1 /\ Len(<<x, y>>) = 2 /\ <<x, y>>[1] = x /\ <<x, y>>[2] = y /\ <<x>>[1] = x
  OBVIOUS
<1>3. Tail(<<x>>) = <<>> /\ Tail(<<x, y>>) = <<y>>
  OBVIOUS
<1>4. Append(<<>>, x) = <<x>>
  OBVIOUS
<1>5. Append(<<x>>, y) = <<x, y>>
  <2>1. Append(<<x>>, y) \in Seq(S) /\ Len(Append(<<x>>, y)) = 2
    BY <1>1, <1>2
  <2>2. Append(<<x>>, y)[1] = x /\ Append(<<x>>, y)[2] = y
    BY <1>1, <1>2
  <2>3. \A i \in 1 .. 2 : Append(<<x>>, y)[i] = <<x, y>>[i]
    BY <1>2, <2>2
  <2>. QED
    BY <1>1, <1>2, <2>1, <2>3, SeqEqual
<1>. QED
  BY <1>1, <1>2, <1>3, <1>4, <1>5

\* Messages and streams differ.
LEMMA Different ==
  ASSUME NEW i, NEW t, NEW use, NEW f
  PROVE  /\ MessageStoreFile(i, t).type = "store" /\ MessageGetFile.type = "get"
         /\ MessageDeleteFile.type = "delete" /\ Stream(use, f).type = "stream"
         /\ Stream(use, f).use = use /\ Stream(use, f).file = f
         /\ IsMessage(MessageStoreFile(i, t)) /\ IsMessage(MessageGetFile)
         /\ IsMessage(MessageDeleteFile) /\ ~ IsMessage(Stream(use, f))
         /\ MessageStoreFile(i, t).part = i /\ MessageStoreFile(i, t).total = t
BY DEF MessageStoreFile, MessageGetFile, MessageDeleteFile, Stream, IsMessage

\* What is sent is at the end of its connection.
LEMMA ToEffect ==
  ASSUME Types, NEW n \in Nodes, NEW S, NEW x, dead = {}, chan' = To(n, S, x)
  PROVE  \A k, m \in Nodes : chan'[k][m] = IF k = n /\ m \in S THEN Append(chan[k][m], x)
                                                               ELSE chan[k][m]
<1>. DEFINE row == [p \in Nodes |-> IF p \in S \ dead THEN Append(chan[n][p], x) ELSE chan[n][p]]
<1>1. chan' = [chan EXCEPT ![n] = row]
  BY DEF To
<1>2. \A m \in Nodes : row[m] = IF m \in S THEN Append(chan[n][m], x) ELSE chan[n][m]
  OBVIOUS
<1>3. chan \in [Nodes -> [Nodes -> Seq(Items)]]
  BY DEF Types
<1>. HIDE DEF row
<1>. QED
  BY <1>1, <1>2, <1>3

\* ... the connection to p, when it is for p only.
LEMMA ToOneEffect ==
  ASSUME Types, NEW n \in Nodes, NEW p \in Nodes, NEW x, dead = {}, chan' = To(n, {p}, x)
  PROVE  /\ chan'[n][p] = Append(chan[n][p], x)
         /\ \A k, m \in Nodes : <<k, m>> # <<n, p>> => chan'[k][m] = chan[k][m]
<1>. DEFINE row == [m \in Nodes |-> IF m \in {p} \ dead THEN Append(chan[n][m], x) ELSE chan[n][m]]
<1>1. chan' = [chan EXCEPT ![n] = row]
  BY DEF To
<1>2. row[p] = Append(chan[n][p], x) /\ \A m \in Nodes \ {p} : row[m] = chan[n][m]
  OBVIOUS
<1>3. chan \in [Nodes -> [Nodes -> Seq(Items)]]
  BY DEF Types
<1>. HIDE DEF row
<1>. QED
  BY <1>1, <1>2, <1>3

\* What is taken was the first of its connection.
LEMMA TookEffect ==
  ASSUME Types, NEW m \in Nodes, NEW p \in Nodes
  PROVE  \A j, k \in Nodes : Took(m, p)[j][k] = IF j = p /\ k = m THEN Tail(chan[p][m])
                                                                  ELSE chan[j][k]
BY DEF Types, Took

\* A step of a call changes that call only.
LEMMA GoesOn ==
  ASSUME Types, NEW n \in Nodes, NEW c, client' = [client EXCEPT ![n] = c]
  PROVE  client'[n] = c /\ \A k \in Nodes \ {n} : client'[k] = client[k]
BY DEF Types

\* A call returns.
LEMMA Returned ==
  ASSUME Types, NEW n \in Nodes, NEW got \in {None, "file", "error", "wrong"},
         client' = [client EXCEPT ![n] = [Idle EXCEPT !.got = got]]
  PROVE  /\ client'[n].pc = "idle" /\ client'[n].left = {}
         /\ \A k \in Nodes \ {n} : client'[k] = client[k]
<1>. DEFINE c == [Idle EXCEPT !.got = got]
<1>1. c.pc = "idle" /\ c.left = {}
  BY IdleCalls
<1>2. client' = [client EXCEPT ![n] = c]
  OBVIOUS
<1>. HIDE DEF c
<1>3. client'[n] = c /\ \A k \in Nodes \ {n} : client'[k] = client[k]
  BY <1>2, GoesOn
<1>. QED
  BY <1>1, <1>3

\* Nothing that the phases of a call rest on changes.
Same == /\ UNCHANGED <<mode, listed, peers, dead>>
        /\ seen'.last = seen.last /\ seen'.overlapped = seen.overlapped

\* What is defined by the mesh and the configuration does not change then,
LEMMA SameMesh ==
  ASSUME Same
  PROVE  /\ Split' = Split /\ EncType' = EncType /\ Total' = Total /\ Connected' = Connected
         /\ Serial' = Serial
         /\ \A i : Job(i)' = Job(i)
         /\ \A p \in Nodes : \A i : disk'[p] = disk[p] => Holds(p, i)' = Holds(p, i)
BY DEF Same, Split, EncType, Total, Connected, Serial, Job, Holds

\* ... nor what a peer is told.
LEMMA SamePeer ==
  ASSUME Same, NEW n \in Nodes, NEW p \in Nodes, NEW i,
         chan'[n][p] = chan[n][p], loop'[p] = loop[p], disk'[p] = disk[p]
  PROVE  /\ Untold(n, p)' = Untold(n, p) /\ Told(n, p, i)' = Told(n, p, i)
         /\ Sent(n, p, i)' = Sent(n, p, i)
<1>1. Untold(n, p)' = Untold(n, p)
  BY DEF Untold
<1>2. Job(i)' = Job(i) /\ Connected' = Connected /\ Holds(p, i)' = Holds(p, i)
  BY SameMesh
<1>3. Told(n, p, i)' = Told(n, p, i)
  BY <1>2 DEF Told
<1>4. Sent(n, p, i)' = Sent(n, p, i)
  BY <1>1, <1>2 DEF Sent
<1>. QED
  BY <1>1, <1>3, <1>4

\* The call that is under way is that of n.
LEMMA CallerIs ==
  ASSUME NEW n \in Nodes, NEW k \in Nodes, Alone(n), client[k].pc # "idle"
  PROVE  k = n
BY DEF Alone

\* Everybody is reached as long as nobody has died.
LEMMA AllReached ==
  ASSUME dead = {}, NEW n \in Nodes
  PROVE  Reached(n) # {} /\ \A r \in Reached(n) : r[1] = peers[n] /\ r[2] = TRUE
<1>1. peers[n] \cap dead = {}
  OBVIOUS
<1>2. Reached(n) = {<<peers[n], TRUE>>}
  BY <1>1 DEF Reached
<1>. QED
  BY <1>2

\* A part is numbered as it was made.
LEMMA EncryptedPart ==
  ASSUME Types, NEW i \in Nat, NEW t \in Nat
  PROVE  /\ encrypt(Plain(i, t)) \in Files /\ encrypt(Plain(i, t)).part = i
         /\ encrypt(Plain(i, t)).total = t
<1>. DEFINE f == Plain(i, t)
<1>1. f.part = i /\ f.total = t
  BY DEF Plain
<1>2. f \in Files /\ mode \in Modes
  BY PlainFiles DEF Types
<1>. HIDE DEF f
<1>3. encrypt(f) \in Files /\ encrypt(f).part = i /\ encrypt(f).total = t
  BY <1>1, <1>2, Encryption
<1>. QED
  BY <1>3 DEF f

-----------------------------------------------------------------------------
(* Store, from its call to the last of its parts.                           *)

Base == Types /\ CallInv /\ MemberInv /\ Serial

\* Where the peers of a caller are.
LEMMA Peers ==
  ASSUME Base, NEW n \in Nodes
  PROVE  /\ peers[n] \subseteq Nodes /\ n \notin peers[n] /\ client[n].left \subseteq peers[n]
         /\ dead = {} /\ client[n] \in Calls
         /\ chan \in [Nodes -> [Nodes -> Seq(Items)]]
         /\ \A p \in Nodes : chan[n][p] \in Seq(Items)
         /\ \A p \in peers[n] : p \in listed /\ p # n /\ n \in listed
BY DEF Base, Types, CallInv, MemberInv, Serial

\* How many parts there are.
LEMMA TotalNumber ==
  ASSUME Base
  PROVE  /\ Total \in Numbers /\ Total \in Nat /\ Numbers \subseteq Nat
         /\ IsFiniteSet(listed) /\ Cardinality(listed) \in Nat /\ listed \subseteq Nodes
         /\ \A i \in Nat : i <= Total => i \in Numbers
<1>1. listed \subseteq Nodes
  BY DEF Base, Types
<1>2. /\ Cardinality(listed) \in Numbers /\ Numbers \subseteq Nat /\ 0 \in Numbers
      /\ Cardinality(Nodes) \in Nat
  BY <1>1, Members
<1>3. IsFiniteSet(listed)
  BY <1>1, StartsAssumption, FS_Subset
<1>4. Total \in Numbers
  BY <1>2 DEF Total
<1>5. \A i \in Nat : i <= Total => i \in Numbers
  BY <1>2, <1>4 DEF Numbers
<1>. QED
  BY <1>1, <1>2, <1>3, <1>4, <1>5

\* When only what n sends to p changes, n is still the only one to send.
LEMMA StillOnlyFrom ==
  ASSUME NEW n \in Nodes, NEW p \in peers[n], OnlyFrom(n), peers' = peers,
         \A k, m \in Nodes : <<k, m>> # <<n, p>> => chan'[k][m] = chan[k][m]
  PROVE  OnlyFrom(n)'
BY DEF OnlyFrom

\* When only the call of n changes, n is still the only one to have one.
LEMMA StillAlone ==
  ASSUME NEW n \in Nodes, Alone(n), \A k \in Nodes \ {n} : client'[k] = client[k]
  PROVE  Alone(n)'
BY DEF Alone

\* The message about the next part is sent.
LEMMA SendPartPhase ==
  ASSUME Base, NEW n \in Nodes, NEW a \in [Nodes -> Numbers], StorePhase(n, a),
         NEW p \in Nodes, SendPart(n, p)
  PROVE  \E b \in [Nodes -> Numbers] : StorePhase(n, b)'
<1>. DEFINE c == client[n]
<1>1. PICK i : i = client[n].num
  OBVIOUS
<1>2. /\ c.pc = "part" /\ p \in c.left /\ i <= c.total /\ i \in Nat /\ Split
      /\ chan' = To(n, {p}, MessageStoreFile(i, c.total))
      /\ client' = [client EXCEPT ![n] = DataCall(c, p)]
      /\ Same /\ disk' = disk /\ loop' = loop
  BY <1>1, Peers DEF SendPart, Goes, StorePhase, Same, Calls, DataCall
<1>3. InTurn(n, a) /\ c.total = Total
  BY <1>2 DEF StorePhase, InTurn
<1>. DEFINE b == [a EXCEPT ![p] = i]
<1>4. /\ b \in [Nodes -> Numbers] /\ b[p] = i /\ \A q \in Nodes : q # p => b[q] = a[q]
  BY <1>2, <1>3, TotalNumber
<1>5. /\ p \in peers[n] /\ p # n /\ p \in listed /\ n \in listed
  BY <1>2, Peers
<1>6. /\ c \in Calls /\ client'[n] = DataCall(c, p) /\ \A k \in Nodes \ {n} : client'[k] = client[k]
  BY <1>2, GoesOn, Peers DEF Base
<1>7. /\ client'[n].pc = "data" /\ client'[n].left = c.left /\ client'[n].at = p
      /\ client'[n].total = c.total /\ client'[n].num = i
  <2>1. DataCall(c, p).at = p
    BY <1>6 DEF DataCall, Calls
  <2>2. /\ DataCall(c, p).pc = "data" /\ DataCall(c, p).left = c.left
        /\ DataCall(c, p).num = c.num /\ DataCall(c, p).total = c.total
    BY <1>6, StoreCalls
  <2>. HIDE DEF c
  <2>. QED
    BY <1>1, <1>6, <2>1, <2>2 DEF c
<1>8. Later(n) = c.left /\ Now(n) = {} /\ Later(n)' = c.left \ {p} /\ Now(n)' = {p}
  <2>1. peers' = peers
    BY <1>2 DEF Same
  <2>. QED
    BY <1>2, <1>5, <1>7, <2>1 DEF Later, Now
<1>9. /\ chan'[n][p] = <<Job(i)>>
      /\ \A k, m \in Nodes : <<k, m>> # <<n, p>> => chan'[k][m] = chan[k][m]
  <2>1. Untold(n, p)
    BY <1>2, <1>5, <1>8 DEF StorePhase
  <2>2. dead = {} /\ Types
    BY DEF Base, Serial
  <2>3. chan'[n][p] = Append(<<>>, Job(i))
    <3>1. chan'[n][p] = Append(chan[n][p], MessageStoreFile(i, c.total))
      BY <1>2, <2>2, ToOneEffect
    <3>. QED
      BY <1>3, <2>1, <3>1 DEF Job, Untold
  <2>4. \A k, m \in Nodes : <<k, m>> # <<n, p>> => chan'[k][m] = chan[k][m]
    BY <1>2, <2>2, ToOneEffect
  <2>. QED
    BY <2>3, <2>4, ShortSequences
<1>. HIDE DEF b
<1>10. StorePhase(n, b)'
  <2>1. seen'.last = "store" /\ Alone(n)' /\ OnlyFrom(n)'
    BY <1>2, <1>5, <1>6, <1>9, StillAlone, StillOnlyFrom DEF StorePhase, Same
  <2>2. (client[n].pc \in (IF Split THEN {"idle", "part", "data"} ELSE {"idle", "stream"}))'
    BY <1>2, <1>7, SameMesh
  <2>3. \A m \in Nodes \ peers'[n] : loop'[m] = None
    BY <1>2 DEF StorePhase, Same
  <2>4. Holds(n, b[n])'
    BY <1>2, <1>4, <1>5, SameMesh DEF StorePhase
  <2>5. ASSUME NEW q \in peers[n]
        PROVE  /\ q \in Later(n)' => Untold(n, q)'
               /\ q \in Now(n)' => Told(n, q, b[q])'
               /\ q \notin Later(n)' \cup Now(n)' => Sent(n, q, b[q])'
    <3>1. CASE q = p
      <4>1. loop[p] = None
        BY <1>2, <1>5, <1>8 DEF StorePhase, Untold
      <4>2. Told(n, p, i)'
        BY <1>2, <1>9, <4>1, SameMesh DEF Told
      <4>. QED
        BY <1>4, <1>8, <3>1, <4>2
    <3>2. CASE q # p
      <4>1. chan'[n][q] = chan[n][q] /\ q \in Nodes
        BY <1>9, <3>2, Peers
      <4>2. Untold(n, q)' = Untold(n, q) /\ Sent(n, q, a[q])' = Sent(n, q, a[q])
        BY <1>2, <4>1, SamePeer
      <4>. QED
        BY <1>4, <1>8, <3>2, <4>1, <4>2 DEF StorePhase
    <3>. QED
      BY <3>1, <3>2
  <2>6. InTurn(n, b)'
    <3>1. ASSUME Connected
          PROVE  /\ Distinct(listed \ (c.left \ {p}), b)
                 /\ \A q \in listed \ c.left : b[q] < i
                 /\ Cardinality(c.left) + i = Total + 1
      <4>1. /\ Distinct(listed \ c.left, a) /\ \A q \in listed \ c.left : a[q] < i
            /\ Cardinality(c.left) + i = Total + 1
        BY <1>1, <1>2, <1>3, <1>8, <3>1 DEF InTurn
      <4>2. n \in listed \ c.left /\ a[n] \in 1 .. Total /\ a[n] < i
        BY <1>5, <4>1, Peers DEF Distinct
      <4>3. i \in 1 .. Total
        BY <1>2, <1>3, <4>2, TotalNumber
      <4>4. \A q \in listed \ c.left : b[q] = a[q] /\ q \in Nodes
        BY <1>2, <1>4, TotalNumber
      <4>5. \A q \in listed \ (c.left \ {p}) : q \in listed \ c.left \/ q = p
        OBVIOUS
      <4>6. \A q \in listed \ (c.left \ {p}) : b[q] \in 1 .. Total
        BY <1>4, <4>1, <4>3, <4>4, <4>5 DEF Distinct
      <4>7. ASSUME NEW q \in listed \ (c.left \ {p}), NEW r \in listed \ (c.left \ {p}), q # r
            PROVE  b[q] # b[r]
        <5>1. \A s \in listed \ c.left : b[s] # i
          BY <4>1, <4>4, TotalNumber, <1>2 DEF Distinct
        <5>. QED
          BY <1>4, <4>1, <4>4, <4>5, <4>7, <5>1 DEF Distinct
      <4>. QED
        BY <4>1, <4>4, <4>6, <4>7 DEF Distinct
    <3>2. listed' = listed /\ Connected' = Connected /\ Total' = Total
      BY <1>2, SameMesh DEF Same
    <3>3. Distinct(listed \ (c.left \ {p}), b) => Distinct(listed \ Later(n), b)'
      BY <1>8, <3>2 DEF Distinct
    <3>. QED
      BY <1>2, <1>3, <1>4, <1>7, <3>1, <3>2, <3>3 DEF InTurn
  <2>. QED
    BY <1>2, <2>1, <2>2, <2>3, <2>4, <2>5, <2>6, SameMesh DEF StorePhase, Same
<1>. QED
  BY <1>4, <1>10

\* The part is sent.
LEMMA SendDataPhase ==
  ASSUME Base, NEW n \in Nodes, NEW a \in [Nodes -> Numbers], StorePhase(n, a), SendData(n)
  PROVE  StorePhase(n, a)'
<1>. DEFINE c == client[n]
<1>1. c \in Calls /\ dead = {} /\ Types
  BY Peers DEF Base
<1>2. PICK p, x : p = c.at /\ x = Stream("store", Plain(c.num, c.total))
  OBVIOUS
<1>3. /\ c.pc = "data" /\ Split /\ chan' = To(n, {p}, x) /\ client' = [client EXCEPT ![n] = PartCall(c)]
      /\ Same /\ disk' = disk /\ loop' = loop
  BY <1>2 DEF SendData, Goes, StorePhase, Same, PartCall
<1>4. InTurn(n, a) /\ c.total = Total /\ p \in c.left /\ a[p] = c.num
  BY <1>2, <1>3 DEF StorePhase, InTurn
<1>5. /\ p \in peers[n] /\ p # n /\ p \in listed /\ n \in listed /\ p \in Nodes
  BY <1>4, Peers
<1>6. /\ client'[n] = PartCall(c) /\ \A k \in Nodes \ {n} : client'[k] = client[k]
  BY <1>1, <1>3, GoesOn
<1>7. /\ client'[n].pc = "part" /\ client'[n].left = c.left \ {p}
      /\ client'[n].total = c.total /\ client'[n].num = c.num + 1
  <2>1. PartCall(c).num = c.num + 1
    <3>. DEFINE k == c.num + 1
                l == c.left \ {c.at}
    <3>1. PartCall(c) = [c EXCEPT !.pc = "part", !.left = l, !.at = None, !.num = k]
      BY DEF PartCall
    <3>. HIDE DEF c, k, l
    <3>2. PartCall(c).num = k
      BY <1>1, <3>1 DEF Calls
    <3>. QED
      BY <3>2 DEF k
  <2>2. PartCall(c).pc = "part" /\ PartCall(c).left = c.left \ {c.at} /\ PartCall(c).total = c.total
    BY <1>1, StoreCalls
  <2>. HIDE DEF c
  <2>. QED
    BY <1>2, <1>6, <2>1, <2>2
<1>8. Later(n) = c.left \ {p} /\ Now(n) = {p} /\ Later(n)' = c.left \ {p} /\ Now(n)' = {}
  BY <1>2, <1>3, <1>5, <1>7 DEF Later, Now
<1>9. /\ chan'[n][p] = Append(chan[n][p], x)
      /\ \A k, m \in Nodes : <<k, m>> # <<n, p>> => chan'[k][m] = chan[k][m]
  BY <1>1, <1>3, <1>5, ToOneEffect
<1>10. Sent(n, p, a[p])'
  <2>1. Told(n, p, a[p])
    BY <1>5, <1>8 DEF StorePhase
  <2>2. PICK f \in Files : x = Stream("store", f)
    <3>1. c.num \in Nat /\ c.total \in Nat
      BY <1>1 DEF Calls
    <3>. QED
      BY <1>2, <3>1, PlainFiles
  <2>3. CASE chan[n][p] = <<Job(a[p])>> /\ loop[p] = None
    <3>1. chan'[n][p] = <<Job(a[p]), x>>
      BY <1>9, <2>3, ShortSequences
    <3>. QED
      BY <1>3, <2>2, <2>3, <3>1, SameMesh DEF Sent
  <2>4. CASE chan[n][p] = <<>> /\ loop[p] = [from |-> n, msg |-> Job(a[p])]
    <3>1. chan'[n][p] = <<x>>
      BY <1>9, <2>4, ShortSequences
    <3>. QED
      BY <1>3, <2>2, <2>4, <3>1, SameMesh DEF Sent
  <2>. QED
    BY <2>1, <2>3, <2>4 DEF Told
<1>11. seen'.last = "store" /\ Alone(n)' /\ OnlyFrom(n)'
  BY <1>3, <1>5, <1>6, <1>9, StillAlone, StillOnlyFrom DEF StorePhase, Same
<1>12. (client[n].pc \in (IF Split THEN {"idle", "part", "data"} ELSE {"idle", "stream"}))'
  BY <1>3, <1>7, SameMesh
<1>13. \A m \in Nodes \ peers'[n] : loop'[m] = None
  BY <1>3 DEF StorePhase, Same
<1>14. Holds(n, a[n])'
  BY <1>3, <1>5, SameMesh DEF StorePhase
<1>15. ASSUME NEW q \in peers[n]
       PROVE  /\ q \in Later(n)' => Untold(n, q)'
              /\ q \in Now(n)' => Told(n, q, a[q])'
              /\ q \notin Later(n)' \cup Now(n)' => Sent(n, q, a[q])'
  <2>1. CASE q = p
    BY <1>8, <1>10, <2>1
  <2>2. CASE q # p
    <3>1. chan'[n][q] = chan[n][q] /\ q \in Nodes
      BY <1>9, <2>2, Peers
    <3>2. Untold(n, q)' = Untold(n, q) /\ Sent(n, q, a[q])' = Sent(n, q, a[q])
      BY <1>3, <3>1, SamePeer
    <3>. QED
      BY <1>8, <2>2, <3>1, <3>2 DEF StorePhase
  <2>. QED
    BY <2>1, <2>2
<1>16. InTurn(n, a)'
  <2>1. ASSUME Connected
        PROVE  /\ Distinct(listed \ (c.left \ {p}), a)
               /\ \A q \in listed \ (c.left \ {p}) : a[q] < c.num + 1
               /\ Cardinality(c.left \ {p}) + (c.num + 1) = Total + 1
    <3>1. /\ Distinct(listed \ (c.left \ {p}), a) /\ \A q \in listed \ c.left : a[q] < c.num
          /\ Cardinality(c.left) + c.num = Total + 1
      BY <1>3, <1>4, <1>8, <2>1 DEF InTurn
    <3>2. IsFiniteSet(c.left)
      <4>1. c.left \subseteq Nodes
        BY Peers
      <4>. QED
        BY <4>1, StartsAssumption, FS_Subset
    <3>3. Cardinality(c.left \ {p}) = Cardinality(c.left) - 1 /\ Cardinality(c.left) \in Nat
      BY <1>4, <3>2, FS_RemoveElement, FS_CardinalityType
    <3>4. c.num \in Nat /\ Total \in Nat /\ \A q \in listed : a[q] \in Nat
      BY <1>1, TotalNumber DEF Calls
    <3>5. \A q \in listed \ (c.left \ {p}) : a[q] < c.num + 1
      <4>1. \A q \in listed \ (c.left \ {p}) : q \in listed \ c.left \/ q = p
        OBVIOUS
      <4>. HIDE DEF c
      <4>. QED
        BY <1>4, <3>1, <3>4, <4>1
    <3>. HIDE DEF c
    <3>. QED
      BY <3>1, <3>3, <3>4, <3>5
  <2>2. listed' = listed /\ Connected' = Connected /\ Total' = Total
    BY <1>3, SameMesh DEF Same
  <2>3. Distinct(listed \ (c.left \ {p}), a) => Distinct(listed \ Later(n), a)'
    BY <1>8, <2>2 DEF Distinct
  <2>. HIDE DEF c
  <2>. QED
    BY <1>4, <1>7, <2>1, <2>2, <2>3 DEF InTurn
<1>. QED
  BY <1>3, <1>11, <1>12, <1>13, <1>14, <1>15, <1>16, SameMesh DEF StorePhase, Same

\* The call returns: no peers are left, or no parts, which is the same in a connected mesh.
LEMMA StoreReturnsPhase ==
  ASSUME Base, NEW n \in Nodes, NEW a \in [Nodes -> Numbers], StorePhase(n, a), StoreReturns(n)
  PROVE  StorePhase(n, a)'
<1>. DEFINE c == client[n]
<1>1. c \in Calls /\ dead = {} /\ Types /\ c.left \subseteq peers[n]
  BY Peers DEF Base
<1>2. /\ c.pc = "part" /\ (c.left = {} \/ c.num > c.total) /\ Split
      /\ client' = [client EXCEPT ![n] = [Idle EXCEPT !.got = None]]
      /\ Same /\ disk' = disk /\ loop' = loop /\ chan' = chan
  BY DEF StoreReturns, Returns, Goes, StorePhase, Same
<1>3. /\ client'[n].pc = "idle" /\ client'[n].left = {} /\ \A k \in Nodes \ {n} : client'[k] = client[k]
  BY <1>1, <1>2, Returned
<1>4. Later(n) = c.left /\ Now(n) = {} /\ Later(n)' = {} /\ Now(n)' = {}
  BY <1>2, <1>3 DEF Later, Now
<1>5. Connected => c.left = {} /\ Distinct(listed, a)
  <2>1. SUFFICES ASSUME Connected
                 PROVE  c.left = {} /\ Distinct(listed, a)
    OBVIOUS
  <2>2. /\ c.total = Total /\ Cardinality(c.left) + c.num = Total + 1 /\ Distinct(listed \ c.left, a)
    BY <1>2, <1>4, <2>1 DEF StorePhase, InTurn
  <2>3. IsFiniteSet(c.left)
    <3>1. c.left \subseteq Nodes
      BY Peers
    <3>. QED
      BY <3>1, StartsAssumption, FS_Subset
  <2>4. Cardinality(c.left) \in Nat /\ c.num \in Nat /\ Total \in Nat
    BY <1>1, <2>3, TotalNumber, FS_CardinalityType DEF Calls
  <2>5. Cardinality(c.left) = 0 => c.left = {}
    BY <2>3, FS_EmptySet
  <2>6. c.left = {}
    <3>. HIDE DEF c
    <3>. QED
      BY <1>2, <2>2, <2>4, <2>5
  <2>. QED
    BY <2>2, <2>6
<1>6. seen'.last = "store" /\ Alone(n)' /\ OnlyFrom(n)'
  BY <1>2, <1>3, StillAlone DEF StorePhase, OnlyFrom, Same
<1>7. (client[n].pc \in (IF Split THEN {"idle", "part", "data"} ELSE {"idle", "stream"}))'
  BY <1>2, <1>3, SameMesh
<1>8. (\A m \in Nodes \ peers'[n] : loop'[m] = None) /\ Holds(n, a[n])'
  BY <1>2, SameMesh DEF StorePhase, Same
<1>9. ASSUME NEW q \in peers[n]
      PROVE  Sent(n, q, a[q])'
  <2>1. q \in Nodes /\ q \in listed /\ chan'[n][q] = chan[n][q]
    BY <1>2, Peers
  <2>2. Untold(n, q)' = Untold(n, q) /\ Sent(n, q, a[q])' = Sent(n, q, a[q])
    BY <1>2, <2>1, SamePeer
  <2>3. CASE q \in c.left
    <3>1. Untold(n, q) /\ ~ Connected
      BY <1>4, <1>5, <2>3 DEF StorePhase
    <3>2. Connected' = Connected
      BY <1>2, SameMesh
    <3>. QED
      BY <2>2, <3>1, <3>2 DEF Sent
  <2>4. CASE q \notin c.left
    BY <1>4, <2>2, <2>4 DEF StorePhase
  <2>. QED
    BY <2>3, <2>4
<1>10. InTurn(n, a)'
  <2>1. listed' = listed /\ Connected' = Connected /\ Total' = Total
    BY <1>2, SameMesh DEF Same
  <2>2. Distinct(listed, a) => Distinct(listed \ Later(n), a)'
    BY <1>4, <2>1 DEF Distinct
  <2>. QED
    BY <1>3, <1>5, <2>1, <2>2 DEF InTurn
<1>. QED
  BY <1>2, <1>4, <1>6, <1>7, <1>8, <1>9, <1>10, SameMesh DEF StorePhase, Same

\* The copies are sent.
LEMMA StreamAllPhase ==
  ASSUME Base, NEW n \in Nodes, NEW a \in [Nodes -> Numbers], StorePhase(n, a), StreamAll(n)
  PROVE  StorePhase(n, a)'
<1>1. client[n] \in Calls /\ dead = {} /\ Types /\ client[n].left \subseteq peers[n] /\ peers[n] \subseteq Nodes
  BY Peers DEF Base
<1>2. PICK f : /\ f = encrypt(Plain(0, 0)) /\ chan' = To(n, peers[n], Stream("store", f))
               /\ seen' = [seen EXCEPT !.cut = @ \/ ~ f.whole]
  <2>1. \A r \in Reached(n) : r[1] = peers[n] /\ r[2] = TRUE
    BY <1>1, AllReached
  <2>. QED
    BY <2>1 DEF StreamAll
<1>3. /\ client[n].pc = "stream" /\ ~ Split
      /\ client' = [client EXCEPT ![n] = [Idle EXCEPT !.got = None]]
      /\ UNCHANGED <<mode, listed, peers, dead, disk, loop>>
  BY DEF StreamAll, Returns, Goes, StorePhase
<1>4. Same
  <2>1. seen' = [seen EXCEPT !.cut = seen.cut \/ ~ f.whole]
    BY <1>2
  <2>2. seen \in [last : {None, "store", "remove"}, overlapped : BOOLEAN, cut : BOOLEAN,
                  totals : SUBSET Numbers]
    BY <1>1 DEF Types
  <2>3. seen'.last = seen.last /\ seen'.overlapped = seen.overlapped
    BY <2>1, <2>2
  <2>. QED
    BY <1>3, <2>3 DEF Same
<1>5. /\ client'[n].pc = "idle" /\ client'[n].left = {} /\ \A k \in Nodes \ {n} : client'[k] = client[k]
  BY <1>1, <1>3, Returned
<1>6. Later(n) = {} /\ Now(n) = peers[n] /\ Later(n)' = {} /\ Now(n)' = {}
  BY <1>3, <1>5 DEF Later, Now
<1>7. \A k, m \in Nodes : chan'[k][m] = IF k = n /\ m \in peers[n]
                                        THEN Append(chan[k][m], Stream("store", f)) ELSE chan[k][m]
  BY <1>1, <1>2, ToEffect
<1>8. f \in Files
  BY <1>1, <1>2, PlainFiles, Encryption DEF Types
<1>9. seen'.last = "store" /\ Alone(n)' /\ OnlyFrom(n)'
  <2>1. OnlyFrom(n)
    BY DEF StorePhase
  <2>2. OnlyFrom(n)'
    BY <1>3, <1>7, <2>1 DEF OnlyFrom
  <2>. QED
    BY <1>4, <1>5, <2>2, StillAlone DEF StorePhase, Same
<1>10. (client[n].pc \in (IF Split THEN {"idle", "part", "data"} ELSE {"idle", "stream"}))'
  BY <1>3, <1>4, <1>5, SameMesh
<1>11. (\A m \in Nodes \ peers'[n] : loop'[m] = None) /\ Holds(n, a[n])'
  BY <1>3, <1>4, SameMesh DEF StorePhase
<1>12. ASSUME NEW q \in peers[n]
       PROVE  Sent(n, q, a[q])'
  <2>1. Told(n, q, a[q]) /\ q \in Nodes
    BY <1>1, <1>6 DEF StorePhase
  <2>2. chan'[n][q] = Append(chan[n][q], Stream("store", f))
    BY <1>7, <2>1
  <2>3. CASE chan[n][q] = <<Job(a[q])>> /\ loop[q] = None
    <3>1. chan'[n][q] = <<Job(a[q]), Stream("store", f)>>
      BY <2>2, <2>3, ShortSequences
    <3>. QED
      BY <1>3, <1>4, <1>8, <2>3, <3>1, SameMesh DEF Sent
  <2>4. CASE chan[n][q] = <<>> /\ loop[q] = [from |-> n, msg |-> Job(a[q])]
    <3>1. chan'[n][q] = <<Stream("store", f)>>
      BY <2>2, <2>4, ShortSequences
    <3>. QED
      BY <1>3, <1>4, <1>8, <2>4, <3>1, SameMesh DEF Sent
  <2>. QED
    BY <2>1, <2>3, <2>4 DEF Told
<1>. QED
  BY <1>3, <1>4, <1>6, <1>9, <1>10, <1>11, <1>12, SameMesh DEF StorePhase, Same

\* What m takes from p during a Store is from its caller, and m has been told.
LEMMA TakenFrom ==
  ASSUME Base, NEW n \in Nodes, NEW a \in [Nodes -> Numbers], StorePhase(n, a),
         NEW m \in Nodes, NEW p \in Nodes, Waiting(m, p)
  PROVE  /\ p = n /\ m \in peers[n] /\ m # n /\ m \notin Later(n)
         /\ \/ m \in Now(n) /\ Told(n, m, a[m])
            \/ m \notin Now(n) /\ Sent(n, m, a[m])
<1>1. chan[p][m] # <<>>
  BY DEF Waiting
<1>2. p = n /\ m \in peers[n]
  BY <1>1 DEF StorePhase, OnlyFrom
<1>. QED
  BY <1>1, <1>2, Peers DEF StorePhase, Untold

\* The message about a part is taken.
LEMMA TakePhase ==
  ASSUME Base, NEW n \in Nodes, NEW a \in [Nodes -> Numbers], StorePhase(n, a),
         NEW m \in Nodes, NEW p \in Nodes, handleMessageStoreFile(m, p)
  PROVE  StorePhase(n, a)'
<1>1. dead = {} /\ Types
  BY Peers DEF Base
<1>2. /\ loop[m] = None /\ Waiting(m, p) /\ chan' = Took(m, p)
      /\ Head(chan[p][m]).type = "store"
      /\ loop' = [loop EXCEPT ![m] = [from |-> p, msg |-> Head(chan[p][m])]]
      /\ Same /\ disk' = disk /\ client' = client
  BY DEF handleMessageStoreFile, Handled, Same
<1>3. /\ p = n /\ m \in peers[n] /\ m # n /\ m \notin Later(n)
      /\ \/ m \in Now(n) /\ Told(n, m, a[m])
         \/ m \notin Now(n) /\ Sent(n, m, a[m])
  BY <1>2, TakenFrom
<1>4. /\ chan'[n][m] = Tail(chan[n][m])
      /\ \A j, k \in Nodes : <<j, k>> # <<n, m>> => chan'[j][k] = chan[j][k]
  BY <1>1, <1>2, <1>3, TookEffect
<1>5. loop'[m] = [from |-> n, msg |-> Head(chan[n][m])] /\ \A k \in Nodes \ {m} : loop'[k] = loop[k]
  BY <1>1, <1>2, <1>3 DEF Types
<1>6. Later(n)' = Later(n) /\ Now(n)' = Now(n)
  BY <1>2 DEF Later, Now, Same
<1>7. chan[n][m] # <<>> /\ Head(chan[n][m]).type = "store"
  BY <1>2, <1>3 DEF Waiting
<1>8. /\ m \in Now(n) => Told(n, m, a[m])'
      /\ m \notin Now(n) => Sent(n, m, a[m])'
  <2>1. CASE m \in Now(n)
    <3>1. chan[n][m] = <<Job(a[m])>>
      BY <1>3, <1>7, <2>1 DEF Told
    <3>2. chan'[n][m] = <<>> /\ loop'[m] = [from |-> n, msg |-> Job(a[m])]
      BY <1>4, <1>5, <3>1, ShortSequences
    <3>. QED
      BY <1>2, <2>1, <3>2, SameMesh DEF Told
  <2>2. CASE m \notin Now(n)
    <3>1. Sent(n, m, a[m]) /\ ~ Untold(n, m)
      BY <1>3, <1>7, <2>2 DEF Untold
    <3>2. CASE \E f \in Files : chan[n][m] = <<Job(a[m]), Stream("store", f)>> /\ loop[m] = None
      <4>1. PICK f \in Files : chan[n][m] = <<Job(a[m]), Stream("store", f)>>
        BY <3>2
      <4>2. chan'[n][m] = <<Stream("store", f)>> /\ loop'[m] = [from |-> n, msg |-> Job(a[m])]
        BY <1>4, <1>5, <4>1, ShortSequences
      <4>. QED
        BY <1>2, <2>2, <4>2, SameMesh DEF Sent
    <3>3. CASE \E f \in Files : chan[n][m] = <<Stream("store", f)>>
      <4>1. PICK f \in Files : chan[n][m] = <<Stream("store", f)>>
        BY <3>3
      <4>2. Head(chan[n][m]).type = "stream"
        BY <4>1, ShortSequences, Different
      <4>. QED
        BY <1>7, <4>2
    <3>. QED
      BY <3>1, <3>2, <3>3 DEF Sent
  <2>. QED
    BY <2>1, <2>2
<1>9. seen'.last = "store" /\ Alone(n)' /\ OnlyFrom(n)'
  BY <1>2, <1>3, <1>4, StillAlone, StillOnlyFrom DEF StorePhase, Same
<1>10. (\A k \in Nodes \ peers'[n] : loop'[k] = None) /\ Holds(n, a[n])'
  BY <1>2, <1>3, <1>5, SameMesh DEF StorePhase, Same
<1>11. ASSUME NEW q \in peers[n]
       PROVE  /\ q \in Later(n)' => Untold(n, q)'
              /\ q \in Now(n)' => Told(n, q, a[q])'
              /\ q \notin Later(n)' \cup Now(n)' => Sent(n, q, a[q])'
  <2>1. CASE q = m
    BY <1>3, <1>6, <1>8, <2>1
  <2>2. CASE q # m
    <3>1. chan'[n][q] = chan[n][q] /\ loop'[q] = loop[q] /\ q \in Nodes
      BY <1>4, <1>5, <2>2, Peers
    <3>2. Untold(n, q)' = Untold(n, q) /\ Told(n, q, a[q])' = Told(n, q, a[q])
          /\ Sent(n, q, a[q])' = Sent(n, q, a[q])
      BY <1>2, <3>1, SamePeer
    <3>. QED
      BY <1>6, <3>2 DEF StorePhase
  <2>. QED
    BY <2>1, <2>2
<1>12. InTurn(n, a)' = InTurn(n, a)
  BY <1>2, <1>6, SameMesh DEF InTurn, Same, Distinct
<1>. QED
  BY <1>2, <1>9, <1>10, <1>11, <1>12, SameMesh DEF StorePhase, Same

\* The part is stored.
LEMMA StorePartPhase ==
  ASSUME Base, NEW n \in Nodes, NEW a \in [Nodes -> Numbers], StorePhase(n, a),
         NEW m \in Nodes, StorePart(m)
  PROVE  StorePhase(n, a)'
<1>1. dead = {} /\ Types
  BY Peers DEF Base
<1>. DEFINE p == loop[m].from
            x == Head(chan[p][m])
            msg == loop[m].msg
            g == encrypt([x.file EXCEPT !.part = msg.part, !.total = msg.total])
<1>2. /\ loop[m] # None /\ Waiting(m, p) /\ chan' = Took(m, p) /\ ~ IsMessage(x)
      /\ disk' = [disk EXCEPT ![m] = g] /\ loop' = [loop EXCEPT ![m] = None]
      /\ Same /\ client' = client
  BY DEF StorePart, Same
<1>3. p \in Nodes
  BY <1>1, <1>2 DEF Types
<1>4. /\ p = n /\ m \in peers[n] /\ m # n /\ m \notin Later(n)
      /\ \/ m \in Now(n) /\ Told(n, m, a[m])
         \/ m \notin Now(n) /\ Sent(n, m, a[m])
  <2>. HIDE DEF p
  <2>. QED
    BY <1>2, <1>3, TakenFrom
<1>5. chan[n][m] # <<>>
  BY <1>2, <1>4 DEF Waiting
<1>6. PICK f \in Files : chan[n][m] = <<Stream("store", f)>> /\ loop[m] = [from |-> n, msg |-> Job(a[m])]
  BY <1>2, <1>4, <1>5 DEF Told, Sent, Untold
<1>7. m \notin Now(n)
  <2>1. ~ Told(n, m, a[m])
    BY <1>2, <1>5 DEF Told
  <2>. QED
    BY <1>4, <2>1
<1>8. /\ chan'[n][m] = <<>>
      /\ \A j, k \in Nodes : <<j, k>> # <<n, m>> => chan'[j][k] = chan[j][k]
  <2>1. Tail(chan[n][m]) = <<>>
    BY <1>6, ShortSequences
  <2>2. chan' = Took(m, n)
    BY <1>2, <1>4
  <2>3. \A j, k \in Nodes : Took(m, n)[j][k] = IF j = n /\ k = m THEN Tail(chan[n][m])
                                                                  ELSE chan[j][k]
    BY <1>1, TookEffect
  <2>. QED
    BY <2>1, <2>2, <2>3
<1>9. loop'[m] = None /\ \A k \in Nodes \ {m} : loop'[k] = loop[k]
  BY <1>1, <1>2 DEF Types
<1>10. disk'[m] = g /\ \A k \in Nodes \ {m} : disk'[k] = disk[k]
  <2>. HIDE DEF g
  <2>. QED
    BY <1>1, <1>2 DEF Types
<1>11. g \in Files /\ g.part = a[m] /\ g.total = Total
  <2>1. x = Stream("store", f) /\ x.file = f
    BY <1>4, <1>6, ShortSequences, Different
  <2>2. msg.part = a[m] /\ msg.total = Total
    BY <1>6, Different DEF Job
  <2>3. g = encrypt([f EXCEPT !.part = a[m], !.total = Total])
    BY <2>1, <2>2
  <2>4. a[m] \in Nat /\ Total \in Nat
    BY TotalNumber
  <2>5. /\ [f EXCEPT !.part = a[m], !.total = Total] \in Files
        /\ [f EXCEPT !.part = a[m], !.total = Total].part = a[m]
        /\ [f EXCEPT !.part = a[m], !.total = Total].total = Total
    BY <2>4 DEF Files
  <2>. HIDE DEF g
  <2>. QED
    BY <1>1, <2>3, <2>5, Encryption DEF Types
<1>. HIDE DEF g, p, x, msg
<1>12. Sent(n, m, a[m])'
  <2>1. Holds(m, a[m])'
    BY <1>2, <1>10, <1>11, NoneAssumption, SameMesh DEF Holds
  <2>. QED
    BY <1>8, <1>9, <2>1 DEF Sent, Untold
<1>13. Later(n)' = Later(n) /\ Now(n)' = Now(n)
  BY <1>2 DEF Later, Now, Same
<1>14. seen'.last = "store" /\ Alone(n)' /\ OnlyFrom(n)'
  BY <1>2, <1>4, <1>8, StillAlone, StillOnlyFrom DEF StorePhase, Same
<1>15. (\A k \in Nodes \ peers'[n] : loop'[k] = None) /\ Holds(n, a[n])'
  BY <1>2, <1>4, <1>9, <1>10, SameMesh DEF StorePhase, Same
<1>16. ASSUME NEW q \in peers[n]
       PROVE  /\ q \in Later(n)' => Untold(n, q)'
              /\ q \in Now(n)' => Told(n, q, a[q])'
              /\ q \notin Later(n)' \cup Now(n)' => Sent(n, q, a[q])'
  <2>1. CASE q = m
    BY <1>4, <1>7, <1>12, <1>13, <2>1
  <2>2. CASE q # m
    <3>1. chan'[n][q] = chan[n][q] /\ loop'[q] = loop[q] /\ disk'[q] = disk[q] /\ q \in Nodes
      BY <1>8, <1>9, <1>10, <2>2, Peers
    <3>2. Untold(n, q)' = Untold(n, q) /\ Told(n, q, a[q])' = Told(n, q, a[q])
          /\ Sent(n, q, a[q])' = Sent(n, q, a[q])
      BY <1>2, <3>1, SamePeer
    <3>. QED
      BY <1>13, <3>2 DEF StorePhase
  <2>. QED
    BY <2>1, <2>2
<1>17. InTurn(n, a)' = InTurn(n, a)
  BY <1>2, <1>13, SameMesh DEF InTurn, Same, Distinct
<1>. QED
  BY <1>2, <1>14, <1>15, <1>16, <1>17, SameMesh DEF StorePhase, Same

-----------------------------------------------------------------------------
(* Where all is quiet, and calls begin.                                     *)

\* A call that overlaps nothing begins where all is quiet.
LEMMA CalledSerially ==
  ASSUME Types, NEW n \in Nodes, NEW last, NEW ts, Called(n, last, ts), Serial'
  PROVE  /\ Quiet /\ Serial /\ seen'.last = last /\ seen'.overlapped = seen.overlapped
         /\ n \in listed /\ UNCHANGED <<mode, listed, peers, loop, dead, crossed>>
<1>1. /\ seen' = [seen EXCEPT !.last = last, !.overlapped = @ \/ ~ Quiet, !.totals = @ \cup ts]
      /\ n \in listed /\ UNCHANGED <<mode, listed, peers, loop, dead, crossed>>
  BY DEF Called
<1>2. seen \in [last : {None, "store", "remove"}, overlapped : BOOLEAN, cut : BOOLEAN,
                totals : SUBSET Numbers]
  BY DEF Types
<1>. DEFINE o == seen.overlapped \/ ~ Quiet
<1>3. seen' = [seen EXCEPT !.last = last, !.overlapped = o, !.totals = seen.totals \cup ts]
  BY <1>1
<1>. HIDE DEF o
<1>4. seen'.overlapped = o /\ seen'.last = last
  BY <1>2, <1>3
<1>5. ~ o /\ dead = {}
  BY <1>1, <1>4 DEF Serial
<1>. QED
  BY <1>1, <1>2, <1>4, <1>5 DEF Serial, o

\* What the configuration does not change.
LEMMA SameModes ==
  ASSUME UNCHANGED <<mode, listed, peers>>
  PROVE  /\ Split' = Split /\ Total' = Total /\ Connected' = Connected
         /\ \A i : Job(i)' = Job(i)
BY DEF Split, Total, Connected, Job

\* What a call has left stays as long as the disks do.
LEMMA SameRests ==
  ASSUME UNCHANGED <<mode, listed, peers, disk>>, seen'.last = seen.last, NEW a
  PROVE  Rests(a)' = Rests(a) /\ Placed(a)' = Placed(a)
<1>1. Split' = Split /\ Total' = Total /\ Connected' = Connected
  BY SameModes
<1>2. \A p, i : Holds(p, i)' = Holds(p, i)
  BY <1>1 DEF Holds
<1>3. Distinct(listed, a)' = Distinct(listed, a)
  BY <1>1 DEF Distinct
<1>4. Placed(a)' = Placed(a) /\ Gone' = Gone
  BY <1>1, <1>2, <1>3 DEF Placed, Gone
<1>. QED
  BY <1>1, <1>4 DEF Rests

\* When all is quiet, the nodes have what the last call was to leave.
LEMMA QuietPhase ==
  ASSUME Base, Quiet, NEW n \in listed, NEW a \in [Nodes -> Numbers], Phase(n, a)
  PROVE  Rests(a)
<1>1. n \in Nodes /\ client[n].pc = "idle" /\ listed \subseteq Nodes
  BY DEF Base, Types, Quiet
<1>2. CASE StorePhase(n, a)
  <2>1. Later(n) = {} /\ Now(n) = {}
    BY <1>1 DEF Later, Now
  <2>2. ASSUME Connected, NEW p \in listed
        PROVE  Holds(p, a[p])
    <3>1. CASE p = n
      BY <1>2, <3>1 DEF StorePhase
    <3>2. CASE p # n
      <4>1. p \in peers[n] /\ chan[n][p] = <<>>
        BY <1>1, <2>2, <3>2 DEF Connected, Quiet
      <4>2. Sent(n, p, a[p])
        BY <1>2, <2>1, <4>1 DEF StorePhase
      <4>. QED
        BY <2>2, <4>1, <4>2 DEF Sent
    <3>. QED
      BY <3>1, <3>2
  <2>3. Connected /\ Split => Distinct(listed, a)
    <3>1. listed \ {} = listed
      OBVIOUS
    <3>. QED
      BY <1>2, <2>1, <3>1 DEF StorePhase, InTurn
  <2>4. seen.last = "store"
    BY <1>2 DEF StorePhase
  <2>. QED
    BY <2>2, <2>3, <2>4 DEF Rests, Placed
<1>3. CASE AskPhase(n, a)
  BY <1>3 DEF AskPhase
<1>4. CASE RemovePhase(n)
  <2>1. seen.last = "remove" /\ disk[n] = None
    BY <1>1, <1>4 DEF RemovePhase
  <2>2. ASSUME Connected, NEW p \in Nodes
        PROVE  disk[p] = None
    <3>1. CASE p \notin listed
      BY <3>1 DEF Base, MemberInv
    <3>2. CASE p \in listed /\ p # n
      <4>1. p \in peers[n] /\ chan[n][p] = <<>>
        BY <1>1, <2>2, <3>2 DEF Connected, Quiet
      <4>2. <<MessageDeleteFile>> # <<>>
        BY ShortSequences
      <4>. QED
        BY <1>4, <4>1, <4>2 DEF RemovePhase
    <3>. QED
      BY <2>1, <3>1, <3>2
  <2>. QED
    BY <2>1, <2>2 DEF Rests, Gone
<1>. QED
  BY <1>2, <1>3, <1>4 DEF Phase

\* A call begins where all is quiet: the callers' peers, and the connections then.
LEMMA QuietFacts ==
  ASSUME Base, Quiet, NEW n \in Nodes
  PROVE  /\ dead = {} /\ Types /\ peers[n] \subseteq Nodes /\ n \notin peers[n] /\ Alone(n) /\ NoLoops
         /\ \A k, m \in Nodes : chan[k][m] = <<>>
BY Peers DEF Base, Quiet, Alone, NoLoops

\* Where all is quiet, what is sent to all peers is all there is.
LEMMA SentToAll ==
  ASSUME Base, Quiet, NEW n \in Nodes, NEW x, chan' = To(n, peers[n], x)
  PROVE  \A k, m \in Nodes : chan'[k][m] = IF k = n /\ m \in peers[n] THEN <<x>> ELSE <<>>
<1>1. /\ dead = {} /\ Types /\ \A k, m \in Nodes : chan[k][m] = <<>>
  BY QuietFacts
<1>2. \A k, m \in Nodes : chan'[k][m] = IF k = n /\ m \in peers[n] THEN Append(chan[k][m], x)
                                                                  ELSE chan[k][m]
  BY <1>1, ToEffect
<1>3. Append(<<>>, x) = <<x>>
  BY ShortSequences
<1>4. ASSUME NEW k \in Nodes, NEW m \in Nodes
      PROVE  chan'[k][m] = IF k = n /\ m \in peers[n] THEN <<x>> ELSE <<>>
  <2>1. chan[k][m] = <<>>
    BY <1>1
  <2>2. CASE k = n /\ m \in peers[n]
    <3>1. chan'[k][m] = Append(chan[k][m], x)
      BY <1>2, <2>2
    <3>. QED
      BY <1>3, <2>1, <2>2, <3>1
  <2>3. CASE ~ (k = n /\ m \in peers[n])
    BY <1>2, <2>1, <2>3
  <2>. QED
    BY <2>2, <2>3
<1>. QED
  BY <1>4

\* A Store of parts begins with its own part.
LEMMA StoreSplitPhase ==
  ASSUME Base, Serial', NEW n \in Nodes, storeSplit(n)
  PROVE  \E b \in [Nodes -> Numbers] : n \in listed /\ StorePhase(n, b)'
<1>. DEFINE t == Cardinality(listed)
            c == [Idle EXCEPT !.pc = "part", !.left = peers[n], !.num = 2, !.total = t]
            f == encrypt(Plain(1, t))
<1>1. /\ Split /\ Called(n, "store", {t}) /\ disk' = [disk EXCEPT ![n] = f]
      /\ client' = [client EXCEPT ![n] = c] /\ chan' = chan
  BY DEF storeSplit
<1>2. /\ Quiet /\ seen'.last = "store" /\ n \in listed
      /\ UNCHANGED <<mode, listed, peers, loop, dead>>
  BY <1>1, CalledSerially DEF Base
<1>3. /\ Types /\ peers[n] \subseteq Nodes /\ n \notin peers[n] /\ Alone(n) /\ NoLoops
      /\ \A k, m \in Nodes : chan[k][m] = <<>>
  BY <1>2, QuietFacts
<1>4. /\ Total = t /\ t \in Nat /\ IsFiniteSet(listed)
  BY <1>1, TotalNumber DEF Total
<1>5. t >= 1 /\ 1 \in Numbers
  <2>1. t # 0
    BY <1>2, <1>4, FS_EmptySet
  <2>. QED
    BY <1>4, <2>1, TotalNumber
<1>6. c.pc = "part" /\ c.left = peers[n] /\ c.num = 2 /\ c.total = t
  BY DEF Idle
<1>7. /\ client'[n] = c /\ \A k \in Nodes \ {n} : client'[k] = client[k]
  <2>. HIDE DEF c
  <2>. QED
    BY <1>1, <1>3, GoesOn
<1>8. f \in Files /\ f.part = 1 /\ f.total = t
  BY <1>3, <1>4, EncryptedPart
<1>9. disk'[n] = f
  <2>. HIDE DEF f
  <2>. QED
    BY <1>1, <1>3 DEF Types
<1>10. client'[n].pc = "part" /\ client'[n].left = peers[n] /\ client'[n].num = 2 /\ client'[n].total = t
  <2>. HIDE DEF c
  <2>. QED
    BY <1>6, <1>7
<1>. HIDE DEF c, f, t
<1>. DEFINE b == [p \in Nodes |-> 1]
<1>11. b \in [Nodes -> Numbers] /\ \A p \in Nodes : b[p] = 1
  BY <1>5
<1>. HIDE DEF b
<1>12. Later(n)' = peers[n] /\ Now(n)' = {}
  BY <1>2, <1>10 DEF Later, Now
<1>13. Split' = Split /\ Total' = Total /\ Connected' = Connected
  BY <1>2, SameModes
<1>14. Alone(n)' /\ OnlyFrom(n)'
  BY <1>1, <1>3, <1>7, StillAlone DEF OnlyFrom
<1>15. Holds(n, b[n])'
  BY <1>4, <1>8, <1>9, <1>11, <1>13, NoneAssumption DEF Holds
<1>16. \A p \in peers'[n] : Untold(n, p)'
  BY <1>1, <1>2, <1>3 DEF Untold, NoLoops
<1>17. InTurn(n, b)'
  <2>1. ASSUME Connected
        PROVE  /\ Distinct(listed \ peers[n], b)
               /\ \A q \in listed \ peers[n] : b[q] < 2
               /\ Cardinality(peers[n]) + 2 = t + 1
    <3>1. peers[n] = listed \ {n} /\ listed \ peers[n] = {n}
      BY <1>2, <2>1 DEF Connected
    <3>2. Cardinality(peers[n]) = t - 1
      BY <1>2, <1>4, <3>1, FS_RemoveElement DEF t
    <3>3. \A q \in listed \ peers[n] : q = n /\ b[q] = 1
      BY <1>11, <3>1
    <3>. QED
      BY <1>4, <1>5, <3>2, <3>3 DEF Distinct
  <2>2. Distinct(listed \ peers[n], b) => Distinct(listed \ Later(n), b)'
    BY <1>2, <1>12, <1>13 DEF Distinct
  <2>. QED
    BY <1>2, <1>4, <1>10, <1>13, <2>1, <2>2 DEF InTurn
<1>18. StorePhase(n, b)'
  BY <1>1, <1>2, <1>3, <1>10, <1>12, <1>13, <1>14, <1>15, <1>16, <1>17 DEF StorePhase, NoLoops
<1>. QED
  BY <1>2, <1>11, <1>18

\* A Store of copies begins with its own copy and the messages.
LEMMA StoreAllPhase ==
  ASSUME Base, Serial', NEW n \in Nodes, storeAll(n)
  PROVE  \E b \in [Nodes -> Numbers] : n \in listed /\ StorePhase(n, b)'
<1>. DEFINE c == [Idle EXCEPT !.pc = "stream"]
            f == encrypt(Plain(0, 0))
<1>1. /\ ~ Split /\ Called(n, "store", {0}) /\ disk' = [disk EXCEPT ![n] = f]
      /\ client' = [client EXCEPT ![n] = c]
  BY DEF storeAll
<1>2. /\ Quiet /\ seen'.last = "store" /\ n \in listed
      /\ UNCHANGED <<mode, listed, peers, loop, dead>>
  BY <1>1, CalledSerially DEF Base
<1>3. /\ dead = {} /\ Types /\ peers[n] \subseteq Nodes /\ n \notin peers[n] /\ Alone(n) /\ NoLoops
  BY <1>2, QuietFacts
<1>4. Total = 0 /\ 0 \in Numbers
  BY <1>1, TotalNumber DEF Total
<1>5. chan' = To(n, peers[n], Job(0))
  <2>1. Job(0) = MessageStoreFile(0, 0)
    BY <1>4 DEF Job
  <2>2. \A r \in Reached(n) : r[1] = peers[n]
    BY <1>3, AllReached
  <2>. QED
    BY <2>1, <2>2 DEF storeAll
<1>6. \A k, m \in Nodes : chan'[k][m] = IF k = n /\ m \in peers[n] THEN <<Job(0)>> ELSE <<>>
  <2>. DEFINE x == Job(0)
  <2>1. chan' = To(n, peers[n], x)
    BY <1>5
  <2>. HIDE DEF x
  <2>2. \A k, m \in Nodes : chan'[k][m] = IF k = n /\ m \in peers[n] THEN <<x>> ELSE <<>>
    BY <1>2, <2>1, SentToAll
  <2>. QED
    BY <2>2 DEF x
<1>7. c.pc = "stream" /\ c.left = {}
  BY IdleCalls
<1>8. /\ client'[n].pc = "stream" /\ client'[n].left = {}
      /\ \A k \in Nodes \ {n} : client'[k] = client[k]
  <2>. HIDE DEF c
  <2>. QED
    BY <1>1, <1>3, <1>7, GoesOn
<1>9. f \in Files /\ f.part = 0 /\ f.total = 0
  BY <1>3, EncryptedPart
<1>10. disk'[n] = f
  <2>. HIDE DEF f
  <2>. QED
    BY <1>1, <1>3 DEF Types
<1>. HIDE DEF c, f
<1>. DEFINE b == [p \in Nodes |-> 0]
<1>11. b \in [Nodes -> Numbers] /\ \A p \in Nodes : b[p] = 0
  BY <1>4
<1>. HIDE DEF b
<1>12. Later(n)' = {} /\ Now(n)' = peers[n]
  BY <1>2, <1>8 DEF Later, Now
<1>13. Split' = Split /\ Total' = Total /\ Job(0)' = Job(0)
  BY <1>2, SameModes
<1>14. Alone(n)' /\ OnlyFrom(n)'
  BY <1>2, <1>3, <1>6, <1>8, StillAlone DEF OnlyFrom
<1>15. Holds(n, b[n])'
  BY <1>4, <1>9, <1>10, <1>11, <1>13, NoneAssumption DEF Holds
<1>16. \A p \in peers'[n] : Told(n, p, b[p])'
  BY <1>2, <1>3, <1>6, <1>11, <1>13 DEF Told, NoLoops
<1>17. StorePhase(n, b)'
  BY <1>1, <1>2, <1>3, <1>8, <1>11, <1>12, <1>13, <1>14, <1>15, <1>16 DEF StorePhase, NoLoops
<1>. QED
  BY <1>2, <1>11, <1>17

\* A Get begins with its own part and the questions.
LEMMA AskPhaseBegins ==
  ASSUME Base, Serial', NEW n \in Nodes, NEW a \in [Nodes -> Numbers], Rests(a), AskPeers(n)
  PROVE  n \in listed /\ AskPhase(n, a)'
<1>1. Called(n, seen.last, {}) /\ disk' = disk /\ (Split \/ disk[n] = None)
  BY DEF AskPeers
<1>2. /\ Quiet /\ seen'.last = seen.last /\ n \in listed
      /\ UNCHANGED <<mode, listed, peers, loop, dead>>
  BY <1>1, CalledSerially DEF Base
<1>3. /\ dead = {} /\ Types /\ peers[n] \subseteq Nodes /\ n \notin peers[n] /\ Alone(n) /\ NoLoops
  BY <1>2, QuietFacts
<1>. DEFINE d == [Idle EXCEPT !.pc = "asked"]
            e == [Idle EXCEPT !.pc = "asked", !.parts = {decrypt(disk[n])}, !.total = disk[n].total]
            c == IF disk[n] = None THEN d ELSE e
<1>4. chan' = To(n, peers[n], MessageGetFile) /\ client' = [client EXCEPT ![n] = c]
  <2>1. Reached(n) # {} /\ \A r \in Reached(n) : r[1] = peers[n] /\ r[2] = TRUE
    BY <1>3, AllReached
  <2>. QED
    BY <2>1 DEF AskPeers
<1>5. \A k, m \in Nodes : chan'[k][m] = IF k = n /\ m \in peers[n] THEN <<MessageGetFile>> ELSE <<>>
  BY <1>2, <1>4, SentToAll
<1>6. /\ c.pc = "asked"
      /\ disk[n] # None => c.parts = {decrypt(disk[n])} /\ c.total = disk[n].total
  BY DEF Idle
<1>. HIDE DEF c, d, e
<1>7. client'[n] = c /\ \A k \in Nodes \ {n} : client'[k] = client[k]
  BY <1>3, <1>4, GoesOn
<1>8. Left(n)' = peers[n]
  BY <1>2, <1>6, <1>7 DEF Left
<1>9. Split' = Split /\ Total' = Total /\ Connected' = Connected /\ Rests(a)' = Rests(a)
  BY <1>1, <1>2, SameModes, SameRests
<1>10. Alone(n)' /\ NoLoops'
  BY <1>2, <1>3, <1>7, StillAlone DEF NoLoops
<1>11. \A p \in peers'[n] : Asked(n, p)'
  BY <1>2, <1>3, <1>5 DEF Asked
<1>12. \A k, m \in Nodes : ~ (k = n /\ m \in peers'[n]) /\ ~ (m = n /\ k \in peers'[n])
                               => chan'[k][m] = <<>>
  BY <1>2, <1>5
<1>13. ASSUME Connected, seen.last = "store"
       PROVE  /\ Split /\ client'[n].total = Total
              /\ client'[n].parts = {decrypt(disk[p]) : p \in listed \ peers[n]}
  <2>1. Holds(n, a[n])
    BY <1>2, <1>13 DEF Rests, Placed
  <2>2. listed \ peers[n] = {n}
    BY <1>2, <1>13 DEF Connected
  <2>3. client'[n].parts = {decrypt(disk[n])} /\ client'[n].total = Total /\ Split
    BY <1>1, <1>6, <1>7, <2>1 DEF Holds
  <2>. QED
    BY <2>2, <2>3
<1>14. ASSUME Connected', seen'.last = "store"
       PROVE  /\ Split' /\ client'[n].total = Total'
              /\ client'[n].parts = {decrypt(disk[p]) : p \in listed \ Left(n)}'
              /\ \A p \in Left(n)' : Asked(n, p)' \/ Answered(n, p, disk[p])'
  <2>1. \A f : decrypt(f)' = decrypt(f)
    BY <1>2 DEF decrypt, EncType
  <2>2. {decrypt(disk[p]) : p \in listed \ Left(n)}' = {decrypt(disk[p]) : p \in listed \ peers[n]}
    BY <1>1, <1>2, <1>8, <2>1
  <2>. QED
    BY <1>2, <1>8, <1>9, <1>11, <1>13, <1>14, <2>2
<1>15. \A p \in peers'[n] : chan'[p][n] = <<>>
  BY <1>11 DEF Asked
<1>. QED
  BY <1>2, <1>6, <1>7, <1>8, <1>9, <1>10, <1>11, <1>12, <1>14, <1>15 DEF AskPhase

\* A Remove begins with the messages.
LEMMA RemovePhaseBegins ==
  ASSUME Base, Serial', NEW n \in Nodes, Remove(n)
  PROVE  n \in listed /\ RemovePhase(n)'
<1>1. Called(n, "remove", {}) /\ disk' = disk
  BY DEF Remove
<1>2. /\ Quiet /\ seen'.last = "remove" /\ n \in listed
      /\ UNCHANGED <<mode, listed, peers, loop, dead>>
  BY <1>1, CalledSerially DEF Base
<1>3. /\ dead = {} /\ Types /\ peers[n] \subseteq Nodes /\ n \notin peers[n] /\ Alone(n) /\ NoLoops
  BY <1>2, QuietFacts
<1>. DEFINE c == [Idle EXCEPT !.pc = "delete"]
<1>4. chan' = To(n, peers[n], MessageDeleteFile) /\ client' = [client EXCEPT ![n] = c]
  <2>1. Reached(n) # {} /\ \A r \in Reached(n) : r[1] = peers[n] /\ r[2] = TRUE
    BY <1>3, AllReached
  <2>. QED
    BY <2>1 DEF Remove
<1>5. \A k, m \in Nodes : chan'[k][m] = IF k = n /\ m \in peers[n] THEN <<MessageDeleteFile>> ELSE <<>>
  BY <1>2, <1>4, SentToAll
<1>6. c.pc = "delete"
  BY DEF Idle
<1>. HIDE DEF c
<1>7. client'[n].pc = "delete" /\ \A k \in Nodes \ {n} : client'[k] = client[k]
  BY <1>3, <1>4, <1>6, GoesOn
<1>8. Alone(n)' /\ NoLoops' /\ OnlyFrom(n)'
  BY <1>2, <1>3, <1>5, <1>7, StillAlone DEF NoLoops, OnlyFrom
<1>. QED
  BY <1>2, <1>3, <1>5, <1>7, <1>8 DEF RemovePhase

-----------------------------------------------------------------------------
(* Get and Remove.                                                          *)

\* A Get starts to read its answers.
LEMMA ReadAnswersPhase ==
  ASSUME Base, NEW n \in Nodes, NEW a \in [Nodes -> Numbers], AskPhase(n, a), ReadAnswers(n)
  PROVE  AskPhase(n, a)'
<1>1. Types /\ client[n] \in Calls
  BY Peers DEF Base
<1>. DEFINE c == [client[n] EXCEPT !.pc = "collect", !.left = peers[n]]
<1>2. /\ client[n].pc = "asked" /\ client' = [client EXCEPT ![n] = c]
      /\ Same /\ disk' = disk /\ loop' = loop /\ chan' = chan
  BY DEF ReadAnswers, Goes, Same
<1>3. /\ c.pc = "collect" /\ c.left = peers[n] /\ c.parts = client[n].parts
      /\ c.total = client[n].total
  BY <1>1 DEF Calls
<1>. HIDE DEF c
<1>4. client'[n] = c /\ \A k \in Nodes \ {n} : client'[k] = client[k]
  BY <1>1, <1>2, GoesOn
<1>5. Left(n)' = Left(n) /\ peers' = peers
  BY <1>2, <1>3, <1>4 DEF Left, Same
<1>6. /\ Split' = Split /\ Total' = Total /\ Connected' = Connected /\ Rests(a)' = Rests(a)
      /\ seen'.last = seen.last
  BY <1>2, SameMesh, SameRests DEF Same
<1>7. Alone(n)' /\ NoLoops'
  BY <1>2, <1>4, StillAlone DEF NoLoops, AskPhase
<1>8. \A p : Asked(n, p)' = Asked(n, p) /\ Nothing(n, p)' = Nothing(n, p)
             /\ \A f : Answered(n, p, f)' = Answered(n, p, f)
  BY <1>2 DEF Asked, Nothing, Answered
<1>9. {decrypt(disk[p]) : p \in listed \ Left(n)}' = {decrypt(disk[p]) : p \in listed \ Left(n)}
  <2>1. \A f : decrypt(f)' = decrypt(f)
    BY <1>2, SameMesh DEF decrypt
  <2>. QED
    BY <1>2, <1>5, <2>1 DEF Same
<1>10. \A p : Answered(n, p, disk[p])' = Answered(n, p, disk[p])
  BY <1>2 DEF Answered
<1>. QED
  BY <1>2, <1>3, <1>4, <1>5, <1>6, <1>7, <1>8, <1>9, <1>10 DEF AskPhase

\* What is taken during a Get is a question, or an answer for its caller.
LEMMA TakenDuringGet ==
  ASSUME Base, NEW n \in Nodes, NEW a \in [Nodes -> Numbers], AskPhase(n, a),
         NEW m \in Nodes, NEW p \in Nodes, Waiting(m, p)
  PROVE  \/ p = n /\ m \in peers[n] /\ m \in Left(n) /\ m # n /\ Asked(n, m)
         \/ m = n /\ p \in peers[n] /\ p \in Left(n) /\ p # n
            /\ \E f \in Files : Answered(n, p, f)
<1>1. chan[p][m] # <<>>
  BY DEF Waiting
<1>2. (p = n /\ m \in peers[n]) \/ (m = n /\ p \in peers[n])
  BY <1>1 DEF AskPhase
<1>3. CASE p = n /\ m \in peers[n]
  <2>1. Asked(n, m) /\ m \in Left(n)
    BY <1>1, <1>3 DEF AskPhase, Nothing, Answered
  <2>. QED
    BY <1>3, <2>1, Peers
<1>4. CASE m = n /\ p \in peers[n]
  <2>1. (\E f \in Files : Answered(n, p, f)) /\ p \in Left(n)
    BY <1>1, <1>4 DEF AskPhase, Nothing, Asked
  <2>. QED
    BY <1>4, <2>1, Peers
<1>. QED
  BY <1>2, <1>3, <1>4

\* A Get collects the answer of p.
LEMMA CollectPhase ==
  ASSUME Base, NEW n \in Nodes, NEW a \in [Nodes -> Numbers], AskPhase(n, a),
         NEW p \in Nodes, Collect(n, p)
  PROVE  AskPhase(n, a)'
<1>. DEFINE c == client[n]
            x == Head(chan[p][n])
            d == [Collected(n, x.file) EXCEPT !.left = @ \ {p}]
<1>1. Types /\ c \in Calls /\ peers[n] \subseteq Nodes /\ n \notin peers[n] /\ c.left \subseteq peers[n]
  BY Peers DEF Base
<1>2. /\ c.pc = "collect" /\ p \in c.left /\ Waiting(n, p) /\ chan' = Took(n, p)
      /\ client' = [client EXCEPT ![n] = d] /\ Same /\ loop' = loop
      /\ disk' = IF Split THEN disk ELSE [disk EXCEPT ![n] = [x.file EXCEPT !.part = 0, !.total = 0]]
  BY DEF Collect, Goes, Same, Took
<1>3. Left(n) = c.left /\ p # n /\ p \in peers[n]
  BY <1>1, <1>2 DEF Left
<1>4. PICK f \in Files : Answered(n, p, f)
  BY <1>2, <1>3, TakenDuringGet
<1>5. x = Stream("answer", f) /\ x.file = f /\ chan[p][n] # <<>>
  BY <1>4, ShortSequences, Different DEF Answered
<1>6. /\ chan'[p][n] = <<>> /\ chan'[n][p] = <<>>
      /\ \A j, k \in Nodes : <<j, k>> # <<p, n>> => chan'[j][k] = chan[j][k]
  <2>1. \A j, k \in Nodes : Took(n, p)[j][k] = IF j = p /\ k = n THEN Tail(chan[p][n]) ELSE chan[j][k]
    BY <1>1, TookEffect
  <2>2. Tail(chan[p][n]) = <<>> /\ chan[n][p] = <<>>
    BY <1>4, ShortSequences DEF Answered
  <2>. QED
    BY <1>2, <1>3, <2>1, <2>2
<1>7. /\ d.pc = "collect" /\ d.left = c.left \ {p}
      /\ Split => /\ d.parts = {g \in c.parts : g.part # f.part} \cup {decrypt(f)}
                  /\ d.total = IF c.total = 0 /\ disk[n] # None THEN disk[n].total ELSE c.total
  <2>. DEFINE parts == {g \in c.parts : g.part # f.part} \cup {decrypt(f)}
              total == IF c.total = 0 /\ disk[n] # None THEN disk[n].total ELSE c.total
              e == IF Split THEN [c EXCEPT !.parts = parts, !.total = total] ELSE c
              l == c.left \ {p}
  <2>1. Collected(n, f) = e
    BY DEF Collected
  <2>. HIDE DEF parts, total
  <2>2. /\ e.pc = "collect" /\ e.left = c.left /\ DOMAIN e = DOMAIN c
        /\ Split => e.parts = parts /\ e.total = total
    BY <1>1, <1>2 DEF Calls
  <2>3. DOMAIN c = {"pc", "left", "at", "num", "total", "parts", "got"}
    BY <1>1 DEF Calls
  <2>. HIDE DEF e
  <2>4. d = [e EXCEPT !.left = l]
    BY <1>5, <2>1, <2>2
  <2>. HIDE DEF l, d, c
  <2>5. d.pc = e.pc /\ d.left = l /\ d.parts = e.parts /\ d.total = e.total
    BY <2>2, <2>3, <2>4
  <2>. QED
    BY <2>2, <2>5 DEF l, parts, total
<1>. HIDE DEF d
<1>8. client'[n] = d /\ \A k \in Nodes \ {n} : client'[k] = client[k]
  BY <1>1, <1>2, GoesOn
<1>9. Left(n)' = c.left \ {p}
  BY <1>7, <1>8 DEF Left
<1>10. /\ Split' = Split /\ Total' = Total /\ Connected' = Connected /\ seen'.last = seen.last
       /\ UNCHANGED <<mode, listed, peers>>
  BY <1>2, SameMesh DEF Same
<1>11. ASSUME Connected, seen.last \in {"store", "remove"}
       PROVE  Split /\ disk' = disk /\ seen.last = "store"
  <2>1. seen.last # "remove"
    BY <1>3, <1>5, <1>11 DEF AskPhase
  <2>. QED
    BY <1>2, <1>11, <2>1 DEF AskPhase
<1>12. Rests(a)'
  <2>1. CASE Connected /\ seen.last \in {"store", "remove"}
    BY <1>10, <1>11, <2>1, SameRests DEF AskPhase
  <2>2. CASE ~ (Connected /\ seen.last \in {"store", "remove"})
    BY <1>10, <2>2 DEF Rests
  <2>. QED
    BY <2>1, <2>2
<1>13. Alone(n)' /\ NoLoops'
  BY <1>2, <1>8, StillAlone DEF NoLoops, AskPhase
<1>14. \A k, m \in Nodes : ~ (k = n /\ m \in peers'[n]) /\ ~ (m = n /\ k \in peers'[n])
                               => chan'[k][m] = <<>>
  BY <1>3, <1>6, <1>10 DEF AskPhase
<1>15. Nothing(n, p)'
  BY <1>6 DEF Nothing
<1>16. ASSUME NEW q \in peers[n], q # p
       PROVE  /\ Asked(n, q)' = Asked(n, q) /\ Nothing(n, q)' = Nothing(n, q)
              /\ \A g : Answered(n, q, g)' = Answered(n, q, g)
              /\ chan'[q][n] = chan[q][n] /\ chan'[n][q] = chan[n][q]
  <2>1. chan'[q][n] = chan[q][n] /\ chan'[n][q] = chan[n][q]
    BY <1>1, <1>3, <1>6, <1>16
  <2>. QED
    BY <2>1 DEF Asked, Nothing, Answered
<1>17. \A q \in peers'[n] : Asked(n, q)' \/ Nothing(n, q)' \/ \E g \in Files : Answered(n, q, g)'
  BY <1>10, <1>15, <1>16 DEF AskPhase
<1>18. \A q \in peers'[n] \ Left(n)' : Nothing(n, q)'
  BY <1>3, <1>9, <1>10, <1>15, <1>16 DEF AskPhase
<1>19. ASSUME Connected, seen.last = "store"
       PROVE  /\ Split /\ client'[n].total = Total
              /\ client'[n].parts = {decrypt(disk[q]) : q \in listed \ (c.left \ {p})}
              /\ \A q \in c.left \ {p} : Asked(n, q)' \/ Answered(n, q, disk[q])'
  <2>1. /\ Split /\ c.total = Total /\ c.parts = {decrypt(disk[q]) : q \in listed \ c.left}
        /\ disk' = disk /\ Placed(a)
        /\ \A q \in c.left : Asked(n, q) \/ Answered(n, q, disk[q])
    BY <1>3, <1>11, <1>19 DEF AskPhase, Rests
  <2>2. f = disk[p]
    <3>1. Answered(n, p, disk[p])
      BY <1>2, <1>5, <2>1 DEF Asked
    <3>2. Stream("answer", f) = Stream("answer", disk[p])
      BY <1>4, <3>1, ShortSequences DEF Answered
    <3>. QED
      BY <3>2, Different
  <2>3. /\ \A q \in listed : Holds(q, a[q]) /\ disk[q] \in Files
        /\ \A q, r \in listed : q # r => a[q] # a[r]
        /\ p \in listed /\ n \in listed
    BY <1>1, <1>3, <2>1, Peers DEF Placed, Distinct, Types, Holds
  <2>4. \A q \in listed : decrypt(disk[q]).part = a[q]
    BY <1>1, <2>3, Encryption DEF Types, Holds
  <2>5. d.total = Total
    <3>1. disk[n].total = Total
      BY <2>3 DEF Holds
    <3>. QED
      BY <1>7, <2>1, <3>1
  <2>6. d.parts = {decrypt(disk[q]) : q \in listed \ (c.left \ {p})}
    <3>1. \A g \in c.parts : g.part # f.part
      BY <1>2, <2>1, <2>2, <2>3, <2>4 DEF Holds
    <3>2. d.parts = c.parts \cup {decrypt(disk[p])}
      BY <1>7, <2>1, <2>2, <3>1
    <3>3. listed \ (c.left \ {p}) = (listed \ c.left) \cup {p}
      BY <2>3
    <3>. QED
      BY <2>1, <3>2, <3>3
  <2>7. \A q \in c.left \ {p} : Asked(n, q)' \/ Answered(n, q, disk[q])'
    BY <1>1, <1>16, <2>1 DEF Answered
  <2>. QED
    BY <1>8, <2>1, <2>5, <2>6, <2>7
<1>20. ASSUME Connected', seen'.last = "store"
       PROVE  /\ Split' /\ client'[n].total = Total'
              /\ client'[n].parts = {decrypt(disk[q]) : q \in listed \ Left(n)}'
              /\ \A q \in Left(n)' : Asked(n, q)' \/ Answered(n, q, disk[q])'
  <2>1. \A g : decrypt(g)' = decrypt(g)
    BY <1>2, SameMesh DEF decrypt
  <2>2. disk' = disk
    BY <1>10, <1>11, <1>20
  <2>3. {decrypt(disk[q]) : q \in listed \ Left(n)}' = {decrypt(disk[q]) : q \in listed \ (c.left \ {p})}
    BY <1>9, <1>10, <2>1, <2>2
  <2>. QED
    BY <1>9, <1>10, <1>19, <1>20, <2>3
<1>21. Connected' /\ seen'.last = "remove" => \A q \in peers'[n] : chan'[q][n] = <<>>
  BY <1>10, <1>11
<1>. QED
  BY <1>7, <1>8, <1>9, <1>12, <1>13, <1>14, <1>17, <1>18, <1>20, <1>21 DEF AskPhase

\* A Get returns.
LEMMA GetReturned ==
  ASSUME Types, NEW n \in Nodes, GetReturns(n)
  PROVE  client'[n].pc = "idle" /\ \A k \in Nodes \ {n} : client'[k] = client[k]
<1>. DEFINE g == IF Split THEN Combine(n) ELSE IF disk[n] = None THEN "error" ELSE Content(disk[n])
<1>1. Combine(n) \in {"file", "error", "wrong"} /\ Content(disk[n]) \in {"file", "wrong"}
  BY DEF Combine, Content
<1>2. g \in {None, "file", "error", "wrong"}
  BY <1>1
<1>. HIDE DEF g
<1>3. client' = [client EXCEPT ![n] = [Idle EXCEPT !.got = g]]
  BY DEF GetReturns, Returns, Goes, g
<1>. QED
  BY <1>2, <1>3, Returned

\* A Get returns, and all is quiet.
LEMMA GetReturnsPhase ==
  ASSUME Base, NEW n \in Nodes, NEW a \in [Nodes -> Numbers], AskPhase(n, a), GetReturns(n)
  PROVE  Quiet' /\ Rests(a)'
<1>1. Types /\ peers[n] \subseteq Nodes
  BY Peers DEF Base
<1>2. /\ client[n].pc = "collect" /\ client[n].left = {} /\ Same
      /\ disk' = disk /\ loop' = loop /\ chan' = chan
  BY DEF GetReturns, Returns, Goes, Same
<1>3. client'[n].pc = "idle" /\ \A k \in Nodes \ {n} : client'[k] = client[k]
  BY <1>1, GetReturned
<1>4. \A p \in peers[n] : Nothing(n, p)
  BY <1>2 DEF AskPhase, Left
<1>5. \A k, m \in Nodes : chan[k][m] = <<>>
  BY <1>4 DEF AskPhase, Nothing
<1>6. \A k \in Nodes : client'[k].pc = "idle"
  BY <1>3 DEF AskPhase, Alone
<1>7. Quiet'
  BY <1>2, <1>5, <1>6 DEF Quiet, AskPhase, NoLoops
<1>. QED
  BY <1>2, <1>7, SameRests DEF AskPhase, Same

\* A peer answers, or has nothing.
LEMMA ServePhase ==
  ASSUME Base, NEW n \in Nodes, NEW a \in [Nodes -> Numbers], AskPhase(n, a),
         NEW m \in Nodes, NEW p \in Nodes, handleMessageGetFile(m, p)
  PROVE  AskPhase(n, a)'
<1>1. Types /\ dead = {} /\ peers[n] \subseteq Nodes /\ n \notin peers[n]
  BY Peers DEF Base
<1>2. /\ Waiting(m, p) /\ Head(chan[p][m]) = MessageGetFile
      /\ Same /\ disk' = disk /\ loop' = loop /\ client' = client
  BY DEF handleMessageGetFile, Handled, Same
<1>3. p = n /\ m \in peers[n] /\ m \in Left(n) /\ m # n /\ Asked(n, m)
  <2>1. ASSUME NEW f, Answered(n, p, f), m = n
        PROVE  FALSE
    BY <1>2, <2>1, ShortSequences, Different DEF Answered
  <2>. QED
    BY <1>2, <2>1, TakenDuringGet
<1>. DEFINE x == Stream("answer", disk[m])
<1>4. \A j, k \in Nodes : Took(m, n)[j][k] = IF j = n /\ k = m THEN <<>> ELSE chan[j][k]
  <2>1. Tail(chan[n][m]) = <<>>
    BY <1>3, ShortSequences DEF Asked
  <2>2. \A j, k \in Nodes : Took(m, n)[j][k] = IF j = n /\ k = m THEN Tail(chan[n][m])
                                                                  ELSE chan[j][k]
    BY <1>1, TookEffect
  <2>. QED
    BY <2>1, <2>2
<1>5. /\ chan'[n][m] = <<>>
      /\ chan'[m][n] = IF disk[m] = None THEN <<>> ELSE <<x>>
      /\ \A j, k \in Nodes : <<j, k>> # <<n, m>> /\ <<j, k>> # <<m, n>> => chan'[j][k] = chan[j][k]
  <2>1. chan[m][n] = <<>>
    BY <1>3 DEF Asked
  <2>2. CASE disk[m] = None
    <3>1. chan' = Took(m, n)
      BY <1>3, <2>2 DEF handleMessageGetFile
    <3>. QED
      BY <1>3, <1>4, <2>1, <2>2, <3>1
  <2>3. CASE disk[m] # None
    <3>. DEFINE t == Took(m, n)
                y == Append(t[m][n], x)
    <3>1. chan' = [t EXCEPT ![m] = [t[m] EXCEPT ![n] = y]]
      BY <1>1, <1>3, <2>3 DEF handleMessageGetFile
    <3>2. t \in [Nodes -> [Nodes -> Seq(Items)]]
      BY <1>2, <1>3, <1>1, TookAdds
    <3>3. y = <<x>>
      BY <1>3, <1>4, <2>1, ShortSequences
    <3>. HIDE DEF t, y
    <3>4. /\ chan'[m][n] = y
          /\ \A j, k \in Nodes : <<j, k>> # <<m, n>> => chan'[j][k] = t[j][k]
      BY <3>1, <3>2
    <3>. QED
      BY <1>3, <1>4, <2>3, <3>3, <3>4 DEF t
  <2>. QED
    BY <2>2, <2>3
<1>. HIDE DEF x
<1>6. Left(n)' = Left(n) /\ UNCHANGED <<mode, listed, peers>> /\ seen'.last = seen.last
  BY <1>2 DEF Left, Same
<1>7. /\ Split' = Split /\ Total' = Total /\ Connected' = Connected /\ Rests(a)' = Rests(a)
  BY <1>2, <1>6, SameModes, SameRests
<1>8. \A k, j \in Nodes : ~ (k = n /\ j \in peers'[n]) /\ ~ (j = n /\ k \in peers'[n])
                               => chan'[k][j] = <<>>
  BY <1>3, <1>5, <1>6 DEF AskPhase
<1>9. /\ disk[m] = None => Nothing(n, m)'
      /\ disk[m] # None => disk[m] \in Files /\ Answered(n, m, disk[m])'
  <2>1. disk[m] \in Files \cup {None}
    BY <1>1 DEF Types
  <2>2. disk' = disk
    BY <1>2
  <2>. QED
    BY <1>5, <2>1, <2>2 DEF Nothing, Answered, x
<1>10. ASSUME NEW q \in peers[n], q # m
       PROVE  /\ Asked(n, q)' = Asked(n, q) /\ Nothing(n, q)' = Nothing(n, q)
              /\ \A g : Answered(n, q, g)' = Answered(n, q, g)
              /\ chan'[q][n] = chan[q][n] /\ chan'[n][q] = chan[n][q]
  <2>1. chan'[q][n] = chan[q][n] /\ chan'[n][q] = chan[n][q]
    BY <1>1, <1>3, <1>5, <1>10
  <2>. QED
    BY <2>1 DEF Asked, Nothing, Answered
<1>11. \A q \in peers'[n] : Asked(n, q)' \/ Nothing(n, q)' \/ \E g \in Files : Answered(n, q, g)'
  <2>1. Nothing(n, m)' \/ \E g \in Files : Answered(n, m, g)'
    BY <1>2, <1>9
  <2>. QED
    BY <1>6, <1>10, <2>1 DEF AskPhase
<1>12. \A q \in peers'[n] \ Left(n)' : Nothing(n, q)'
  BY <1>3, <1>6, <1>10 DEF AskPhase
<1>13. ASSUME Connected', seen'.last = "store"
       PROVE  /\ Split' /\ client'[n].total = Total'
              /\ client'[n].parts = {decrypt(disk[q]) : q \in listed \ Left(n)}'
              /\ \A q \in Left(n)' : Asked(n, q)' \/ Answered(n, q, disk[q])'
  <2>1. /\ Split /\ client[n].total = Total
        /\ client[n].parts = {decrypt(disk[q]) : q \in listed \ Left(n)}
        /\ \A q \in Left(n) : Asked(n, q) \/ Answered(n, q, disk[q])
        /\ Placed(a)
    BY <1>6, <1>7, <1>13 DEF AskPhase, Rests
  <2>2. disk[m] # None
    <3>1. m \in listed
      BY <1>3, Peers
    <3>. QED
      BY <2>1, <3>1 DEF Placed, Holds
  <2>3. \A g : decrypt(g)' = decrypt(g)
    BY <1>2, SameMesh DEF decrypt
  <2>4. {decrypt(disk[q]) : q \in listed \ Left(n)}' = {decrypt(disk[q]) : q \in listed \ Left(n)}
    BY <1>2, <1>6, <2>3
  <2>5. Left(n) \subseteq peers[n]
    BY Peers DEF Left
  <2>6. ASSUME NEW q \in Left(n), q # m
        PROVE  Asked(n, q)' \/ Answered(n, q, disk[q])'
    <3>1. chan'[q][n] = chan[q][n] /\ chan'[n][q] = chan[n][q] /\ disk' = disk
      BY <1>2, <1>10, <2>5, <2>6
    <3>2. Asked(n, q) \/ Answered(n, q, disk[q])
      BY <2>1
    <3>. QED
      BY <3>1, <3>2 DEF Asked, Answered
  <2>. QED
    BY <1>2, <1>6, <1>7, <1>9, <2>1, <2>2, <2>4, <2>6
<1>14. Connected' /\ seen'.last = "remove" => \A q \in peers'[n] : chan'[q][n] = <<>>
  <2>1. SUFFICES ASSUME Connected', seen'.last = "remove", NEW q \in peers[n]
                 PROVE  chan'[q][n] = <<>>
    BY <1>6
  <2>2. Gone /\ chan[q][n] = <<>>
    BY <1>6, <1>7, <2>1 DEF AskPhase, Rests
  <2>3. CASE q = m
    BY <1>5, <2>2, <2>3 DEF Gone
  <2>4. CASE q # m
    BY <1>10, <2>2, <2>4
  <2>. QED
    BY <2>3, <2>4
<1>15. Alone(n)' /\ NoLoops' /\ client'[n].pc \in {"asked", "collect"}
  BY <1>2 DEF NoLoops, AskPhase, Alone
<1>. QED
  BY <1>7, <1>8, <1>11, <1>12, <1>13, <1>14, <1>15 DEF AskPhase

\* A peer deletes.
LEMMA DeletePhase ==
  ASSUME Base, NEW n \in Nodes, RemovePhase(n), NEW m \in Nodes, NEW p \in Nodes,
         handleMessageDeleteFile(m, p)
  PROVE  RemovePhase(n)'
<1>1. Types /\ dead = {} /\ peers[n] \subseteq Nodes /\ n \notin peers[n]
  BY Peers DEF Base
<1>2. /\ Waiting(m, p) /\ chan' = Took(m, p) /\ disk' = [disk EXCEPT ![m] = None]
      /\ Same /\ loop' = loop /\ client' = client
  BY DEF handleMessageDeleteFile, Handled, Same
<1>3. p = n /\ m \in peers[n] /\ m # n /\ chan[n][m] = <<MessageDeleteFile>>
  <2>1. chan[p][m] # <<>>
    BY <1>2 DEF Waiting
  <2>. QED
    BY <1>1, <2>1 DEF RemovePhase, OnlyFrom
<1>4. /\ chan'[n][m] = <<>>
      /\ \A j, k \in Nodes : <<j, k>> # <<n, m>> => chan'[j][k] = chan[j][k]
  <2>1. Tail(chan[n][m]) = <<>> /\ chan' = Took(m, n)
    BY <1>2, <1>3, ShortSequences
  <2>2. \A j, k \in Nodes : Took(m, n)[j][k] = IF j = n /\ k = m THEN Tail(chan[n][m])
                                                                  ELSE chan[j][k]
    BY <1>1, TookEffect
  <2>. QED
    BY <2>1, <2>2
<1>5. disk'[m] = None /\ \A k \in Nodes \ {m} : disk'[k] = disk[k]
  BY <1>1, <1>2 DEF Types
<1>6. Alone(n)' /\ OnlyFrom(n)' /\ NoLoops' /\ seen'.last = "remove" /\ peers' = peers
  BY <1>2, <1>3, <1>4, StillOnlyFrom DEF RemovePhase, Same, Alone, NoLoops
<1>7. \A q \in peers'[n] : \/ chan'[n][q] = <<MessageDeleteFile>>
                           \/ chan'[n][q] = <<>> /\ disk'[q] = None
  BY <1>1, <1>4, <1>5, <1>6 DEF RemovePhase
<1>. QED
  BY <1>2, <1>3, <1>5, <1>6, <1>7 DEF RemovePhase

\* The caller deletes its own, and returns.
LEMMA DeleteLocalPhase ==
  ASSUME Base, NEW n \in Nodes, RemovePhase(n), DeleteLocal(n)
  PROVE  RemovePhase(n)'
<1>1. Types /\ peers[n] \subseteq Nodes /\ n \notin peers[n]
  BY Peers DEF Base
<1>2. /\ disk' = [disk EXCEPT ![n] = None] /\ client' = [client EXCEPT ![n] = [Idle EXCEPT !.got = None]]
      /\ Same /\ loop' = loop /\ chan' = chan
  BY DEF DeleteLocal, Returns, Goes, Same
<1>3. client'[n].pc = "idle" /\ \A k \in Nodes \ {n} : client'[k] = client[k]
  BY <1>1, <1>2, Returned
<1>4. disk'[n] = None /\ \A k \in Nodes \ {n} : disk'[k] = disk[k]
  BY <1>1, <1>2 DEF Types
<1>5. Alone(n)' /\ OnlyFrom(n)' /\ NoLoops' /\ seen'.last = "remove" /\ peers' = peers
  BY <1>2, <1>3, StillAlone DEF RemovePhase, Same, OnlyFrom, NoLoops
<1>. QED
  BY <1>1, <1>2, <1>3, <1>4, <1>5 DEF RemovePhase

-----------------------------------------------------------------------------
(* Nothing else happens while one node has a call.                          *)

\* What waits during a Store is a message about a part, or a part.
LEMMA WaitingDuringStore ==
  ASSUME Base, NEW n \in Nodes, NEW a \in [Nodes -> Numbers], StorePhase(n, a),
         NEW m \in Nodes, NEW p \in Nodes, Waiting(m, p)
  PROVE  Head(chan[p][m]).type \in {"store", "stream"}
<1>1. p = n /\ (Told(n, m, a[m]) \/ Sent(n, m, a[m])) /\ chan[n][m] # <<>>
  BY TakenFrom DEF Waiting
<1>2. CASE chan[n][m] = <<Job(a[m])>>
  BY <1>1, <1>2, ShortSequences, Different DEF Job
<1>3. CASE \E f \in Files : chan[n][m] = <<Job(a[m]), Stream("store", f)>>
  BY <1>1, <1>3, ShortSequences, Different DEF Job
<1>4. CASE \E f \in Files : chan[n][m] = <<Stream("store", f)>>
  BY <1>1, <1>4, ShortSequences, Different
<1>. QED
  BY <1>1, <1>2, <1>3, <1>4 DEF Told, Sent, Untold

\* What waits during a Get is a question, or an answer.
LEMMA WaitingDuringGet ==
  ASSUME Base, NEW n \in Nodes, NEW a \in [Nodes -> Numbers], AskPhase(n, a),
         NEW m \in Nodes, NEW p \in Nodes, Waiting(m, p)
  PROVE  Head(chan[p][m]).type \in {"get", "stream"}
<1>1. CASE p = n /\ Asked(n, m)
  BY <1>1, ShortSequences, Different DEF Asked
<1>2. CASE m = n /\ \E f \in Files : Answered(n, p, f)
  BY <1>2, ShortSequences, Different DEF Answered
<1>. QED
  BY <1>1, <1>2, TakenDuringGet

\* What waits during a Remove is the message to delete.
LEMMA WaitingDuringRemove ==
  ASSUME NEW n \in Nodes, RemovePhase(n), NEW m \in Nodes, NEW p \in Nodes, Waiting(m, p)
  PROVE  Head(chan[p][m]).type = "delete"
<1>1. p = n /\ m \in peers[n] /\ chan[n][m] # <<>>
  BY DEF RemovePhase, OnlyFrom, Waiting
<1>2. chan[n][m] = <<MessageDeleteFile>>
  BY <1>1 DEF RemovePhase
<1>. QED
  BY <1>1, <1>2, ShortSequences, Different

\* A Store goes on until all that it sent is stored.
LEMMA StorePhaseGoesOn ==
  ASSUME Base, NEW n \in Nodes, NEW a \in [Nodes -> Numbers], StorePhase(n, a),
         NEW k \in Nodes, Client(k) \/ EventLoop(k)
  PROVE  \E b \in [Nodes -> Numbers] : StorePhase(n, b)'
<1>1. dead = {} /\ client[n].pc \in {"idle", "part", "data", "stream"}
  BY Peers DEF StorePhase
<1>2. client[k].pc # "idle" => k = n
  BY CallerIs DEF StorePhase
<1>3. CASE Client(k)
  <2>1. ASSUME NEW p \in Nodes, SendPart(k, p)
        PROVE  \E b \in [Nodes -> Numbers] : StorePhase(n, b)'
    <3>1. k = n
      BY <1>2, <2>1 DEF SendPart
    <3>. QED
      BY <2>1, <3>1, SendPartPhase
  <2>2. ASSUME NEW p \in Nodes, Collect(k, p) \/ CollectFails(k, p)
        PROVE  FALSE
    BY <1>1, <1>2, <2>2 DEF Collect, CollectFails
  <2>3. CASE SendData(k)
    <3>1. k = n
      BY <1>2, <2>3 DEF SendData
    <3>. QED
      BY <2>3, <3>1, SendDataPhase
  <2>4. CASE SendFails(k)
    BY <1>1, <2>4 DEF SendFails
  <2>5. CASE StoreReturns(k)
    <3>1. k = n
      BY <1>2, <2>5 DEF StoreReturns
    <3>. QED
      BY <2>5, <3>1, StoreReturnsPhase
  <2>6. CASE StreamAll(k)
    <3>1. k = n
      BY <1>2, <2>6 DEF StreamAll
    <3>. QED
      BY <2>6, <3>1, StreamAllPhase
  <2>7. ~ ReadAnswers(k) /\ ~ GetReturns(k) /\ ~ DeleteLocal(k)
    BY <1>1, <1>2 DEF ReadAnswers, GetReturns, DeleteLocal
  <2>. QED
    BY <1>3, <2>1, <2>2, <2>3, <2>4, <2>5, <2>6, <2>7 DEF Client
<1>4. CASE EventLoop(k)
  <2>1. ASSUME NEW p \in Nodes, handleMessageGetFile(k, p) \/ handleMessageDeleteFile(k, p)
        PROVE  FALSE
    <3>1. Waiting(k, p) /\ Head(chan[p][k]).type \in {"get", "delete"}
      BY <2>1, Different DEF handleMessageGetFile, handleMessageDeleteFile, Handled
    <3>. QED
      BY <3>1, WaitingDuringStore
  <2>2. ASSUME NEW p \in Nodes, handleMessageStoreFile(k, p)
        PROVE  \E b \in [Nodes -> Numbers] : StorePhase(n, b)'
    BY <2>2, TakePhase
  <2>3. CASE StorePart(k)
    BY <2>3, StorePartPhase
  <2>4. ~ StorePartFails(k) /\ ~ Panic(k)
    BY <1>1 DEF StorePartFails, Panic, EndOfFile
  <2>. QED
    BY <1>4, <2>1, <2>2, <2>3, <2>4 DEF EventLoop
<1>. QED
  BY <1>3, <1>4

\* A Get goes on until it returns.
LEMMA AskPhaseGoesOn ==
  ASSUME Base, NEW n \in Nodes, NEW a \in [Nodes -> Numbers], AskPhase(n, a),
         NEW k \in Nodes, Client(k) \/ EventLoop(k)
  PROVE  AskPhase(n, a)' \/ (Quiet' /\ Rests(a)')
<1>1. dead = {} /\ client[n].pc \in {"asked", "collect"} /\ loop[k] = None
  BY Peers DEF AskPhase, NoLoops
<1>2. client[k].pc # "idle" => k = n
  BY CallerIs DEF AskPhase
<1>3. CASE Client(k)
  <2>1. ASSUME NEW p \in Nodes, Collect(k, p)
        PROVE  AskPhase(n, a)'
    <3>1. k = n
      BY <1>2, <2>1 DEF Collect
    <3>. QED
      BY <2>1, <3>1, CollectPhase
  <2>2. ASSUME NEW p \in Nodes, SendPart(k, p) \/ CollectFails(k, p)
        PROVE  FALSE
    BY <1>1, <1>2, <2>2 DEF SendPart, CollectFails, EndOfFile
  <2>3. ~ SendData(k) /\ ~ SendFails(k) /\ ~ StoreReturns(k) /\ ~ StreamAll(k) /\ ~ DeleteLocal(k)
    BY <1>1, <1>2 DEF SendData, SendFails, StoreReturns, StreamAll, DeleteLocal
  <2>4. CASE ReadAnswers(k)
    <3>1. k = n
      BY <1>2, <2>4 DEF ReadAnswers
    <3>. QED
      BY <2>4, <3>1, ReadAnswersPhase
  <2>5. CASE GetReturns(k)
    <3>1. k = n
      BY <1>2, <2>5 DEF GetReturns
    <3>. QED
      BY <2>5, <3>1, GetReturnsPhase
  <2>. QED
    BY <1>3, <2>1, <2>2, <2>3, <2>4, <2>5 DEF Client
<1>4. CASE EventLoop(k)
  <2>1. ASSUME NEW p \in Nodes, handleMessageGetFile(k, p)
        PROVE  AskPhase(n, a)'
    BY <2>1, ServePhase
  <2>2. ASSUME NEW p \in Nodes, handleMessageDeleteFile(k, p) \/ handleMessageStoreFile(k, p)
        PROVE  FALSE
    <3>1. Waiting(k, p) /\ Head(chan[p][k]).type \in {"delete", "store"}
      BY <2>2, Different DEF handleMessageStoreFile, handleMessageDeleteFile, Handled
    <3>. QED
      BY <3>1, WaitingDuringGet
  <2>3. ~ StorePart(k) /\ ~ StorePartFails(k) /\ ~ Panic(k)
    BY <1>1 DEF StorePart, StorePartFails, Panic
  <2>. QED
    BY <1>4, <2>1, <2>2, <2>3 DEF EventLoop
<1>. QED
  BY <1>3, <1>4

\* A Remove goes on until all have deleted.
LEMMA RemovePhaseGoesOn ==
  ASSUME Base, NEW n \in Nodes, RemovePhase(n), NEW k \in Nodes, Client(k) \/ EventLoop(k)
  PROVE  RemovePhase(n)'
<1>1. dead = {} /\ client[n].pc \in {"delete", "idle"} /\ loop[k] = None
  BY Peers DEF RemovePhase, NoLoops
<1>2. client[k].pc # "idle" => k = n
  BY CallerIs DEF RemovePhase
<1>3. CASE Client(k)
  <2>1. ASSUME NEW p \in Nodes, SendPart(k, p) \/ Collect(k, p) \/ CollectFails(k, p)
        PROVE  FALSE
    BY <1>1, <1>2, <2>1 DEF SendPart, Collect, CollectFails
  <2>2. ~ SendData(k) /\ ~ SendFails(k) /\ ~ StoreReturns(k) /\ ~ StreamAll(k)
        /\ ~ ReadAnswers(k) /\ ~ GetReturns(k)
    BY <1>1, <1>2 DEF SendData, SendFails, StoreReturns, StreamAll, ReadAnswers, GetReturns
  <2>3. CASE DeleteLocal(k)
    <3>1. k = n
      BY <1>1, <1>2, <2>3 DEF DeleteLocal
    <3>. QED
      BY <2>3, <3>1, DeleteLocalPhase
  <2>. QED
    BY <1>3, <2>1, <2>2, <2>3 DEF Client
<1>4. CASE EventLoop(k)
  <2>1. ASSUME NEW p \in Nodes, handleMessageDeleteFile(k, p)
        PROVE  RemovePhase(n)'
    BY <2>1, DeletePhase
  <2>2. ASSUME NEW p \in Nodes, handleMessageGetFile(k, p) \/ handleMessageStoreFile(k, p)
        PROVE  FALSE
    <3>1. Waiting(k, p) /\ Head(chan[p][k]).type \in {"get", "store"}
      BY <2>2, Different DEF handleMessageStoreFile, handleMessageGetFile, Handled
    <3>. QED
      BY <3>1, WaitingDuringRemove
  <2>3. ~ StorePart(k) /\ ~ StorePartFails(k) /\ ~ Panic(k)
    BY <1>1 DEF StorePart, StorePartFails, Panic
  <2>. QED
    BY <1>4, <2>1, <2>2, <2>3 DEF EventLoop
<1>. QED
  BY <1>3, <1>4

\* Each stream is taken by the one it is for.
LEMMA NoCrossing ==
  ASSUME Base, NEW n \in Nodes, NEW a \in [Nodes -> Numbers], Phase(n, a),
         NEW k \in Nodes, NEW p \in Nodes
  PROVE  ~ Cross(k, p)
<1>. DEFINE x == Head(chan[p][k])
<1>. SUFFICES ASSUME Cross(k, p)
              PROVE  FALSE
  OBVIOUS
<1>1. /\ Waiting(k, p)
      /\ \E use \in {"answer", "store"} :
             /\ use = "answer" => client[k].pc = "collect"
             /\ use = "store" => loop[k] # None /\ loop[k].from = p
             /\ \/ IsMessage(x) /\ use = "answer"
                \/ ~ IsMessage(x) /\ x.use # use
                \/ ~ IsMessage(x) /\ Len(chan[p][k]) > 1
  BY DEF Cross
<1>2. \A s, f : LET y == Stream(s, f)
                IN  ~ IsMessage(y) /\ y.use = s /\ Head(<<y>>) = y /\ Len(<<y>>) = 1
  <2>1. \A y : Head(<<y>>) = y /\ Len(<<y>>) = 1
    BY ShortSequences
  <2>. QED
    BY <2>1, Different
<1>3. client[k].pc = "collect" => k = n
  BY CallerIs DEF Phase, StorePhase, AskPhase, RemovePhase
<1>4. CASE StorePhase(n, a)
  <2>1. p = n /\ k # n /\ (Told(n, k, a[k]) \/ Sent(n, k, a[k])) /\ chan[n][k] # <<>>
    BY <1>1, <1>4, TakenFrom DEF Waiting
  <2>2. loop[k] # None /\ ~ (IsMessage(x) /\ loop[k] = None)
    BY <1>1, <1>3, <2>1
  <2>3. PICK f \in Files : chan[n][k] = <<Stream("store", f)>>
    BY <2>1, <2>2 DEF Told, Sent, Untold
  <2>4. client[k].pc # "collect"
    BY <1>3, <2>1
  <2>. QED
    BY <1>1, <1>2, <2>1, <2>3, <2>4
<1>5. CASE AskPhase(n, a)
  <2>1. loop[k] = None
    BY <1>5 DEF AskPhase, NoLoops
  <2>2. k = n
    BY <1>1, <1>3, <2>1
  <2>3. PICK f \in Files : Answered(n, p, f)
    BY <1>1, <1>5, <2>2, TakenDuringGet
  <2>. QED
    BY <1>1, <1>2, <2>1, <2>2, <2>3 DEF Answered
<1>6. CASE RemovePhase(n)
  BY <1>1, <1>3, <1>6 DEF RemovePhase, NoLoops
<1>. QED
  BY <1>4, <1>5, <1>6 DEF Phase

-----------------------------------------------------------------------------
(* Members.                                                                 *)

\* Only OnPeer makes peers, what is stored is stored by members, and only the death of
\* a node, or a call that finds a dead one, cuts a file short.
LEMMA MembersKept ==
  ASSUME MemberInv, peers' = peers, listed \subseteq listed',
         \A k \in Nodes : disk'[k] # None => k \in listed' \/ disk[k] # None,
         dead' = {} => dead = {} /\ seen'.cut = seen.cut
  PROVE  MemberInv'
<1>1. \A n \in Nodes : peers'[n] \subseteq listed' \ {n} /\ (peers'[n] # {} => n \in listed')
  BY DEF MemberInv
<1>2. \A n \in Nodes : disk'[n] # None => n \in listed'
  BY DEF MemberInv
<1>3. dead' = {} => ~ seen'.cut
  BY DEF MemberInv
<1>. QED
  BY <1>1, <1>2, <1>3 DEF MemberInv

\* One disk is written, by a member or to delete.
LEMMA MembersWrite ==
  ASSUME Types, MemberInv, peers' = peers, listed' = listed, NEW n \in Nodes, NEW f,
         f = None \/ n \in listed, disk' = [disk EXCEPT ![n] = f],
         dead' = {} => dead = {} /\ seen'.cut = seen.cut
  PROVE  MemberInv'
<1>1. disk'[n] = f /\ \A k \in Nodes \ {n} : disk'[k] = disk[k]
  BY DEF Types
<1>. QED
  BY <1>1, MembersKept

\* New members, and their connections.
LEMMA MembersGrow ==
  ASSUME Types, MemberInv, NEW n \in Nodes, Add(n) \/ \E m \in Nodes : OnPeer(n, m)
  PROVE  MemberInv'
<1>. DEFINE o == seen.overlapped \/ ~ Quiet
<1>1. seen' = [seen EXCEPT !.last = None, !.overlapped = o] /\ dead' = dead /\ disk' = disk
  BY DEF Add, OnPeer
<1>. HIDE DEF o
<1>2. seen'.cut = seen.cut
  BY <1>1 DEF Types
<1>3. CASE Add(n)
  <2>1. peers' = peers /\ listed \subseteq listed'
    BY <1>3 DEF Add, connVars
  <2>. QED
    BY <1>1, <1>2, <2>1, MembersKept
<1>4. CASE \E m \in Nodes : OnPeer(n, m)
  <2>1. PICK m \in Nodes : OnPeer(n, m)
    BY <1>4
  <2>2. /\ n \in listed /\ m \in listed /\ m # n /\ listed' = listed
        /\ peers' = [peers EXCEPT ![n] = @ \cup {m}, ![m] = @ \cup {n}]
    BY <2>1 DEF OnPeer
  <2>3. /\ peers'[n] = peers[n] \cup {m} /\ peers'[m] = peers[m] \cup {n}
        /\ \A k \in Nodes \ {n, m} : peers'[k] = peers[k]
    BY <2>2 DEF Types
  <2>4. \A k \in Nodes : peers'[k] \subseteq listed \ {k} /\ (peers'[k] # {} => k \in listed)
    BY <2>2, <2>3 DEF MemberInv
  <2>. QED
    BY <1>1, <1>2, <2>2, <2>4 DEF MemberInv
<1>. QED
  BY <1>3, <1>4

\* A request comes to a member.
LEMMA MembersCall ==
  ASSUME Types, MemberInv, NEW n \in Nodes, Request(n)
  PROVE  MemberInv'
<1>1. \A last, ts : Called(n, last, ts) =>
          /\ n \in listed /\ UNCHANGED <<peers, listed, dead>> /\ seen'.cut = seen.cut
  <2>1. SUFFICES ASSUME NEW last, NEW ts, Called(n, last, ts)
                 PROVE  /\ n \in listed /\ UNCHANGED <<peers, listed, dead>> /\ seen'.cut = seen.cut
    OBVIOUS
  <2>. DEFINE o == seen.overlapped \/ ~ Quiet
  <2>2. seen' = [seen EXCEPT !.last = last, !.overlapped = o, !.totals = seen.totals \cup ts]
    BY <2>1 DEF Called
  <2>. HIDE DEF o
  <2>3. seen'.cut = seen.cut
    BY <2>2 DEF Types
  <2>. QED
    BY <2>1, <2>3 DEF Called
<1>2. CASE storeSplit(n)
  <2>. DEFINE f == encrypt(Plain(1, Cardinality(listed)))
  <2>1. Called(n, "store", {Cardinality(listed)}) /\ disk' = [disk EXCEPT ![n] = f]
    BY <1>2 DEF storeSplit
  <2>. HIDE DEF f
  <2>. QED
    BY <1>1, <2>1, MembersWrite
<1>3. CASE storeAll(n)
  <2>. DEFINE f == encrypt(Plain(0, 0))
  <2>1. Called(n, "store", {0}) /\ disk' = [disk EXCEPT ![n] = f]
    BY <1>3 DEF storeAll
  <2>. HIDE DEF f
  <2>. QED
    BY <1>1, <2>1, MembersWrite
<1>4. CASE getAllLocal(n) \/ AskPeers(n) \/ Remove(n)
  <2>1. disk' = disk /\ \E last, ts : Called(n, last, ts)
    BY <1>4 DEF getAllLocal, AskPeers, Remove
  <2>. QED
    BY <1>1, <2>1, MembersKept
<1>. QED
  BY <1>2, <1>3, <1>4 DEF Request

\* A call or an event loop goes on.
LEMMA MembersGoOn ==
  ASSUME Types, CallInv, MemberInv, NEW n \in Nodes, Client(n) \/ EventLoop(n)
  PROVE  MemberInv'
<1>1. client[n].left # {} => n \in listed
  BY DEF CallInv, MemberInv
<1>2. loop[n] # None => n \in listed
  BY DEF CallInv, MemberInv
<1>3. CASE \/ \E p \in Nodes : \/ SendPart(n, p) \/ handleMessageGetFile(n, p)
                               \/ handleMessageStoreFile(n, p)
           \/ SendData(n) \/ SendFails(n) \/ StoreReturns(n) \/ ReadAnswers(n) \/ GetReturns(n)
           \/ StorePartFails(n)
  <2>1. UNCHANGED <<peers, listed, disk, dead, seen>>
    BY <1>3, Zenon DEF SendPart, handleMessageGetFile, handleMessageStoreFile, Handled, SendData,
                SendFails, StoreReturns, ReadAnswers, GetReturns, StorePartFails, Goes, Returns, connVars
  <2>. QED
    BY <2>1, MembersKept
<1>4. CASE StreamAll(n)
  <2>1. UNCHANGED <<peers, listed, disk, dead>>
    BY <1>4 DEF StreamAll, Goes, Returns
  <2>2. ASSUME dead = {}
        PROVE  seen'.cut = seen.cut
    <3>1. PICK f : f = encrypt(Plain(0, 0)) /\ seen' = [seen EXCEPT !.cut = @ \/ ~ f.whole]
      <4>1. \A r \in Reached(n) : r[2] = TRUE
        BY <2>2, AllReached
      <4>. QED
        BY <1>4, <4>1 DEF StreamAll
    <3>2. f.whole = TRUE
      <4>1. Plain(0, 0) \in Files /\ Plain(0, 0).whole = TRUE
        BY PlainFiles DEF Plain
      <4>. QED
        BY <3>1, <4>1, Encryption DEF Types
    <3>. QED
      BY <3>1, <3>2 DEF Types
  <2>. QED
    BY <2>1, <2>2, MembersKept
<1>5. ASSUME NEW p \in Nodes, Collect(n, p)
      PROVE  MemberInv'
  <2>. DEFINE f == [Head(chan[p][n]).file EXCEPT !.part = 0, !.total = 0]
  <2>1. /\ UNCHANGED <<peers, listed, dead, seen>> /\ n \in listed
        /\ disk' = disk \/ disk' = [disk EXCEPT ![n] = f]
    BY <1>1, <1>5 DEF Collect, Goes
  <2>. HIDE DEF f
  <2>. QED
    BY <2>1, MembersKept, MembersWrite
<1>6. ASSUME NEW p \in Nodes, CollectFails(n, p)
      PROVE  MemberInv'
  <2>. DEFINE f == [Plain(0, 0) EXCEPT !.whole = FALSE]
  <2>1. /\ UNCHANGED <<peers, listed, dead>> /\ n \in listed /\ dead # {}
        /\ disk' = disk \/ disk' = [disk EXCEPT ![n] = f]
    BY <1>1, <1>6 DEF CollectFails, Goes, Returns, EndOfFile
  <2>. HIDE DEF f
  <2>. QED
    BY <2>1, MembersKept, MembersWrite
<1>7. ASSUME DeleteLocal(n) \/ \E p \in Nodes : handleMessageDeleteFile(n, p)
      PROVE  MemberInv'
  <2>1. UNCHANGED <<peers, listed, dead, seen>> /\ disk' = [disk EXCEPT ![n] = None]
    BY <1>7 DEF DeleteLocal, handleMessageDeleteFile, Handled, Goes, Returns
  <2>. QED
    BY <2>1, MembersWrite
<1>8. CASE StorePart(n)
  <2>. DEFINE f == encrypt([Head(chan[loop[n].from][n]).file EXCEPT !.part = loop[n].msg.part,
                                                                    !.total = loop[n].msg.total])
  <2>1. UNCHANGED <<peers, listed, dead, seen>> /\ disk' = [disk EXCEPT ![n] = f] /\ n \in listed
    BY <1>2, <1>8 DEF StorePart
  <2>. HIDE DEF f
  <2>. QED
    BY <2>1, MembersWrite
<1>9. CASE Panic(n)
  <2>. DEFINE f == encrypt([Plain(loop[n].msg.part, loop[n].msg.total) EXCEPT !.whole = FALSE])
  <2>1. UNCHANGED <<peers, listed>> /\ n \in dead' /\ disk' = [disk EXCEPT ![n] = f] /\ n \in listed
    BY <1>2, <1>9 DEF Panic, Stops
  <2>. HIDE DEF f
  <2>. QED
    BY <2>1, MembersWrite
<1>. QED
  BY <1>3, <1>4, <1>5, <1>6, <1>7, <1>8, <1>9 DEF Client, EventLoop

\* Nobody has stored anything at first.
LEMMA InitMembers == Init => MemberInv
<1>. SUFFICES ASSUME Init
              PROVE  MemberInv
  OBVIOUS
<1>1. \A n \in Nodes : peers[n] = IF n \in listed THEN listed \ {n} ELSE {}
  BY DEF Init
<1>2. (\A n \in Nodes : disk[n] = None) /\ ~ seen.cut
  BY DEF Init
<1>. QED
  BY <1>1, <1>2 DEF MemberInv

\* Every step keeps it so.
LEMMA StepMembers == Types /\ CallInv /\ MemberInv /\ [Next]_vars => MemberInv'
<1>. SUFFICES ASSUME Types, CallInv, MemberInv, [Next]_vars
              PROVE  MemberInv'
  OBVIOUS
<1>1. CASE UNCHANGED vars
  BY <1>1, MembersKept DEF vars, connVars
<1>2. ASSUME NEW n \in Nodes, Step(n)
      PROVE  MemberInv'
  <2>1. CASE \E p \in Nodes : Cross(n, p)
    <3>1. UNCHANGED <<peers, listed, disk, dead, seen>>
      BY <2>1 DEF Cross, connVars
    <3>. QED
      BY <3>1, MembersKept
  <2>2. CASE Crash(n)
    <3>1. UNCHANGED <<peers, listed, disk>> /\ n \in dead'
      BY <2>2 DEF Crash, Stops
    <3>. QED
      BY <3>1, MembersKept
  <2>. QED
    BY <1>2, <2>1, <2>2, MembersGrow, MembersCall, MembersGoOn DEF Step
<1>. QED
  BY <1>1, <1>2 DEF Next

-----------------------------------------------------------------------------
(* One call at a time.                                                      *)

\* New members, and their connections, come where all is quiet, and end what was there.
LEMMA GrowthIsQuiet ==
  ASSUME Types, NEW n \in Nodes, Add(n) \/ (\E m \in Nodes : OnPeer(n, m)), Serial'
  PROVE  Serial /\ Quiet /\ Quiet' /\ crossed' = crossed /\ \A a : Rests(a)'
<1>. DEFINE o == seen.overlapped \/ ~ Quiet
<1>1. /\ seen' = [seen EXCEPT !.last = None, !.overlapped = o]
      /\ UNCHANGED <<dead, chan, loop, client, crossed>>
  BY DEF Add, OnPeer, connVars
<1>. HIDE DEF o
<1>2. seen'.last = None /\ seen'.overlapped = o
  BY <1>1 DEF Types
<1>3. Serial /\ Quiet
  BY <1>1, <1>2 DEF Serial, o
<1>4. Quiet'
  BY <1>1, <1>3 DEF Quiet
<1>5. None # "store" /\ None # "remove"
  BY NoneAssumption
<1>. QED
  BY <1>1, <1>2, <1>3, <1>4, <1>5 DEF Rests

\* A request that comes where all is quiet is the only one.
LEMMA RequestIsSerial ==
  ASSUME Types, CallInv, MemberInv, SerialInv, NEW n \in Nodes, Request(n), Serial'
  PROVE  ~ crossed' /\ \E b \in [Nodes -> Numbers] : OneCall(b)'
<1>1. \A last, ts : Called(n, last, ts) =>
          Base /\ Quiet /\ seen'.last = last /\ UNCHANGED <<mode, listed, peers, loop, crossed>>
  BY CalledSerially DEF Base
<1>2. PICK last, ts : Called(n, last, ts)
  BY DEF Request, storeSplit, storeAll, getAllLocal, AskPeers, Remove
<1>3. Base /\ Quiet /\ UNCHANGED <<mode, listed, peers, loop, crossed>>
  BY <1>1, <1>2
<1>4. PICK a \in [Nodes -> Numbers] : Rests(a)
  <2>1. PICK a \in [Nodes -> Numbers] : OneCall(a)
    BY <1>3 DEF SerialInv, Base
  <2>2. ASSUME NEW k \in listed, Phase(k, a)
        PROVE  Rests(a)
    BY <1>3, <2>2, QuietPhase
  <2>. QED
    BY <2>1, <2>2 DEF OneCall
<1>5. ~ crossed'
  BY <1>3 DEF SerialInv, Base
<1>6. CASE storeSplit(n)
  <2>1. PICK b \in [Nodes -> Numbers] : n \in listed /\ StorePhase(n, b)'
    BY <1>3, <1>6, StoreSplitPhase
  <2>. QED
    BY <1>3, <1>5, <2>1 DEF OneCall, Phase
<1>7. CASE storeAll(n)
  <2>1. PICK b \in [Nodes -> Numbers] : n \in listed /\ StorePhase(n, b)'
    BY <1>3, <1>7, StoreAllPhase
  <2>. QED
    BY <1>3, <1>5, <2>1 DEF OneCall, Phase
<1>8. CASE getAllLocal(n)
  <2>1. Called(n, seen.last, {}) /\ disk' = disk /\ chan' = chan
    BY <1>8 DEF getAllLocal
  <2>2. Rests(a)'
    BY <1>1, <1>4, <2>1, SameRests
  <2>3. PICK got \in {"file", "wrong"} : client' = [client EXCEPT ![n] = [Idle EXCEPT !.got = got]]
    BY <1>8 DEF getAllLocal, Content
  <2>4. client'[n].pc = "idle" /\ \A k \in Nodes \ {n} : client'[k] = client[k]
    BY <2>3, Returned
  <2>5. Quiet'
    BY <1>3, <2>1, <2>4 DEF Quiet
  <2>. QED
    BY <1>5, <2>2, <2>5 DEF OneCall
<1>9. CASE AskPeers(n)
  <2>1. n \in listed /\ AskPhase(n, a)'
    BY <1>3, <1>4, <1>9, AskPhaseBegins
  <2>. QED
    BY <1>3, <1>5, <2>1 DEF OneCall, Phase
<1>10. CASE Remove(n)
  <2>1. n \in listed /\ RemovePhase(n)'
    BY <1>3, <1>10, RemovePhaseBegins
  <2>. QED
    BY <1>3, <1>4, <1>5, <2>1 DEF OneCall, Phase
<1>. QED
  BY <1>6, <1>7, <1>8, <1>9, <1>10, <1>5 DEF Request

\* A call or an event loop that goes on leaves it serial or not.
LEMMA GoingOnIsSerial ==
  ASSUME Types, NEW n \in Nodes, Client(n) \/ EventLoop(n)
  PROVE  UNCHANGED <<listed, crossed>> /\ (Serial' => Serial)
<1>1. CASE \/ \E p \in Nodes : \/ SendPart(n, p) \/ Collect(n, p) \/ handleMessageGetFile(n, p)
                               \/ handleMessageStoreFile(n, p) \/ handleMessageDeleteFile(n, p)
           \/ SendData(n) \/ SendFails(n) \/ StoreReturns(n) \/ ReadAnswers(n) \/ GetReturns(n)
           \/ DeleteLocal(n) \/ StorePart(n) \/ StorePartFails(n)
  <2>1. UNCHANGED <<listed, crossed, dead, seen>>
    BY <1>1, Zenon DEF SendPart, Collect, handleMessageGetFile, handleMessageStoreFile,
                handleMessageDeleteFile, Handled, SendData, SendFails, StoreReturns, ReadAnswers,
                GetReturns, DeleteLocal, StorePart, StorePartFails, Goes, Returns
  <2>. QED
    BY <2>1 DEF Serial
<1>2. CASE StreamAll(n) \/ \E p \in Nodes : CollectFails(n, p)
  <2>1. UNCHANGED <<listed, crossed, dead>> /\ \E c : seen' = [seen EXCEPT !.cut = c] \/ seen' = seen
    BY <1>2 DEF StreamAll, CollectFails, Goes, Returns
  <2>2. seen'.overlapped = seen.overlapped
    BY <2>1 DEF Types
  <2>. QED
    BY <2>1, <2>2 DEF Serial
<1>3. CASE Panic(n)
  BY <1>3 DEF Panic, Stops, Serial
<1>. QED
  BY <1>1, <1>2, <1>3 DEF Client, EventLoop

\* Where all is quiet nothing goes on.
LEMMA NothingGoesOn ==
  ASSUME Quiet, NEW n \in Nodes
  PROVE  ~ Client(n) /\ ~ EventLoop(n) /\ \A p \in Nodes : ~ Cross(n, p)
<1>1. client[n].pc = "idle" /\ loop[n] = None /\ \A p \in Nodes : ~ Waiting(n, p)
  BY DEF Quiet, Waiting
<1>2. ~ Client(n)
  BY <1>1 DEF Client, SendPart, Collect, CollectFails, SendData, SendFails, StoreReturns,
              StreamAll, ReadAnswers, GetReturns, DeleteLocal
<1>3. ~ EventLoop(n)
  BY <1>1 DEF EventLoop, handleMessageGetFile, handleMessageDeleteFile, handleMessageStoreFile,
              Handled, StorePart, StorePartFails, Panic
<1>4. \A p \in Nodes : ~ Cross(n, p)
  BY <1>1 DEF Cross
<1>. QED
  BY <1>2, <1>3, <1>4

\* All is quiet at first.
LEMMA InitSerial == Init => SerialInv
<1>. SUFFICES ASSUME Init
              PROVE  SerialInv
  OBVIOUS
<1>. DEFINE a == [n \in Nodes |-> 0]
<1>1. a \in [Nodes -> Numbers]
  <2>1. 0 \in Numbers
    BY StartsAssumption, Members DEF Init
  <2>. QED
    BY <2>1
<1>2. Quiet
  <2>1. \A n \in Nodes : client[n] = Idle /\ loop[n] = None /\ \A m \in Nodes : chan[n][m] = <<>>
    BY DEF Init
  <2>2. Idle.pc = "idle"
    BY DEF Idle
  <2>. QED
    BY <2>1, <2>2 DEF Quiet
<1>3. Rests(a)
  <2>1. seen.last = None
    BY DEF Init
  <2>. QED
    BY <2>1, NoneAssumption DEF Rests
<1>4. ~ crossed
  BY DEF Init
<1>. QED
  BY <1>1, <1>2, <1>3, <1>4 DEF SerialInv, OneCall

\* Every step leaves at most one call, and what it has brought about.
LEMMA StepSerial == Types /\ CallInv /\ MemberInv /\ SerialInv /\ [Next]_vars => SerialInv'
<1>. SUFFICES ASSUME Types, CallInv, MemberInv, SerialInv, [Next]_vars, Serial'
              PROVE  ~ crossed' /\ \E b \in [Nodes -> Numbers] : OneCall(b)'
  BY DEF SerialInv
<1>1. CASE UNCHANGED vars
  <2>1. /\ UNCHANGED <<mode, listed, peers, disk, chan, loop, client, dead, crossed, seen>>
    BY <1>1 DEF vars, connVars
  <2>2. Serial
    BY <2>1 DEF Serial
  <2>3. PICK a \in [Nodes -> Numbers] : OneCall(a)
    BY <2>2 DEF SerialInv
  <2>4. Split' = Split /\ Total' = Total /\ Connected' = Connected /\ Rests(a)' = Rests(a)
    BY <2>1, SameModes, SameRests
  <2>5. Quiet' = Quiet
    BY <2>1 DEF Quiet
  <2>6. ASSUME NEW n \in listed, Phase(n, a)
        PROVE  Phase(n, a)'
    <3>1. /\ Same
          /\ Alone(n)' = Alone(n) /\ OnlyFrom(n)' = OnlyFrom(n) /\ NoLoops' = NoLoops
          /\ Later(n)' = Later(n) /\ Now(n)' = Now(n) /\ Left(n)' = Left(n)
      BY <2>1 DEF Same, Alone, OnlyFrom, NoLoops, Later, Now, Left
    <3>2. StorePhase(n, a) => StorePhase(n, a)'
      <4>1. \A p, i : /\ Untold(n, p)' = Untold(n, p) /\ Holds(p, i)' = Holds(p, i)
                      /\ Job(i)' = Job(i)
        BY <2>1, <2>4, SameModes DEF Untold, Holds
      <4>2. \A p, i : Told(n, p, i)' = Told(n, p, i) /\ Sent(n, p, i)' = Sent(n, p, i)
        BY <2>1, <2>4, <4>1 DEF Told, Sent
      <4>3. InTurn(n, a)' = InTurn(n, a)
        BY <2>1, <2>4, <3>1 DEF InTurn, Distinct
      <4>. QED
        BY <2>1, <2>4, <3>1, <4>1, <4>2, <4>3 DEF StorePhase
    <3>3. AskPhase(n, a) => AskPhase(n, a)'
      <4>1. \A p, f : /\ Asked(n, p)' = Asked(n, p) /\ Nothing(n, p)' = Nothing(n, p)
                      /\ Answered(n, p, f)' = Answered(n, p, f)
        BY <2>1 DEF Asked, Nothing, Answered
      <4>2. \A f : decrypt(f)' = decrypt(f)
        BY <2>1 DEF decrypt, EncType
      <4>3. {decrypt(disk[p]) : p \in listed \ Left(n)}' = {decrypt(disk[p]) : p \in listed \ Left(n)}
        BY <2>1, <3>1, <4>2
      <4>4. \A p : Answered(n, p, disk[p])' = Answered(n, p, disk[p])
        BY <2>1 DEF Answered
      <4>. QED
        BY <2>1, <2>4, <3>1, <4>1, <4>3, <4>4 DEF AskPhase
    <3>4. RemovePhase(n) => RemovePhase(n)'
      BY <2>1, <3>1 DEF RemovePhase
    <3>. QED
      BY <2>6, <3>2, <3>3, <3>4 DEF Phase
  <2>7. OneCall(a)'
    BY <2>1, <2>3, <2>4, <2>5, <2>6 DEF OneCall
  <2>. QED
    BY <2>1, <2>2, <2>7 DEF SerialInv
<1>2. ASSUME NEW n \in Nodes, Step(n), ~ crossed
      PROVE  ~ crossed' /\ \E b \in [Nodes -> Numbers] : OneCall(b)'
  <2>1. CASE Add(n) \/ \E m \in Nodes : OnPeer(n, m)
    <3>1. PICK a \in [Nodes -> Numbers] : TRUE
      BY <2>1, GrowthIsQuiet DEF SerialInv
    <3>. QED
      BY <1>2, <2>1, <3>1, GrowthIsQuiet DEF OneCall
  <2>2. CASE Request(n)
    BY <2>2, RequestIsSerial
  <2>3. CASE Client(n) \/ EventLoop(n)
    <3>1. UNCHANGED <<listed, crossed>> /\ Serial
      BY <2>3, GoingOnIsSerial
    <3>2. Base
      BY <3>1 DEF Base
    <3>3. ~ Quiet
      BY <2>3, NothingGoesOn
    <3>4. PICK a \in [Nodes -> Numbers], m \in listed : Phase(m, a)
      BY <3>1, <3>3 DEF SerialInv, OneCall
    <3>5. m \in Nodes
      BY DEF Types
    <3>6. \E b \in [Nodes -> Numbers] : Phase(m, b)' \/ (Quiet' /\ Rests(b)')
      BY <2>3, <3>2, <3>4, <3>5, StorePhaseGoesOn, AskPhaseGoesOn, RemovePhaseGoesOn DEF Phase
    <3>. QED
      BY <1>2, <3>1, <3>6 DEF OneCall
  <2>4. CASE \E p \in Nodes : Cross(n, p)
    <3>1. PICK p \in Nodes : Cross(n, p)
      BY <2>4
    <3>2. Serial
      BY <3>1 DEF Cross, Serial
    <3>3. Base
      BY <3>2 DEF Base
    <3>4. ~ Quiet
      BY <3>1, NothingGoesOn
    <3>5. PICK a \in [Nodes -> Numbers], m \in listed : Phase(m, a)
      BY <3>2, <3>4 DEF SerialInv, OneCall
    <3>6. m \in Nodes
      BY DEF Types
    <3>. QED
      BY <3>1, <3>3, <3>5, <3>6, NoCrossing
  <2>5. CASE Crash(n)
    BY <2>5 DEF Crash, Stops, Serial
  <2>. QED
    BY <1>2, <2>1, <2>2, <2>3, <2>4, <2>5 DEF Step
<1>. QED
  BY <1>1, <1>2 DEF Next

\* As long as calls do not overlap and no node dies, one node has a call, and what is on
\* the connections, in the event loops and on the disks is what that call has brought about.
THEOREM AlwaysSerial == Spec => [](MemberInv /\ SerialInv)
<1>1. Inv /\ MemberInv /\ SerialInv /\ [Next]_vars => MemberInv' /\ SerialInv'
  BY StepMembers, StepSerial DEF Inv
<1>. QED
  BY <1>1, InitMembers, InitSerial, FilesFit, PTL DEF Spec

\* Calls that do not overlap, in a mesh where nobody dies, keep to themselves: no stream
\* or message is taken by another reader than the one it is for.
THEOREM SerialCallsNeverCross == Spec => [](~ seen.overlapped /\ dead = {} => ~ crossed)
<1>1. SerialInv => (~ seen.overlapped /\ dead = {} => ~ crossed)
  BY DEF SerialInv, Serial
<1>. QED
  BY <1>1, AlwaysSerial, PTL

-----------------------------------------------------------------------------
(* What a call leaves.                                                      *)

\* As many different numbers as parts are all the numbers.
LEMMA AllNumbers ==
  ASSUME Base, Split, NEW a \in [Nodes -> Numbers], Distinct(listed, a)
  PROVE  {a[p] : p \in listed} = 1 .. Cardinality(listed)
<1>1. /\ Total = Cardinality(listed) /\ Total \in Nat /\ IsFiniteSet(listed)
      /\ listed \subseteq Nodes
  BY TotalNumber DEF Total
<1>. DEFINE t == Total
<1>2. /\ \A p \in listed : a[p] \in 1 .. t
      /\ \A p, q \in listed : p # q => a[p] # a[q]
  BY DEF Distinct
<1>3. ASSUME NEW i \in 1 .. t, \A p \in listed : a[p] # i
      PROVE  FALSE
  <2>. DEFINE T == (1 .. t) \ {i}
              f == [p \in listed |-> a[p]]
  <2>1. IsFiniteSet(1 .. t) /\ Cardinality(1 .. t) = t
    <3>1. 1 \in Int /\ t \in Int /\ t >= 1
      BY <1>1
    <3>2. IsFiniteSet(1 .. t) /\ Cardinality(1 .. t) = IF 1 > t THEN 0 ELSE t - 1 + 1
      BY <3>1, FS_Interval
    <3>. QED
      BY <1>1, <3>1, <3>2
  <2>2. IsFiniteSet(T) /\ Cardinality(T) = t - 1
    BY <2>1, FS_RemoveElement
  <2>3. f \in [listed -> T]
    BY <1>2, <1>3
  <2>4. Cardinality(T) < Cardinality(listed)
    BY <1>1, <2>2
  <2>. HIDE DEF T
  <2>5. \E p, q \in listed : p # q /\ f[p] = f[q]
    <3>. HIDE DEF f
    <3>. QED
      BY <1>1, <2>2, <2>3, <2>4, FS_PigeonHole
  <2>. QED
    BY <1>2, <2>5
<1>. QED
  BY <1>1, <1>2, <1>3

\* What is on the disk of a member, where files are cut into parts, is its part of the file.
LEMMA DecryptsToPart ==
  ASSUME Inv, Base, Split, NEW p \in Nodes, disk[p] # None
  PROVE  /\ disk[p] \in Files /\ decrypt(disk[p]) \in Files /\ IsTheFile(decrypt(disk[p]))
         /\ decrypt(disk[p]).part = disk[p].part /\ decrypt(disk[p]).total = disk[p].total
<1>1. Types /\ dead = {} /\ ~ seen.cut
  BY DEF Base, MemberInv, Serial
<1>2. Kept(seen.totals, disk[p])
  BY <1>1 DEF Inv, FileInv, Sound, DiskInv
<1>3. disk[p] \in Files /\ mode \in Modes
  BY <1>1 DEF Types
<1>. QED
  BY <1>2, <1>3, Encryption DEF Kept, IsTheFile

\* LastCallDone: when all listed nodes are alive and connected and the calls did not overlap,
\* storeSplit has put each part on a node of its own, whichever node it was called at and in
\* whatever order the peers were told, storeAll a copy on each, and Remove has left nothing.
THEOREM LastCallsAreDone == Spec => []LastCallDone
<1>1. Inv /\ MemberInv /\ SerialInv => LastCallDone
  <2>. SUFFICES ASSUME Inv, MemberInv, SerialInv, Settled
                PROVE  /\ seen.last = "store" /\ Split =>
                              /\ {disk[n].part : n \in listed} = 1 .. Cardinality(listed)
                              /\ \A n \in listed : Content(disk[n]) = "file"
                       /\ seen.last = "store" /\ ~ Split => \A n \in listed : disk[n] # None
                       /\ seen.last = "remove" => \A n \in Nodes : disk[n] = None
    BY DEF LastCallDone
  <2>1. Base /\ Quiet /\ Connected /\ listed \subseteq Nodes
    BY DEF Settled, Inv, Base, Serial, Connected, Types
  <2>2. PICK a \in [Nodes -> Numbers] : Rests(a)
    <3>1. PICK a \in [Nodes -> Numbers] : OneCall(a)
      BY <2>1 DEF SerialInv, Base
    <3>2. ASSUME NEW n \in listed, Phase(n, a)
          PROVE  Rests(a)
      BY <2>1, <3>2, QuietPhase
    <3>. QED
      BY <3>1, <3>2 DEF OneCall
  <2>3. ASSUME seen.last = "store"
        PROVE  /\ \A n \in listed : disk[n] # None /\ disk[n].part = a[n]
               /\ Split => Distinct(listed, a)
    BY <2>1, <2>2, <2>3 DEF Rests, Placed, Holds
  <2>4. ASSUME seen.last = "store", Split
        PROVE  /\ {disk[n].part : n \in listed} = 1 .. Cardinality(listed)
               /\ \A n \in listed : Content(disk[n]) = "file"
    <3>1. {disk[n].part : n \in listed} = {a[n] : n \in listed}
      BY <2>3, <2>4
    <3>2. {a[n] : n \in listed} = 1 .. Cardinality(listed)
      BY <2>1, <2>3, <2>4, AllNumbers
    <3>3. \A n \in listed : IsTheFile(decrypt(disk[n]))
      BY <2>1, <2>3, <2>4, DecryptsToPart
    <3>. QED
      BY <3>1, <3>2, <3>3 DEF Content
  <2>5. seen.last = "remove" => \A n \in Nodes : disk[n] = None
    BY <2>1, <2>2 DEF Rests, Gone
  <2>. QED
    BY <2>3, <2>4, <2>5
<1>. QED
  BY <1>1, FilesFit, AlwaysSerial, PTL

\* In a Get on its own everything on the connections belongs to the Get.
LEMMA LoneGetAsks ==
  ASSUME Inv, MemberInv, SerialInv, NEW n \in Nodes, LoneGet(n)
  PROVE  \E a \in [Nodes -> Numbers] : n \in listed /\ AskPhase(n, a)
<1>1. Base /\ Split /\ seen.last = "store" /\ client[n].pc \in {"asked", "collect"}
      /\ listed \subseteq Nodes
  BY DEF LoneGet, Inv, Base, Serial, Types
<1>2. PICK a \in [Nodes -> Numbers] : OneCall(a)
  BY <1>1 DEF SerialInv, Base
<1>3. ~ Quiet
  BY <1>1 DEF Quiet
<1>4. PICK m \in listed : Phase(m, a)
  BY <1>2, <1>3 DEF OneCall
<1>5. m = n
  BY <1>1, <1>4, CallerIs DEF Phase, StorePhase, AskPhase, RemovePhase
<1>. QED
  BY <1>1, <1>4, <1>5 DEF Phase, StorePhase, RemovePhase

\* LoneGetFindsFile: the parts that a settled Store left on the nodes come to getSplit as
\* the answers it waits for, each from the peer that has it, and combineFile makes the file.
THEOREM LoneGetsFindFiles == Spec => []LoneGetFindsFile
<1>1. Inv /\ MemberInv /\ SerialInv => LoneGetFindsFile
  <2>. SUFFICES ASSUME Inv, MemberInv, SerialInv, NEW n \in Nodes, LoneGet(n)
                PROVE  /\ ~ crossed
                       /\ client[n].pc = "collect" /\ client[n].left = {} => Combine(n) = "file"
    BY DEF LoneGetFindsFile
  <2>1. /\ Base /\ Connected /\ Split /\ seen.last = "store"
        /\ client[n].pc \in {"asked", "collect"} /\ listed \subseteq Nodes
    BY DEF LoneGet, Inv, Base, Serial, Connected, Types
  <2>2. PICK a \in [Nodes -> Numbers] : n \in listed /\ AskPhase(n, a)
    BY LoneGetAsks
  <2>3. ASSUME client[n].pc = "collect", client[n].left = {}
        PROVE  Combine(n) = "file"
    <3>. DEFINE c == client[n]
    <3>1. /\ c.total = Total /\ c.parts = {decrypt(disk[p]) : p \in listed} /\ Placed(a)
      BY <2>1, <2>2, <2>3 DEF AskPhase, Left, Rests
    <3>2. \A p \in listed : disk[p] # None /\ disk[p].part = a[p] /\ disk[p].total = Total
      BY <3>1 DEF Placed, Holds
    <3>3. \A p \in listed : /\ IsTheFile(decrypt(disk[p])) /\ decrypt(disk[p]).part = a[p]
                            /\ decrypt(disk[p]).total = Total
      BY <2>1, <3>2, DecryptsToPart
    <3>4. {f.part : f \in c.parts} = {a[p] : p \in listed}
      BY <3>1, <3>3
    <3>5. {a[p] : p \in listed} = 1 .. Cardinality(listed) /\ Total = Cardinality(listed)
      BY <2>1, <3>1, AllNumbers DEF Placed, Total
    <3>6. Total # 0
      BY <2>1, <2>2, <3>5, TotalNumber, FS_EmptySet
    <3>7. \A f \in c.parts : IsTheFile(f) /\ f.total = c.total
      BY <3>1, <3>3
    <3>. QED
      BY <3>1, <3>4, <3>5, <3>6, <3>7 DEF Combine
  <2>. QED
    BY <2>1, <2>3 DEF SerialInv, Base
<1>. QED
  BY <1>1, FilesFit, AlwaysSerial, PTL

\* A Get waits for nothing that does not come: each peer it has still to read has the
\* question before it and an event loop that is free to take it, or has answered with its
\* part, whole.
AnswerDue(n, p) ==
    \/ chan[n][p] = <<MessageGetFile>> /\ loop[p] = None /\ n \in peers[p]
    \/ chan[p][n] = <<Stream("answer", disk[p])>> /\ disk[p].whole

\* A Get of what a settled Store left does not wait in vain: what LoneGetGoesOn says with
\* ENABLED, in terms of what Collect and handleMessageGetFile need.
THEOREM LoneGetsAreAnswered ==
  Spec => [](\A n \in Nodes : LoneGet(n) /\ client[n].pc = "collect" =>
                 \A p \in client[n].left : AnswerDue(n, p))
<1>1. Inv /\ MemberInv /\ SerialInv =>
          \A n \in Nodes : LoneGet(n) /\ client[n].pc = "collect" =>
              \A p \in client[n].left : AnswerDue(n, p)
  <2>. SUFFICES ASSUME Inv, MemberInv, SerialInv, NEW n \in Nodes, LoneGet(n),
                       client[n].pc = "collect", NEW p \in client[n].left
                PROVE  AnswerDue(n, p)
    OBVIOUS
  <2>1. /\ Base /\ Connected /\ Split /\ seen.last = "store"
    BY DEF LoneGet, Inv, Base, Serial, Connected
  <2>2. PICK a \in [Nodes -> Numbers] : n \in listed /\ AskPhase(n, a)
    BY LoneGetAsks
  <2>3. p \in peers[n] /\ p \in Nodes /\ p \in listed /\ p # n
    BY <2>1, Peers
  <2>4. Asked(n, p) \/ Answered(n, p, disk[p])
    BY <2>1, <2>2 DEF AskPhase, Left
  <2>5. n \in peers[p] /\ loop[p] = None
    BY <2>1, <2>2, <2>3 DEF Connected, AskPhase, NoLoops
  <2>6. disk[p].whole
    <3>1. disk[p] # None
      BY <2>1, <2>2, <2>3 DEF AskPhase, Rests, Placed, Holds
    <3>2. Kept(seen.totals, disk[p])
      BY <2>1, <2>3, <3>1 DEF Base, MemberInv, Serial, Inv, FileInv, Sound, DiskInv
    <3>. QED
      BY <3>2 DEF Kept
  <2>. QED
    BY <2>4, <2>5, <2>6 DEF AnswerDue, Asked, Answered
<1>. QED
  BY <1>1, FilesFit, AlwaysSerial, PTL


-----------------------------------------------------------------------------
(* A Get on its own comes to its end: every step brings it nearer.           *)

\* The questions of n that no peer has taken, the answers n has still to read.
Questions(n) == {p \in peers[n] : chan[n][p] # <<>>}
ToRead(n) == IF client[n].pc = "asked" THEN Cardinality(peers[n]) + 1
             ELSE Cardinality(client[n].left)
Work(n) == Cardinality(Questions(n)) + ToRead(n)

\* There are as many questions and answers as peers at most, so that they can be counted.
LEMMA WorkIsFinite ==
  ASSUME Base, NEW n \in Nodes
  PROVE  /\ IsFiniteSet(peers[n]) /\ IsFiniteSet(Questions(n)) /\ IsFiniteSet(client[n].left)
         /\ Cardinality(peers[n]) \in Nat /\ Cardinality(Questions(n)) \in Nat
         /\ Cardinality(client[n].left) \in Nat
<1>1. peers[n] \subseteq Nodes /\ client[n].left \subseteq peers[n] /\ Questions(n) \subseteq peers[n]
  BY Peers DEF Questions
<1>2. IsFiniteSet(peers[n])
  BY <1>1, StartsAssumption, FS_Subset
<1>3. IsFiniteSet(Questions(n)) /\ IsFiniteSet(client[n].left)
  BY <1>1, <1>2, FS_Subset
<1>. QED
  BY <1>2, <1>3, FS_CardinalityType

\* An answer that is read is one less to read.
LEMMA CollectWorks ==
  ASSUME Base, NEW n \in Nodes, NEW a \in [Nodes -> Numbers], AskPhase(n, a),
         NEW p \in Nodes, Collect(n, p)
  PROVE  Work(n)' < Work(n)
<1>. DEFINE f == Head(chan[p][n]).file
            e == Collected(n, f)
            l == client[n].left \ {p}
<1>1. Types /\ client[n] \in Calls /\ client[n].left \subseteq peers[n] /\ n \notin peers[n]
  BY Peers DEF Base
<1>2. /\ client[n].pc = "collect" /\ p \in client[n].left /\ peers' = peers
      /\ client' = [client EXCEPT ![n] = [e EXCEPT !.left = l]] /\ chan' = Took(n, p)
  <2>1. e.left = client[n].left
    BY <1>1 DEF Collected, Calls
  <2>. QED
    BY <2>1 DEF Collect, Goes, Took
<1>3. DOMAIN e = DOMAIN client[n] /\ e.pc = "collect"
  BY <1>1, <1>2 DEF Collected, Calls
<1>4. DOMAIN client[n] = {"pc", "left", "at", "num", "total", "parts", "got"}
  BY <1>1 DEF Calls
<1>. HIDE DEF e
<1>5. [e EXCEPT !.left = l].pc = "collect" /\ [e EXCEPT !.left = l].left = l
  BY <1>3, <1>4
<1>6. client'[n].pc = "collect" /\ client'[n].left = l
  <2>. DEFINE d == [e EXCEPT !.left = l]
  <2>1. client' = [client EXCEPT ![n] = d] /\ d.pc = "collect" /\ d.left = l
    BY <1>2, <1>5
  <2>. HIDE DEF d
  <2>. QED
    BY <1>1, <2>1, GoesOn
<1>7. Questions(n)' = Questions(n)
  <2>1. \A j, k \in Nodes : Took(n, p)[j][k] = IF j = p /\ k = n THEN Tail(chan[p][n]) ELSE chan[j][k]
    BY <1>1, TookEffect
  <2>2. p # n /\ peers[n] \subseteq Nodes
    BY <1>1, <1>2, Peers
  <2>3. \A k \in peers[n] : chan'[n][k] = chan[n][k]
    BY <1>2, <2>1, <2>2
  <2>. QED
    BY <1>2, <2>3 DEF Questions
<1>8. Cardinality(l) = Cardinality(client[n].left) - 1
  BY <1>2, WorkIsFinite, FS_RemoveElement
<1>. HIDE DEF l
<1>. QED
  BY <1>2, <1>6, <1>7, <1>8, WorkIsFinite DEF Work, ToRead

\* A question that is taken is one less to take.
LEMMA ServeWorks ==
  ASSUME Base, NEW n \in Nodes, NEW a \in [Nodes -> Numbers], AskPhase(n, a),
         NEW m \in Nodes, NEW p \in Nodes, handleMessageGetFile(m, p)
  PROVE  Work(n)' < Work(n)
<1>1. Types /\ dead = {} /\ peers[n] \subseteq Nodes /\ n \notin peers[n]
  BY Peers DEF Base
<1>2. Waiting(m, p) /\ Head(chan[p][m]) = MessageGetFile /\ client' = client /\ peers' = peers
  BY DEF handleMessageGetFile, Handled
<1>3. p = n /\ m \in peers[n] /\ m # n /\ Asked(n, m)
  <2>1. ASSUME NEW f, Answered(n, p, f), m = n
        PROVE  FALSE
    BY <1>2, <2>1, ShortSequences, Different DEF Answered
  <2>. QED
    BY <1>2, <2>1, TakenDuringGet
<1>4. \A j, k \in Nodes : Took(m, n)[j][k] = IF j = n /\ k = m THEN <<>> ELSE chan[j][k]
  <2>1. Tail(chan[n][m]) = <<>>
    BY <1>3, ShortSequences DEF Asked
  <2>2. \A j, k \in Nodes : Took(m, n)[j][k] = IF j = n /\ k = m THEN Tail(chan[n][m])
                                                                  ELSE chan[j][k]
    BY <1>1, TookEffect
  <2>. QED
    BY <2>1, <2>2
<1>5. \A k \in Nodes : chan'[n][k] = Took(m, n)[n][k]
  <2>1. CASE disk[m] = None
    BY <1>3, <2>1 DEF handleMessageGetFile
  <2>2. CASE disk[m] # None
    <3>. DEFINE t == Took(m, n)
                y == Append(t[m][n], Stream("answer", disk[m]))
    <3>1. chan' = [t EXCEPT ![m] = [t[m] EXCEPT ![n] = y]]
      BY <1>1, <1>3, <2>2 DEF handleMessageGetFile
    <3>2. t \in [Nodes -> [Nodes -> Seq(Items)]]
      BY <1>1, <1>2, <1>3, TookAdds
    <3>. HIDE DEF t, y
    <3>3. chan'[n] = t[n]
      BY <1>3, <3>1, <3>2
    <3>. QED
      BY <3>3 DEF t
  <2>. QED
    BY <2>1, <2>2
<1>6. Questions(n)' = Questions(n) \ {m} /\ m \in Questions(n)
  <2>1. chan[n][m] # <<>>
    BY <1>3, ShortSequences DEF Asked
  <2>. QED
    BY <1>1, <1>2, <1>3, <1>4, <1>5, <2>1 DEF Questions
<1>7. Cardinality(Questions(n)') = Cardinality(Questions(n)) - 1
  BY <1>6, WorkIsFinite, FS_RemoveElement
<1>8. ToRead(n)' = ToRead(n) /\ ToRead(n) \in Nat
  BY <1>2, WorkIsFinite DEF ToRead
<1>. QED
  BY <1>7, <1>8, WorkIsFinite DEF Work

\* The answers are still all to be read when n starts to read them.
LEMMA ReadAnswersWorks ==
  ASSUME Base, NEW n \in Nodes, ReadAnswers(n)
  PROVE  Work(n)' < Work(n)
<1>. DEFINE c == [client[n] EXCEPT !.pc = "collect", !.left = peers[n]]
<1>1. Types /\ client[n] \in Calls
  BY Peers DEF Base
<1>2. /\ client[n].pc = "asked" /\ client' = [client EXCEPT ![n] = c] /\ peers' = peers
      /\ chan' = chan
  BY DEF ReadAnswers, Goes
<1>3. c.pc = "collect" /\ c.left = peers[n]
  BY <1>1 DEF Calls
<1>. HIDE DEF c
<1>4. client'[n].pc = "collect" /\ client'[n].left = peers[n]
  BY <1>1, <1>2, <1>3, GoesOn
<1>5. Questions(n)' = Questions(n)
  BY <1>2 DEF Questions
<1>. QED
  BY <1>2, <1>4, <1>5, WorkIsFinite DEF Work, ToRead

\* There are no other steps.
LEMMA GetWorks ==
  ASSUME Base, NEW n \in Nodes, NEW a \in [Nodes -> Numbers], AskPhase(n, a),
         NEW k \in Nodes, Client(k) \/ EventLoop(k), client'[n].pc # "idle"
  PROVE  Work(n)' < Work(n)
<1>1. dead = {} /\ client[n].pc \in {"asked", "collect"} /\ loop[k] = None
  BY Peers DEF AskPhase, NoLoops
<1>2. client[k].pc # "idle" => k = n
  BY CallerIs DEF AskPhase
<1>3. CASE Client(k)
  <2>1. ASSUME NEW p \in Nodes, Collect(k, p)
        PROVE  Work(n)' < Work(n)
    <3>1. k = n
      BY <1>2, <2>1 DEF Collect
    <3>. QED
      BY <2>1, <3>1, CollectWorks
  <2>2. ASSUME NEW p \in Nodes, SendPart(k, p) \/ CollectFails(k, p)
        PROVE  FALSE
    BY <1>1, <1>2, <2>2 DEF SendPart, CollectFails, EndOfFile
  <2>3. ~ SendData(k) /\ ~ SendFails(k) /\ ~ StoreReturns(k) /\ ~ StreamAll(k) /\ ~ DeleteLocal(k)
    BY <1>1, <1>2 DEF SendData, SendFails, StoreReturns, StreamAll, DeleteLocal
  <2>4. CASE ReadAnswers(k)
    <3>1. k = n
      BY <1>2, <2>4 DEF ReadAnswers
    <3>. QED
      BY <2>4, <3>1, ReadAnswersWorks
  <2>5. CASE GetReturns(k)
    <3>1. k = n
      BY <1>2, <2>5 DEF GetReturns
    <3>2. client'[n].pc = "idle"
      BY <2>5, <3>1, GetReturned DEF Base
    <3>. QED
      BY <3>2
  <2>. QED
    BY <1>3, <2>1, <2>2, <2>3, <2>4, <2>5 DEF Client
<1>4. CASE EventLoop(k)
  <2>1. ASSUME NEW p \in Nodes, handleMessageGetFile(k, p)
        PROVE  Work(n)' < Work(n)
    BY <2>1, ServeWorks
  <2>2. ASSUME NEW p \in Nodes, handleMessageDeleteFile(k, p) \/ handleMessageStoreFile(k, p)
        PROVE  FALSE
    <3>1. Waiting(k, p) /\ Head(chan[p][k]).type \in {"delete", "store"}
      BY <2>2, Different DEF handleMessageStoreFile, handleMessageDeleteFile, Handled
    <3>. QED
      BY <3>1, WaitingDuringGet
  <2>3. ~ StorePart(k) /\ ~ StorePartFails(k) /\ ~ Panic(k)
    BY <1>1 DEF StorePart, StorePartFails, Panic
  <2>. QED
    BY <1>4, <2>1, <2>2, <2>3 DEF EventLoop
<1>. QED
  BY <1>3, <1>4

\* A Get of what a settled Store left comes to its end: as long as it lasts, every step of
\* the mesh takes a question or an answer of it off a connection, or begins to read them.
\* With LoneGetsAreAnswered, by which such a step is always possible, it ends after at most
\* two steps for each peer, the one that begins to read, and its return.
THEOREM LoneGetsComeToAnEnd ==
  Spec => [][\A n \in Nodes : LoneGet(n) /\ LoneGet(n)' => Work(n)' < Work(n)]_vars
<1>1. Inv /\ MemberInv /\ SerialInv /\ [Next]_vars =>
          [\A n \in Nodes : LoneGet(n) /\ LoneGet(n)' => Work(n)' < Work(n)]_vars
  <2>. SUFFICES ASSUME Inv, MemberInv, SerialInv, Next, NEW n \in Nodes, LoneGet(n), LoneGet(n)'
                PROVE  Work(n)' < Work(n)
    OBVIOUS
  <2>1. /\ Base /\ Types /\ client[n].pc # "idle" /\ client'[n].pc # "idle" /\ Serial'
        /\ dead = {} /\ ~ Quiet
    <3>1. Types /\ CallInv /\ Serial /\ Serial' /\ dead = {}
      BY DEF LoneGet, Inv, Serial
    <3>2. client[n].pc # "idle" /\ client'[n].pc # "idle"
      BY DEF LoneGet
    <3>. QED
      BY <3>1, <3>2 DEF Base, Quiet
  <2>2. PICK a \in [Nodes -> Numbers] : n \in listed /\ AskPhase(n, a)
    BY LoneGetAsks
  <2>3. PICK k \in Nodes : Step(k)
    BY DEF Next
  <2>4. ~ Add(k) /\ ~ (\E m \in Nodes : OnPeer(k, m))
    <3>1. Add(k) \/ (\E m \in Nodes : OnPeer(k, m)) => Quiet
      BY <2>1, GrowthIsQuiet
    <3>. QED
      BY <2>1, <3>1
  <2>5. ~ Request(k)
    <3>1. \A last, ts : ~ Called(k, last, ts)
      BY <2>1, CalledSerially
    <3>. QED
      BY <3>1 DEF Request, storeSplit, storeAll, getAllLocal, AskPeers, Remove
  <2>6. ~ Crash(k)
    BY <2>1 DEF Crash, Stops, Serial
  <2>7. \A p \in Nodes : ~ Cross(k, p)
    BY <2>1, <2>2, NoCrossing DEF Phase
  <2>8. Client(k) \/ EventLoop(k)
    BY <2>3, <2>4, <2>5, <2>6, <2>7 DEF Step
  <2>. QED
    BY <2>1, <2>2, <2>8, GetWorks
<1>. QED
  BY <1>1, FilesFit, AlwaysSerial, PTL DEF Spec
================================================================================
