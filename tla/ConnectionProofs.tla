--------------------------- MODULE ConnectionProofs ---------------------------
(***************************************************************************)
(* Proofs about Connection: type correctness, that the messages of one     *)
(* thread are handled in order and at most once (HandledInOrder), and that *)
(* the handler of a part gets the whole stream the read loop announced     *)
(* (StreamIsWhole), for any threads, scripts, file size and capacity.      *)
(***************************************************************************)
EXTENDS Connection, SequenceTheorems, TLAPS

-----------------------------------------------------------------------------
(* Order.  The bytes of a message pass from the connection through rpc and   *)
(* rpcch to the handlers, and every stage is a queue: of two jobs of one     *)
(* thread the one further down was sent first.                               *)

\* x and y are not jobs of one thread, or x comes before y in its script.
InOrder(x, y) ==
    \A t \in Threads : \A a, b \in DOMAIN Script[t] :
        x = Script[t][a] /\ y = Script[t][b] => a < b

\* The same, but both may be the same job.
NotAfter(x, y) ==
    \A t \in Threads : \A a, b \in DOMAIN Script[t] :
        x = Script[t][a] /\ y = Script[t][b] => a <= b

\* The sender has made call k of job x.
Made(x, k) ==
    \A t \in Threads : \A a \in DOMAIN Script[t] :
        x = Script[t][a] => a < at[t].job \/ (a = at[t].job /\ k < at[t].call)

\* The call that writes a byte.
CallOf == [tag |-> 1, gob |-> 2, rest |-> 2, signal |-> 3, data |-> 4]

\* The jobs the read loop has decoded, from the newest to the oldest.
Decodes(x) ==
    \/ x = rpc
    \/ \E i \in DOMAIN rpcch : rpcch[i] = x
    \/ \E i \in DOMAIN handled : handled[i] = x

\* A byte that has been written and not read.
OnWire(b) == \E i \in DOMAIN wire : wire[i] = b

\* What the handlers and the WaitGroup are doing.
StageInv ==
    /\ reader.pc # "waiting" => wg = 0
    /\ handler.pc = "copy" => handler.job.type = "mesh"
    /\ handler.pc \in {"signal", "drain"} => handler.job.type = "chord"
    /\ handler.pc # "idle" => \E i \in DOMAIN handled : handled[i] = handler.job

SentInv ==
    /\ \A b \in Bytes : OnWire(b) => Made(b.job, CallOf[b.kind])
    /\ \A x \in Jobs : Decodes(x) => Made(x, 2)

QueueInv ==
    /\ \A i, k \in DOMAIN handled : i < k => InOrder(handled[i], handled[k])
    /\ \A i, k \in DOMAIN rpcch : i < k => InOrder(rpcch[i], rpcch[k])
    /\ \A i \in DOMAIN handled : InOrder(handled[i], rpc)
    /\ \A i \in DOMAIN rpcch : InOrder(rpcch[i], rpc)
    /\ \A i \in DOMAIN handled, k \in DOMAIN rpcch : InOrder(handled[i], rpcch[k])

LineInv ==
    /\ \A x \in Jobs, i \in DOMAIN wire : Decodes(x) =>
           /\ NotAfter(x, wire[i].job)
           /\ wire[i].kind = "gob" => InOrder(x, wire[i].job)
    /\ \A i, k \in DOMAIN wire : i < k =>
           /\ NotAfter(wire[i].job, wire[k].job)
           /\ wire[i].kind = "gob" /\ wire[k].kind = "gob" =>
                  InOrder(wire[i].job, wire[k].job)

-----------------------------------------------------------------------------
(* Streams.  While only the thread of f has written, the bytes of f lie next *)
(* to each other.                                                            *)

Signal(f) == Byte("signal", f, 1)

\* Call k of job f is the next one its thread makes.
NextCall(f, k) ==
    \A t \in Threads : \A a \in DOMAIN Script[t] :
        f = Script[t][a] => at[t] = [job |-> a, call |-> k]

\* What follows the bytes of f up to the signal.
SegmentInv(f) ==
    \A i \in DOMAIN wire :
        /\ wire[i].kind = "gob" /\ wire[i].job = f =>
               i < Len(wire) /\ wire[i + 1] = Byte("rest", f, 1)
        /\ wire[i] = Byte("rest", f, 1) =>
               \/ i = Len(wire) /\ NextCall(f, 3)
               \/ i < Len(wire) /\ wire[i + 1] = Signal(f)
        /\ wire[i] = Signal(f) =>
               /\ \A k \in DOMAIN wire : wire[k] = Signal(f) => k = i
               /\ \/ i = Len(wire) /\ NextCall(f, 4)
                  \/ /\ i + Size <= Len(wire)
                     /\ \A k \in 1 .. Size : wire[i + k] = Data(f)[k]

\* When f has been decoded its signal is the next thing to read, if it is still to
\* be read at all.
FreshInv(f) ==
    Decodes(f) =>
        /\ NextCall(f, 3) => wire = <<>>
        /\ \A i \in DOMAIN wire : wire[i] = Signal(f) => i = 1

\* A handler of f that has read anything has missed the signal.
LateInv(f) ==
    handler.pc = "copy" /\ handler.job = f /\ handler.buf # <<>> =>
        Made(f, 3) /\ \A i \in DOMAIN wire : wire[i] # Signal(f)

\* Bytes that begin with the data of f.
Fits(f, s) == Len(s) >= Size /\ \A k \in 1 .. Size : s[k] = Data(f)[k]

\* The data of f come next, if the sender stays.
Awaited(f) == closed \/ NextCall(f, 4)

\* What is left of the stream of f.
Aligned(f, s) == (s = <<>> /\ Awaited(f)) \/ Fits(f, s)

\* The read loop took the signal of f and waits for the stream to be closed.
OpenInv(f) ==
    reader.on = Signal(f) /\ wg = 1 =>
        /\ \A x \in Jobs : Decodes(x) => NotAfter(x, f)
        /\ handler.pc = "idle" => Aligned(f, wire)
        /\ handler.pc = "copy" /\ handler.job = f => Aligned(f, handler.buf \o wire)
        /\ handler.pc # "signal"

StreamInv(f) ==
    Undisturbed(f) => SegmentInv(f) /\ FreshInv(f) /\ LateInv(f) /\ OpenInv(f)

-----------------------------------------------------------------------------
(* The constants.                                                           *)

\* Every place of a script holds a job, no two places the same one.
LEMMA Scripts ==
  /\ \A t \in Threads : /\ Len(Script[t]) \in Nat /\ DOMAIN Script[t] = 1 .. Len(Script[t])
                        /\ \A a \in DOMAIN Script[t] : a \in Nat \ {0} /\ Script[t][a] \in Jobs
  /\ \A x \in Jobs : \E t \in Threads : \E a \in DOMAIN Script[t] : x = Script[t][a]
  /\ \A t, u \in Threads : \A a \in DOMAIN Script[t], b \in DOMAIN Script[u] :
         Script[t][a] = Script[u][b] => t = u /\ a = b
  /\ \A x \in Jobs : x.type \in JobTypes
<1>1. ASSUME NEW t \in Threads
      PROVE  /\ Len(Script[t]) \in Nat /\ DOMAIN Script[t] = 1 .. Len(Script[t])
             /\ \A a \in DOMAIN Script[t] : a \in Nat \ {0} /\ Script[t][a].type \in JobTypes
  <2>. DEFINE Job == [type : JobTypes, name : STRING]
  <2>1. Script[t] \in Seq(Job)
    BY ScriptAssumption
  <2>2. \A x \in Job : x.type \in JobTypes
    OBVIOUS
  <2>. HIDE DEF Job
  <2>. QED
    BY <2>1, <2>2
<1>2. \A t \in Threads : \A a \in DOMAIN Script[t] : Script[t][a] \in Jobs
  BY DEF Jobs, Range
<1>3. \A x \in Jobs : \E t \in Threads : \E a \in DOMAIN Script[t] : x = Script[t][a]
  BY DEF Jobs, Range
<1>. QED
  BY <1>1, <1>2, <1>3, ScriptAssumption

\* A job has one place.
LEMMA OnePlace ==
  ASSUME NEW t \in Threads, NEW u \in Threads,
         NEW a \in DOMAIN Script[t], NEW b \in DOMAIN Script[u], Script[t][a] = Script[u][b]
  PROVE  t = u /\ a = b
BY Scripts

\* The fields of a byte.
LEMMA ByteFields ==
  ASSUME NEW k, NEW j, NEW i
  PROVE  Byte(k, j, i).kind = k /\ Byte(k, j, i).job = j /\ Byte(k, j, i).pos = i
BY DEF Byte

\* What a call writes.
LEMMA Written ==
  ASSUME NEW j \in Jobs, NEW k \in 1 .. 4
  PROVE  /\ Write(j, k) \in Seq(Bytes)
         /\ k = 1 => Len(Write(j, k)) = 1 /\ Write(j, k)[1] = Byte("tag", j, 1)
         /\ k = 2 => /\ Len(Write(j, k)) = 2 /\ Write(j, k)[1] = Byte("gob", j, 1)
                     /\ Write(j, k)[2] = Byte("rest", j, 1)
         /\ k = 3 => Len(Write(j, k)) = 1 /\ Write(j, k)[1] = Byte("signal", j, 1)
         /\ k = 4 => /\ Len(Write(j, k)) = Size
                     /\ \A i \in 1 .. Size : Write(j, k)[i] = Data(j)[i] /\ Data(j)[i].kind = "data"
                                             /\ Data(j)[i].job = j
<1>1. Size \in Nat \ {0}
  BY BoundsAssumption
<1>2. \A kind \in {"tag", "gob", "rest", "signal"} : Byte(kind, j, 1) \in Bytes
  BY <1>1 DEF Byte, Bytes
<1>3. \A i \in 1 .. Size : Byte("data", j, i) \in Bytes
  BY DEF Byte, Bytes
<1>4. k = 1 => Write(j, k) = <<Byte("tag", j, 1)>>
  BY DEF Write
<1>5. k = 2 => Write(j, k) = <<Byte("gob", j, 1), Byte("rest", j, 1)>>
  BY DEF Write, Body
<1>6. k = 3 => Write(j, k) = <<Byte("signal", j, 1)>>
  BY DEF Write
<1>7. k = 4 => Write(j, k) = Data(j)
  BY DEF Write
<1>8. /\ Data(j) \in Seq(Bytes) /\ Len(Data(j)) = Size
      /\ \A i \in 1 .. Size : Data(j)[i] = Byte("data", j, i)
  <2>1. Data(j) \in [1 .. Size -> Bytes]
    BY <1>3 DEF Data
  <2>. QED
    BY <1>1, <2>1 DEF Data
<1>9. \A i \in 1 .. Size : Data(j)[i].kind = "data" /\ Data(j)[i].job = j
  BY <1>8, ByteFields
<1>10. Write(j, k) \in Seq(Bytes)
  <2>0. /\ Byte("tag", j, 1) \in Bytes /\ Byte("gob", j, 1) \in Bytes
        /\ Byte("rest", j, 1) \in Bytes /\ Byte("signal", j, 1) \in Bytes
    BY <1>2
  <2>1. \A b, c \in Bytes : <<b>> \in Seq(Bytes) /\ <<b, c>> \in Seq(Bytes)
    OBVIOUS
  <2>2. CASE k = 1 \/ k = 3
    <3>1. <<Byte("tag", j, 1)>> \in Seq(Bytes) /\ <<Byte("signal", j, 1)>> \in Seq(Bytes)
      BY <2>0, <2>1
    <3>. QED
      BY <1>4, <1>6, <2>2, <3>1
  <2>3. CASE k = 2
    <3>1. <<Byte("gob", j, 1), Byte("rest", j, 1)>> \in Seq(Bytes)
      BY <2>0, <2>1
    <3>. QED
      BY <1>5, <2>3, <3>1
  <2>4. CASE k = 4
    BY <1>7, <1>8, <2>4
  <2>. QED
    BY <2>2, <2>3, <2>4
<1>. QED
  BY <1>4, <1>5, <1>6, <1>7, <1>8, <1>9, <1>10

-----------------------------------------------------------------------------
(* What the steps do to the connection.                                     *)

\* The first n bytes are read.
Dropped(n) ==
    /\ n \in 0 .. Len(wire)
    /\ wire' \in Seq(Bytes) /\ Len(wire') = Len(wire) - n
    /\ \A i \in 1 .. Len(wire') : wire'[i] = wire[i + n]

\* Reading a byte.
LEMMA TailDrops ==
  ASSUME TypeOK, wire # <<>>, wire' = Tail(wire)
  PROVE  Dropped(1) /\ Len(wire) \in Nat \ {0} /\ Head(wire) = wire[1] /\ wire[1] \in Bytes
BY DEF TypeOK, Dropped

\* The job thread t is at, and the call it makes next.
Job(t) == Script[t][at[t].job]
Call(t) == at[t].call

\* One more call of thread t.
LEMMA SendEffect ==
  ASSUME TypeOK, NEW t \in Threads, Send(t)
  PROVE  /\ at[t].job \in DOMAIN Script[t] /\ Job(t) \in Jobs /\ Call(t) \in 1 .. 4 /\ ~ closed
         /\ wire' \in Seq(Bytes) /\ Len(wire') = Len(wire) + Len(Write(Job(t), Call(t)))
         /\ \A i \in 1 .. Len(wire) : wire'[i] = wire[i]
         /\ \A i \in 1 .. Len(Write(Job(t), Call(t))) :
                wire'[Len(wire) + i] = Write(Job(t), Call(t))[i]
         /\ at' \in [Threads -> [job : Nat \ {0}, call : 1 .. 4]]
         /\ \A u \in Threads \ {t} : at'[u] = at[u]
         /\ \/ /\ Call(t) < Calls(Job(t))
               /\ at'[t].job = at[t].job /\ at'[t].call = Call(t) + 1
            \/ /\ Calls(Job(t)) <= Call(t)
               /\ at'[t].job = at[t].job + 1 /\ at'[t].call = 1
         /\ UNCHANGED <<closed, receiver>>
<1>. DEFINE j == Job(t)
            k == Call(t)
<1>1. at[t].job \in DOMAIN Script[t] /\ j \in Jobs /\ ~ closed
  BY Scripts DEF Send, Job
<1>2. k \in 1 .. 4 /\ at[t].job \in Nat \ {0} /\ Calls(j) \in {2, 4}
  BY DEF TypeOK, Calls, Call
<1>. HIDE DEF j, k
<1>3. Write(j, k) \in Seq(Bytes)
  BY <1>1, <1>2, Written
<1>4. wire' = wire \o Write(j, k)
  BY DEF Send, Job, Call, j, k
<1>5. /\ wire' \in Seq(Bytes) /\ Len(wire') = Len(wire) + Len(Write(j, k))
      /\ \A i \in 1 .. Len(wire) : wire'[i] = wire[i]
      /\ \A i \in 1 .. Len(Write(j, k)) : wire'[Len(wire) + i] = Write(j, k)[i]
  <2>. DEFINE w == Write(j, k)
  <2>1. w \in Seq(Bytes) /\ wire \in Seq(Bytes) /\ wire' = wire \o w
    BY <1>3, <1>4 DEF TypeOK
  <2>. HIDE DEF w
  <2>2. /\ wire' \in Seq(Bytes) /\ Len(wire') = Len(wire) + Len(w)
        /\ \A i \in 1 .. Len(wire) : wire'[i] = wire[i]
        /\ \A i \in 1 .. Len(w) : wire'[Len(wire) + i] = w[i]
    BY <2>1
  <2>. QED
    BY <2>2 DEF w
<1>. DEFINE p == IF k < Calls(j) THEN [job |-> at[t].job, call |-> k + 1]
                 ELSE [job |-> at[t].job + 1, call |-> 1]
<1>6. at' = [at EXCEPT ![t] = p]
  BY DEF Send, Job, Call, j, k
<1>7. /\ p \in [job : Nat \ {0}, call : 1 .. 4]
      /\ \/ k < Calls(j) /\ p.job = at[t].job /\ p.call = k + 1
         \/ Calls(j) <= k /\ p.job = at[t].job + 1 /\ p.call = 1
  BY <1>2
<1>. HIDE DEF p
<1>8. /\ at' \in [Threads -> [job : Nat \ {0}, call : 1 .. 4]] /\ at'[t] = p
      /\ \A u \in Threads \ {t} : at'[u] = at[u]
  BY <1>6, <1>7 DEF TypeOK
<1>. QED
  BY <1>1, <1>2, <1>5, <1>7, <1>8 DEF Send, j, k

\* The read loop looks at a byte.
LEMMA PeekEffect ==
  ASSUME TypeOK, Peek
  PROVE  /\ reader.pc = "peek" /\ Len(wire) > 0 /\ wire[1] \in Bytes /\ Dropped(1)
         /\ \/ reader'.pc = "waiting" /\ reader'.on = wire[1] /\ wg' = wg + 1
            \/ reader'.pc = "body" /\ reader'.on = reader.on /\ wg' = wg
         /\ UNCHANGED <<at, closed, rpc, rpcch, handler, handled, ended, panicked, others>>
<1>1. wire # <<>> /\ wire' = Tail(wire) /\ reader.pc = "peek"
  BY DEF Peek
<1>2. Dropped(1) /\ Len(wire) > 0 /\ Head(wire) = wire[1] /\ wire[1] \in Bytes
  BY <1>1, TailDrops
<1>3. \/ reader' = [pc |-> "waiting", on |-> Head(wire)] /\ wg' = wg + 1
      \/ reader' = [reader EXCEPT !.pc = "body"] /\ wg' = wg
  BY DEF Peek
<1>4. \/ reader'.pc = "waiting" /\ reader'.on = wire[1] /\ wg' = wg + 1
      \/ reader'.pc = "body" /\ reader'.on = reader.on /\ wg' = wg
  BY <1>2, <1>3 DEF TypeOK
<1>. QED
  BY <1>1, <1>2, <1>4 DEF Peek

\* The read loop reads a payload: at most its first message is decoded.
LEMMA ReadBodyEffect ==
  ASSUME TypeOK, ReadBody
  PROVE  /\ reader.pc = "body" /\ reader'.pc = "push" /\ reader'.on = reader.on
         /\ \/ rpc' = None /\ \E n \in 1 .. Len(wire) : Dropped(n)
            \/ /\ 2 <= Len(wire) /\ wire[1].kind = "gob" /\ wire[2].kind = "rest"
               /\ rpc' = wire[1].job
               /\ \E n \in 2 .. Len(wire) : Dropped(n)
         /\ UNCHANGED <<at, closed, wg, rpcch, handler, handled, ended, panicked, others>>
<1>1. PICK n \in 1 .. Len(wire) : /\ rpc' = Decoded(SubSeq(wire, 1, n))
                                  /\ wire' = SubSeq(wire, n + 1, Len(wire))
  BY DEF ReadBody
<1>2. Len(wire) \in Nat /\ wire \in Seq(Bytes)
  BY DEF TypeOK
<1>3. Dropped(n)
  <2>. DEFINE r == SubSeq(wire, n + 1, Len(wire))
  <2>1. /\ r \in Seq(Bytes) /\ Len(r) = Len(wire) - n
        /\ \A i \in 1 .. Len(wire) - n : r[i] = wire[i + n]
    BY <1>2, SubSeqProperties
  <2>. HIDE DEF r
  <2>2. wire' = r
    BY <1>1 DEF r
  <2>. QED
    BY <1>2, <2>1, <2>2 DEF Dropped
<1>. DEFINE p == SubSeq(wire, 1, n)
<1>4. Len(p) = n /\ \A i \in 1 .. n : p[i] = wire[i]
  BY <1>2
<1>. HIDE DEF p
<1>5. \/ rpc' = None
      \/ n >= 2 /\ wire[1].kind = "gob" /\ wire[2].kind = "rest" /\ rpc' = wire[1].job
  <2>1. rpc' = Decoded(p)
    BY <1>1 DEF p
  <2>2. CASE n = 1
    BY <1>4, <2>1, <2>2 DEF Decoded
  <2>3. CASE n >= 2
    <3>1. p[1] = wire[1] /\ p[2] = wire[2]
      BY <1>4, <2>3
    <3>. QED
      BY <2>1, <2>3, <3>1 DEF Decoded
  <2>. QED
    BY <2>2, <2>3
<1>6. reader.pc = "body" /\ reader'.pc = "push" /\ reader'.on = reader.on
  BY DEF ReadBody, TypeOK
<1>. QED
  BY <1>2, <1>3, <1>5, <1>6 DEF ReadBody

\* The event loop takes a message.
LEMMA DispatchEffect ==
  ASSUME TypeOK, Dispatch
  PROVE  /\ handler.pc = "idle"
         /\ rpcch # <<>> /\ rpcch[1] \in Jobs \cup {None, Other}
         /\ rpcch' = Tail(rpcch)
         /\ \/ rpcch[1] \in {None, Other} /\ UNCHANGED <<handler, handled>>
            \/ /\ rpcch[1] \in Jobs /\ handled' = Append(handled, rpcch[1])
               /\ \/ handler' = Idle
                  \/ /\ rpcch[1].type = "mesh"
                     /\ handler' = [pc |-> "copy", job |-> rpcch[1], buf |-> <<>>]
                  \/ /\ rpcch[1].type = "chord"
                     /\ handler' = [pc |-> "signal", job |-> rpcch[1], buf |-> <<>>]
         /\ UNCHANGED <<at, wire, closed, reader, rpc, wg, ended, panicked, others>>
<1>. DEFINE j == Head(rpcch)
<1>1. rpcch # <<>> /\ j = rpcch[1] /\ j \in Jobs \cup {None, Other}
  BY DEF Dispatch, TypeOK
<1>. HIDE DEF j
<1>2. IF j \in {None, Other} THEN UNCHANGED <<handler, handled>>
      ELSE /\ handler' = IF j.type = "note" THEN Idle
                         ELSE [Idle EXCEPT !.pc = FirstPC[j.type], !.job = j]
           /\ handled' = Append(handled, j)
  BY DEF Dispatch, j
<1>3. CASE j \in {None, Other}
  BY <1>1, <1>2, <1>3 DEF Dispatch
<1>4. CASE j \notin {None, Other}
  <2>1. j \in Jobs /\ handled' = Append(handled, j)
    BY <1>1, <1>2, <1>4
  <2>2. j.type \in {"note", "mesh", "chord"}
    BY <2>1, Scripts DEF JobTypes
  <2>3. \/ handler' = Idle
        \/ j.type = "mesh" /\ handler' = [pc |-> "copy", job |-> j, buf |-> <<>>]
        \/ j.type = "chord" /\ handler' = [pc |-> "signal", job |-> j, buf |-> <<>>]
    <3>1. CASE j.type = "note"
      BY <1>2, <1>4, <3>1
    <3>2. CASE j.type = "mesh"
      <4>1. handler' = [Idle EXCEPT !.pc = "copy", !.job = j]
        BY <1>2, <1>4, <3>2 DEF FirstPC
      <4>. QED
        BY <3>2, <4>1 DEF Idle
    <3>3. CASE j.type = "chord"
      <4>1. handler' = [Idle EXCEPT !.pc = "signal", !.job = j]
        BY <1>2, <1>4, <3>3 DEF FirstPC
      <4>. QED
        BY <3>3, <4>1 DEF Idle
    <3>. QED
      BY <2>2, <3>1, <3>2, <3>3
  <2>. QED
    BY <1>1, <2>1, <2>3 DEF Dispatch
<1>. QED
  BY <1>3, <1>4

\* A handler reads a byte.
LEMMA CopyEffect ==
  ASSUME TypeOK, Copy
  PROVE  /\ handler.pc \in {"copy", "drain"} /\ wire # <<>> /\ Dropped(1)
         /\ wire[1] \in Bytes
         /\ handler'.pc = handler.pc /\ handler'.job = handler.job
         /\ handler'.buf = Append(handler.buf, wire[1])
         /\ handler' \in [pc : {"idle", "copy", "signal", "drain"}, job : Files \cup {None},
                          buf : Seq(Bytes)]
         /\ UNCHANGED <<at, closed, reader, rpc, wg, rpcch, handled, ended, panicked, others>>
<1>1. wire # <<>> /\ wire' = Tail(wire)
  BY DEF Copy
<1>2. Dropped(1) /\ Head(wire) = wire[1] /\ wire[1] \in Bytes
  BY <1>1, TailDrops
<1>3. handler.pc \in {"copy", "drain"}
  BY DEF Copy
<1>. DEFINE b == Append(handler.buf, wire[1])
<1>4. b \in Seq(Bytes)
  BY <1>2 DEF TypeOK
<1>. HIDE DEF b
<1>5. handler' = [handler EXCEPT !.buf = b]
  BY <1>2 DEF Copy, b
<1>. QED
  BY <1>1, <1>2, <1>3, <1>4, <1>5 DEF TypeOK, Copy, b
-----------------------------------------------------------------------------
(* Type correctness.                                                        *)

\* What a handler of a file that returns adds to the outcomes.
LEMMA ReturnsEffect ==
  ASSUME TypeOK, StageInv, handler.pc # "idle", NEW r \in Seq(Bytes) \cup {Failed}, Returns(r)
  PROVE  /\ handler' = Idle /\ Idle.pc = "idle"
         /\ Idle \in [pc : {"idle", "copy", "signal", "drain"}, job : Files \cup {None},
                      buf : Seq(Bytes)]
         /\ ended' \subseteq Files \X (Seq(Bytes) \cup {Failed})
         /\ ended' = ended \cup {<<handler.job, r>>}
<1>1. handler.job \in Files
  <2>1. \E i \in DOMAIN handled : handled[i] = handler.job
    BY DEF StageInv
  <2>2. handler.job \in Jobs /\ handler.job \in Files \cup {None}
    BY <2>1 DEF TypeOK
  <2>. QED
    BY <2>2, NoneAssumption
<1>2. handler' = Idle /\ ended' = ended \cup {<<handler.job, r>>}
  BY DEF Returns
<1>3. ended' \subseteq Files \X (Seq(Bytes) \cup {Failed})
  BY <1>1, <1>2 DEF TypeOK
<1>. QED
  BY <1>2, <1>3 DEF Idle

\* TypeOK and StageInv are kept.
LEMMA TypeStep ==
  ASSUME TypeOK, StageInv, [Next]_vars
  PROVE  TypeOK' /\ StageInv'
<1>. USE DEF TypeOK
<1>1. CASE \E t \in Threads : Send(t)
  <2>. PICK t \in Threads : Send(t)
    BY <1>1
  <2>1. /\ wire' \in Seq(Bytes) /\ at' \in [Threads -> [job : Nat \ {0}, call : 1 .. 4]]
        /\ UNCHANGED <<closed, receiver>>
        /\ \A u \in Threads \ {t} : at'[u] = at[u]
        /\ at'[t].job \in {at[t].job, at[t].job + 1} /\ at[t].job \in DOMAIN Script[t]
    BY SendEffect
  <2>2. ASSUME NEW u \in Threads
        PROVE  at'[u].job <= Len(Script[u]) + 1
    <3>1. CASE u = t
      <4>1. at[t].job \in 1 .. Len(Script[t]) /\ Len(Script[t]) \in Nat
        BY <2>1, Scripts
      <4>. QED
        BY <2>1, <3>1, <4>1
    <3>2. CASE u # t
      BY <2>1, <3>2
    <3>. QED
      BY <3>1, <3>2
  <2>. QED
    BY <2>1, <2>2 DEF receiver, StageInv
<1>2. CASE Close
  BY <1>2 DEF Close, receiver, StageInv
<1>3. CASE Peek
  <2>1. /\ reader.pc = "peek" /\ wire[1] \in Bytes /\ wire' \in Seq(Bytes)
        /\ \/ reader'.pc = "waiting" /\ reader'.on = wire[1] /\ wg' = wg + 1
           \/ reader'.pc = "body" /\ reader'.on = reader.on /\ wg' = wg
        /\ UNCHANGED <<at, closed, rpc, rpcch, handler, handled, ended, panicked, others>>
    BY <1>3, PeekEffect DEF Dropped
  <2>2. wg = 0
    BY <2>1 DEF StageInv
  <2>3. reader' \in [pc : {"peek", "body", "push", "waiting"}, on : Bytes \cup {None}]
    <3>1. \A stream \in LooksLikeStream(Head(wire)) :
              IF stream THEN [pc |-> "waiting", on |-> Head(wire)] = [pc |-> "waiting", on |-> wire[1]]
              ELSE TRUE
      BY <1>3 DEF Peek
    <3>2. \/ reader' = [pc |-> "waiting", on |-> wire[1]]
          \/ reader' = [reader EXCEPT !.pc = "body"]
      BY <1>3 DEF Peek
    <3>. QED
      BY <2>1, <3>2
  <2>. QED
    BY <2>1, <2>2, <2>3 DEF StageInv
<1>4. CASE PeekFails
  BY <1>4 DEF PeekFails, StageInv
<1>5. CASE ReadBody
  <2>1. /\ reader' = [reader EXCEPT !.pc = "push"]
        /\ UNCHANGED <<at, closed, wg, rpcch, handler, handled, ended, panicked, others>>
    BY <1>5 DEF ReadBody
  <2>2. /\ wire' \in Seq(Bytes) /\ reader.pc = "body" /\ reader'.pc = "push"
        /\ rpc' = None \/ (rpc' = wire[1].job /\ Len(wire) >= 2)
    BY <1>5, ReadBodyEffect DEF Dropped
  <2>3. Len(wire) >= 2 => wire[1].job \in Jobs
    <3>1. Len(wire) >= 2 => wire[1] \in Bytes
      OBVIOUS
    <3>. QED
      BY <3>1 DEF Bytes
  <2>. QED
    BY <2>1, <2>2, <2>3 DEF StageInv
<1>6. CASE ReadBodyFails
  BY <1>6 DEF ReadBodyFails, StageInv
<1>7. CASE Push
  <2>1. /\ rpcch' = Append(rpcch, rpc) /\ Len(rpcch) < ChanCap /\ rpc' = None
        /\ reader.pc = "push" /\ reader' = [reader EXCEPT !.pc = "peek"]
        /\ UNCHANGED <<at, wire, closed, wg, handler, handled, ended, panicked, others>>
    BY <1>7 DEF Push
  <2>2. rpcch' \in Seq(Jobs \cup {None, Other}) /\ Len(rpcch') <= ChanCap
    BY <2>1, BoundsAssumption
  <2>. QED
    BY <2>1, <2>2 DEF StageInv
<1>8. CASE Resume
  BY <1>8 DEF Resume, StageInv
<1>9. CASE PushOther
  <2>1. /\ rpcch' = Append(rpcch, Other) /\ Len(rpcch) < ChanCap
        /\ others > 0 /\ others' = others - 1
        /\ UNCHANGED <<at, wire, closed, reader, rpc, wg, handler, handled, ended, panicked>>
    BY <1>9 DEF PushOther
  <2>2. rpcch' \in Seq(Jobs \cup {None, Other}) /\ Len(rpcch') <= ChanCap
    BY <2>1, BoundsAssumption
  <2>3. others' \in 0 .. MaxOthers
    BY <2>1, OthersAssumption
  <2>. QED
    BY <2>1, <2>2, <2>3 DEF StageInv
<1>10. CASE Dispatch
  <2>1. rpcch' \in Seq(Jobs \cup {None, Other}) /\ Len(rpcch') <= ChanCap
    <3>1. rpcch # <<>> /\ rpcch' = Tail(rpcch)
      BY <1>10, DispatchEffect
    <3>. QED
      BY <3>1, BoundsAssumption
  <2>2. UNCHANGED <<at, wire, closed, reader, rpc, wg, ended, panicked, others>>
    BY <1>10, DispatchEffect
  <2>3. CASE UNCHANGED <<handler, handled>>
    BY <2>1, <2>2, <2>3 DEF StageInv
  <2>4. CASE rpcch[1] \in Jobs /\ handled' = Append(handled, rpcch[1])
    <3>. DEFINE j == rpcch[1]
    <3>1. handled' \in Seq(Jobs) /\ \E i \in DOMAIN handled' : handled'[i] = j
      <4>1. handled' \in Seq(Jobs) /\ Len(handled') = Len(handled) + 1 /\ Len(handled) \in Nat
        BY <2>4
      <4>2. Len(handled) + 1 \in DOMAIN handled' /\ handled'[Len(handled) + 1] = j
        BY <2>4, <4>1
      <4>. QED
        BY <4>1, <4>2
    <3>2. \/ handler' = Idle
          \/ j.type = "mesh" /\ handler' = [pc |-> "copy", job |-> j, buf |-> <<>>]
          \/ j.type = "chord" /\ handler' = [pc |-> "signal", job |-> j, buf |-> <<>>]
      <4>1. handler.pc = "idle" /\ handled' # handled
        BY <1>10, <2>4, DispatchEffect
      <4>2. rpcch[1] \notin {None, Other}
        BY <2>4, NoneAssumption, OthersAssumption
      <4>. QED
        BY <1>10, <4>2, DispatchEffect
    <3>3. j \in Jobs /\ (j.type \in {"mesh", "chord"} => j \in Files)
      BY <2>4 DEF Files
    <3>4. <<>> \in Seq(Bytes)
      OBVIOUS
    <3>. HIDE DEF j
    <3>5. handler' \in [pc : {"idle", "copy", "signal", "drain"}, job : Files \cup {None},
                        buf : Seq(Bytes)]
      <4>1. CASE handler' = Idle
        BY <3>4, <4>1 DEF Idle
      <4>2. CASE j \in Files /\ \E pc \in {"copy", "signal"} :
                     handler' = [pc |-> pc, job |-> j, buf |-> <<>>]
        BY <3>4, <4>2
      <4>. QED
        BY <3>2, <3>3, <4>1, <4>2
    <3>6. /\ handler'.pc = "copy" => handler'.job.type = "mesh"
          /\ handler'.pc \in {"signal", "drain"} => handler'.job.type = "chord"
          /\ handler'.pc # "idle" => handler'.job = j
      BY <3>2 DEF Idle
    <3>. QED
      BY <2>1, <2>2, <3>1, <3>5, <3>6 DEF StageInv
  <2>. QED
    BY <1>10, <2>3, <2>4, DispatchEffect
<1>11. CASE Copy
  <2>1. /\ wire' \in Seq(Bytes) /\ handler'.pc = handler.pc /\ handler'.job = handler.job
        /\ handler' \in [pc : {"idle", "copy", "signal", "drain"}, job : Files \cup {None},
                         buf : Seq(Bytes)]
        /\ UNCHANGED <<at, closed, reader, rpc, wg, rpcch, handled, ended, panicked, others>>
    BY <1>11, CopyEffect DEF Dropped
  <2>. QED
    BY <2>1 DEF StageInv
<1>12. CASE StorePart \/ StorePartFails
  <2>1. /\ handler.pc = "copy"
        /\ \/ Returns(handler.buf)
           \/ Returns(Failed)
        /\ \/ wg = 0 /\ panicked' = TRUE /\ wg' = wg
           \/ wg # 0 /\ wg' = wg - 1 /\ panicked' = panicked
           \/ wg' = wg /\ panicked' = panicked
        /\ UNCHANGED <<at, wire, closed, reader, rpc, rpcch, handled, others>>
    BY <1>12 DEF StorePart, StorePartFails, PartRead
  <2>2. /\ handler' = Idle /\ Idle.pc = "idle"
        /\ Idle \in [pc : {"idle", "copy", "signal", "drain"}, job : Files \cup {None},
                     buf : Seq(Bytes)]
        /\ ended' \subseteq Files \X (Seq(Bytes) \cup {Failed})
    <3>1. handler.buf \in Seq(Bytes)
      OBVIOUS
    <3>. QED
      BY <2>1, <3>1, ReturnsEffect
  <2>4. /\ wg' \in 0 .. 1
        /\ wg = 0 => wg' = 0
        /\ panicked' \in BOOLEAN
    <3>1. wg \in 0 .. 1 /\ (wg' = wg \/ (wg # 0 /\ wg' = wg - 1))
      BY <2>1
    <3>2. panicked' = TRUE \/ panicked' = panicked
      BY <2>1
    <3>3. panicked' \in BOOLEAN
      BY <3>2
    <3>. QED
      BY <3>1, <3>3
  <2>5. handler' \in [pc : {"idle", "copy", "signal", "drain"}, job : Files \cup {None},
                      buf : Seq(Bytes)]
    BY <2>2
  <2>6. TypeOK'
    BY <2>1, <2>2, <2>4, <2>5
  <2>7. StageInv'
    BY <2>1, <2>2, <2>4 DEF StageInv
  <2>. QED
    BY <2>6, <2>7
<1>13. CASE ReadSignal
  <2>1. /\ handler.pc = "signal"
        /\ \/ Returns(Failed)
           \/ handler' = [handler EXCEPT !.pc = "drain"] /\ ended' = ended
        /\ wire' = wire \/ (wire # <<>> /\ wire' = Tail(wire))
        /\ UNCHANGED <<at, closed, reader, rpc, wg, rpcch, handled, panicked, others>>
    BY <1>13 DEF ReadSignal
  <2>2. /\ Idle.pc = "idle"
        /\ \/ /\ handler' = Idle
              /\ Idle \in [pc : {"idle", "copy", "signal", "drain"}, job : Files \cup {None},
                           buf : Seq(Bytes)]
           \/ handler' = [handler EXCEPT !.pc = "drain"]
        /\ ended' \subseteq Files \X (Seq(Bytes) \cup {Failed})
    BY <2>1, ReturnsEffect DEF Idle
  <2>3. wire' \in Seq(Bytes)
    BY <2>1, TailDrops DEF Dropped
  <2>. QED
    BY <2>1, <2>2, <2>3 DEF StageInv
<1>14. CASE StoreRest
  <2>1. /\ handler.pc = "drain" /\ (Returns(Failed) \/ Returns(handler.buf))
        /\ UNCHANGED <<at, wire, closed, reader, rpc, wg, rpcch, handled, panicked, others>>
    BY <1>14 DEF StoreRest
  <2>2. /\ handler' = Idle /\ Idle.pc = "idle"
        /\ Idle \in [pc : {"idle", "copy", "signal", "drain"}, job : Files \cup {None},
                     buf : Seq(Bytes)]
        /\ ended' \subseteq Files \X (Seq(Bytes) \cup {Failed})
    <3>1. handler.buf \in Seq(Bytes)
      OBVIOUS
    <3>. QED
      BY <2>1, <3>1, ReturnsEffect
  <2>. QED
    BY <2>1, <2>2 DEF StageInv
<1>15. CASE UNCHANGED vars
  BY <1>15 DEF vars, receiver, StageInv
<1>. QED
  BY <1>1, <1>2, <1>3, <1>4, <1>5, <1>6, <1>7, <1>8, <1>9, <1>10, <1>11, <1>12, <1>13,
     <1>14, <1>15 DEF Next, Receive, ReadLoop, EventLoop

-----------------------------------------------------------------------------
(* Order.                                                                   *)

\* What is no job is in order with everything.
LEMMA NoJobInOrder ==
  ASSUME NEW x, x \notin Jobs, NEW y
  PROVE  InOrder(x, y) /\ InOrder(y, x)
BY Scripts DEF InOrder

\* The bytes a call writes.
LEMMA WrittenBytes ==
  ASSUME NEW j \in Jobs, NEW k \in 1 .. 4, NEW m \in 1 .. Len(Write(j, k))
  PROVE  /\ Write(j, k)[m] \in Bytes /\ Write(j, k)[m].job = j
         /\ CallOf[Write(j, k)[m].kind] = k
         /\ Write(j, k)[m].kind = "gob" => k = 2 /\ m = 1
         /\ Write(j, k)[m].kind = "signal" => k = 3 /\ m = 1
         /\ Write(j, k)[m].kind = "rest" => k = 2 /\ m = 2
<1>1. Write(j, k)[m] \in Bytes
  <2>. DEFINE w == Write(j, k)
  <2>1. w \in Seq(Bytes)
    BY Written
  <2>. HIDE DEF w
  <2>2. \A i \in 1 .. Len(w) : w[i] \in Bytes
    BY <2>1
  <2>. QED
    BY <2>2 DEF w
<1>2. /\ CallOf["tag"] = 1 /\ CallOf["gob"] = 2 /\ CallOf["rest"] = 2
      /\ CallOf["signal"] = 3 /\ CallOf["data"] = 4
  BY DEF CallOf
<1>3. CASE k = 1
  <2>1. m = 1 /\ Write(j, k)[m] = Byte("tag", j, 1)
    BY <1>3, Written
  <2>. QED
    BY <1>1, <1>2, <1>3, <2>1, ByteFields
<1>4. CASE k = 2
  <2>1. \/ m = 1 /\ Write(j, k)[m] = Byte("gob", j, 1)
        \/ m = 2 /\ Write(j, k)[m] = Byte("rest", j, 1)
    <3>1. Len(Write(j, k)) = 2
      BY <1>4, Written
    <3>2. m = 1 \/ m = 2
      BY <3>1
    <3>. QED
      BY <1>4, <3>2, Written
  <2>. QED
    BY <1>1, <1>2, <1>4, <2>1, ByteFields
<1>5. CASE k = 3
  <2>1. m = 1 /\ Write(j, k)[m] = Byte("signal", j, 1)
    BY <1>5, Written
  <2>. QED
    BY <1>1, <1>2, <1>5, <2>1, ByteFields
<1>6. CASE k = 4
  <2>1. Write(j, k)[m].kind = "data" /\ Write(j, k)[m].job = j
    BY <1>6, Written
  <2>. QED
    BY <1>1, <1>2, <1>6, <2>1
<1>. QED
  BY <1>3, <1>4, <1>5, <1>6

\* A call that has been made stays made, and Send(t) makes one more.
LEMMA MadeGrows ==
  ASSUME TypeOK, NEW t \in Threads, Send(t)
  PROVE  /\ \A x : \A c \in 1 .. 4 : Made(x, c) => Made(x, c)'
         /\ \A x : \A c \in 1 .. 4 : x = Job(t) /\ c = Call(t) => Made(x, c)'
<1>1. /\ at[t].job \in DOMAIN Script[t] /\ Call(t) \in 1 .. 4 /\ at[t].job \in Nat
      /\ \A u \in Threads \ {t} : at'[u] = at[u]
      /\ \/ at'[t].job = at[t].job /\ at'[t].call = Call(t) + 1
         \/ at'[t].job = at[t].job + 1 /\ at'[t].call = 1
  BY SendEffect DEF TypeOK
<1>2. ASSUME NEW x, NEW c \in 1 .. 4, Made(x, c)
      PROVE  Made(x, c)'
  <2>. SUFFICES ASSUME NEW u \in Threads, NEW a \in DOMAIN Script[u], x = Script[u][a]
                PROVE  a < at'[u].job \/ (a = at'[u].job /\ c < at'[u].call)
    BY DEF Made
  <2>1. a < at[u].job \/ (a = at[u].job /\ c < at[u].call)
    BY <1>2 DEF Made
  <2>2. a \in Nat
    BY Scripts
  <2>3. CASE u = t
    BY <1>1, <2>1, <2>2, <2>3 DEF Call
  <2>4. CASE u # t
    BY <1>1, <2>1, <2>4
  <2>. QED
    BY <2>3, <2>4
<1>3. ASSUME NEW x, x = Job(t), NEW c \in 1 .. 4, c = Call(t)
      PROVE  Made(x, c)'
  <2>. SUFFICES ASSUME NEW u \in Threads, NEW a \in DOMAIN Script[u], x = Script[u][a]
                PROVE  a < at'[u].job \/ (a = at'[u].job /\ c < at'[u].call)
    BY DEF Made
  <2>1. Script[t][at[t].job] = Script[u][a]
    BY <1>3 DEF Job
  <2>2. u = t /\ a = at[t].job
    BY <1>1, <2>1, OnePlace
  <2>. QED
    BY <1>1, <1>3, <2>2
<1>. QED
  BY <1>2, <1>3

\* Only reading a payload decodes a job.
LEMMA DecodeStep ==
  ASSUME TypeOK, [Next]_vars, NEW x \in Jobs, Decodes(x)'
  PROVE  \/ Decodes(x)
         \/ /\ ReadBody /\ 2 <= Len(wire) /\ x = wire[1].job
            /\ wire[1].kind = "gob" /\ wire[2].kind = "rest"
<1>0. x # None /\ x # Other
  BY NoneAssumption, OthersAssumption
<1>1. CASE UNCHANGED <<rpc, rpcch, handled>>
  BY <1>1 DEF Decodes
<1>2. CASE PeekFails
  BY <1>0, <1>2 DEF PeekFails, Decodes
<1>3. CASE ReadBody
  BY <1>0, <1>3, ReadBodyEffect DEF Decodes
<1>4. CASE Push
  BY <1>0, <1>4 DEF Push, Decodes, TypeOK
<1>5. CASE PushOther
  BY <1>0, <1>5 DEF PushOther, Decodes, TypeOK
<1>6. CASE Dispatch
  <2>1. /\ rpcch \in Seq(Jobs \cup {None, Other}) /\ handled \in Seq(Jobs)
        /\ rpcch # <<>> /\ rpcch' = Tail(rpcch) /\ rpc' = rpc
        /\ handled' = handled \/ handled' = Append(handled, rpcch[1])
    BY <1>6, DispatchEffect DEF TypeOK
  <2>2. \A i \in DOMAIN rpcch' : \E k \in DOMAIN rpcch : rpcch'[i] = rpcch[k]
    BY <2>1
  <2>3. \A i \in DOMAIN handled' :
            \/ \E k \in DOMAIN handled : handled'[i] = handled[k]
            \/ \E k \in DOMAIN rpcch : handled'[i] = rpcch[k]
    <3>1. 1 \in DOMAIN rpcch
      BY <2>1
    <3>2. CASE handled' = Append(handled, rpcch[1])
      <4>1. \A i \in DOMAIN handled' : i \in DOMAIN handled \/ i = Len(handled) + 1
        BY <2>1, <3>2
      <4>2. /\ \A i \in DOMAIN handled : handled'[i] = handled[i]
            /\ handled'[Len(handled) + 1] = rpcch[1]
        BY <2>1, <3>2
      <4>. QED
        BY <3>1, <4>1, <4>2
    <3>. QED
      BY <2>1, <3>2
  <2>. QED
    BY <2>1, <2>2, <2>3 DEF Decodes
<1>7. CASE \/ \E t \in Threads : Send(t)
           \/ Close \/ Peek \/ ReadBodyFails \/ Resume \/ Copy \/ StorePart
           \/ StorePartFails \/ ReadSignal \/ StoreRest \/ UNCHANGED vars
  BY <1>1, <1>7 DEF Send, Close, Peek, ReadBodyFails, Resume, Copy, StorePart,
                    StorePartFails, ReadSignal, StoreRest, Returns, vars, receiver
<1>. QED
  BY <1>2, <1>3, <1>4, <1>5, <1>6, <1>7 DEF Next, Receive, ReadLoop, EventLoop

\* Every other step than a sender's takes some bytes, or none, from the front.
LEMMA ReadStep ==
  ASSUME TypeOK, [Next]_vars, ~ \E t \in Threads : Send(t)
  PROVE  at' = at /\ \E n \in 0 .. Len(wire) : Dropped(n)
<1>0. Len(wire) \in Nat /\ wire \in Seq(Bytes)
  BY DEF TypeOK
<1>1. ASSUME wire' = wire
      PROVE  Dropped(0)
  BY <1>0, <1>1 DEF Dropped
<1>2. CASE Peek
  BY <1>0, <1>2, PeekEffect
<1>3. CASE ReadBody
  <2>1. at' = at /\ \E n \in 1 .. Len(wire) : Dropped(n)
    BY <1>0, <1>3, ReadBodyEffect
  <2>. QED
    BY <1>0, <2>1
<1>4. CASE Copy
  BY <1>0, <1>4, CopyEffect
<1>5. CASE ReadSignal
  <2>1. at' = at /\ (wire' = wire \/ (wire # <<>> /\ wire' = Tail(wire)))
    BY <1>5 DEF ReadSignal
  <2>. QED
    BY <1>0, <1>1, <2>1, TailDrops
<1>6. CASE \/ Close \/ PeekFails \/ ReadBodyFails \/ Push \/ PushOther \/ Resume \/ Dispatch
           \/ StorePart \/ StorePartFails \/ StoreRest \/ UNCHANGED vars
  <2>1. at' = at /\ wire' = wire
    BY <1>6 DEF Close, PeekFails, ReadBodyFails, Push, PushOther, Resume, Dispatch, StorePart,
                StorePartFails, StoreRest, vars
  <2>. QED
    BY <1>0, <1>1, <2>1
<1>. QED
  BY <1>2, <1>3, <1>4, <1>5, <1>6 DEF Next, Receive, ReadLoop, EventLoop

\* SentInv is kept.
LEMMA SentStep ==
  ASSUME TypeOK, TypeOK', SentInv, [Next]_vars
  PROVE  SentInv'
<1>0. /\ wire \in Seq(Bytes) /\ wire' \in Seq(Bytes) /\ Len(wire) \in Nat
      /\ \A b \in Bytes : CallOf[b.kind] \in 1 .. 4
  <2>1. \A b \in Bytes : b.kind \in {"tag", "gob", "rest", "signal", "data"}
    BY DEF Bytes
  <2>2. \A kind \in {"tag", "gob", "rest", "signal", "data"} : CallOf[kind] \in 1 .. 4
    BY DEF CallOf
  <2>3. \A b \in Bytes : CallOf[b.kind] \in 1 .. 4
    BY <2>1, <2>2
  <2>4. wire \in Seq(Bytes) /\ wire' \in Seq(Bytes) /\ Len(wire) \in Nat
    BY DEF TypeOK
  <2>. QED
    BY <2>3, <2>4
<1>1. CASE \E t \in Threads : Send(t)
  <2>. PICK t \in Threads : Send(t)
    BY <1>1
  <2>1. /\ Job(t) \in Jobs /\ Call(t) \in 1 .. 4 /\ UNCHANGED <<rpc, rpcch, handled>>
        /\ \A i \in 1 .. Len(wire) : wire'[i] = wire[i]
        /\ \A i \in 1 .. Len(Write(Job(t), Call(t))) :
               wire'[Len(wire) + i] = Write(Job(t), Call(t))[i]
        /\ Len(wire') = Len(wire) + Len(Write(Job(t), Call(t)))
    BY SendEffect DEF receiver
  <2>2. ASSUME NEW b \in Bytes, OnWire(b)'
        PROVE  Made(b.job, CallOf[b.kind])'
    <3>1. PICK i \in DOMAIN wire' : wire'[i] = b
      BY <2>2 DEF OnWire
    <3>2. CASE i \in 1 .. Len(wire)
      <4>1. wire[i] = b /\ i \in DOMAIN wire
        BY <1>0, <2>1, <3>1, <3>2
      <4>2. Made(b.job, CallOf[b.kind])
        BY <4>1 DEF SentInv, OnWire
      <4>. QED
        BY <1>0, <4>2, MadeGrows
    <3>3. CASE i \notin 1 .. Len(wire)
      <4>1. Len(Write(Job(t), Call(t))) \in Nat
        BY <2>1, Written
      <4>2. PICK m \in 1 .. Len(Write(Job(t), Call(t))) : i = Len(wire) + m
        <5>1. i - Len(wire) \in 1 .. Len(Write(Job(t), Call(t)))
          BY <1>0, <2>1, <3>1, <3>3, <4>1
        <5>. QED
          BY <1>0, <5>1
      <4>3. b = Write(Job(t), Call(t))[m]
        BY <2>1, <3>1, <4>2
      <4>4. b.job = Job(t) /\ CallOf[b.kind] = Call(t)
        BY <2>1, <4>3, WrittenBytes
      <4>. QED
        BY <1>0, <4>4, MadeGrows
    <3>. QED
      BY <3>2, <3>3
  <2>3. ASSUME NEW x \in Jobs, Decodes(x)'
        PROVE  Made(x, 2)'
    <3>1. Decodes(x)
      BY <2>1, <2>3 DEF Decodes
    <3>2. Made(x, 2)
      BY <3>1 DEF SentInv
    <3>. QED
      BY <3>2, MadeGrows
  <2>. QED
    BY <2>2, <2>3 DEF SentInv
<1>2. CASE ~ \E t \in Threads : Send(t)
  <2>1. at' = at /\ \E n \in 0 .. Len(wire) : Dropped(n)
    BY <1>2, ReadStep
  <2>2. ASSUME NEW b \in Bytes, OnWire(b)'
        PROVE  Made(b.job, CallOf[b.kind])'
    <3>1. OnWire(b)
      <4>1. PICK i \in DOMAIN wire' : wire'[i] = b
        BY <2>2 DEF OnWire
      <4>2. PICK n \in 0 .. Len(wire) : Dropped(n)
        BY <2>1
      <4>3. wire'[i] = wire[i + n] /\ i + n \in DOMAIN wire
        BY <1>0, <4>1, <4>2 DEF Dropped
      <4>. QED
        BY <4>1, <4>3 DEF OnWire
    <3>. QED
      BY <2>1, <3>1 DEF SentInv, Made
  <2>3. ASSUME NEW x \in Jobs, Decodes(x)'
        PROVE  Made(x, 2)'
    <3>1. Made(x, 2)
      <4>1. CASE Decodes(x)
        BY <4>1 DEF SentInv
      <4>2. CASE ~ Decodes(x)
        <5>1. 2 <= Len(wire) /\ x = wire[1].job /\ wire[1].kind = "gob"
          BY <2>3, <4>2, DecodeStep
        <5>2. 1 \in DOMAIN wire /\ wire[1] \in Bytes
          BY <1>0, <5>1
        <5>3. CallOf[wire[1].kind] = 2
          BY <5>1 DEF CallOf
        <5>. QED
          BY <5>1, <5>2, <5>3 DEF SentInv, OnWire
      <4>. QED
        BY <4>1, <4>2
    <3>. QED
      BY <2>1, <3>1 DEF Made
  <2>. QED
    BY <2>2, <2>3 DEF SentInv
<1>. QED
  BY <1>1, <1>2

\* x is in order with the message that is next on the connection.
LEMMA BeforeNext ==
  ASSUME TypeOK, LineInv, 2 <= Len(wire), wire[1].kind = "gob", NEW x, Decodes(x)
  PROVE  InOrder(x, wire[1].job)
<1>1. 1 \in DOMAIN wire
  BY DEF TypeOK
<1>2. CASE x \in Jobs
  BY <1>1, <1>2 DEF LineInv
<1>3. CASE x \notin Jobs
  BY <1>3, NoJobInOrder
<1>. QED
  BY <1>2, <1>3

\* QueueInv is kept.
LEMMA QueueStep ==
  ASSUME TypeOK, QueueInv, LineInv, [Next]_vars
  PROVE  QueueInv'
<1>0. /\ rpcch \in Seq(Jobs \cup {None, Other}) /\ handled \in Seq(Jobs)
      /\ None \notin Jobs /\ Other \notin Jobs
  BY NoneAssumption, OthersAssumption DEF TypeOK
<1>1. CASE UNCHANGED <<rpc, rpcch, handled>>
  BY <1>1 DEF QueueInv
<1>2. ASSUME rpc' = None, UNCHANGED <<rpcch, handled>>
      PROVE  QueueInv'
  BY <1>0, <1>2, NoJobInOrder DEF QueueInv
<1>3. CASE PeekFails
  BY <1>2, <1>3 DEF PeekFails
<1>4. CASE ReadBody
  <2>1. UNCHANGED <<rpcch, handled>>
    BY <1>4, ReadBodyEffect
  <2>2. CASE rpc' = None
    BY <1>2, <2>1, <2>2
  <2>3. CASE 2 <= Len(wire) /\ wire[1].kind = "gob" /\ rpc' = wire[1].job
    <3>1. \A i \in DOMAIN handled : InOrder(handled[i], wire[1].job)
      BY <2>3, BeforeNext DEF Decodes
    <3>2. \A i \in DOMAIN rpcch : InOrder(rpcch[i], wire[1].job)
      BY <2>3, BeforeNext DEF Decodes
    <3>. QED
      BY <2>1, <2>3, <3>1, <3>2 DEF QueueInv
  <2>. QED
    BY <1>4, <2>2, <2>3, ReadBodyEffect
<1>5. CASE Push
  <2>1. rpcch' = Append(rpcch, rpc) /\ rpc' = None /\ handled' = handled
    BY <1>5 DEF Push
  <2>2. /\ \A i \in DOMAIN rpcch' : i \in DOMAIN rpcch \/ i = Len(rpcch) + 1
        /\ \A i \in DOMAIN rpcch : rpcch'[i] = rpcch[i] /\ i < Len(rpcch) + 1
        /\ rpcch'[Len(rpcch) + 1] = rpc
    BY <1>0, <2>1
  <2>3. \A i, k \in DOMAIN rpcch' : i < k => InOrder(rpcch'[i], rpcch'[k])
    <3>. SUFFICES ASSUME NEW i \in DOMAIN rpcch', NEW k \in DOMAIN rpcch', i < k
                  PROVE  InOrder(rpcch'[i], rpcch'[k])
      OBVIOUS
    <3>1. i \in DOMAIN rpcch
      <4>1. i \in Nat /\ k \in Nat /\ k <= Len(rpcch) + 1 /\ Len(rpcch) \in Nat
        BY <1>0, <2>1
      <4>. QED
        BY <2>2, <4>1
    <3>2. CASE k \in DOMAIN rpcch
      BY <2>2, <3>1, <3>2 DEF QueueInv
    <3>3. CASE k = Len(rpcch) + 1
      BY <2>2, <3>1, <3>3 DEF QueueInv
    <3>. QED
      BY <2>2, <3>2, <3>3
  <2>4. \A i \in DOMAIN handled', k \in DOMAIN rpcch' : InOrder(handled'[i], rpcch'[k])
    BY <2>1, <2>2 DEF QueueInv
  <2>5. /\ \A i \in DOMAIN handled' : InOrder(handled'[i], rpc')
        /\ \A i \in DOMAIN rpcch' : InOrder(rpcch'[i], rpc')
    BY <1>0, <2>1, NoJobInOrder
  <2>6. \A i, k \in DOMAIN handled' : i < k => InOrder(handled'[i], handled'[k])
    BY <2>1 DEF QueueInv
  <2>. QED
    BY <2>3, <2>4, <2>5, <2>6 DEF QueueInv
<1>6. CASE PushOther
  <2>1. rpcch' = Append(rpcch, Other) /\ rpc' = rpc /\ handled' = handled
    BY <1>6 DEF PushOther
  <2>2. \A i \in DOMAIN rpcch' : \/ i \in DOMAIN rpcch /\ rpcch'[i] = rpcch[i]
                                 \/ rpcch'[i] = Other
    BY <1>0, <2>1
  <2>. QED
    BY <1>0, <2>1, <2>2, NoJobInOrder DEF QueueInv
<1>7. CASE Dispatch
  <2>1. /\ rpcch # <<>> /\ rpcch' = Tail(rpcch) /\ rpc' = rpc
        /\ handled' = handled \/ handled' = Append(handled, rpcch[1])
    BY <1>7, DispatchEffect
  <2>2. /\ 1 \in DOMAIN rpcch
        /\ \A i \in DOMAIN rpcch' : i + 1 \in DOMAIN rpcch /\ rpcch'[i] = rpcch[i + 1] /\ i \in Nat \ {0}
    BY <1>0, <2>1
  <2>3. \A i, k \in DOMAIN rpcch' : i < k => InOrder(rpcch'[i], rpcch'[k])
    BY <2>2 DEF QueueInv
  <2>4. \A i \in DOMAIN rpcch' : InOrder(rpcch'[i], rpc')
    BY <2>1, <2>2 DEF QueueInv
  <2>5. CASE handled' = handled
    BY <2>1, <2>2, <2>3, <2>4, <2>5 DEF QueueInv
  <2>6. CASE handled' = Append(handled, rpcch[1])
    <3>1. /\ \A i \in DOMAIN handled' : i \in DOMAIN handled \/ i = Len(handled) + 1
          /\ \A i \in DOMAIN handled : handled'[i] = handled[i]
          /\ handled'[Len(handled) + 1] = rpcch[1]
      BY <1>0, <2>6
    <3>2. \A i, k \in DOMAIN handled' : i < k => InOrder(handled'[i], handled'[k])
      <4>. SUFFICES ASSUME NEW i \in DOMAIN handled', NEW k \in DOMAIN handled', i < k
                    PROVE  InOrder(handled'[i], handled'[k])
        OBVIOUS
      <4>1. i \in DOMAIN handled
        <5>1. i \in Nat /\ k \in Nat /\ k <= Len(handled) + 1 /\ Len(handled) \in Nat
          BY <1>0, <2>6
        <5>. QED
          BY <3>1, <5>1
      <4>2. CASE k \in DOMAIN handled
        BY <3>1, <4>1, <4>2 DEF QueueInv
      <4>3. CASE k = Len(handled) + 1
        BY <2>2, <3>1, <4>1, <4>3 DEF QueueInv
      <4>. QED
        BY <3>1, <4>2, <4>3
    <3>3. ASSUME NEW i \in DOMAIN handled'
          PROVE  /\ InOrder(handled'[i], rpc')
                 /\ \A k \in DOMAIN rpcch' : InOrder(handled'[i], rpcch'[k])
      <4>1. CASE i \in DOMAIN handled
        BY <2>1, <2>2, <3>1, <4>1 DEF QueueInv
      <4>2. CASE i = Len(handled) + 1
        <5>1. handled'[i] = rpcch[1]
          BY <3>1, <4>2
        <5>2. \A k \in DOMAIN rpcch' : InOrder(rpcch[1], rpcch[k + 1])
          BY <2>2 DEF QueueInv
        <5>. QED
          BY <2>1, <2>2, <5>1, <5>2 DEF QueueInv
      <4>. QED
        BY <3>1, <4>1, <4>2
    <3>. QED
      BY <2>3, <2>4, <3>2, <3>3 DEF QueueInv
  <2>. QED
    BY <2>1, <2>5, <2>6
<1>8. CASE \/ \E t \in Threads : Send(t)
           \/ Close \/ Peek \/ ReadBodyFails \/ Resume \/ Copy \/ StorePart
           \/ StorePartFails \/ ReadSignal \/ StoreRest \/ UNCHANGED vars
  BY <1>1, <1>8 DEF Send, Close, Peek, ReadBodyFails, Resume, Copy, StorePart,
                    StorePartFails, ReadSignal, StoreRest, Returns, vars, receiver
<1>. QED
  BY <1>3, <1>4, <1>5, <1>6, <1>7, <1>8 DEF Next, Receive, ReadLoop, EventLoop

\* What has been sent is in order with what is sent now.
LEMMA SentBefore ==
  ASSUME NEW t \in Threads, at[t].job \in DOMAIN Script[t], at[t].job \in Nat,
         NEW x, NEW c \in 1 .. 4, Made(x, c)
  PROVE  /\ NotAfter(x, Job(t))
         /\ c = Call(t) => InOrder(x, Job(t))
<1>. SUFFICES ASSUME NEW u \in Threads, NEW a \in DOMAIN Script[u], NEW b \in DOMAIN Script[u],
                     x = Script[u][a], Job(t) = Script[u][b]
              PROVE  a <= b /\ (c = Call(t) => a < b)
  BY DEF NotAfter, InOrder
<1>1. t = u /\ at[t].job = b
  <2>1. Script[t][at[t].job] = Script[u][b]
    BY DEF Job
  <2>. QED
    BY <2>1, OnePlace
<1>2. a < at[u].job \/ (a = at[u].job /\ c < at[u].call)
  BY DEF Made
<1>3. a \in Nat /\ b \in Nat
  BY Scripts
<1>. QED
  BY <1>1, <1>2, <1>3 DEF Call

\* LineInv is kept.
LEMMA LineStep ==
  ASSUME TypeOK, TypeOK', SentInv, LineInv, [Next]_vars
  PROVE  LineInv'
<1>0. /\ wire \in Seq(Bytes) /\ wire' \in Seq(Bytes) /\ Len(wire) \in Nat
      /\ \A i \in DOMAIN wire : wire[i] \in Bytes
  BY DEF TypeOK
<1>1. CASE \E t \in Threads : Send(t)
  <2>. PICK t \in Threads : Send(t)
    BY <1>1
  <2>. DEFINE j == Job(t)
              k == Call(t)
              w == Write(j, k)
  <2>1. /\ at[t].job \in DOMAIN Script[t] /\ at[t].job \in Nat
        /\ j \in Jobs /\ k \in 1 .. 4 /\ UNCHANGED <<rpc, rpcch, handled>>
        /\ \A i \in 1 .. Len(wire) : wire'[i] = wire[i]
        /\ \A i \in 1 .. Len(w) : wire'[Len(wire) + i] = w[i]
        /\ Len(wire') = Len(wire) + Len(w)
    BY SendEffect DEF receiver, TypeOK
  <2>2. /\ Len(w) \in Nat
        /\ \A m \in 1 .. Len(w) : w[m].job = j /\ (w[m].kind = "gob" => k = 2 /\ m = 1)
    <3>1. w \in Seq(Bytes)
      BY <2>1, Written
    <3>2. Len(w) \in Nat
      BY <3>1
    <3>. QED
      BY <2>1, <3>2, WrittenBytes
  <2>3. ASSUME NEW i \in DOMAIN wire'
        PROVE  \/ i \in DOMAIN wire /\ wire'[i] = wire[i]
               \/ /\ i \notin DOMAIN wire /\ wire'[i].job = j
                  /\ wire'[i].kind = "gob" => k = 2 /\ i = Len(wire) + 1
    <3>1. CASE i \in 1 .. Len(wire)
      BY <1>0, <2>1, <3>1
    <3>2. CASE i \notin 1 .. Len(wire)
      <4>. DEFINE m == i - Len(wire)
      <4>1. m \in 1 .. Len(w) /\ i = Len(wire) + m
        BY <1>0, <2>1, <2>2, <3>2
      <4>. HIDE DEF m, w, j, k
      <4>2. wire'[i] = w[m]
        BY <2>1, <4>1
      <4>. QED
        BY <1>0, <2>2, <3>2, <4>1, <4>2
    <3>. QED
      BY <3>1, <3>2
  <2>4. ASSUME NEW x \in Jobs, Decodes(x)
        PROVE  NotAfter(x, j) /\ (k = 2 => InOrder(x, j))
    <3>1. Made(x, 2)
      BY <2>4 DEF SentInv
    <3>. QED
      BY <2>1, <3>1, SentBefore
  <2>5. ASSUME NEW i \in DOMAIN wire
        PROVE  /\ NotAfter(wire[i].job, j)
               /\ wire[i].kind = "gob" /\ k = 2 => InOrder(wire[i].job, j)
    <3>1. wire[i] \in Bytes /\ OnWire(wire[i])
      BY <1>0 DEF OnWire
    <3>2. Made(wire[i].job, CallOf[wire[i].kind])
      BY <3>1 DEF SentInv
    <3>3. CallOf[wire[i].kind] \in 1 .. 4 /\ CallOf["gob"] = 2
      BY <3>1 DEF Bytes, CallOf
    <3>. QED
      BY <2>1, <3>2, <3>3, SentBefore
  <2>6. NotAfter(j, j)
    <3>. SUFFICES ASSUME NEW u \in Threads, NEW a \in DOMAIN Script[u], NEW b \in DOMAIN Script[u],
                         Script[u][a] = Script[u][b]
                  PROVE  a <= b
      BY DEF NotAfter
    <3>1. a = b /\ a \in Nat
      BY OnePlace, Scripts
    <3>. QED
      BY <3>1
  <2>. HIDE DEF j, k, w
  <2>7. ASSUME NEW x \in Jobs, NEW i \in DOMAIN wire', Decodes(x)'
        PROVE  /\ NotAfter(x, wire'[i].job)
               /\ wire'[i].kind = "gob" => InOrder(x, wire'[i].job)
    <3>1. Decodes(x)
      BY <2>1, <2>7 DEF Decodes
    <3>2. CASE i \in DOMAIN wire /\ wire'[i] = wire[i]
      BY <3>1, <3>2 DEF LineInv
    <3>3. CASE wire'[i].job = j /\ (wire'[i].kind = "gob" => k = 2)
      BY <2>4, <3>1, <3>3
    <3>. QED
      BY <2>3, <3>2, <3>3
  <2>8. ASSUME NEW i \in DOMAIN wire', NEW l \in DOMAIN wire', i < l
        PROVE  /\ NotAfter(wire'[i].job, wire'[l].job)
               /\ wire'[i].kind = "gob" /\ wire'[l].kind = "gob" =>
                      InOrder(wire'[i].job, wire'[l].job)
    <3>1. i \in Nat /\ l \in Nat /\ DOMAIN wire = 1 .. Len(wire) /\ i >= 1
      BY <1>0
    <3>2. CASE l \in DOMAIN wire
      <4>1. i \in DOMAIN wire
        BY <1>0, <2>8, <3>1, <3>2
      <4>. QED
        BY <2>3, <2>8, <3>2, <4>1 DEF LineInv
    <3>3. CASE l \notin DOMAIN wire /\ i \in DOMAIN wire
      BY <2>3, <2>5, <3>3
    <3>4. CASE l \notin DOMAIN wire /\ i \notin DOMAIN wire
      <4>1. wire'[l].kind = "gob" => l = Len(wire) + 1
        BY <2>3, <3>4
      <4>2. wire'[l].kind # "gob"
        BY <1>0, <2>8, <3>1, <3>4, <4>1
      <4>. QED
        BY <2>3, <2>6, <3>4, <4>2
    <3>. QED
      BY <3>2, <3>3, <3>4
  <2>. QED
    BY <2>7, <2>8 DEF LineInv
<1>2. CASE ~ \E t \in Threads : Send(t)
  <2>1. PICK n \in 0 .. Len(wire) : Dropped(n)
    BY <1>2, ReadStep
  <2>2. \A i \in DOMAIN wire' : i + n \in DOMAIN wire /\ wire'[i] = wire[i + n] /\ i \in Nat
    BY <1>0, <2>1 DEF Dropped
  <2>3. ASSUME NEW x \in Jobs, NEW i \in DOMAIN wire', Decodes(x)'
        PROVE  /\ NotAfter(x, wire'[i].job)
               /\ wire'[i].kind = "gob" => InOrder(x, wire'[i].job)
    <3>1. CASE Decodes(x)
      BY <2>2, <3>1 DEF LineInv
    <3>2. CASE ~ Decodes(x)
      <4>1. ReadBody /\ 2 <= Len(wire) /\ x = wire[1].job /\ wire[1].kind = "gob"
        BY <2>3, <3>2, DecodeStep
      <4>2. PICK m \in 1 .. Len(wire) : Dropped(m)
        BY <1>0, <4>1, ReadBodyEffect
      <4>3. /\ i + m \in DOMAIN wire /\ wire'[i] = wire[i + m] /\ 1 < i + m
            /\ 1 \in DOMAIN wire
        BY <1>0, <4>1, <4>2 DEF Dropped
      <4>. QED
        BY <4>1, <4>3 DEF LineInv
    <3>. QED
      BY <3>1, <3>2
  <2>4. ASSUME NEW i \in DOMAIN wire', NEW l \in DOMAIN wire', i < l
        PROVE  /\ NotAfter(wire'[i].job, wire'[l].job)
               /\ wire'[i].kind = "gob" /\ wire'[l].kind = "gob" =>
                      InOrder(wire'[i].job, wire'[l].job)
    <3>1. /\ i + n \in DOMAIN wire /\ l + n \in DOMAIN wire /\ i + n < l + n
          /\ wire'[i] = wire[i + n] /\ wire'[l] = wire[l + n]
      BY <2>2, <2>4
    <3>. QED
      BY <3>1 DEF LineInv
  <2>. QED
    BY <2>3, <2>4 DEF LineInv
<1>. QED
  BY <1>1, <1>2

-----------------------------------------------------------------------------
(* Streams.                                                                 *)

\* A call that has been made is not the next one; when two calls of a part have been
\* made and the third is not the next, it has been made too.
LEMMA Calling ==
  ASSUME TypeOK, NEW f \in Jobs
  PROVE  /\ \A c \in 1 .. 4 : Made(f, c) => ~ NextCall(f, c)
         /\ Made(f, 2) /\ ~ NextCall(f, 3) => Made(f, 3)
<1>0. PICK t \in Threads : \E a \in DOMAIN Script[t] : f = Script[t][a]
  BY Scripts
<1>1. PICK a \in DOMAIN Script[t] : f = Script[t][a]
  BY <1>0
<1>2. /\ \A c : NextCall(f, c) <=> at[t] = [job |-> a, call |-> c]
      /\ \A c : Made(f, c) <=> a < at[t].job \/ (a = at[t].job /\ c < at[t].call)
  <2>1. \A u \in Threads : \A b \in DOMAIN Script[u] : f = Script[u][b] => u = t /\ b = a
    BY <1>1, OnePlace
  <2>. QED
    BY <1>1, <2>1 DEF NextCall, Made
<1>3. at[t] \in [job : Nat \ {0}, call : 1 .. 4] /\ a \in Nat
  BY <1>1, Scripts DEF TypeOK
<1>. DEFINE p == at[t]
<1>4. p \in [job : Nat \ {0}, call : 1 .. 4]
  BY <1>3
<1>5. \A c : NextCall(f, c) <=> p = [job |-> a, call |-> c]
  BY <1>2
<1>6. \A c : Made(f, c) <=> a < p.job \/ (a = p.job /\ c < p.call)
  BY <1>2
<1>. HIDE DEF p
<1>. QED
  BY <1>3, <1>4, <1>5, <1>6

\* A step that leaves f undisturbed found it undisturbed, and only the thread of f
\* has written.
LEMMA StillUndisturbed ==
  ASSUME TypeOK, [Next]_vars, NEW f, Undisturbed(f)'
  PROVE  /\ Undisturbed(f)
         /\ \A t \in Threads : Send(t) => f \in Range(Script[t])
<1>1. ASSUME NEW t \in Threads, Send(t), f \notin Range(Script[t])
      PROVE  FALSE
  <2>1. at'[t] = [job |-> 1, call |-> 1]
    BY <1>1 DEF Undisturbed, Start
  <2>2. /\ at'[t].job = at[t].job + 1 \/ at'[t].call = Call(t) + 1
        /\ at[t].job \in Nat \ {0} /\ Call(t) \in 1 .. 4
    BY <1>1, SendEffect DEF TypeOK
  <2>. QED
    BY <2>1, <2>2
<1>2. ~ SomeFailed
  <2>1. ended \subseteq ended'
    BY DEF Next, Send, Close, Receive, ReadLoop, EventLoop, Peek, PeekFails, ReadBody,
           ReadBodyFails, Push, PushOther, Resume, Dispatch, Copy, StorePart, StorePartFails,
           ReadSignal, StoreRest, Returns, vars, receiver
  <2>2. ~ SomeFailed'
    BY DEF Undisturbed
  <2>. QED
    BY <2>1, <2>2 DEF SomeFailed
<1>3. CASE \E t \in Threads : Send(t)
  <2>. PICK t \in Threads : Send(t)
    BY <1>3
  <2>1. f \in Range(Script[t]) /\ \A u \in Threads \ {t} : at'[u] = at[u]
    BY <1>1, SendEffect
  <2>. QED
    BY <1>1, <1>2, <2>1 DEF Undisturbed
<1>4. CASE ~ \E t \in Threads : Send(t)
  <2>1. at' = at
    BY <1>4, ReadStep
  <2>. QED
    BY <1>2, <1>4, <2>1 DEF Undisturbed
<1>. QED
  BY <1>3, <1>4

\* Where nobody has returned an error, no step was the error return of a part.
LEMMA NobodyFails ==
  ASSUME NEW f, Undisturbed(f)'
  PROVE  ~ StorePartFails
<1>1. SUFFICES ASSUME StorePartFails
               PROVE  FALSE
  OBVIOUS
<1>2. <<handler.job, Failed>> \in ended'
  BY <1>1 DEF StorePartFails, Returns
<1>3. <<handler.job, Failed>>[2] = Failed
  OBVIOUS
<1>. QED
  BY <1>2, <1>3 DEF Undisturbed, SomeFailed

\* What Send(t) does to a file that t sends.
LEMMA SendNext ==
  ASSUME TypeOK, NEW t \in Threads, Send(t), NEW f \in Files, f \in Range(Script[t])
  PROVE  /\ \A c \in 1 .. 4 : NextCall(f, c) => Job(t) = f /\ Call(t) = c
         /\ Job(t) = f => NextCall(f, Call(t)) /\ ~ Made(f, Call(t))
         /\ \A c \in 1 .. 3 : Job(t) = f /\ Call(t) = c => NextCall(f, c + 1)'
         /\ \A c \in 1 .. 3 : NextCall(f, c + 1)' => Job(t) = f /\ Call(t) = c
<1>1. PICK a \in DOMAIN Script[t] : f = Script[t][a]
  BY DEF Range
<1>. DEFINE p == at[t]
            q == at'[t]
<1>2. /\ p \in [job : Nat \ {0}, call : 1 .. 4] /\ q \in [job : Nat \ {0}, call : 1 .. 4]
      /\ p.job \in DOMAIN Script[t] /\ p.call = Call(t)
      /\ Job(t) = Script[t][p.job] /\ a \in Nat
      /\ \/ Call(t) < Calls(Job(t)) /\ q.job = p.job /\ q.call = Call(t) + 1
         \/ Calls(Job(t)) <= Call(t) /\ q.job = p.job + 1 /\ q.call = 1
  BY SendEffect, Scripts DEF TypeOK, Job, Call
<1>3. /\ \A c : NextCall(f, c) <=> p = [job |-> a, call |-> c]
      /\ \A c : Made(f, c) <=> a < p.job \/ (a = p.job /\ c < p.call)
      /\ \A c : NextCall(f, c)' <=> q = [job |-> a, call |-> c]
  <2>1. \A u \in Threads : \A b \in DOMAIN Script[u] : f = Script[u][b] => u = t /\ b = a
    BY <1>1, OnePlace
  <2>. QED
    BY <1>1, <2>1 DEF NextCall, Made
<1>4. Job(t) = f <=> p.job = a
  BY <1>1, <1>2, OnePlace
<1>5. Calls(f) = 4
  BY DEF Files, Calls
<1>. HIDE DEF p, q
<1>6. \A c : p = [job |-> a, call |-> c] <=> p.job = a /\ p.call = c
  BY <1>2
<1>7. \A c : q = [job |-> a, call |-> c] <=> q.job = a /\ q.call = c
  BY <1>2
<1>8. \A c \in 1 .. 4 : NextCall(f, c) => Job(t) = f /\ Call(t) = c
  BY <1>2, <1>3, <1>4, <1>6
<1>9. Job(t) = f => NextCall(f, Call(t)) /\ ~ Made(f, Call(t))
  BY <1>2, <1>3, <1>4, <1>6
<1>10. \A c \in 1 .. 3 : Job(t) = f /\ Call(t) = c => NextCall(f, c + 1)'
  BY <1>2, <1>3, <1>4, <1>5, <1>7
<1>11. \A c \in 1 .. 3 : NextCall(f, c + 1)' => Job(t) = f /\ Call(t) = c
  <2>. SUFFICES ASSUME NEW c \in 1 .. 3, NextCall(f, c + 1)'
                PROVE  Job(t) = f /\ Call(t) = c
    OBVIOUS
  <2>1. q.job = a /\ q.call = c + 1
    BY <1>3, <1>7
  <2>. QED
    BY <1>2, <1>4, <2>1
<1>. QED
  BY <1>8, <1>9, <1>10, <1>11

\* Reading keeps SegmentInv.
LEMMA SegmentRead ==
  ASSUME TypeOK, at' = at, NEW n, Dropped(n), NEW f, SegmentInv(f)
  PROVE  SegmentInv(f)'
<1>1. /\ Len(wire) \in Nat /\ DOMAIN wire = 1 .. Len(wire) /\ n \in 0 .. Len(wire)
      /\ Len(wire') = Len(wire) - n /\ DOMAIN wire' = 1 .. Len(wire')
      /\ \A i \in 1 .. Len(wire') : wire'[i] = wire[i + n]
  BY DEF TypeOK, Dropped
<1>2. Size \in Nat
  BY BoundsAssumption
<1>3. \A c : NextCall(f, c)' <=> NextCall(f, c)
  BY DEF NextCall
<1>. DEFINE gob(b) == b.kind = "gob" /\ b.job = f
            rest == Byte("rest", f, 1)
            signal == Signal(f)
<1>4. SegmentInv(f) <=>
        \A i \in DOMAIN wire :
            /\ gob(wire[i]) => i < Len(wire) /\ wire[i + 1] = rest
            /\ wire[i] = rest => (i = Len(wire) /\ NextCall(f, 3)) \/ (i < Len(wire) /\ wire[i + 1] = signal)
            /\ wire[i] = signal =>
                   /\ \A k \in DOMAIN wire : wire[k] = signal => k = i
                   /\ \/ i = Len(wire) /\ NextCall(f, 4)
                      \/ /\ i + Size <= Len(wire)
                         /\ \A k \in 1 .. Size : wire[i + k] = Data(f)[k]
  BY DEF SegmentInv
<1>5. SegmentInv(f)' <=>
        \A i \in DOMAIN wire' :
            /\ gob(wire'[i]) => i < Len(wire') /\ wire'[i + 1] = rest
            /\ wire'[i] = rest => \/ i = Len(wire') /\ NextCall(f, 3)'
                                  \/ i < Len(wire') /\ wire'[i + 1] = signal
            /\ wire'[i] = signal =>
                   /\ \A k \in DOMAIN wire' : wire'[k] = signal => k = i
                   /\ \/ i = Len(wire') /\ NextCall(f, 4)'
                      \/ /\ i + Size <= Len(wire')
                         /\ \A k \in 1 .. Size : wire'[i + k] = Data(f)[k]
  BY DEF SegmentInv, Signal, Byte, Data
<1>. HIDE DEF gob, rest, signal
<1>6. ASSUME NEW i \in DOMAIN wire'
      PROVE  /\ gob(wire'[i]) => i < Len(wire') /\ wire'[i + 1] = rest
             /\ wire'[i] = rest => \/ i = Len(wire') /\ NextCall(f, 3)'
                                   \/ i < Len(wire') /\ wire'[i + 1] = signal
  <2>1. i + n \in DOMAIN wire /\ wire'[i] = wire[i + n]
    BY <1>1
  <2>2. i + n < Len(wire) => i < Len(wire') /\ wire'[i + 1] = wire[(i + n) + 1]
    BY <1>1
  <2>3. i + n = Len(wire) => i = Len(wire')
    BY <1>1
  <2>. QED
    BY <1>3, <1>4, <2>1, <2>2, <2>3
<1>7. ASSUME NEW i \in DOMAIN wire', wire'[i] = signal
      PROVE  /\ \A k \in DOMAIN wire' : wire'[k] = signal => k = i
             /\ \/ i = Len(wire') /\ NextCall(f, 4)'
                \/ /\ i + Size <= Len(wire')
                   /\ \A k \in 1 .. Size : wire'[i + k] = Data(f)[k]
  <2>1. i + n \in DOMAIN wire /\ wire[i + n] = signal
    BY <1>1, <1>7
  <2>2. \A k \in DOMAIN wire' : k + n \in DOMAIN wire /\ wire'[k] = wire[k + n]
    BY <1>1
  <2>3. \A k \in DOMAIN wire' : wire'[k] = signal => k + n = i + n
    BY <1>4, <2>1, <2>2
  <2>4. \A k \in DOMAIN wire' : wire'[k] = signal => k = i
    BY <1>1, <2>3
  <2>5. CASE i + n = Len(wire) /\ NextCall(f, 4)
    BY <1>1, <1>3, <2>4, <2>5
  <2>6. CASE /\ (i + n) + Size <= Len(wire)
             /\ \A k \in 1 .. Size : wire[(i + n) + k] = Data(f)[k]
    <3>1. i + Size <= Len(wire')
      BY <1>1, <1>2, <2>6
    <3>2. \A k \in 1 .. Size : wire'[i + k] = wire[(i + n) + k]
      BY <1>1, <1>2, <3>1
    <3>. QED
      BY <2>4, <2>6, <3>1, <3>2
  <2>. QED
    BY <1>4, <2>1, <2>5, <2>6
<1>. QED
  BY <1>5, <1>6, <1>7

\* What a step does to the connection, told so that the new bytes can be told from the
\* old ones.
LEMMA Sent ==
  ASSUME TypeOK, TypeOK', NEW t \in Threads, Send(t)
  PROVE  /\ \A i \in DOMAIN wire : i \in DOMAIN wire' /\ wire'[i] = wire[i]
         /\ Len(wire) \in Nat /\ Len(wire') \in Nat
         /\ DOMAIN wire = 1 .. Len(wire) /\ DOMAIN wire' = 1 .. Len(wire')
         /\ Len(wire) < Len(wire')
         /\ \A i \in DOMAIN wire' \ DOMAIN wire :
                /\ wire'[i].job = Job(t) /\ CallOf[wire'[i].kind] = Call(t)
                /\ wire'[i].kind \in {"gob", "signal"} => i = Len(wire) + 1
                /\ wire'[i].kind = "rest" => i = Len(wire')
                /\ wire'[i].kind = "signal" => i = Len(wire')
         /\ Call(t) = 2 => /\ Len(wire') = Len(wire) + 2
                           /\ wire'[Len(wire) + 2] = Byte("rest", Job(t), 1)
         /\ Call(t) = 3 => wire'[Len(wire) + 1] = Signal(Job(t))
         /\ Call(t) = 4 => /\ Len(wire') = Len(wire) + Size
                           /\ \A i \in 1 .. Size : wire'[Len(wire) + i] = Data(Job(t))[i]
<1>. DEFINE w == Write(Job(t), Call(t))
<1>1. /\ Job(t) \in Jobs /\ Call(t) \in 1 .. 4 /\ Len(wire') = Len(wire) + Len(w)
      /\ \A i \in 1 .. Len(wire) : wire'[i] = wire[i]
      /\ \A i \in 1 .. Len(w) : wire'[Len(wire) + i] = w[i]
  BY SendEffect
<1>2. /\ Call(t) = 1 => Len(w) = 1
      /\ Call(t) = 2 => Len(w) = 2 /\ w[2] = Byte("rest", Job(t), 1)
      /\ Call(t) = 3 => Len(w) = 1 /\ w[1] = Signal(Job(t))
      /\ Call(t) = 4 => Len(w) = Size /\ \A i \in 1 .. Size : w[i] = Data(Job(t))[i]
  BY <1>1, Written DEF Signal
<1>3. \A m \in 1 .. Len(w) :
          /\ w[m].job = Job(t) /\ CallOf[w[m].kind] = Call(t)
          /\ w[m].kind = "gob" => m = 1
          /\ w[m].kind = "signal" => Call(t) = 3 /\ m = 1
          /\ w[m].kind = "rest" => Call(t) = 2 /\ m = 2
  BY <1>1, WrittenBytes
<1>4. Len(w) \in Nat \ {0} /\ Size \in Nat \ {0}
  <2>1. Size \in Nat \ {0}
    BY BoundsAssumption
  <2>2. Call(t) \in {1, 2, 3, 4}
    BY <1>1
  <2>3. Len(w) \in {1, 2, Size}
    BY <1>2, <2>2
  <2>. QED
    BY <2>1, <2>3
<1>5. /\ Len(wire) \in Nat /\ Len(wire') \in Nat
      /\ DOMAIN wire = 1 .. Len(wire) /\ DOMAIN wire' = 1 .. Len(wire')
  BY DEF TypeOK
<1>. HIDE DEF w
<1>6. ASSUME NEW i \in DOMAIN wire' \ DOMAIN wire
      PROVE  /\ wire'[i].job = Job(t) /\ CallOf[wire'[i].kind] = Call(t)
             /\ wire'[i].kind \in {"gob", "signal"} => i = Len(wire) + 1
             /\ wire'[i].kind = "rest" => i = Len(wire')
             /\ wire'[i].kind = "signal" => i = Len(wire')
  <2>. DEFINE m == i - Len(wire)
  <2>1. m \in 1 .. Len(w) /\ i = Len(wire) + m
    BY <1>1, <1>4, <1>5
  <2>. HIDE DEF m
  <2>2. wire'[i] = w[m]
    BY <1>1, <2>1
  <2>3. /\ w[m].job = Job(t) /\ CallOf[w[m].kind] = Call(t)
        /\ w[m].kind = "gob" => m = 1
        /\ w[m].kind = "signal" => Call(t) = 3 /\ m = 1
        /\ w[m].kind = "rest" => Call(t) = 2 /\ m = 2
    BY <1>3, <2>1
  <2>4. w[m].kind = "rest" => i = Len(wire')
    BY <1>1, <1>2, <2>1, <2>3
  <2>5. w[m].kind = "signal" => i = Len(wire')
    BY <1>1, <1>2, <2>1, <2>3
  <2>6. w[m].kind \in {"gob", "signal"} => i = Len(wire) + 1
    BY <2>1, <2>3
  <2>. QED
    BY <2>2, <2>3, <2>4, <2>5, <2>6
<1>7. /\ \A i \in DOMAIN wire : i \in DOMAIN wire' /\ wire'[i] = wire[i]
      /\ Len(wire) < Len(wire')
  BY <1>1, <1>4, <1>5
<1>8. /\ Call(t) = 2 => /\ Len(wire') = Len(wire) + 2
                        /\ wire'[Len(wire) + 2] = Byte("rest", Job(t), 1)
      /\ Call(t) = 3 => wire'[Len(wire) + 1] = Signal(Job(t))
      /\ Call(t) = 4 => /\ Len(wire') = Len(wire) + Size
                        /\ \A i \in 1 .. Size : wire'[Len(wire) + i] = Data(Job(t))[i]
  <2>1. CASE Call(t) = 2
    <3>1. 2 \in 1 .. Len(w)
      BY <1>2, <2>1
    <3>. QED
      BY <1>1, <1>2, <2>1, <3>1
  <2>2. CASE Call(t) = 3
    <3>1. 1 \in 1 .. Len(w)
      BY <1>2, <2>2
    <3>. QED
      BY <1>1, <1>2, <2>2, <3>1
  <2>3. CASE Call(t) = 4
    BY <1>1, <1>2, <2>3
  <2>. QED
    BY <2>1, <2>2, <2>3
<1>. QED
  BY <1>5, <1>6, <1>7, <1>8

\* A signal on the connection has been sent, and it is the same byte before and after.
LEMMA SignalSent ==
  ASSUME TypeOK, SentInv, NEW f \in Jobs
  PROVE  /\ \A i \in DOMAIN wire : wire[i] = Signal(f) => Made(f, 3)
         /\ \A i \in DOMAIN wire : wire[i] = Byte("rest", f, 1) => Made(f, 2)
<1>1. CallOf["signal"] = 3 /\ CallOf["rest"] = 2
  BY DEF CallOf
<1>2. /\ Signal(f).job = f /\ Signal(f).kind = "signal"
      /\ Byte("rest", f, 1).job = f /\ Byte("rest", f, 1).kind = "rest"
  BY ByteFields DEF Signal
<1>3. ASSUME NEW i \in DOMAIN wire
      PROVE  Made(wire[i].job, CallOf[wire[i].kind])
  <2>1. wire[i] \in Bytes /\ OnWire(wire[i])
    BY DEF TypeOK, OnWire
  <2>. QED
    BY <2>1 DEF SentInv
<1>. QED
  BY <1>1, <1>2, <1>3

\* A write by the thread of f keeps SegmentInv.
LEMMA SegmentSend ==
  ASSUME TypeOK, TypeOK', SentInv, NEW t \in Threads, Send(t), NEW f \in Files, f \in Range(Script[t]),
         SegmentInv(f)
  PROVE  SegmentInv(f)'
<1>1. /\ \A i \in DOMAIN wire : i \in DOMAIN wire' /\ wire'[i] = wire[i]
      /\ Len(wire) \in Nat /\ Len(wire') \in Nat
      /\ DOMAIN wire = 1 .. Len(wire) /\ DOMAIN wire' = 1 .. Len(wire')
      /\ Len(wire) < Len(wire')
  BY Sent
<1>2. \A i \in DOMAIN wire' \ DOMAIN wire :
          /\ wire'[i].job = Job(t) /\ CallOf[wire'[i].kind] = Call(t)
          /\ wire'[i].kind \in {"gob", "signal"} => i = Len(wire) + 1
          /\ wire'[i].kind = "rest" => i = Len(wire')
          /\ wire'[i].kind = "signal" => i = Len(wire')
  BY Sent
<1>3. /\ Call(t) = 2 => /\ Len(wire') = Len(wire) + 2
                        /\ wire'[Len(wire) + 2] = Byte("rest", Job(t), 1)
      /\ Call(t) = 3 => wire'[Len(wire) + 1] = Signal(Job(t))
      /\ Call(t) = 4 => /\ Len(wire') = Len(wire) + Size
                        /\ \A i \in 1 .. Size : wire'[Len(wire) + i] = Data(Job(t))[i]
  BY Sent
<1>4. /\ \A c \in 1 .. 4 : NextCall(f, c) => Job(t) = f /\ Call(t) = c
      /\ Job(t) = f => ~ Made(f, Call(t))
      /\ \A c \in 1 .. 3 : Job(t) = f /\ Call(t) = c => NextCall(f, c + 1)'
  BY SendNext
<1>5. Size \in Nat /\ f \in Jobs
  BY BoundsAssumption DEF Files
<1>6. /\ Byte("rest", f, 1).kind = "rest" /\ Byte("rest", f, 1).job = f
      /\ Signal(f).kind = "signal" /\ Signal(f).job = f
      /\ CallOf["gob"] = 2 /\ CallOf["rest"] = 2 /\ CallOf["signal"] = 3
  BY ByteFields DEF Signal, CallOf
<1>7. \A i \in DOMAIN wire : wire[i] = Signal(f) => Made(f, 3)
  BY <1>5, SignalSent
<1>8. \A k \in 1 .. Size : Data(f)[k] = Data(f)[k]
  OBVIOUS
<1>9. \A i \in DOMAIN wire :
          /\ wire[i].kind = "gob" /\ wire[i].job = f => i < Len(wire) /\ wire[i + 1] = Byte("rest", f, 1)
          /\ wire[i] = Byte("rest", f, 1) =>
                 (i = Len(wire) /\ NextCall(f, 3)) \/ (i < Len(wire) /\ wire[i + 1] = Signal(f))
          /\ wire[i] = Signal(f) =>
                 /\ \A k \in DOMAIN wire : wire[k] = Signal(f) => k = i
                 /\ \/ i = Len(wire) /\ NextCall(f, 4)
                    \/ /\ i + Size <= Len(wire)
                       /\ \A k \in 1 .. Size : wire[i + k] = Data(f)[k]
  BY DEF SegmentInv
<1>10. ASSUME NEW i \in DOMAIN wire', wire'[i].kind = "gob", wire'[i].job = f
       PROVE  i < Len(wire') /\ wire'[i + 1] = Byte("rest", f, 1)
  <2>1. CASE i \in DOMAIN wire
    <3>1. i < Len(wire) /\ wire[i + 1] = Byte("rest", f, 1)
      BY <1>1, <1>9, <1>10, <2>1
    <3>. QED
      BY <1>1, <3>1
  <2>2. CASE i \notin DOMAIN wire
    <3>1. Call(t) = 2 /\ Job(t) = f /\ i = Len(wire) + 1
      BY <1>2, <1>6, <1>10, <2>2
    <3>2. i + 1 = Len(wire) + 2
      BY <1>1, <3>1
    <3>. QED
      BY <1>1, <1>3, <3>1, <3>2
  <2>. QED
    BY <2>1, <2>2
<1>11. ASSUME NEW i \in DOMAIN wire', wire'[i] = Byte("rest", f, 1)
       PROVE  (i = Len(wire') /\ NextCall(f, 3)') \/ (i < Len(wire') /\ wire'[i + 1] = Signal(f))
  <2>1. CASE i \in DOMAIN wire
    <3>1. (i = Len(wire) /\ NextCall(f, 3)) \/ (i < Len(wire) /\ wire[i + 1] = Signal(f))
      BY <1>1, <1>9, <1>11, <2>1
    <3>2. CASE i = Len(wire) /\ NextCall(f, 3)
      <4>1. Job(t) = f /\ Call(t) = 3
        BY <1>4, <3>2
      <4>2. wire'[Len(wire) + 1] = Signal(f)
        BY <1>3, <4>1
      <4>3. i < Len(wire') /\ i + 1 = Len(wire) + 1
        BY <1>1, <3>2
      <4>. QED
        BY <4>2, <4>3
    <3>3. CASE i < Len(wire) /\ wire[i + 1] = Signal(f)
      BY <1>1, <3>3
    <3>. QED
      BY <3>1, <3>2, <3>3
  <2>2. CASE i \notin DOMAIN wire
    <3>1. Call(t) = 2 /\ Job(t) = f /\ i = Len(wire')
      BY <1>2, <1>6, <1>11, <2>2
    <3>2. NextCall(f, 3)'
      <4>1. NextCall(f, 2 + 1)'
        BY <1>4, <3>1
      <4>. QED
        BY <4>1
    <3>. QED
      BY <3>1, <3>2
  <2>. QED
    BY <2>1, <2>2
<1>12. ASSUME NEW i \in DOMAIN wire', wire'[i] = Signal(f)
       PROVE  /\ \A k \in DOMAIN wire' : wire'[k] = Signal(f) => k = i
              /\ \/ i = Len(wire') /\ NextCall(f, 4)'
                 \/ /\ i + Size <= Len(wire')
                    /\ \A k \in 1 .. Size : wire'[i + k] = Data(f)[k]
  <2>1. \A k \in DOMAIN wire' \ DOMAIN wire : wire'[k] = Signal(f) =>
            Call(t) = 3 /\ Job(t) = f /\ k = Len(wire') /\ ~ \E l \in DOMAIN wire : wire[l] = Signal(f)
    BY <1>2, <1>4, <1>6, <1>7
  <2>2. CASE i \in DOMAIN wire
    <3>1. wire[i] = Signal(f)
      BY <1>1, <1>12, <2>2
    <3>2. \A k \in DOMAIN wire' : wire'[k] = Signal(f) => k = i
      BY <1>1, <1>9, <2>1, <2>2, <3>1
    <3>3. CASE i = Len(wire) /\ NextCall(f, 4)
      <4>1. Job(t) = f /\ Call(t) = 4
        BY <1>4, <3>3
      <4>2. /\ Len(wire') = Len(wire) + Size
            /\ \A k \in 1 .. Size : wire'[Len(wire) + k] = Data(f)[k]
        BY <1>3, <4>1
      <4>3. i + Size <= Len(wire') /\ \A k \in 1 .. Size : wire'[i + k] = Data(f)[k]
        BY <1>1, <1>5, <3>3, <4>2
      <4>. QED
        BY <3>2, <4>3
    <3>4. CASE i + Size <= Len(wire) /\ \A k \in 1 .. Size : wire[i + k] = Data(f)[k]
      <4>1. \A k \in 1 .. Size : i + k \in DOMAIN wire
        BY <1>1, <1>5, <2>2, <3>4
      <4>2. i + Size <= Len(wire')
        BY <1>1, <1>5, <2>2, <3>4
      <4>. QED
        BY <1>1, <3>2, <3>4, <4>1, <4>2
    <3>. QED
      BY <1>9, <2>2, <3>1, <3>3, <3>4
  <2>3. CASE i \notin DOMAIN wire
    <3>1. Call(t) = 3 /\ Job(t) = f /\ i = Len(wire') /\ ~ \E l \in DOMAIN wire : wire[l] = Signal(f)
      BY <1>12, <2>1, <2>3
    <3>2. NextCall(f, 4)'
      <4>1. NextCall(f, 3 + 1)'
        BY <1>4, <3>1
      <4>. QED
        BY <4>1
    <3>3. \A k \in DOMAIN wire' : wire'[k] = Signal(f) => k = i
      BY <1>1, <2>1, <3>1
    <3>. QED
      BY <3>1, <3>2, <3>3
  <2>. QED
    BY <2>2, <2>3
<1>13. SegmentInv(f)' <=>
         \A i \in DOMAIN wire' :
          /\ wire'[i].kind = "gob" /\ wire'[i].job = f => i < Len(wire') /\ wire'[i + 1] = Byte("rest", f, 1)
          /\ wire'[i] = Byte("rest", f, 1) =>
                 (i = Len(wire') /\ NextCall(f, 3)') \/ (i < Len(wire') /\ wire'[i + 1] = Signal(f))
          /\ wire'[i] = Signal(f) =>
                 /\ \A k \in DOMAIN wire' : wire'[k] = Signal(f) => k = i
                 /\ \/ i = Len(wire') /\ NextCall(f, 4)'
                    \/ /\ i + Size <= Len(wire')
                       /\ \A k \in 1 .. Size : wire'[i + k] = Data(f)[k]
  BY DEF SegmentInv, Signal, Byte, Data
<1>. QED
  BY <1>10, <1>11, <1>12, <1>13

\* A write by the thread of f keeps the rest.
LEMMA StreamSend ==
  ASSUME TypeOK, TypeOK', SentInv, NEW t \in Threads, Send(t), NEW f \in Files, f \in Range(Script[t]),
         FreshInv(f), LateInv(f), OpenInv(f)
  PROVE  FreshInv(f)' /\ LateInv(f)' /\ OpenInv(f)'
<1>1. /\ \A i \in DOMAIN wire : i \in DOMAIN wire' /\ wire'[i] = wire[i]
      /\ Len(wire) \in Nat /\ Len(wire') \in Nat
      /\ DOMAIN wire = 1 .. Len(wire) /\ DOMAIN wire' = 1 .. Len(wire')
      /\ Len(wire) < Len(wire')
      /\ wire \in Seq(Bytes) /\ wire' \in Seq(Bytes)
      /\ handler.buf \in Seq(Bytes)
  BY Sent DEF TypeOK
<1>2. \A i \in DOMAIN wire' \ DOMAIN wire :
          /\ wire'[i].job = Job(t) /\ CallOf[wire'[i].kind] = Call(t)
          /\ wire'[i].kind \in {"gob", "signal"} => i = Len(wire) + 1
  BY Sent
<1>3. /\ \A c \in 1 .. 4 : NextCall(f, c) => Job(t) = f /\ Call(t) = c
      /\ Job(t) = f => NextCall(f, Call(t)) /\ ~ Made(f, Call(t))
      /\ \A c \in 1 .. 3 : NextCall(f, c + 1)' => Job(t) = f /\ Call(t) = c
  BY SendNext
<1>4. /\ Signal(f).kind = "signal" /\ Signal(f).job = f /\ CallOf["signal"] = 3
      /\ Signal(f)' = Signal(f)
  BY ByteFields DEF Signal, CallOf, Byte
<1>5. Size \in Nat \ {0} /\ f \in Jobs
  BY BoundsAssumption DEF Files
<1>6. UNCHANGED receiver /\ ~ closed /\ closed' = closed
  BY SendEffect
<1>7. \A x : Decodes(x)' <=> Decodes(x)
  BY <1>6 DEF Decodes, receiver
<1>8. Made(f, 3) => Made(f, 3)'
  BY MadeGrows
<1>9. \A i \in DOMAIN wire' : wire'[i] = Signal(f) =>
          \/ i \in DOMAIN wire /\ wire[i] = Signal(f)
          \/ i = Len(wire) + 1 /\ NextCall(f, 3) /\ ~ Made(f, 3)
  BY <1>1, <1>2, <1>3, <1>4
<1>10. FreshInv(f)'
  <2>. SUFFICES ASSUME Decodes(f)
                PROVE  /\ NextCall(f, 3)' => wire' = <<>>
                       /\ \A i \in DOMAIN wire' : wire'[i] = Signal(f) => i = 1
    BY <1>4, <1>7 DEF FreshInv
  <2>1. Made(f, 2) /\ (NextCall(f, 3) => wire = <<>>)
        /\ \A i \in DOMAIN wire : wire[i] = Signal(f) => i = 1
    BY <1>5 DEF FreshInv, SentInv
  <2>2. ~ NextCall(f, 3)'
    <3>1. NextCall(f, 2 + 1)' => Job(t) = f /\ Call(t) = 2
      BY <1>3
    <3>2. ~ (Job(t) = f /\ Call(t) = 2)
      BY <1>3, <2>1
    <3>. QED
      BY <3>1, <3>2
  <2>3. wire = <<>> => Len(wire) + 1 = 1
    BY <1>1
  <2>. QED
    BY <1>9, <2>1, <2>2, <2>3
<1>11. LateInv(f)'
  <2>. SUFFICES ASSUME handler.pc = "copy" /\ handler.job = f /\ handler.buf # <<>>
                PROVE  Made(f, 3)' /\ \A i \in DOMAIN wire' : wire'[i] # Signal(f)
    BY <1>4, <1>6 DEF LateInv, receiver
  <2>1. Made(f, 3) /\ \A i \in DOMAIN wire : wire[i] # Signal(f)
    BY DEF LateInv
  <2>. QED
    BY <1>8, <1>9, <2>1
<1>12. OpenInv(f)'
  <2>. SUFFICES ASSUME reader.on = Signal(f) /\ wg = 1
                PROVE  /\ \A x \in Jobs : Decodes(x)' => NotAfter(x, f)
                       /\ handler.pc = "idle" => Aligned(f, wire)'
                       /\ handler.pc = "copy" /\ handler.job = f => Aligned(f, handler.buf \o wire)'
                       /\ handler.pc # "signal"
    BY <1>4, <1>6 DEF OpenInv, receiver, NotAfter
  <2>1. /\ \A x \in Jobs : Decodes(x) => NotAfter(x, f)
        /\ handler.pc = "idle" => Aligned(f, wire)
        /\ handler.pc = "copy" /\ handler.job = f => Aligned(f, handler.buf \o wire)
        /\ handler.pc # "signal"
    BY DEF OpenInv
  <2>2. ASSUME NextCall(f, 4)
        PROVE  /\ Len(wire') = Len(wire) + Size
               /\ \A i \in 1 .. Size : wire'[Len(wire) + i] = Data(f)[i]
    <3>1. Job(t) = f /\ Call(t) = 4
      BY <1>3, <2>2
    <3>. QED
      BY <3>1, Sent
  <2>3. Aligned(f, wire) => Fits(f, wire')
    <3>1. CASE wire = <<>> /\ Awaited(f)
      <4>1. NextCall(f, 4) /\ Len(wire) = 0
        BY <1>6, <3>1 DEF Awaited
      <4>2. Len(wire') = Len(wire) + Size /\ \A i \in 1 .. Size : wire'[Len(wire) + i] = Data(f)[i]
        BY <2>2, <4>1
      <4>3. Len(wire') = Size /\ \A i \in 1 .. Size : wire'[i] = Data(f)[i]
        BY <1>5, <4>1, <4>2
      <4>. QED
        BY <1>5, <4>3 DEF Fits
    <3>2. CASE Fits(f, wire)
      BY <1>1, <1>5, <3>2 DEF Fits
    <3>. QED
      BY <3>1, <3>2 DEF Aligned
  <2>4. Aligned(f, handler.buf \o wire) => Fits(f, handler.buf \o wire')
    <3>. DEFINE s == handler.buf \o wire
                r == handler.buf \o wire'
    <3>1. /\ Len(s) = Len(handler.buf) + Len(wire) /\ Len(r) = Len(handler.buf) + Len(wire')
          /\ Len(handler.buf) \in Nat
          /\ \A i \in 1 .. Len(s) : r[i] = s[i]
          /\ \A i \in 1 .. Len(wire') : r[Len(handler.buf) + i] = wire'[i]
      <4>1. \A u \in Seq(Bytes) :
                /\ Len(handler.buf \o u) = Len(handler.buf) + Len(u)
                /\ \A i \in 1 .. Len(handler.buf) : (handler.buf \o u)[i] = handler.buf[i]
                /\ \A i \in 1 .. Len(u) : (handler.buf \o u)[Len(handler.buf) + i] = u[i]
        BY <1>1
      <4>2. /\ Len(s) = Len(handler.buf) + Len(wire) /\ Len(r) = Len(handler.buf) + Len(wire')
            /\ \A i \in 1 .. Len(handler.buf) : s[i] = handler.buf[i] /\ r[i] = handler.buf[i]
            /\ \A i \in 1 .. Len(wire) : s[Len(handler.buf) + i] = wire[i]
            /\ \A i \in 1 .. Len(wire') : r[Len(handler.buf) + i] = wire'[i]
        BY <1>1, <4>1
      <4>3. Len(handler.buf) \in Nat /\ Len(wire) \in Nat
        BY <1>1
      <4>. HIDE DEF s, r
      <4>4. ASSUME NEW i \in 1 .. Len(s)
            PROVE  r[i] = s[i]
        <5>1. CASE i <= Len(handler.buf)
          BY <4>2, <4>3, <5>1
        <5>2. CASE i > Len(handler.buf)
          <6>. DEFINE m == i - Len(handler.buf)
          <6>1. m \in 1 .. Len(wire) /\ i = Len(handler.buf) + m
            <7>1. Len(s) = Len(handler.buf) + Len(wire)
              BY <4>2
            <7>. QED
              BY <4>3, <5>2, <7>1
          <6>. HIDE DEF m
          <6>2. m \in 1 .. Len(wire') /\ wire'[m] = wire[m]
            BY <1>1, <6>1
          <6>. QED
            BY <4>2, <6>1, <6>2
        <5>. QED
          BY <4>2, <4>3, <1>1, <5>1, <5>2
      <4>. QED
        BY <4>2, <4>3, <4>4
    <3>2. CASE s = <<>> /\ Awaited(f)
      <4>1. NextCall(f, 4)
        BY <1>6, <3>2 DEF Awaited
      <4>2. Len(wire') = Len(wire) + Size /\ \A i \in 1 .. Size : wire'[Len(wire) + i] = Data(f)[i]
        BY <2>2, <4>1
      <4>3. Len(handler.buf) = 0 /\ Len(wire) = 0
        <5>1. Len(s) = 0
          BY <3>2
        <5>. QED
          BY <1>1, <3>1, <5>1
      <4>. HIDE DEF s, r
      <4>4. Len(r) = Size /\ \A i \in 1 .. Size : r[i] = Data(f)[i]
        BY <1>5, <3>1, <4>2, <4>3
      <4>. QED
        BY <1>5, <4>4 DEF Fits, r
    <3>3. CASE Fits(f, s)
      <4>. HIDE DEF s, r
      <4>1. Len(s) >= Size /\ \A k \in 1 .. Size : s[k] = Data(f)[k]
        BY <3>3 DEF Fits
      <4>2. Len(s) \in Nat /\ Len(r) \in Nat /\ Len(s) < Len(r) /\ Size \in Nat
        BY <1>1, <1>5, <3>1
      <4>3. \A k \in 1 .. Size : k \in 1 .. Len(s)
        BY <4>1, <4>2
      <4>4. Len(r) >= Size /\ \A k \in 1 .. Size : r[k] = Data(f)[k]
        BY <3>1, <4>1, <4>2, <4>3
      <4>. QED
        BY <4>4 DEF Fits, r
    <3>. QED
      BY <3>2, <3>3 DEF Aligned
  <2>5. Aligned(f, wire) => Aligned(f, wire)'
    BY <2>3 DEF Aligned, Fits, Data, Byte
  <2>6. handler' = handler
    BY <1>6 DEF receiver
  <2>7. Aligned(f, handler.buf \o wire) => Aligned(f, handler.buf \o wire)'
    BY <2>4, <2>6 DEF Aligned, Fits, Data, Byte
  <2>. QED
    BY <1>7, <2>1, <2>5, <2>7
<1>. QED
  BY <1>10, <1>11, <1>12

\* A goroutine that stores parts in a mesh stores no Chord file before them.
PartsBeforeFiles ==
    \A t \in Threads : \A a, b \in DOMAIN Script[t] :
        Script[t][a].type = "chord" /\ Script[t][b].type = "mesh" => b < a

\* While f is undisturbed, a Chord file is not among the jobs sent before f.
LEMMA NoChordBefore ==
  ASSUME TypeOK, SentInv, PartsBeforeFiles, NEW f \in Files, f.type = "mesh", Undisturbed(f),
         NEW x \in Jobs, Decodes(x), NotAfter(x, f)
  PROVE  x.type # "chord"
<1>. SUFFICES ASSUME x.type = "chord"
              PROVE  FALSE
  OBVIOUS
<1>1. PICK t \in Threads : \E a \in DOMAIN Script[t] : x = Script[t][a]
  BY Scripts
<1>2. PICK a \in DOMAIN Script[t] : x = Script[t][a]
  BY <1>1
<1>3. a < at[t].job \/ (a = at[t].job /\ 2 < at[t].call)
  BY <1>2 DEF SentInv, Made
<1>4. a \in Nat \ {0}
  BY <1>2, Scripts
<1>5. at[t] # Start
  BY <1>3, <1>4 DEF Start
<1>6. PICK b \in DOMAIN Script[t] : f = Script[t][b]
  BY <1>5 DEF Undisturbed, Range
<1>7. a <= b
  BY <1>2, <1>6 DEF NotAfter
<1>8. b < a
  BY <1>2, <1>6 DEF PartsBeforeFiles
<1>9. b \in Nat
  BY <1>6, Scripts
<1>. QED
  BY <1>4, <1>7, <1>8, <1>9

\* What the steps of the receiver leave alone.
LEMMA Handlers ==
  ASSUME TypeOK, [Next]_vars
  PROVE  \/ handler' = handler
         \/ Dispatch \/ Copy
         \/ handler'.pc \in {"idle", "drain"} /\ (StorePart \/ StorePartFails \/ ReadSignal \/ StoreRest)
<1>1. CASE ReadSignal
  <2>1. handler' = Idle \/ handler' = [handler EXCEPT !.pc = "drain"]
    BY <1>1 DEF ReadSignal, Returns
  <2>2. handler'.pc \in {"idle", "drain"}
    BY <2>1 DEF Idle, TypeOK
  <2>. QED
    BY <1>1, <2>2
<1>2. CASE StorePart \/ StorePartFails \/ StoreRest
  BY <1>2 DEF StorePart, StorePartFails, StoreRest, Returns, Idle
<1>3. CASE \/ \E t \in Threads : Send(t)
           \/ Close \/ Peek \/ PeekFails \/ ReadBody \/ ReadBodyFails \/ Push \/ PushOther
           \/ Resume \/ UNCHANGED vars
  BY <1>3 DEF Send, Close, Peek, PeekFails, ReadBody, ReadBodyFails, Push, PushOther,
                    Resume, vars, receiver
<1>4. CASE Dispatch \/ Copy
  BY <1>4
<1>. QED
  BY <1>1, <1>2, <1>3, <1>4 DEF Next, Receive, ReadLoop, EventLoop

\* The other steps keep FreshInv.
LEMMA FreshRead ==
  ASSUME TypeOK, TypeOK', SentInv, [Next]_vars, ~ \E t \in Threads : Send(t), NEW f \in Files,
         SegmentInv(f), FreshInv(f)
  PROVE  FreshInv(f)'
<1>1. at' = at /\ f \in Jobs
  BY ReadStep DEF Files
<1>2. /\ wire \in Seq(Bytes) /\ wire' \in Seq(Bytes)
      /\ Len(wire) \in Nat /\ DOMAIN wire = 1 .. Len(wire)
      /\ Len(wire') \in Nat /\ DOMAIN wire' = 1 .. Len(wire')
  BY DEF TypeOK
<1>3. (NextCall(f, 3)' <=> NextCall(f, 3)) /\ Signal(f)' = Signal(f)
  BY <1>1 DEF NextCall, Signal, Byte
<1>. SUFFICES ASSUME Decodes(f)'
              PROVE  /\ NextCall(f, 3) => wire' = <<>>
                     /\ \A i \in DOMAIN wire' : wire'[i] = Signal(f) => i = 1
  BY <1>3 DEF FreshInv
<1>4. CASE Decodes(f)
  <2>1. PICK n \in 0 .. Len(wire) : Dropped(n)
    BY ReadStep
  <2>2. /\ NextCall(f, 3) => Len(wire) = 0
        /\ \A i \in DOMAIN wire : wire[i] = Signal(f) => i = 1
    BY <1>4 DEF FreshInv
  <2>3. Len(wire') = Len(wire) - n /\ \A i \in DOMAIN wire' : i + n \in DOMAIN wire /\ wire'[i] = wire[i + n]
    BY <1>2, <2>1 DEF Dropped
  <2>4. Len(wire) = 0 => wire' = <<>>
    BY <1>2, <2>1, <2>3
  <2>5. ASSUME NEW i \in DOMAIN wire', wire'[i] = Signal(f)
        PROVE  i = 1
    <3>1. i + n = 1
      BY <2>2, <2>3, <2>5
    <3>. QED
      BY <1>2, <3>1
  <2>. QED
    BY <2>2, <2>4, <2>5
<1>5. CASE ~ Decodes(f)
  <2>1. /\ ReadBody /\ 2 <= Len(wire) /\ f = wire[1].job
        /\ wire[1].kind = "gob" /\ wire[2].kind = "rest"
    BY <1>1, <1>5, DecodeStep
  <2>2. PICK n \in 2 .. Len(wire) : Dropped(n)
    <3>1. rpc' # None
      <4>1. rpc' = None => ~ Decodes(f)'
        <5>1. UNCHANGED <<rpcch, handled>> /\ f # None
          BY <1>1, <2>1, ReadBodyEffect, NoneAssumption
        <5>. QED
          BY <1>5, <5>1 DEF Decodes
      <4>. QED
        BY <4>1
    <3>. QED
      BY <2>1, <3>1, ReadBodyEffect
  <2>3. wire[2] = Byte("rest", f, 1)
    <3>1. 1 \in DOMAIN wire
      BY <1>2, <2>1
    <3>2. wire[1 + 1] = Byte("rest", f, 1)
      BY <2>1, <3>1 DEF SegmentInv
    <3>. QED
      BY <3>2
  <2>4. \/ Len(wire) = 2 /\ NextCall(f, 3)
        \/ 2 < Len(wire) /\ wire[2 + 1] = Signal(f)
    <3>1. 2 \in DOMAIN wire
      BY <1>2, <2>1
    <3>. QED
      BY <2>3, <3>1 DEF SegmentInv
  <2>5. Len(wire') = Len(wire) - n /\ \A i \in DOMAIN wire' : i + n \in DOMAIN wire /\ wire'[i] = wire[i + n]
    BY <1>2, <2>2 DEF Dropped
  <2>6. CASE Len(wire) = 2
    <3>1. Len(wire') = 0
      BY <1>2, <2>2, <2>5, <2>6
    <3>. QED
      BY <1>2, <3>1
  <2>7. CASE 2 < Len(wire) /\ wire[3] = Signal(f)
    <3>1. 3 \in DOMAIN wire
      BY <1>2, <2>7
    <3>2. Made(f, 3)
      BY <1>1, <2>7, <3>1, SignalSent
    <3>3. ~ NextCall(f, 3)
      BY <1>1, <3>2, Calling
    <3>4. \A k \in DOMAIN wire : wire[k] = Signal(f) => k = 3
      BY <2>7, <3>1 DEF SegmentInv
    <3>5. ASSUME NEW i \in DOMAIN wire', wire'[i] = Signal(f)
          PROVE  i = 1
      <4>1. i + n = 3
        BY <2>5, <3>4, <3>5
      <4>. QED
        BY <1>2, <2>2, <4>1
    <3>. QED
      BY <3>3, <3>5
  <2>. QED
    BY <2>4, <2>6, <2>7
<1>. QED
  BY <1>4, <1>5

\* The other steps keep LateInv.
LEMMA LateRead ==
  ASSUME TypeOK, TypeOK', StageInv, SentInv, [Next]_vars, ~ \E t \in Threads : Send(t),
         NEW f \in Files, FreshInv(f), LateInv(f)
  PROVE  LateInv(f)'
<1>1. at' = at /\ f \in Jobs
  BY ReadStep DEF Files
<1>2. /\ wire \in Seq(Bytes) /\ wire' \in Seq(Bytes)
      /\ Len(wire) \in Nat /\ DOMAIN wire = 1 .. Len(wire)
      /\ Len(wire') \in Nat /\ DOMAIN wire' = 1 .. Len(wire')
  BY DEF TypeOK
<1>3. (Made(f, 3)' <=> Made(f, 3)) /\ Signal(f)' = Signal(f)
  BY <1>1 DEF Made, Signal, Byte
<1>. SUFFICES ASSUME handler'.pc = "copy", handler'.job = f, handler'.buf # <<>>
              PROVE  Made(f, 3) /\ \A i \in DOMAIN wire' : wire'[i] # Signal(f)
  BY <1>3 DEF LateInv
<1>4. CASE handler' = handler
  <2>1. PICK n \in 0 .. Len(wire) : Dropped(n)
    BY ReadStep
  <2>2. \A i \in DOMAIN wire' : i + n \in DOMAIN wire /\ wire'[i] = wire[i + n]
    BY <1>2, <2>1 DEF Dropped
  <2>. QED
    BY <1>4, <2>2 DEF LateInv
<1>5. CASE Dispatch
  <2>1. \/ handler' = handler \/ handler' = Idle \/ handler'.buf = <<>>
    BY <1>5, DispatchEffect
  <2>. QED
    BY <1>4, <2>1 DEF Idle
<1>6. CASE Copy
  <2>1. handler.pc = "copy" /\ handler.job = f /\ Dropped(1) /\ wire # <<>>
    BY <1>6, CopyEffect
  <2>2. \A i \in DOMAIN wire' : i + 1 \in DOMAIN wire /\ wire'[i] = wire[i + 1] /\ i + 1 # 1
    BY <1>2, <2>1 DEF Dropped
  <2>3. CASE handler.buf # <<>>
    BY <2>1, <2>2, <2>3 DEF LateInv
  <2>4. CASE handler.buf = <<>>
    <3>1. Decodes(f)
      BY <2>1 DEF StageInv, Decodes
    <3>2. ~ NextCall(f, 3) /\ \A i \in DOMAIN wire : wire[i] = Signal(f) => i = 1
      BY <2>1, <3>1 DEF FreshInv
    <3>3. Made(f, 2)
      BY <1>1, <3>1 DEF SentInv
    <3>4. Made(f, 3)
      BY <1>1, <3>2, <3>3, Calling
    <3>. QED
      BY <2>2, <3>2, <3>4
  <2>. QED
    BY <2>3, <2>4
<1>. QED
  BY <1>4, <1>5, <1>6, Handlers

\* A byte that moves from the front of one sequence to the end of another.
LEMMA MovedByte ==
  ASSUME NEW b \in Seq(Bytes), NEW w \in Seq(Bytes), w # <<>>
  PROVE  Append(b, w[1]) \o Tail(w) = b \o w
<1>1. w[1] \in Bytes /\ Tail(w) \in Seq(Bytes) /\ Len(Tail(w)) = Len(w) - 1 /\ Len(w) \in Nat \ {0}
      /\ Len(b) \in Nat
  OBVIOUS
<1>2. \A i \in 1 .. Len(w) - 1 : Tail(w)[i] = w[i + 1]
  OBVIOUS
<1>. DEFINE a == Append(b, w[1])
            u == Tail(w)
<1>3. a \in Seq(Bytes) /\ Len(a) = Len(b) + 1 /\ a[Len(b) + 1] = w[1]
      /\ \A i \in 1 .. Len(b) : a[i] = b[i]
  BY <1>1
<1>4. u \in Seq(Bytes) /\ Len(u) = Len(w) - 1 /\ \A i \in 1 .. Len(w) - 1 : u[i] = w[i + 1]
  BY <1>1, <1>2
<1>. HIDE DEF a, u
<1>5. /\ a \o u \in Seq(Bytes) /\ Len(a \o u) = Len(b) + Len(w)
      /\ \A i \in 1 .. Len(b) + Len(w) : (a \o u)[i] = IF i <= Len(b) + 1 THEN a[i] ELSE u[i - (Len(b) + 1)]
  <2>1. /\ a \o u \in Seq(Bytes) /\ Len(a \o u) = Len(a) + Len(u)
        /\ \A i \in 1 .. Len(a) + Len(u) : (a \o u)[i] = IF i <= Len(a) THEN a[i] ELSE u[i - Len(a)]
    BY <1>3, <1>4, ConcatProperties
  <2>. QED
    BY <1>1, <1>3, <1>4, <2>1
<1>6. /\ b \o w \in Seq(Bytes) /\ Len(b \o w) = Len(b) + Len(w)
      /\ \A i \in 1 .. Len(b) + Len(w) : (b \o w)[i] = IF i <= Len(b) THEN b[i] ELSE w[i - Len(b)]
  BY ConcatProperties
<1>7. ASSUME NEW i \in 1 .. Len(b) + Len(w)
      PROVE  (a \o u)[i] = (b \o w)[i]
  <2>1. CASE i <= Len(b)
    BY <1>1, <1>3, <1>5, <1>6, <2>1
  <2>2. CASE i = Len(b) + 1
    BY <1>1, <1>3, <1>5, <1>6, <2>2
  <2>3. CASE i > Len(b) + 1
    <3>. DEFINE m == i - (Len(b) + 1)
    <3>1. m \in 1 .. Len(w) - 1 /\ m + 1 = i - Len(b)
      BY <1>1, <2>3
    <3>2. u[m] = w[m + 1]
      BY <1>4, <3>1
    <3>3. (a \o u)[i] = u[m] /\ (b \o w)[i] = w[i - Len(b)]
      BY <1>1, <1>5, <1>6, <2>3
    <3>. QED
      BY <3>1, <3>2, <3>3
  <2>4. i <= Len(b) \/ i = Len(b) + 1 \/ i > Len(b) + 1
    <3>1. i \in Nat /\ Len(b) \in Nat
      BY <1>1
    <3>. QED
      BY <3>1
  <2>. QED
    BY <2>1, <2>2, <2>3, <2>4
<1>8. \A s, r \in Seq(Bytes) : Len(s) = Len(r) /\ (\A i \in 1 .. Len(r) : s[i] = r[i]) => s = r
  OBVIOUS
<1>9. a \o u = b \o w
  BY <1>5, <1>6, <1>7, <1>8
<1>. QED
  BY <1>9 DEF a, u

\* The other steps keep OpenInv.
LEMMA OpenRead ==
  ASSUME PartsBeforeFiles, TypeOK, TypeOK', StageInv, SentInv, LineInv, [Next]_vars,
         ~ \E t \in Threads : Send(t), NEW f \in Files, f.type = "mesh", Undisturbed(f),
         Undisturbed(f)', SegmentInv(f), LateInv(f), OpenInv(f)
  PROVE  OpenInv(f)'
<1>1. at' = at /\ f \in Jobs
  BY ReadStep DEF Files
<1>2. /\ wire \in Seq(Bytes) /\ wire' \in Seq(Bytes)
      /\ Len(wire) \in Nat /\ DOMAIN wire = 1 .. Len(wire)
      /\ handler.buf \in Seq(Bytes) /\ wg \in 0 .. 1 /\ Size \in Nat \ {0}
  BY BoundsAssumption DEF TypeOK
<1>3. (NextCall(f, 4)' <=> NextCall(f, 4)) /\ Signal(f)' = Signal(f)
  BY <1>1 DEF NextCall, Signal, Byte
<1>4. closed => closed'
  BY DEF Next, Close, Receive, ReadLoop, EventLoop, Peek, PeekFails, ReadBody, ReadBodyFails,
         Push, PushOther, Resume, Dispatch, Copy, StorePart, StorePartFails, ReadSignal, StoreRest, vars
<1>5. Awaited(f) => Awaited(f)'
  BY <1>3, <1>4 DEF Awaited
<1>6. /\ wire' = wire => (Aligned(f, wire) => Aligned(f, wire)')
      /\ wire' = wire /\ handler' = handler =>
             (Aligned(f, handler.buf \o wire) => Aligned(f, handler.buf \o wire)')
  BY <1>5 DEF Aligned, Fits, Data, Byte
<1>7. \A x : NotAfter(x, f)' <=> NotAfter(x, f)
  BY DEF NotAfter
<1>. SUFFICES ASSUME reader'.on = Signal(f), wg' = 1
              PROVE  /\ \A x \in Jobs : Decodes(x)' => NotAfter(x, f)
                     /\ handler'.pc = "idle" => Aligned(f, wire)'
                     /\ handler'.pc = "copy" /\ handler'.job = f => Aligned(f, handler.buf \o wire)'
                     /\ handler'.pc # "signal"
  BY <1>3, <1>7 DEF OpenInv
<1>8. CASE Peek
  <2>1. /\ reader.pc = "peek" /\ Len(wire) > 0 /\ Dropped(1)
        /\ (reader'.on = wire[1] /\ wg' = wg + 1) \/ wg' = wg
        /\ UNCHANGED <<rpc, rpcch, handler, handled>>
    BY <1>8, PeekEffect
  <2>2. wg = 0
    BY <2>1 DEF StageInv
  <2>3. wire[1] = Signal(f) /\ 1 \in DOMAIN wire
    BY <1>2, <2>1, <2>2
  <2>4. ASSUME NEW x \in Jobs, Decodes(x)
        PROVE  NotAfter(x, f) /\ x.type # "chord"
    <3>1. Signal(f).job = f
      BY ByteFields DEF Signal
    <3>2. NotAfter(x, f)
      BY <2>3, <2>4, <3>1 DEF LineInv
    <3>. QED
      BY <2>4, <3>2, NoChordBefore
  <2>5. handler.pc # "signal"
    <3>. SUFFICES ASSUME handler.pc = "signal"
                  PROVE  FALSE
      OBVIOUS
    <3>1. handler.job.type = "chord" /\ \E i \in DOMAIN handled : handled[i] = handler.job
      BY DEF StageInv
    <3>2. handler.job \in Jobs /\ Decodes(handler.job)
      BY <3>1 DEF Decodes, TypeOK
    <3>. QED
      BY <2>4, <3>1, <3>2
  <2>6. Aligned(f, wire)'
    <3>1. Len(wire') = Len(wire) - 1 /\ \A i \in 1 .. Len(wire') : wire'[i] = wire[i + 1]
      BY <2>1 DEF Dropped
    <3>2. \/ 1 = Len(wire) /\ NextCall(f, 4)
          \/ 1 + Size <= Len(wire) /\ \A k \in 1 .. Size : wire[1 + k] = Data(f)[k]
      BY <2>3 DEF SegmentInv
    <3>3. CASE 1 = Len(wire) /\ NextCall(f, 4)
      <4>1. wire' = <<>>
        BY <1>2, <3>1, <3>3
      <4>. QED
        BY <1>5, <3>3, <4>1 DEF Aligned, Awaited
    <3>4. CASE 1 + Size <= Len(wire) /\ \A k \in 1 .. Size : wire[1 + k] = Data(f)[k]
      <4>1. Len(wire') >= Size /\ \A k \in 1 .. Size : k \in 1 .. Len(wire')
        BY <1>2, <3>1, <3>4
      <4>2. \A k \in 1 .. Size : wire'[k] = Data(f)[k]
        BY <1>2, <3>1, <3>4, <4>1
      <4>3. Fits(f, wire)'
        BY <4>1, <4>2 DEF Fits, Data, Byte
      <4>. QED
        BY <4>3 DEF Aligned
    <3>. QED
      BY <3>2, <3>3, <3>4
  <2>7. ASSUME handler.pc = "copy", handler.job = f
        PROVE  Aligned(f, handler.buf \o wire)'
    <3>1. handler.buf = <<>>
      BY <2>3, <2>7 DEF LateInv
    <3>2. handler'.buf \o wire' = wire'
      BY <1>2, <2>1, <3>1
    <3>. QED
      BY <2>6, <3>2 DEF Aligned, Fits
  <2>8. \A x : Decodes(x)' <=> Decodes(x)
    BY <2>1 DEF Decodes
  <2>. QED
    BY <2>1, <2>4, <2>5, <2>6, <2>7, <2>8
<1>9. CASE ~ Peek
  <2>1. reader'.on = reader.on /\ (wg' = wg \/ wg' = wg - 1)
    <3>1. CASE ReadBody
      BY <3>1, ReadBodyEffect
    <3>2. CASE PeekFails \/ ReadBodyFails \/ Push \/ Resume
      BY <3>2 DEF PeekFails, ReadBodyFails, Push, Resume, TypeOK
    <3>3. CASE Close \/ PushOther \/ Dispatch \/ Copy \/ StorePart \/ StorePartFails
               \/ ReadSignal \/ StoreRest \/ UNCHANGED vars
      BY <3>3 DEF Close, PushOther, Dispatch, Copy, StorePart, StorePartFails, ReadSignal,
                  StoreRest, vars, receiver
    <3>. QED
      BY <1>9, <3>1, <3>2, <3>3 DEF Next, Receive, ReadLoop, EventLoop
  <2>2. reader.on = Signal(f) /\ wg = 1 /\ wg' = wg
    BY <1>2, <2>1
  <2>3. reader.pc = "waiting"
    BY <2>2 DEF StageInv
  <2>4. /\ \A x \in Jobs : Decodes(x) => NotAfter(x, f)
        /\ handler.pc = "idle" => Aligned(f, wire)
        /\ handler.pc = "copy" /\ handler.job = f => Aligned(f, handler.buf \o wire)
        /\ handler.pc # "signal"
    BY <2>2 DEF OpenInv
  <2>5. /\ ~ ReadBody /\ ~ StorePart /\ ~ ReadSignal /\ ~ Resume /\ ~ Push /\ ~ PeekFails
        /\ ~ ReadBodyFails /\ ~ StorePartFails
    BY <2>2, <2>3, <2>4, NobodyFails
       DEF ReadBody, StorePart, ReadSignal, Resume, Push, PeekFails, ReadBodyFails
  <2>6. \A x \in Jobs : Decodes(x)' => NotAfter(x, f)
    BY <2>4, <2>5, DecodeStep
  <2>7. /\ handler'.pc = "idle" => Aligned(f, wire)'
        /\ handler'.pc = "copy" /\ handler'.job = f => Aligned(f, handler.buf \o wire)'
        /\ handler'.pc # "signal"
    <3>1. CASE Close \/ PushOther \/ UNCHANGED vars
      <4>1. wire' = wire /\ handler' = handler
        BY <3>1 DEF Close, PushOther, vars, receiver
      <4>. QED
        BY <1>6, <2>4, <4>1
    <3>2. CASE Dispatch
      <4>1. handler.pc = "idle" /\ wire' = wire /\ rpcch # <<>>
        BY <3>2, DispatchEffect
      <4>2. Aligned(f, wire)'
        BY <1>6, <2>4, <4>1
      <4>3. ~ (rpcch[1] \in Jobs /\ rpcch[1].type = "chord")
        <5>1. 1 \in DOMAIN rpcch
          BY <4>1 DEF TypeOK
        <5>2. Decodes(rpcch[1])
          BY <5>1 DEF Decodes
        <5>. QED
          BY <2>4, <5>2, NoChordBefore
      <4>4. \/ handler'.pc = "idle"
            \/ handler'.pc = "copy" /\ handler'.buf = <<>>
        <5>1. \/ handler' = handler \/ handler' = Idle
              \/ handler' = [pc |-> "copy", job |-> rpcch[1], buf |-> <<>>]
          BY <3>2, <4>3, DispatchEffect
        <5>. QED
          BY <4>1, <5>1 DEF Idle
      <4>5. handler'.buf = <<>> => handler'.buf \o wire' = wire'
        BY <1>2
      <4>6. handler'.buf = <<>> => Aligned(f, handler.buf \o wire)'
        BY <4>2, <4>5 DEF Aligned, Fits
      <4>. QED
        BY <4>2, <4>4, <4>6
    <3>3. CASE Copy
      <4>1. /\ handler.pc \in {"copy", "drain"} /\ wire # <<>> /\ wire[1] \in Bytes
            /\ handler'.pc = handler.pc /\ handler'.job = handler.job
            /\ handler'.buf = Append(handler.buf, wire[1]) /\ wire' = Tail(wire)
        BY <3>3, CopyEffect DEF Copy
      <4>2. handler'.buf \o wire' = handler.buf \o wire
        <5>1. \A b, w \in Seq(Bytes) : w # <<>> => Append(b, w[1]) \o Tail(w) = b \o w
          BY MovedByte
        <5>. QED
          BY <1>2, <4>1, <5>1
      <4>3. Aligned(f, handler.buf \o wire) => Aligned(f, handler.buf \o wire)'
        BY <1>5, <4>2 DEF Aligned, Fits, Data, Byte
      <4>. QED
        BY <2>4, <4>1, <4>3
    <3>4. CASE StoreRest
      <4>1. handler'.pc = "idle" /\ wire = <<>> /\ closed /\ wire' = wire
        BY <3>4 DEF StoreRest, Returns, EndOfFile, Idle
      <4>2. Aligned(f, wire)'
        BY <1>5, <4>1 DEF Aligned, Awaited
      <4>. QED
        BY <4>1, <4>2
    <3>. QED
      BY <1>9, <2>5, <3>1, <3>2, <3>3, <3>4 DEF Next, Receive, ReadLoop, EventLoop
  <2>. QED
    BY <2>6, <2>7
<1>. QED
  BY <1>8, <1>9

\* StreamInv(f) is kept.
LEMMA StreamStep ==
  ASSUME PartsBeforeFiles, TypeOK, TypeOK', StageInv, SentInv, LineInv, [Next]_vars,
         NEW f \in Files, f.type = "mesh", StreamInv(f)
  PROVE  StreamInv(f)'
<1>. SUFFICES ASSUME Undisturbed(f)'
              PROVE  SegmentInv(f)' /\ FreshInv(f)' /\ LateInv(f)' /\ OpenInv(f)'
  BY DEF StreamInv
<1>1. Undisturbed(f) /\ \A t \in Threads : Send(t) => f \in Range(Script[t])
  BY StillUndisturbed
<1>2. SegmentInv(f) /\ FreshInv(f) /\ LateInv(f) /\ OpenInv(f)
  BY <1>1 DEF StreamInv
<1>3. CASE \E t \in Threads : Send(t)
  <2>. PICK t \in Threads : Send(t)
    BY <1>3
  <2>. QED
    BY <1>1, <1>2, SegmentSend, StreamSend
<1>4. CASE ~ \E t \in Threads : Send(t)
  <2>1. \E n \in 0 .. Len(wire) : Dropped(n)
    BY <1>4, ReadStep
  <2>2. at' = at
    BY <1>4, ReadStep
  <2>. QED
    BY <1>1, <1>2, <1>4, <2>1, <2>2, SegmentRead, FreshRead, LateRead, OpenRead
<1>. QED
  BY <1>3, <1>4

-----------------------------------------------------------------------------
(* The theorems.                                                            *)

Parts == {f \in Files : f.type = "mesh"}

Queues == QueueInv /\ SentInv /\ LineInv
Streams == \A f \in Parts : StreamInv(f)

\* The invariants hold at the start, when nothing has been written.
LEMMA StartsInOrder ==
  ASSUME Init
  PROVE  TypeOK /\ StageInv /\ Queues /\ Streams
<1>. USE DEF Init
<1>1. /\ wire = <<>> /\ rpcch = <<>> /\ handled = <<>> /\ rpc = None /\ wg = 0
      /\ None \notin Jobs /\ handler = Idle
      /\ DOMAIN wire = {} /\ DOMAIN rpcch = {} /\ DOMAIN handled = {}
  BY NoneAssumption
<1>2. TypeOK
  <2>0. closed \in BOOLEAN /\ panicked \in BOOLEAN
    OBVIOUS
  <2>1. Start \in [job : Nat \ {0}, call : 1 .. 4] /\ Start.job = 1
    BY DEF Start
  <2>2. \A t \in Threads : at[t].job <= Len(Script[t]) + 1
    BY <2>1, Scripts
  <2>3. Idle \in [pc : {"idle", "copy", "signal", "drain"}, job : Files \cup {None}, buf : Seq(Bytes)]
    BY DEF Idle
  <2>4. ChanCap \in Nat \ {0} /\ MaxOthers \in Nat
    BY BoundsAssumption, OthersAssumption
  <2>5. Len(rpcch) <= ChanCap
    BY <2>4
  <2>6. ended \subseteq Files \X (Seq(Bytes) \cup {Failed})
    OBVIOUS
  <2>7. /\ at \in [Threads -> [job : Nat \ {0}, call : 1 .. 4]]
        /\ wire \in Seq(Bytes)
    BY <2>1
  <2>8. reader \in [pc : {"peek", "body", "push", "waiting"}, on : Bytes \cup {None}]
    OBVIOUS
  <2>9. /\ rpc \in Jobs \cup {None} /\ wg \in 0 .. 1
        /\ rpcch \in Seq(Jobs \cup {None, Other}) /\ handled \in Seq(Jobs)
        /\ others \in 0 .. MaxOthers
    BY <2>4
  <2>10. handler \in [pc : {"idle", "copy", "signal", "drain"}, job : Files \cup {None}, buf : Seq(Bytes)]
    BY <2>3
  <2>. HIDE DEF Init
  <2>. QED
    BY <2>0, <2>2, <2>5, <2>6, <2>7, <2>8, <2>9, <2>10 DEF TypeOK
<1>3. StageInv
  BY DEF StageInv, Idle
<1>4. \A x \in Jobs : ~ Decodes(x)
  BY <1>1 DEF Decodes
<1>5. QueueInv
  BY <1>1 DEF QueueInv
<1>6. SentInv
  BY <1>1, <1>4 DEF SentInv, OnWire
<1>7. LineInv
  BY <1>1 DEF LineInv
<1>8. ASSUME NEW f \in Parts
      PROVE  StreamInv(f)
  <2>1. SegmentInv(f)
    BY <1>1 DEF SegmentInv
  <2>2. FreshInv(f)
    BY <1>4 DEF FreshInv, Parts, Files
  <2>3. LateInv(f) /\ OpenInv(f)
    BY <1>1 DEF LateInv, OpenInv, Idle
  <2>. QED
    BY <2>1, <2>2, <2>3 DEF StreamInv
<1>. QED
  BY <1>2, <1>3, <1>5, <1>6, <1>7, <1>8 DEF Queues, Streams

\* TypeOK and StageInv hold in every reachable state.
LEMMA TypesHold == Spec => [](TypeOK /\ StageInv)
<1>1. Init => TypeOK /\ StageInv
  BY StartsInOrder
<1>2. TypeOK /\ StageInv /\ [Next]_vars => (TypeOK /\ StageInv)'
  BY TypeStep
<1>. QED
  BY <1>1, <1>2, PTL DEF Spec

\* The queues stay in order.
LEMMA QueuesHold == Spec => []Queues
<1>1. Init => Queues
  BY StartsInOrder
<1>2. TypeOK /\ TypeOK' /\ Queues /\ [Next]_vars => Queues'
  BY QueueStep, SentStep, LineStep DEF Queues
<1>. QED
  BY <1>1, <1>2, TypesHold, PTL DEF Spec

\* Every variable keeps its type, the WaitGroup counts at most one stream and rpcch
\* never holds more than it has room for: TypeOK, for any scripts and any capacity.
THEOREM ConnTypes == Spec => []TypeOK
<1>1. TypeOK /\ StageInv => TypeOK
  OBVIOUS
<1>. QED
  BY <1>1, TypesHold, PTL

\* Messages of one goroutine are handled in the order it sent them and at most once,
\* whatever is lost on the way and whatever the other goroutines and connections do:
\* HandledInOrder, which rests on the two goroutines of the receiver and on rpcch
\* being queues.
THEOREM MessagesInOrder == Spec => []HandledInOrder
<1>1. ASSUME TypeOK, QueueInv
      PROVE  HandledInOrder
  <2>. SUFFICES ASSUME NEW t \in Threads, NEW i \in DOMAIN handled, NEW k \in DOMAIN handled, i < k
                PROVE  /\ handled[i] # handled[k]
                       /\ \A a, b \in DOMAIN Script[t] :
                              handled[i] = Script[t][a] /\ handled[k] = Script[t][b] => a < b
    BY DEF HandledInOrder
  <2>1. InOrder(handled[i], handled[k])
    BY <1>1 DEF QueueInv
  <2>2. handled[i] # handled[k]
    <3>1. handled[k] \in Jobs
      BY <1>1 DEF TypeOK
    <3>2. PICK u \in Threads : \E a \in DOMAIN Script[u] : handled[k] = Script[u][a]
      BY <3>1, Scripts
    <3>3. PICK a \in DOMAIN Script[u] : handled[k] = Script[u][a]
      BY <3>2
    <3>4. a \in Nat /\ ~ (a < a)
      BY <3>3, Scripts
    <3>. QED
      BY <2>1, <3>3, <3>4 DEF InOrder
  <2>. QED
    BY <2>1, <2>2 DEF InOrder
<1>2. TypeOK /\ Queues => HandledInOrder
  BY <1>1 DEF Queues
<1>. QED
  BY <1>2, ConnTypes, QueuesHold, PTL

\* What the WaitGroup is for: while the read loop waits for the stream it announced and
\* no other goroutine of the sender has written, the handler of the part gets the data
\* of the part from the first byte on (StreamIsWhole) unless a handler has returned an
\* error before, for any scripts in which a
\* goroutine stores no Chord file before a part: a node belongs to a mesh or to a ring,
\* and never stores both.
THEOREM StreamsWhole ==
  ASSUME PartsBeforeFiles
  PROVE  Spec => []StreamIsWhole
<1>1. Init => Streams
  BY StartsInOrder
<1>2. TypeOK /\ TypeOK' /\ StageInv /\ Queues /\ Streams /\ [Next]_vars => Streams'
  <2>. SUFFICES ASSUME TypeOK, TypeOK', StageInv, Queues, Streams, [Next]_vars, NEW f \in Parts
                PROVE  StreamInv(f)'
    BY DEF Streams, Parts, Files, Jobs, Range
  <2>1. f \in Files /\ f.type = "mesh" /\ StreamInv(f)
    BY DEF Streams, Parts
  <2>. QED
    BY <2>1, StreamStep DEF Queues
<1>3. TypeOK /\ StageInv /\ Streams => StreamIsWhole
  <2>. SUFFICES ASSUME TypeOK, StageInv, Streams, NEW f \in Files, Streaming(f), Undisturbed(f),
                       NEW i \in 1 .. Size, i <= Len(handler.buf \o wire)
                PROVE  (handler.buf \o wire)[i] = Data(f)[i]
    BY DEF StreamIsWhole
  <2>1. f.type = "mesh"
    BY DEF Streaming, StageInv
  <2>2. StreamInv(f)
    BY <2>1 DEF Streams, Parts
  <2>3. OpenInv(f)
    BY <2>2 DEF StreamInv
  <2>4. Aligned(f, handler.buf \o wire)
    BY <2>3 DEF OpenInv, Streaming, Signal
  <2>5. handler.buf \o wire # <<>>
    <3>. DEFINE s == handler.buf \o wire
    <3>1. i <= Len(s) /\ (s = <<>> => Len(s) = 0)
      OBVIOUS
    <3>. HIDE DEF s
    <3>2. s # <<>>
      BY <3>1, BoundsAssumption
    <3>. QED
      BY <3>2 DEF s
  <2>. QED
    BY <2>4, <2>5 DEF Aligned, Fits
<1>. QED
  BY <1>1, <1>2, <1>3, TypesHold, QueuesHold, PTL DEF Spec
================================================================================
