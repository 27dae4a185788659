------------------------------ MODULE Connection ------------------------------
(***************************************************************************)
(* One direction of one TCP connection between two nodes, and the two      *)
(* goroutines of the receiving node that read it: the read loop            *)
(* handleConn, which decodes messages and hands them to the event loop     *)
(* over rpcch, and the event loop itself, whose handlers of a stored file  *)
(* read the file from the same connection.                                 *)
(*                                                                         *)
(* A sender writes a message as a tag byte and a gob body, and a file as a *)
(* signal byte and the data; other goroutines of the sending node write to *)
(* the connection in between, because sendMessage takes no lock.  On the   *)
(* receiving side a WaitGroup is to keep the read loop away from the       *)
(* connection while a handler reads a file.                                *)
(***************************************************************************)
EXTENDS Naturals, Sequences, FiniteSets, SequencesExt

CONSTANTS Threads,   \* goroutines of the sending node that use the connection
          Script,    \* Script[t]: the jobs of thread t, in order
          Size,      \* bytes in a file
          ChanCap,   \* capacity of rpcch
          MayClose,  \* may the sending node stop?
          MaxOthers, \* bound: messages that come over other connections
          Other,     \* such a message
          Failed,    \* the outcome of a handler that returned an error
          None       \* no job

\* A job: a message the receiver handles without reading the connection, a part
\* stored in a mesh or a file stored in the Chord ring.
JobTypes == {"note", "mesh", "chord"}
Jobs == UNION {Range(Script[t]) : t \in Threads}
Files == {j \in Jobs : j.type # "note"}

ASSUME ScriptAssumption ==
    /\ \A t \in Threads : Script[t] \in Seq([type : JobTypes, name : STRING])
    /\ \A t, u \in Threads : \A i \in DOMAIN Script[t], k \in DOMAIN Script[u] :
           Script[t][i] = Script[u][k] => t = u /\ i = k
ASSUME BoundsAssumption == Size \in Nat \ {0} /\ ChanCap \in Nat \ {0} /\ MayClose \in BOOLEAN
ASSUME OthersAssumption == MaxOthers \in Nat /\ Other \notin Jobs \cup {None}
ASSUME NoneAssumption == None \notin Jobs

VARIABLES
    at,       \* at[t]: the job of thread t, and the call of peer.Send or peer.Write
              \* it makes next
    wire,     \* bytes written and not read
    closed,   \* has the sender closed the connection?
    reader,   \* handleConn: where it is, and the byte its WaitGroup was raised for
    rpc,      \* the message the read loop is about to put on rpcch
    wg,       \* TCPPeer.wg
    rpcch,    \* TCPTransport.rpcch, which all connections of the node share
    others,   \* messages that other read loops have yet to put there
    handler,  \* the event loop: where it is, the job it handles, the bytes it read
    handled,  \* the jobs dispatched so far
    ended,    \* the outcomes of the handlers of files: what was stored, or Failed
    panicked  \* has the receiving process died?

receiver == <<reader, rpc, wg, rpcch, others, handler, handled, ended, panicked>>
vars == <<at, wire, closed, receiver>>

-----------------------------------------------------------------------------
(* Bytes and writes.                                                        *)

Byte(k, j, i) == [kind |-> k, job |-> j, pos |-> i]
Bytes == [kind : {"tag", "gob", "rest", "signal", "data"}, job : Jobs, pos : 1 .. Size]

\* The gob body: its first byte, the length of a type descriptor, is neither tag.
Body(j) == <<Byte("gob", j, 1), Byte("rest", j, 1)>>
Data(j) == [i \in 1 .. Size |-> Byte("data", j, i)]

\* The writes of one job: sendMessage, and for a file the signal and the data.
Calls(j) == IF j.type = "note" THEN 2 ELSE 4
Write(j, k) ==
    CASE k = 1 -> <<Byte("tag", j, 1)>>
      [] k = 2 -> Body(j)
      [] k = 3 -> <<Byte("signal", j, 1)>>
      [] OTHER -> Data(j)

\* Can a byte read as IncomingStream?  Any byte inside a body or a file may.
LooksLikeStream(b) == IF b.kind \in {"rest", "data"} THEN BOOLEAN ELSE {b.kind = "signal"}

\* What gob makes of a payload: its first message; what follows is ignored.
Decoded(p) ==
    IF Len(p) >= 2 /\ p[1].kind = "gob" /\ p[2].kind = "rest" THEN p[1].job ELSE None

-----------------------------------------------------------------------------

\* Where a thread begins.
Start == [job |-> 1, call |-> 1]

\* The event loop between two messages.
Idle == [pc |-> "idle", job |-> None, buf |-> <<>>]

Init ==
    /\ at = [t \in Threads |-> Start]
    /\ wire = <<>> /\ closed = FALSE
    /\ reader = [pc |-> "peek", on |-> None]
    /\ rpc = None /\ wg = 0 /\ rpcch = <<>> /\ others = MaxOthers
    /\ handler = Idle
    /\ handled = <<>> /\ panicked = FALSE
    /\ ended = {}

\* peer.Send or peer.Write of thread t.
Send(t) ==
    /\ at[t].job \in DOMAIN Script[t] /\ ~ closed
    /\ LET j == Script[t][at[t].job]
           k == at[t].call
       IN  /\ wire' = wire \o Write(j, k)
           /\ at' = [at EXCEPT ![t] = IF k < Calls(j) THEN [job |-> @.job, call |-> k + 1]
                                      ELSE [job |-> @.job + 1, call |-> 1]]
    /\ UNCHANGED <<closed, receiver>>

\* The sending process ends, in the middle of a job or after it.
Close ==
    /\ MayClose /\ ~ closed
    /\ closed' = TRUE
    /\ UNCHANGED <<at, wire, receiver>>

-----------------------------------------------------------------------------
(* The read loop.  A Read blocks while there is nothing to read, and Reads   *)
(* of one connection exclude each other: which of two waiting readers gets   *)
(* the next bytes depends on which one called first, that is, on either.     *)

EndOfFile == wire = <<>> /\ closed

\* Decode reads the first byte: for a stream the loop raises the WaitGroup and
\* waits on it.
Peek ==
    /\ reader.pc = "peek" /\ wire # <<>>
    /\ \E stream \in LooksLikeStream(Head(wire)) :
           IF stream THEN /\ reader' = [pc |-> "waiting", on |-> Head(wire)]
                          /\ wg' = wg + 1
           ELSE reader' = [reader EXCEPT !.pc = "body"] /\ UNCHANGED wg
    /\ wire' = Tail(wire)
    /\ UNCHANGED <<at, closed, rpc, rpcch, handler, handled, ended, panicked, others>>

\* An error in the first Read is swallowed: the loop goes on with an empty message.
PeekFails ==
    /\ reader.pc = "peek" /\ EndOfFile
    /\ reader' = [reader EXCEPT !.pc = "push"]
    /\ rpc' = None
    /\ UNCHANGED <<at, wire, closed, wg, rpcch, handler, handled, ended, panicked, others>>

\* Decode reads the payload with one Read: whatever part of what was sent has
\* arrived, up to the 2048 bytes of the buffer.
ReadBody ==
    /\ reader.pc = "body" /\ wire # <<>>
    /\ \E n \in 1 .. Len(wire) :
           /\ rpc' = Decoded(SubSeq(wire, 1, n))
           /\ wire' = SubSeq(wire, n + 1, Len(wire))
    /\ reader' = [reader EXCEPT !.pc = "push"]
    /\ UNCHANGED <<at, closed, wg, rpcch, handler, handled, ended, panicked, others>>

ReadBodyFails ==
    /\ reader.pc = "body" /\ EndOfFile
    /\ reader' = [reader EXCEPT !.pc = "peek"]
    /\ UNCHANGED <<at, wire, closed, rpc, wg, rpcch, handler, handled, ended, panicked, others>>

\* A faulty variant: a push that had to wait for room is tried again.
PushAgain ==
    /\ reader.pc = "push" /\ Len(rpcch) < ChanCap
    /\ rpcch' = Append(rpcch, rpc)
    /\ \/ rpc' = None /\ reader' = [reader EXCEPT !.pc = "peek"]
       \/ UNCHANGED <<rpc, reader>>
    /\ UNCHANGED <<at, wire, closed, wg, handler, handled, ended, panicked, others>>

\* t.rpcch <- rpc
Push ==
    /\ reader.pc = "push" /\ Len(rpcch) < ChanCap
    /\ rpcch' = Append(rpcch, rpc)
    /\ rpc' = None
    /\ reader' = [reader EXCEPT !.pc = "peek"]
    /\ UNCHANGED <<at, wire, closed, wg, handler, handled, ended, panicked, others>>

\* The same of another connection's read loop.
PushOther ==
    /\ others > 0 /\ Len(rpcch) < ChanCap
    /\ rpcch' = Append(rpcch, Other)
    /\ others' = others - 1
    /\ UNCHANGED <<at, wire, closed, reader, rpc, wg, handler, handled, ended, panicked>>

\* A faulty variant: the loop does not wait for the stream to be closed.
ResumeAtOnce ==
    /\ reader.pc = "waiting"
    /\ reader' = [reader EXCEPT !.pc = "peek"]
    /\ UNCHANGED <<at, wire, closed, rpc, wg, rpcch, handler, handled, ended, panicked, others>>

\* peer.wg.Wait() returns.
Resume ==
    /\ reader.pc = "waiting" /\ wg = 0
    /\ reader' = [reader EXCEPT !.pc = "peek"]
    /\ UNCHANGED <<at, wire, closed, rpc, wg, rpcch, handler, handled, ended, panicked, others>>

-----------------------------------------------------------------------------
(* The event loop and the handlers that read the connection.                *)

FirstPC == [mesh |-> "copy", chord |-> "signal"]

\* A faulty variant: a message that does not decode ends the event loop.
DispatchStops ==
    /\ handler.pc = "idle" /\ rpcch # <<>> /\ Head(rpcch) # None
    /\ handler' = IF Head(rpcch) = Other \/ Head(rpcch).type = "note" THEN Idle
                  ELSE [Idle EXCEPT !.pc = FirstPC[Head(rpcch).type], !.job = Head(rpcch)]
    /\ handled' = IF Head(rpcch) = Other THEN handled ELSE Append(handled, Head(rpcch))
    /\ rpcch' = Tail(rpcch)
    /\ UNCHANGED <<at, wire, closed, reader, rpc, wg, ended, panicked, others>>

\* loop takes a message; one that does not decode is logged and handled as an
\* empty one, which no case of handleMessage matches.
Dispatch ==
    /\ handler.pc = "idle" /\ rpcch # <<>>
    /\ LET j == Head(rpcch)
       IN  IF j \in {None, Other} THEN UNCHANGED <<handler, handled>>
           ELSE /\ handler' = IF j.type = "note" THEN Idle
                              ELSE [Idle EXCEPT !.pc = FirstPC[j.type], !.job = j]
                /\ handled' = Append(handled, j)
    /\ rpcch' = Tail(rpcch)
    /\ UNCHANGED <<at, wire, closed, reader, rpc, wg, ended, panicked, others>>

\* One Read of io.Copy: of a LimitReader of msg.Size in handleMessageStoreFile,
\* of the bare connection in handleMessageStoreChordFile.
Copy ==
    /\ \/ handler.pc = "copy" /\ Len(handler.buf) < Size
       \/ handler.pc = "drain"
    /\ wire # <<>>
    /\ handler' = [handler EXCEPT !.buf = Append(@, Head(wire))]
    /\ wire' = Tail(wire)
    /\ UNCHANGED <<at, closed, reader, rpc, wg, rpcch, handled, ended, panicked, others>>

\* A handler of a file returns, with the bytes it stored or with an error.
Returns(outcome) ==
    /\ handler' = Idle
    /\ ended' = ended \cup {<<handler.job, outcome>>}

\* handleMessageStoreFile has read what it wants, or all there is.
PartRead == handler.pc = "copy" /\ (Len(handler.buf) = Size \/ EndOfFile)

\* A faulty variant: the stream of a part is left open.
StorePartOnly ==
    /\ PartRead
    /\ Returns(handler.buf)
    /\ UNCHANGED <<at, wire, closed, reader, rpc, wg, rpcch, handled, panicked, others>>

\* It writes the part and closes the stream.  WaitGroup.Done panics at zero.
StorePart ==
    /\ PartRead
    /\ Returns(handler.buf)
    /\ IF wg = 0 THEN panicked' = TRUE /\ UNCHANGED wg
                 ELSE wg' = wg - 1 /\ UNCHANGED panicked
    /\ UNCHANGED <<at, wire, closed, reader, rpc, rpcch, handled, others>>

\* The connection ended with an error, or WriteEncrypt has one: the handler
\* returns it and does not close the stream.
StorePartFails ==
    /\ PartRead
    /\ Returns(Failed)
    /\ UNCHANGED <<at, wire, closed, reader, rpc, wg, rpcch, handled, panicked, others>>

\* handleMessageStoreChordFile reads one byte and expects the signal.
ReadSignal ==
    /\ handler.pc = "signal"
    /\ \/ /\ wire # <<>>
          /\ \E stream \in LooksLikeStream(Head(wire)) :
                 IF stream THEN handler' = [handler EXCEPT !.pc = "drain"] /\ UNCHANGED ended
                           ELSE Returns(Failed)
          /\ wire' = Tail(wire)
       \/ EndOfFile /\ Returns(Failed) /\ UNCHANGED wire
    /\ UNCHANGED <<at, closed, reader, rpc, wg, rpcch, handled, panicked, others>>

\* io.Copy from a connection ends with the connection; an empty file is refused,
\* and a read or a write may fail.
StoreRest ==
    /\ handler.pc = "drain" /\ EndOfFile
    /\ Returns(Failed) \/ (handler.buf # <<>> /\ Returns(handler.buf))
    /\ UNCHANGED <<at, wire, closed, reader, rpc, wg, rpcch, handled, panicked, others>>

-----------------------------------------------------------------------------

ReadLoop == Peek \/ PeekFails \/ ReadBody \/ ReadBodyFails \/ Push \/ Resume
EventLoop == Dispatch \/ Copy \/ StorePart \/ StorePartFails \/ ReadSignal \/ StoreRest
Receive == ~ panicked /\ (ReadLoop \/ PushOther \/ EventLoop)
Next == (\E t \in Threads : Send(t)) \/ Close \/ Receive

Spec == Init /\ [][Next]_vars

\* Every goroutine that can go on does.  Go does not stop a runnable goroutine
\* for ever, and a reader that waits for the connection gets its turn.  Senders
\* that wait for room in a channel are served in the order they came, so that a
\* read loop that fills rpcch does not keep the others out.
FairSpec ==
    /\ Spec
    /\ \A t \in Threads : WF_vars(Send(t))
    /\ WF_vars(~ panicked /\ ReadLoop) /\ WF_vars(~ panicked /\ EventLoop)
    /\ SF_vars(~ panicked /\ PushOther)

-----------------------------------------------------------------------------
(* Properties.                                                              *)

\* The values the variables take.  The WaitGroup counts at most one stream,
\* because the read loop waits for it to fall before it reads on.
TypeOK ==
    /\ at \in [Threads -> [job : Nat \ {0}, call : 1 .. 4]]
    /\ \A t \in Threads : at[t].job <= Len(Script[t]) + 1
    /\ wire \in Seq(Bytes) /\ closed \in BOOLEAN /\ panicked \in BOOLEAN
    /\ reader \in [pc : {"peek", "body", "push", "waiting"}, on : Bytes \cup {None}]
    /\ rpc \in Jobs \cup {None} /\ wg \in 0 .. 1
    /\ rpcch \in Seq(Jobs \cup {None, Other}) /\ Len(rpcch) <= ChanCap
    /\ others \in 0 .. MaxOthers
    /\ handler \in [pc : {"idle", "copy", "signal", "drain"}, job : Files \cup {None},
                    buf : Seq(Bytes)]
    /\ handled \in Seq(Jobs)
    /\ ended \subseteq Files \X (Seq(Bytes) \cup {Failed})

\* Of the messages one goroutine sends, those that are handled are handled in
\* the order they were sent and at most once, whatever was lost or torn between
\* them and whichever handler read a part of the connection.
HandledInOrder ==
    \A t \in Threads : \A i, k \in DOMAIN handled :
        /\ i < k => handled[i] # handled[k]
        /\ \A a, b \in DOMAIN Script[t] :
               i < k /\ handled[i] = Script[t][a] /\ handled[k] = Script[t][b] => a < b

\* The read loop took the signal of part f and the stream is open, and the
\* handler at work is the one of part f.
Streaming(f) ==
    /\ reader.on = Byte("signal", f, 1) /\ wg = 1
    /\ handler.job = f /\ handler.pc = "copy"

\* A handler of a file has returned an error.
SomeFailed == \E r \in ended : r[2] = Failed

\* No goroutine but the one that sends f has written anything yet, and no handler
\* has left its file half read.
Undisturbed(f) ==
    /\ \A t \in Threads : f \in Range(Script[t]) \/ at[t] = Start
    /\ ~ SomeFailed

\* What the WaitGroup is for.  Once the read loop itself took the signal of a
\* part, the handler of that part gets the part: what it has read and what is
\* still on the connection begin with the data, in order, unless another
\* goroutine wrote in between or an earlier handler returned an error.
StreamIsWhole ==
    \A f \in Files :
        Streaming(f) /\ Undisturbed(f) =>
            LET s == handler.buf \o wire
            IN  \A i \in 1 .. Size : i <= Len(s) => s[i] = Data(f)[i]

\* A read loop that waits for the part being handled resumes, whether the sender
\* stays or stops: the handler gets its bytes, or the end of the connection, and
\* closes the stream, unless a handler returns an error: it leaves the stream open.
StreamIsClosed ==
    \A f \in {j \in Files : j.type = "mesh"} : Streaming(f) ~> (reader.pc = "peek" \/ SomeFailed)

\* When the sender stops, the event loop is free for the other connections again,
\* in whatever place the end of this one meets the read loop and the handlers, and
\* although the read loop then fills rpcch with empty messages for ever: what the
\* others send is taken from rpcch, or the process has panicked.
OthersAreHeard ==
    closed ~> (panicked \/ (others = 0 /\ Other \notin Range(rpcch)))
=============================================================================
