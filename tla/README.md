# Peer-Store in TLA+

A specification of the protocols of Peer-Store, a peer-to-peer file store in Go
with two architectures: a Chord ring and a mesh. The modules model the code (not
the documentation) one action per operation or handler, TLC checks them on small
instances, and TLAPS proves all but one of the invariants that hold
(`LoneGetGoesOn`) for every instance, under the assumptions named with each
theorem. `PROJECT.json` maps each definition to the lines it models.

Run a check with `tlc -config Ring.cfg ChordRing`, a proof with
`tlapm ChordRingProofs.tla`.

## The system

| Component | State | Operations | Hard behaviour |
|---|---|---|---|
| Identifier circle (`chord_util.go`) | none | `fingerID`, `isBetween` | wrap-around, interval ends |
| Ring maintenance (`chord.go`, `chord_util.go`, `chord_handler.go`) | `successor`, `predecessor` of every node; the peer map | `Create`, `Join`, `stabilize`, `notify`, `checkPredecessor`; handlers of GetPredecessor, its response, Notify | routines, Join and event loop change the same fields; delayed messages; crashes and restarts |
| Lookup (same files) | `fingers`, `pendingRequests`, `mtx`, the event loop | `FindSuccessor`, `findSuccessorRemote`, `fixFinger`; handlers of FindSuccessor and its response | a lock held across a remote call; timeouts, retries, late answers |
| Transport (`p2p/`, `mesh_util.go`) | TCP connection, `wg`, `rpcch` | `Send`, `Decode`, `handleConn`, `loop`; the handlers that read a stored file | two readers of one connection, several writers, coalesced reads |
| Mesh membership (`mesh.go`, `mesh_handler.go`, `config.go`) | `network` (key, member list), `peers` | `InitializeNetwork`, `Add`, `handleMessageAddFile` | members and joining nodes call Add at once; broadcasts and dials overlap; a dial slower than Add waits |
| File splitting (`mesh_util.go`, `mesh.go`) | the parts | `splitFile`, `combineFile`, the checks of `getSplit` | sizes that do not divide, missing parts |
| Disk store (`store.go`, `crypto.go`, `crypto/`) | data and metadata file of a content identifier | `WriteEncrypt`, `ReadDecrypt`, `Delete` | several file-system calls per operation, deletes included; no lock, errors, crashes |
| Mesh file operations (`mesh.go`, `mesh_handler.go`) | stores of all nodes, the connections between them | `Store`, `Get`, `Remove` and handlers | answers and stores on one connection, peers without the file, dropped parts, double encryption, crashes in the middle of a call |
| Chord file operations (`chord*.go`) | `responsibles`, stores, the ring's connections | `StoreFile`, `GetFile`, `DeleteFile`, `transferResponsibilities` | transfer on join, lookups while the ring changes, streams that are never closed |
| HTTP API, configuration, start-up (`server.go`, `main.go`, `config.go`) | none of its own | dispatch | concurrent requests (in the file modules); the rest is pure I/O |

Interaction: HTTP handlers, the maintenance routines and the event loop run as
goroutines of one process. They share the Chord node (under `mtx`), the peer map
(mostly under `peerLock`), the global `network` (under nothing) and the disk
(under nothing). Nodes exchange gob messages and raw file data over TCP; a
connection is registered under its remote address, so the dialling side finds
the other node under its listen address and the accepting side does not.

What makes each part correct: the ring stays in one piece and in order, and
closes; lookups end, and end at the responsible node; messages and files arrive
whole and in order; members of a mesh are connected and have one key and one list;
what was stored can be read; parts put together give the file. The code does not
keep all of this: what of it holds is under Runs, what does not is under the runs
that end in a counterexample and under Deviations. `PROJECT.json` lists the hazards of
the code under `hazards`, each with the properties that watch it, or with a note that
says why none does.

## Modules

| Module | Models | Composition |
|---|---|---|
| `RingIds` | the identifier circle | extended by `ChordRing`, `ChordLookup` |
| `ChordRing` | ring maintenance | |
| `ChordRingProofs` | theorems about `ChordRing` | |
| `ChordLookup`, `ChordLookupProofs` | lookups on a settled ring; theorems | |
| `ChordFiles` | Chord file operations, over the ring they disturb | extends `ChordRing`; implements `ChordRing` with lost messages |
| `ChordFilesProofs` | theorems about `ChordFiles` | instantiates `ChordRingProofs` |
| `Connection`, `MCConnection`, `ConnectionProofs` | one direction of one connection and the event loop it shares; the script for the run; theorems | |
| `MeshNetwork`, `MCMeshNetwork`, `MeshNetworkProofs` | how a mesh comes together; who calls `Add` in the run; theorems | |
| `MeshFiles`, `MCMeshFiles`, `MeshFilesProofs` | mesh file operations; configurations for the runs; theorems | above `Connection`, `SplitFile`, `Store` |
| `Store`, `StoreProofs` | one content identifier on the disk of one node; theorems | |
| `SplitFile`, `SplitFileProofs` | cutting and combining a file; theorems | |

Definitions called "a faulty variant" in comments are plausible mistakes in the
code: replacing the definition after them by the variant breaks a property, and
`PROJECT.json` lists which one under `mutants`. They are used nowhere else.

### ChordRing

`succ` and `pred` are `ChordNode.successor` and `.predecessor`; `phase` says how
far `StartServer` has got. `Join` is three actions, because half a second passes
between the dial and the assignment of the successor, in which notifications
arrive, and because the peer entry appears in another goroutine (`OnPeer`).
`checkPredecessor` is two actions, a dial and the assignment under the lock.
Every other operation changes the state of one node under its lock and is one
action. `stabilize` reads the successor, then sends: sending a little later to
the old successor is the same as a message that takes longer, so this is one
action as well. `peers[n]` holds the listen addresses in n's peer map, `broken`
the entries whose connection is dead; nothing removes an entry.
`LookupDial` stands for every dial of another component.

Abstractions: a node is its identifier (hashes do not collide); messages in
flight are a set, unordered, and taking one may leave an equal copy behind;
a crash loses the node's state, its connections and what is on the way to it.
`MayLose` says whether messages may also get lost on a connection that stands
(`Lose`). TCP does not lose any, the code above it does: two messages read at
once are one payload (`Connection`), and file operations take bytes that belong
to others (`ChordFiles`).

### ChordLookup

Successors are right and fixed, so that what is wrong about a lookup is the
lookup's fault. Each node has three threads: the event loop, the finger routine
and a client. A thread record holds its place (`pc`), the identifier and the
request it waits for. `HoldsRead`, `ReadFree` and `WriteFree` are the RWMutex
with Go's rule that a waiting writer keeps later readers out. Dial and the sleep
after it are part of `Ask`. The matching of peers by address prefix and the
forwarding branch of `handleMessageFindSuccessorResponse` are left out: answers
are sent to the address of the asking node, so the branch is not reached.

### Connection

A message is a tag byte and a body of two bytes, a file is a signal and `Size`
data bytes. `at[t]` is the job thread t is at and the call of `Send` or `Write` it
makes next (two for a message, two more for a file's signal and data); between two
calls the other threads may write. `ReadBody` takes any prefix of what is on the
wire, as one `Read` does. A handler's copy takes one byte at a time, which allows
every split. Bytes inside a body or a file may look like the stream signal. Bodies
fit the 2048 byte buffer, and a payload that does not start with a body does not
decode. A handler that returns an error, as `handleMessageStoreFile` does when the
connection breaks or the disk refuses (`StorePartFails`), leaves the stream open;
`ended` has what each handler of a file returned.
`panicked` is set when `WaitGroup.Done` finds zero. `rpcch` and the event loop are
shared with another connection, which pushes `MaxOthers` messages of its own.

### MeshNetwork

`network[n]` is the global variable of node n's process; a key is named by the
node that made it. `Calls` says which calls of `Add` a mesh may see, because there are
two usages: `main.go` has the new node add the address it joins, and
`server_test.go` has members add new nodes, one in a chain after the other. Any node
may call at any time, so calls overlap, and two nodes may dial each other: `several`
holds the pairs with more than one connection, on which a broadcast arrives more than
once. What one node sends another may arrive in any order (their connections are
several, and every connection has a read loop of its own), so messages under way are a
set. `Add` ends in one of three ways after its half second: it sends the network
(`AddSend`), it returns "peer not found" (`AddFails`), or it panics because `Dial` has
not returned (`AddPanics`). A node always lists itself, so the empty-list branch of
`Add` is not taken. Of the history variables, `given` holds the members of the networks
a node was given and `orderly` says that calls came one after the other and each was
for a node not yet in a mesh: then, and only then, a mesh is whole.

### MeshFiles

One content identifier, any number of nodes. Members add new nodes one after the
other, so that there is one list, `listed` (`OrderlyMeshIsWhole` of
`MeshNetwork`). A call is a client record with its place in `Store`, `Get` or
`Remove`; the sleeps of the code (5 ms between message and stream, 500 ms before
answers are read) are places at which everybody else may go on. A direction of a
connection is a queue of messages and streams. The event loop takes messages, a
`Get` that waits and a store handler take streams, and nothing on the wire tells
for whom a stream is. When the wrong one takes it (`Cross`), what follows
depends on bytes, and the model ends there; the properties say under which
circumstances it cannot happen. A stored file is its part number, the number of
parts, how many layers of encryption it has and whether it is whole; ChaCha20
with its fixed key stream undoes itself when it is applied twice. `Reached` is
`broadcast`: everybody, or those before a dead peer. A crash cuts what was sent
at any point (`Arrives`); a store handler that meets the end of the connection
stores an empty part and panics in `CloseStream`, which ends the node, while in
a `Get` the same panic ends its HTTP request only.

### ChordFiles

The ring of `ChordRing` with the same variables and actions, and on top of it
who stores which file (`files`), `responsibles`, file messages in flight (`jobs`)
and what file operations leave behind: directions nobody reads any more (`deaf`,
the read loop waits for a `CloseStream` that no Chord handler calls), event loops
that copy a connection to its end (`copying`), goroutines that read a connection
beside its read loop (`readers`). A direction belongs to a connection, named by
the node that dialled it. `HandleRingMessage` needs a read loop that reads and an
event loop that is free; `LoseRingMessage` is what happens otherwise.
`FindSuccessor` returns the successor where the code decides on its own and any
running node otherwise, which covers every answer of `ChordLookup` on any ring.
Contents do not exist: start-up sets the encryption type of a mesh only, so
`WriteEncrypt` creates empty files that no read decrypts.

`RefinesRing` states that all of it together implements `ChordRing` with
`MayLose`: to the ring, files are lost messages and, when a goroutine of
`transferResponsibilities` panics, a crash.

### Store

Each file-system call of `WriteEncrypt`, `ReadDecrypt` and `Delete` is an action, and
each may return an error. `os.RemoveAll` lists the directory, removes each name it
listed and then the directory, so that stores and crashes fall in between. Every call
of `WriteEncrypt` has a name of its own, also when one goroutine makes two of them, and
so has its initialization vector. Files are inodes, because an open file survives
`Delete`; `os.Create` truncates the inode of an existing name, whoever has it open.
What an inode holds is whose vector and whose bytes it has; `Plain` says what decryption
makes of the combination. Data is written in one call (the code writes 32 KiB at a
time). Of the history variables, `alone` names the last store as long as no other store
and no delete ran since it began, `torn` holds the inodes that a store truncated while
another had them open to write, and `overlap` the reads of such an inode, or of one that
was truncated while they had it open.

### SplitFile

The loops of `splitFile` and `combineFile` are steps; a part is an interval of
the file. `Collect` is the middle of `getSplit`, with any set of parts as its
outcome (part number 0 is what is read from a closed connection) and metadata
that may be missing.

## Runs

Passing runs:

| Run | Bounds | Shows |
|---|---|---|
| `Ring` | 3 nodes on a circle of 8, lost messages, 3 messages in flight, 1 crash and at most 2 messages after it | `SeedReachable`, `PredecessorLooksNoFurther` and `AgreementIsOrder` until the first crash, `NotAloneWithPredecessor` with crashes and restarts, for all orders of joins, ticks and messages |
| `RingLive` | 2 nodes, lost messages, 8 messages in flight, 2 crashes, fair | `PairConverges`, `PredecessorComesBack` |
| `Lookup` | 3 nodes, 2 requests per node, notifications | `LookupNeverOvershoots` |
| `Conn` | two sending goroutines (a part and a Chord file; a message), files of 2 bytes, sender may stop, handlers may fail, another connection with 1 message, one place in `rpcch`, fair | `HandledInOrder`, `StreamIsWhole`, `StreamIsClosed`, `OthersAreHeard` |
| `Mesh` | 4 nodes, any 3 of 5 calls of `Add` (a chain of members, and nodes that join), overlapping or not, slow dials | `KeysFollowCalls`, `GivenAreMet`, `OrderlyMeshIsWhole` |
| `MeshFiles` | 3 nodes, of which 2 or 3 are members at first, 3 calls, joins or crashes; AES parts and plain copies | `GetIsFile`, `LastCallDone`, `LoneGetFindsFile`, `LoneGetGoesOn` |
| `ChordFiles` | 2 nodes, 1 file, 2 calls (1 after a crash), 1 crash, 2 messages in flight | `ResponsibleHasFile`, `FilesStay`, `DeleteReachesAll`, `RefinesRing` |
| `Store` | 2 stores, a delete and a read in every overlap, errors and crashes, a mesh with AES | `AckedIsReadable`, `GarbageNeedsOverlap` |
| `SplitFile` | sizes 0..11, 0..4 nodes, all sets of parts | `PartsCoverFile`, `PartsAreEven`, `CombinedIsFile` |

One run of each module checks its type invariant as well.

Why the bounds are enough to be interesting: three nodes are the fewest with a
node between a node and its successor, so that adopting and overtaking happen,
and a circle of 8 has wrap-around arcs and gaps of different size. Three
messages let a request, its answer and a notification cross; `MaxAfterCrash`
keeps the part after a crash small. Two requests per node are a request and the
retry that follows it. Files of two bytes tell a shifted file from a whole one.
Four mesh nodes are what the chain of `server_test.go` has, and three calls let a third
node be added through the second while the first two still exchange messages; the
fourth and fifth call are joins, one towards a member of the chain and one of a node
that nobody added. `RingLive` has two nodes because `PairConverges` is about two: with
three the claim is false (`RingStuck`). Three events
of `MeshFiles` are a store, a get and a third thing at any moment of theirs: another
store, a delete, a member that joins, a crash; its nodes are symmetric, since
nothing orders them. Two calls in `ChordFiles` are a store and a delete or a get
that overlap; two nodes suffice for every connection to be shared by the ring, a
client and a handler, and what the run shows is proved for all sizes. Two
stores and a delete leave every kind of remnant for the second store (data without
metadata, metadata without data, either of them half written or of the other store),
and one read may overlap all three; what the run shows is proved for any number of
each. Deadlock checking is off everywhere: a network in which every bound is used up,
and a file that is stored, may rest.

Runs that end in a counterexample, each a statement of the repository that the
code does not keep (quoted with its line under `findings`):

| Run | Statement | What happens |
|---|---|---|
| `RingStuck` | stabilize verifies the successor | a successor without a connection is never contacted |
| `LookupStuck` | the response channel has a buffer "to prevent deadlocks" | the event loop forwards a lookup itself, or waits for the lock that a lookup holds until it is answered; the answer needs the event loop |
| `MeshCopies` | `Get` decrypts a copy and returns it | a peer's copy is encrypted twice and decrypted once |

### Deviations

Behaviour of the models, and of the code, that no run is kept for. Each was seen
as a counterexample to the statement in the first column, which the modules no
longer hold.

| Statement | Code | What happens |
|---|---|---|
| a dead predecessor is forgotten | `chord_util.go:277` | a left-over peer entry counts as life |
| only a predecessor that is down is removed | `chord_util.go:286` | a live one that notify set during the dial is removed |
| three nodes that joined form the right ring | `chord_util.go:148` | a node that adopted a successor without a connection never contacts it (the run `RingStuck`) |
| Consume gives the messages sent (`tcp_transport.go:60`) | `encoding.go:34` | two messages that arrive in one `Read` become one payload, of which gob decodes the first |
| a read loop that waits for a part resumes | `mesh_handler.go:99`, `mesh_handler.go:104` | a handler that returns an error does not close the stream, and its connection is read no more (`StreamIsClosed` is what holds) |
| the event loop is free while a connection lives | `chord_handler.go:330` | it copies a stored Chord file until the connection ends (`OthersAreHeard` is what holds) |
| in a settled ring a lookup finds the responsible node | `chord.go:197` | without fingers a node returns its successor (`LookupNeverOvershoots` is what holds) |
| a stored Chord file arrives | `chord_handler.go:330` | the copy waits for the end of the connection, or the read loop has taken the signal; no remote store arrives before a process ends, although `chord_test.go:76` expects one to |
| a stored Chord file is the file | `crypto.go:44` | the encryption type of a Chord node is empty: the file is empty and no read succeeds (`AckedIsReadable` is for a mesh) |
| a Chord get returns | `chord.go:407` | a node that cannot read the file does not answer, and the client takes the next message of the ring for the file |
| files move to a new predecessor | `chord_util.go:346` | the arc tested is the node's own, and no file is readable: none moves |
| a deleted Chord file stays deleted | `chord_util.go:346` | a node that was told to delete stays responsible; `transferResponsibilities` asks for the file, takes bytes of the ring for it, writes them and panics |
| what is stored of a part is the part | `mesh_handler.go:99` | a handler faster than the read loop takes the signal for the first byte, and `WaitGroup.Done` panics (`StreamIsWhole` is what holds) |
| a mesh is fully connected (`README.md:10`) | `mesh_handler.go:131` | each new node adds the member it joins, as `main.go:96` does: the second join overwrites the key and the list of that member, and the two new nodes never meet (`GivenAreMet` and `KeysFollowCalls` are what holds; `OrderlyMeshIsWhole` where members add) |
| all members of a mesh have one list | `mesh_handler.go:127` | broadcasts of two calls that overlap replace the list in different orders, and drop a member from some |
| a node that is listed is in the mesh | `mesh.go:368` | a dial slower than half a second makes `Add` fail or panic after it has listed and broadcast the node |
| a file stays readable when a node joins | `mesh_handler.go:131` | the key in the message replaces the one it was written with |
| every part is stored | `mesh.go:266` | a file is cut by listed members and sent to connected ones; the parts left over are dropped |
| a store cut differently replaces the old parts | `mesh.go:266` | after a member joined, old and new parts mix in a `Get` that overlaps |
| two concurrent stores leave a file | `mesh.go:266` | peers keep the part of whichever came last, so that numbers are missing or double |
| `Get` ends | `mesh.go:53`, `mesh.go:119` | a peer without the file sends nothing, and the read waits for it (`LoneGetGoesOn` says when it ends) |
| a crash is noticed | `mesh_handler.go:99` | a part or an answer cut short by a crash is stored and returned without an error |
| `storeAll` with a dead peer fails for all or none | `mesh.go:232` | the others have got the message and wait for a stream with their event loop |
| a delete removes all copies | `mesh.go:53` | a `Get` that overlaps writes an answer back to the disk |
| a read that succeeds returns the file | `store.go:127` | a read that overlaps a store returns an empty file, or, with the vector of the one store and the bytes of the other, garbage (`GarbageNeedsOverlap` is what holds) |
| two stores of one content leave it readable | `store.go:202` | vector and bytes of two overlapping AES stores mix |
| metadata is written after the data | `store.go:256` | a store over a file truncates the data under the old metadata, and `RemoveAll` may be cut between its unlinks; after a crash there, a read returns an empty file, or an error |
| a `Get` waits only for those it has asked | `mesh.go:118` | it looks at the connections again after half a second, and waits for a member that joined meanwhile |
| a `Get` takes the answers to its own question | `mesh.go:120` | it takes the stream of a `Store` that another client runs |
| `Remove` deletes everywhere or nowhere | `mesh.go:315` | at the first dead connection it stops: some peers have deleted the file, the node itself has not |

## Fairness

`ChordRing`: the tickers fire for ever, goroutines that can run do, and TCP
delivers, so `OnPeer`, the steps of `Join`, the routines and the handling of
each message are weakly fair. `Stabilize` is strongly fair only because the
bound `MaxInFlight`, which the code does not have, disables it now and then.
Handling is fair in the form that uses the message up, since only finitely many
equal messages are under way. Where messages may get lost, notifications are
strongly fair: `stabilize` sends them for ever, and the coincidences that lose one
(two reads at once, a client on the connection) do not meet every one of them.
Nothing is assumed of joins, crashes and lookups.
`Connection`: every sending goroutine, the read loop and the event loop make
progress when they can. `PushOther` is strongly fair because goroutines that wait
for a Go channel are served in order, so that two connections do not starve each
other. `MeshFiles` states progress without fairness: `LoneGetGoesOn` says that
some step of the call or of an event loop is possible as long as the call has not
returned, and each such step uses up a message, an answer or a peer (which is proved,
`LoneGetsComeToAnEnd`). The other modules have no liveness properties.

## Proofs

`ChordRingProofs`, for any identifier length, set of nodes and message bound,
from the assumptions of `RingIds` and `ChordRing` alone:

* `BetweenIsClockwise`: what `isBetween` computes by comparing identifiers is a
  comparison of clockwise distances, wrap-around and equal ends included. (That
  `fingerID` lies `2^i` ahead needs induction over `i`.)
* `TypeCorrect`: `Spec => []TypeOK`.
* `RingStaysConnected` and `RingStaysOrdered`: `Spec => []SeedReachable` and
  `Spec => []PredecessorLooksNoFurther`, which speak of the states before the
  first crash (`CrashFreeInv`: `crashes = 0 => RingInv`). Neither is
  inductive. A node adopts a successor it read in a message that may be old, so
  the invariant has to say what such a message still guarantees when it arrives.
  `RingInv` adds `MemberInv` (every node named in a field or message is running,
  and a node that is off has a clean state), `ArcInv` (from a node named as
  somebody's predecessor, in a field or message, the hops lead to that somebody
  without leaving the arc between them) and `OrderInv` (such a node, in a field or
  a notification, has set its successor and looks no further than the node it
  precedes). `ArcInv` makes adoption harmless: the new, nearer successor leads
  to the old one. Paths are expressed by closed sets of nodes, since induction
  over their length is not available. Lemmas about `isBetween` come first, then
  how a changed hop affects what leads where, then one lemma per action.
* `NeverAloneWithPredecessor`: `Spec => []NotAloneWithPredecessor`, crashes
  included. Its invariant `AloneInv` adds that a joining node's contact, and then
  its successor, is another node and that no notification goes to its sender.

`ChordFilesProofs`, for any ring, any files and any bounds:

* `FilesImplementRing`: `FilesSpec => RefinesRing`, action by action; the only
  action that is not one of `ChordRing` already is `LoseRingMessage`, which is a
  `Lose`, and the end of a process, which is a `Crash`.
* `FilesLeaveRingConnected`, `FilesLeaveRingOrdered`: the theorems of
  `ChordRingProofs`, instantiated with `MayLose <- TRUE`, through that refinement.
* `FilesTypeCorrect`: `FilesSpec => []FilesTypeOK`. `TypeInv` adds the type of the
  history; that of the ring's variables comes from `ChordRingProofs`.
* `ResponsibleAlwaysHasFile`, `FilesAlwaysStay`: neither holds by itself, because
  the handler of a delete trusts its message. `DeletedInv` adds that a message of a
  delete in flight is about a file somebody deleted.
* `DeleteAlwaysReachesAll`: `ReachInv` adds that the network stays whole and that a
  message is under way for each node that still has the file: one to that node, or
  the request to the responsible node that will tell everybody. `OverInv` adds that,
  before the first crash, no copying handler comes to its end, so that none stores.

`SplitFileProofs`, for any sets of sizes and counts:
`PartsAlwaysCoverFile`, `PartsAlwaysEven`, `CombinedIsAlwaysFile`, from one
invariant `SplitInv` that gives closed forms for what the loops have computed so
far: part k has `partSize` bytes and one more if k is below the remainder, and
starts at `Off(k)`. Lemma `Offsets` relates the two, lemma `DivMod` is the
division with remainder. Combining needs that a set of as many part numbers as
there are parts, in which none from 1 on is missing, has them all.

`AgreementMeansOrder` (in `ChordRingProofs`): `Spec => []AgreementIsOrder`, before the
first crash. When every node is its successor's predecessor the hops form a cycle; that
the cycle visits the members in the order of the circle is what `OneWind` adds: some set
of members that contains the seed and that hops do not leave has no hop that jumps over
the seed. No cycle that winds around twice has such a set, and adoption keeps it.

`StoreProofs`, for any numbers of stores, deletes and reads, errors and crashes anywhere:

* `StoreTypes`, from a conjunction of types of which each step disturbs a few.
* `AckedAlwaysReadable`, in a mesh (a Chord node has no encryption type, see the
  deviations). `LoneInv` says of a store that has been on its own so far what it has on
  the disk at each of its places: nothing of it depends on what earlier stores and
  deletes have left there, whole, torn or half removed.
* `GarbageAlwaysNeedsOverlap`, in either architecture and with any encryption.
  `WholeInv`: an inode that was not torn holds nothing, a vector, or a vector and
  the bytes of the same store, of which the store that has it open knows how far it is;
  and a read that nothing overlapped has read the vector the inode still holds.

`ChordLookupProofs`, for any settled ring and any number of requests:

* `LookupTypes`, and `LookupsNeverOvershoot`: `Spec => []LookupNeverOvershoots`. The
  answer for the node asked is good for the asker, because a node asked lies between it
  and the identifier (`ForwardedNotPast`). `ThreadInv` says that of every thread that
  waits, `RequestInv` that a request identifier that somebody waits for names only his
  request, in flight, being served or answered: a late answer has another identifier.
* `WedgedStaysForEver`: once the state that `NoDeadlock` forbids, and that the run
  `LookupStuck` finds, has been reached, no step leaves it: the deadlock is one for ever,
  timeouts and retries or not. From the same invariant and the rules of the lock.

`MeshNetworkProofs`, for any nodes and any calls of `Add`, by whomever and when:

* `MeshTypes`, with `CallInv` (a message with an address comes from a call) and `EndInv`
  (a connection has two ends).
* `KeysAlwaysFollowCalls`. `KeyInv` says of keys in messages what the property says of
  keys in use; broadcasts carry keys too, and nobody takes them.
* `GivenAreAlwaysMet`. `MeetInv`: as long as no call failed, a node and a member it was
  given have a connection with two ends, or one dials the other.
* `OrderlyMeshesAreWhole`. `OrderlyInv`: either nothing is under way and each mesh is
  whole, or one call is (`CallPhase`): the caller lists all, each of its fellows has the
  new list or a broadcast of it under way (`FellowPart`), the new node has not been sent
  the network, is about to be, or has it and has met its fellows or dials them
  (`NewPart`), and the other meshes do not notice (`OtherPart`). The new node was in no
  mesh before; that is where the joins of `main.go` differ.

`ConnectionProofs`, for any threads, scripts, file size, capacity and other connections:

* `ConnTypes`, among it that the WaitGroup counts at most one stream.
* `MessagesInOrder`: `Spec => []HandledInOrder`. `handled`, `rpcch`, `rpc` and the bytes
  on the connection form one queue, in which jobs of a thread are in the order of its
  script (`QueueInv`, `LineInv`) and which holds only what was written (`SentInv`).
* `StreamsWhole`: `Spec => []StreamIsWhole`, where no thread stores a Chord file before
  a part (`PartsBeforeFiles`; a node belongs to a mesh or to a ring, and does only one
  of them, but the handler of a Chord file could take the signal of a part behind it).
  While only the thread of a part has written, the bytes of the part lie next to each
  other (`SegmentInv`); when its message has been decoded, the signal is next
  (`FreshInv`); a handler that has read anything of it has missed the signal
  (`LateInv`); no handler has failed so far (`NobodyFails`); so if the read loop took
  the signal, the data are next and the handler gets them (`OpenInv`).

`MeshFilesProofs`, for any nodes, members, configurations and bound:

* `MeshFilesTypes`: `Spec => []TypeOK`, with `CallInv`: calls wait for peers of their
  node only, and a store numbers parts by members.
* `GetsAreFiles`: `Spec => []GetIsFile`. `FileInv`, as long as no file has lost its end:
  what is on the disk of a running node is encrypted once (or not at all, without
  encryption), what a store sends not at all, what a Get holds not any more, and all of
  it is whole and of a number of parts that some store has used. It holds the same of
  messages, of an event loop that waits for a stream and of calls between two steps, so
  that each step hands on what the one before has left. What `Combine` returns follows
  when there is one such number.
* `AlwaysSerial`: `Spec => [](MemberInv /\ SerialInv)`. As long as no call overlapped
  anything and no node died (`Serial`), either all is quiet and the disks hold what the
  last call was to leave (`Rests`), or one member has a call and everything on the
  connections and in the event loops belongs to it (`Phase`): a Store, a Get or a Remove,
  each with what a peer may be up to in it. In a Store (`StorePhase`) a peer has not been
  sent anything (`Untold`), has the message (`Told`), or has part and message on its
  connection, in its event loop or on its disk (`Sent`); which part it gets is a function
  `a`, which the proof extends by one node with each message sent. `InTurn` says that the
  numbers given so far are different and below the next one, and that as many are left as
  peers. `seen.last` outlives the calls, so that a Get carries `Rests` along: its answers
  are what the Store before it left. `MemberInv`: only members have peers and files.
  The proof is one lemma per step and phase, and one lemma per phase that no other step
  is possible in it.
* `SerialCallsNeverCross`: such calls leave each stream to the reader it is for. This
  is what the properties about single calls rest on, since the model ends at a crossing.
* `LastCallsAreDone`: `Spec => []LastCallDone`, from `Rests`: as many different numbers
  up to the number of members as members are all of them (the pigeonhole principle), and
  by `FileInv` every part decrypts to a part of the file.
* `LoneGetsFindFiles`: `Spec => []LoneGetFindsFile`. The parts a Get has are those of all
  nodes it has read (`AskPhase`), so that in the end they are all parts.
* `LoneGetsAreAnswered`: what `LoneGetGoesOn` checks with `ENABLED`, in terms of the
  guards of `Collect` and `handleMessageGetFile`: each peer that the Get still waits for
  has the question before it and a free event loop, or has answered, with a whole part.
* `LoneGetsComeToAnEnd`, an action property: every step of the mesh while a lone Get lasts
  lowers `Work`, the number of its questions and answers still to be taken. Together with
  `LoneGetsAreAnswered` this is the safety half of its termination; that a step which
  stays possible is taken is left to fairness.

`SplitTypes` (in `SplitFileProofs`): the types, with `OffsetsInFile` for the parts.

Only model-checked:

* all liveness (`PairConverges`, `PredecessorComesBack`, `StreamIsClosed`,
  `OthersAreHeard`): the prover has no fairness;
* `LoneGetGoesOn`, an invariant that states progress with `ENABLED` (`LoneGetsAreAnswered` is the
  part of it that can be stated without).

## Not modelled

* What happens after the streams of two mesh calls have crossed on one connection:
  it depends on the bytes of the files. `MeshFiles` finds the crossing and stops.
* Ciphers, hashing, path building, gob: data conversions without state, kept only
  as far as a property sees them.
* Parsing of HTTP requests and flags, the status page, the command-line client,
  logging: pure I/O.
* `Stop` and `Close`: they end the process's work; a crash covers what other
  nodes see of it. `Write` and `Clear` of the store: only tests call them.
* The peer map's data race (iteration without `peerLock`), on which the Go
  runtime ends the process: to the others, a crash.
* The matching of peers by address prefix (`chord_util.go:54`), which the names of
  nodes abstract from.

## Plan

Proofs that are worth having next:

1. That a Store and a Remove that overlap nothing come to rest: a measure like `Work`
   of `MeshFilesProofs` for `StorePhase` and `RemovePhase`.
2. The liveness properties, from the theorems that are their safety half, with a prover
   that knows the rules of fairness.
