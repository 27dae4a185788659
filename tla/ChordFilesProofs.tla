---------------------------- MODULE ChordFilesProofs ----------------------------
(***************************************************************************)
(* Theorems about ChordFiles, for every ring and every set of files.       *)
(***************************************************************************)
EXTENDS ChordFiles, TLAPS

-----------------------------------------------------------------------------
(* The ring.  ChordFiles has the actions of ChordRing with its own value of *)
(* MayLose, Ring has them with TRUE; only Lose tells the difference.        *)

\* Ring has its own copy of the standard modules.
LEMMA SameCardinality == \A S : Ring!Cardinality(S) = Cardinality(S)
BY DEF Ring!Cardinality, Cardinality

\* The ring's initial states.
LEMMA InitIsRing == FilesInit => Ring!Init
BY DEF FilesInit, Init, Ring!Init

\* A step of the ring that has nothing to do with files.
LEMMA RingStepIsRing == RingStep => Ring!Next
<1> SUFFICES ASSUME RingStep PROVE Ring!Next
  OBVIOUS
<1>1. CASE Create
  BY <1>1 DEF Create, Ring!Create, Ring!Next, connVars, Ring!connVars
<1>2. CASE \E n, c \in Nodes : Join(n, c)
  <2> PICK n \in Nodes, c \in Nodes : Join(n, c)
    BY <1>2
  <2> Ring!Join(n, c)
    BY DEF Join, Ring!Join, Running, Ring!Running
  <2> QED
    BY DEF Ring!Next
<1>3. CASE \E n \in Nodes : JoinLink(n)
  BY <1>3 DEF JoinLink, Ring!JoinLink, Ring!Next, connVars, Ring!connVars
<1>4. CASE \E n \in Nodes : JoinNotify(n)
  BY <1>4, SameCardinality DEF JoinNotify, Ring!JoinNotify, Ring!Next, connVars, Ring!connVars, ringVars,
              Ring!ringVars, Send, Ring!Send, Connected, Ring!Connected, Notify, Ring!Notify,
              InFlightBound, Ring!InFlightBound
<1>5. CASE \E n \in Nodes : OnPeer(n)
  BY <1>5 DEF OnPeer, Ring!OnPeer, Ring!Next, ringVars, Ring!ringVars, Enter, Ring!Enter
<1>6. CASE \E n, m \in Nodes : LookupDial(n, m)
  <2> PICK n \in Nodes, m \in Nodes : LookupDial(n, m)
    BY <1>6
  <2> Ring!LookupDial(n, m)
    BY DEF LookupDial, Ring!LookupDial, ringVars, Ring!ringVars, Enter, Ring!Enter,
           Up, Ring!Up, Running, Ring!Running
  <2> QED
    BY DEF Ring!Next
<1>7. CASE \E n \in Nodes : Stabilize(n)
  BY <1>7, SameCardinality DEF Stabilize, Ring!Stabilize, Ring!Next, connVars, Ring!connVars, ringVars,
              Ring!ringVars, Send, Ring!Send, Connected, Ring!Connected, Notify, Ring!Notify,
              GetPredecessor, Ring!GetPredecessor, InFlightBound, Ring!InFlightBound, Up, Ring!Up
<1>8. CASE \E n \in Nodes : CheckPredecessor(n)
  BY <1>8 DEF CheckPredecessor, Ring!CheckPredecessor, Ring!Next, ringVars, Ring!ringVars,
              Enter, Ring!Enter, Up, Ring!Up, Running, Ring!Running
<1>9. CASE \E n \in Nodes : RemovePredecessor(n)
  BY <1>9 DEF RemovePredecessor, Ring!RemovePredecessor, Ring!Next, connVars, Ring!connVars
<1> QED
  BY <1>1, <1>2, <1>3, <1>4, <1>5, <1>6, <1>7, <1>8, <1>9 DEF RingStep

\* A message of the ring that the event loop handles.
LEMMA HandleIsRing ==
    ASSUME NEW m \in msgs, Handle(m)
    PROVE  Ring!Next
<1>1. CASE HandleGetPredecessor(m)
  <2> Ring!HandleGetPredecessor(m)
    BY <1>1, SameCardinality DEF HandleGetPredecessor, Ring!HandleGetPredecessor, Consume, Ring!Consume,
                Response, Ring!Response, InFlightBound, Ring!InFlightBound, connVars,
                Ring!connVars, ringVars, Ring!ringVars, Running, Ring!Running
  <2> QED
    BY DEF Ring!Next, Ring!Handle
<1>2. CASE HandleGetPredecessorResponse(m)
  <2> Ring!HandleGetPredecessorResponse(m)
    BY <1>2 DEF HandleGetPredecessorResponse, Ring!HandleGetPredecessorResponse, Consume,
                Ring!Consume, AdoptsSuccessor, Ring!AdoptsSuccessor, isBetween, Ring!isBetween,
                connVars, Ring!connVars, Running, Ring!Running
  <2> QED
    BY DEF Ring!Next, Ring!Handle
<1>3. CASE HandleNotify(m)
  <2> Ring!HandleNotify(m)
    BY <1>3 DEF HandleNotify, Ring!HandleNotify, Consume, Ring!Consume, AdoptsPredecessor,
                Ring!AdoptsPredecessor, SuccessorAfterNotify, Ring!SuccessorAfterNotify,
                isBetween, Ring!isBetween, connVars, Ring!connVars, ringVars, Ring!ringVars,
                Running, Ring!Running
  <2> QED
    BY DEF Ring!Next, Ring!Handle
<1> QED
  BY <1>1, <1>2, <1>3 DEF Handle

\* A message of the ring that a deaf connection, a copying handler or a waiting
\* client takes away.
LEMMA LostIsRing ==
    ASSUME NEW m \in msgs, LoseRingMessage(m)
    PROVE  Ring!Next
<1> Ring!Lose(m)
  BY DEF LoseRingMessage, Ring!Lose, connVars, Ring!connVars, ringVars, Ring!ringVars
<1> QED
  BY DEF Ring!Next

\* A process that ends, by a crash or by a panic in a goroutine of its own.
LEMMA EndIsRing ==
    ASSUME NEW n \in Nodes, Ends(n)
    PROVE  Ring!Next
<1> Ring!Crash(n)
  BY DEF Ends, Crash, Ring!Crash, ringVars, Ring!ringVars, Running, Ring!Running
<1> QED
  BY DEF Ring!Next

\* A file operation that is no step of the ring.
LEMMA FileStepStutters ==
    ASSUME \/ \E n \in Nodes, f \in Files : Client(n, f)
           \/ \E j \in jobs : FileHandler(j) \/ LoseJob(j)
           \/ \E n \in Nodes : CopyEnds(n) \/ transferResponsibilities(n)
           \/ \E r \in readers : TransferGoesOn(r)
    PROVE  UNCHANGED vars
<1>1. CASE \E n \in Nodes, f \in Files : Client(n, f)
  BY <1>1 DEF Client, StoreFile, StoreFileRemote, GetFile, DeleteFile, DeleteFileRemote, Called
<1>2. CASE \E j \in jobs : FileHandler(j) \/ LoseJob(j)
  BY <1>2 DEF FileHandler, handleMessageStoreChordFile, handleMessageGetChordFile,
              handleMessageDeleteChordFile, handleMessageDeleteFile, Handles, LoseJob
<1>3. CASE \E n \in Nodes : CopyEnds(n) \/ transferResponsibilities(n)
  BY <1>3 DEF CopyEnds, transferResponsibilities
<1>4. CASE \E r \in readers : TransferGoesOn(r)
  BY <1>4 DEF TransferGoesOn
<1> QED
  BY <1>1, <1>2, <1>3, <1>4

\* Every step of ChordFiles is a step of the ring, or none of its variables change.
LEMMA NextIsRing ==
    ASSUME [FilesNext]_allVars
    PROVE  [Ring!Next]_vars
<1>1. CASE UNCHANGED allVars
  BY <1>1 DEF allVars, vars
<1>2. CASE FilesNext
  <2>1. CASE RingStep
    BY <2>1, RingStepIsRing
  <2>2. CASE \E m \in msgs : HandleRingMessage(m)
    BY <2>2, HandleIsRing DEF HandleRingMessage
  <2>3. CASE \E m \in msgs : LoseRingMessage(m)
    BY <2>3, LostIsRing
  <2>4. CASE \E n \in Nodes : CrashNode(n)
    BY <2>4, EndIsRing DEF CrashNode
  <2>5. CASE \E r \in readers : TransferPanics(r)
    <3> PICK r \in readers : Ends(r.at)
      BY <2>5 DEF TransferPanics
    <3> r.at \in Nodes
      BY DEF Ends, Crash, Running
    <3> QED
      BY EndIsRing
  <2>6. CASE \/ \E n \in Nodes, f \in Files : Client(n, f)
             \/ \E j \in jobs : FileHandler(j) \/ LoseJob(j)
             \/ \E n \in Nodes : CopyEnds(n) \/ transferResponsibilities(n)
             \/ \E r \in readers : TransferGoesOn(r)
    BY <2>6, FileStepStutters
  <2> QED
    BY <1>2, <2>1, <2>2, <2>3, <2>4, <2>5, <2>6 DEF FilesNext
<1> QED
  BY <1>1, <1>2

\* Whatever clients, handlers and transferResponsibilities do to connections, read
\* loops and event loops, a Chord network with files is, to the ring, a ring whose
\* connections may lose messages.
THEOREM FilesImplementRing == FilesSpec => RefinesRing
<1>1. FilesInit => Ring!Init
  BY InitIsRing
<1>2. [FilesNext]_allVars => [Ring!Next]_vars
  BY NextIsRing
<1>3. vars = Ring!vars
  BY DEF vars, Ring!vars
<1> QED
  BY <1>1, <1>2, <1>3, PTL DEF FilesSpec, RefinesRing, Ring!Spec, Ring!vars, vars

-----------------------------------------------------------------------------
(* What ChordRingProofs shows of the ring holds of a ring with files.       *)

RingProofs == INSTANCE ChordRingProofs WITH MayLose <- TRUE

\* The assumptions of ChordRingProofs.
LEMMA RingAssumptions ==
    /\ Bits \in Nat \ {0}
    /\ Nodes \subseteq RingProofs!Ids /\ Seed \in Nodes
    /\ Nil \notin Nodes
    /\ TRUE \in BOOLEAN
    /\ {MaxCrashes, MaxInFlight, MaxAfterCrash} \subseteq Nat
BY BitsAssumption, NodesAssumption, NilAssumption, BoundsAssumption DEF Ids, RingProofs!Ids

\* The same initial states, ...
LEMMA SameInit == Ring!Init = RingProofs!Init
BY DEF Ring!Init, RingProofs!Init

\* ... and the same steps, ...
LEMMA SameNext == Ring!Next = RingProofs!Next
BY Zenon DEF
    Ring!Next, Ring!Create, Ring!Join, Ring!JoinLink, Ring!JoinNotify, Ring!OnPeer,
    Ring!LookupDial, Ring!Stabilize, Ring!CheckPredecessor, Ring!RemovePredecessor,
    Ring!Handle, Ring!HandleGetPredecessor, Ring!HandleGetPredecessorResponse,
    Ring!HandleNotify, Ring!Lose, Ring!Crash, Ring!connVars, Ring!ringVars, Ring!Send,
    Ring!Enter, Ring!Connected, Ring!Notify, Ring!GetPredecessor, Ring!Response,
    Ring!InFlightBound, Ring!Up, Ring!Running, Ring!Consume, Ring!AdoptsSuccessor,
    Ring!AdoptsPredecessor, Ring!SuccessorAfterNotify, Ring!isBetween, Ring!Cardinality,
    RingProofs!Next, RingProofs!Create, RingProofs!Join, RingProofs!JoinLink,
    RingProofs!JoinNotify, RingProofs!OnPeer, RingProofs!LookupDial, RingProofs!Stabilize,
    RingProofs!CheckPredecessor, RingProofs!RemovePredecessor, RingProofs!Handle,
    RingProofs!HandleGetPredecessor, RingProofs!HandleGetPredecessorResponse,
    RingProofs!HandleNotify, RingProofs!Lose, RingProofs!Crash, RingProofs!connVars,
    RingProofs!ringVars, RingProofs!Send, RingProofs!Enter, RingProofs!Connected,
    RingProofs!Notify, RingProofs!GetPredecessor, RingProofs!Response,
    RingProofs!InFlightBound, RingProofs!Up, RingProofs!Running, RingProofs!Consume,
    RingProofs!AdoptsSuccessor, RingProofs!AdoptsPredecessor,
    RingProofs!SuccessorAfterNotify, RingProofs!isBetween, RingProofs!Cardinality

\* ... so that ChordRingProofs speaks of a ring with files.
LEMMA FilesSpecIsRing == FilesSpec => RingProofs!Spec
<1>1. FilesInit => RingProofs!Init
  BY InitIsRing, SameInit
<1>2. [FilesNext]_allVars => [RingProofs!Next]_vars
  BY NextIsRing, SameNext
<1> QED
  BY <1>1, <1>2, PTL DEF FilesSpec, RingProofs!Spec, RingProofs!vars, vars

\* The successor chain of every running node leads to the seed until a node
\* crashes or panics, also while file operations take messages of the ring away,
\* hold event loops and leave connections unread.
THEOREM FilesLeaveRingConnected == FilesSpec => []SeedReachable
<1>1. RingProofs!Spec => []RingProofs!SeedReachable
  BY RingAssumptions, RingProofs!RingStaysConnected, PTL
<1>2. RingProofs!SeedReachable <=> SeedReachable
  BY DEF RingProofs!SeedReachable, SeedReachable, RingProofs!OnePiece, OnePiece,
         RingProofs!Running, Running, RingProofs!NextHop, NextHop
<1> QED
  BY <1>1, <1>2, FilesSpecIsRing, PTL

\* With files, too, no predecessor a node has accepted looks past that node until
\* a node crashes or panics.
THEOREM FilesLeaveRingOrdered == FilesSpec => []PredecessorLooksNoFurther
<1>1. RingProofs!Spec => []RingProofs!PredecessorLooksNoFurther
  BY RingAssumptions, RingProofs!RingStaysOrdered, PTL
<1>2. RingProofs!PredecessorLooksNoFurther <=> PredecessorLooksNoFurther
  BY DEF RingProofs!PredecessorLooksNoFurther, PredecessorLooksNoFurther,
         RingProofs!Ordered, Ordered, RingProofs!NoFurtherThan, NoFurtherThan,
         RingProofs!isBetween, isBetween
<1> QED
  BY <1>1, <1>2, FilesSpecIsRing, PTL

-----------------------------------------------------------------------------
(* Types.                                                                   *)

\* The history that the properties speak of.
Pasts == [deleted : SUBSET Files, last : Files \cup {Nil}]
TypeInv == FilesTypeOK /\ past \in Pasts

\* The ends of directions are nodes.
LEMMA DirectionType ==
    /\ \A n, m \in Nodes : Out(n, m) \in Directions /\ In(n, m) \in Directions
    /\ \A d \in Directions : Back(d) \in Directions /\ Source(d) \in Nodes /\ Target(d) \in Nodes
BY DEF Directions, Out, In, Back, Source, Target

\* A node's connections.
LEMMA WaysType == \A n \in Nodes : Ways(n) \subseteq Directions
BY DirectionType DEF Ways, Running

\* A new file message, ...
LEMMA JobType ==
    ASSUME NEW t \in {"StoreChord", "GetChord", "DeleteChord", "Delete"}, NEW d \in Directions,
           NEW f \in Files, NEW c \in 1 .. MaxCalls
    PROVE  Job(t, d, f, c) \in Jobs
BY DEF Job, Jobs

\* ... one whose sender has crashed, ...
LEMMA JobOver == \A j \in Jobs : [j EXCEPT !.over = TRUE] \in Jobs
BY DEF Jobs

\* ... a goroutine that begins to read, ...
LEMMA ReaderType ==
    ASSUME NEW n \in Nodes, NEW d \in Directions, NEW f \in Files,
           NEW st \in {"get", "asked", "read", "resumes"}
    PROVE  Reader(n, d, f, st) \in Readers
BY DEF Reader, Readers

\* ... and one that has got further.
LEMMA ReaderState ==
    ASSUME NEW r \in Readers, NEW st \in {"get", "asked", "read", "resumes"}
    PROVE  [r EXCEPT !.state = st] \in Readers /\ [r EXCEPT !.state = st].at = r.at
BY DEF Readers

\* A lookup says a node.
LEMMA SuccessorType ==
    ASSUME TypeOK, NEW n \in Nodes, NEW f
    PROVE  FindSuccessor(n, f) \subseteq Nodes
BY DEF TypeOK, FindSuccessor, Running

\* The ring stops no node but by a crash.
LEMMA RunningStays ==
    ASSUME TypeOK, RingStep \/ \E m \in msgs : Handle(m)
    PROVE  Running \subseteq Running'
<1>1. CASE RingStep
  <2>1. CASE Create
    BY <2>1 DEF TypeOK, Running, Create
  <2>2. CASE \E n, c \in Nodes : Join(n, c)
    BY <2>2 DEF TypeOK, Running, Join
  <2>3. CASE \E n \in Nodes : JoinLink(n)
    BY <2>3 DEF TypeOK, Running, JoinLink
  <2>4. CASE \E n \in Nodes : JoinNotify(n)
    BY <2>4 DEF TypeOK, Running, JoinNotify
  <2>5. CASE UNCHANGED phase
    BY <2>5 DEF Running
  <2> QED
    BY <1>1, <2>1, <2>2, <2>3, <2>4, <2>5 DEF RingStep, OnPeer, LookupDial, Stabilize,
       CheckPredecessor, RemovePredecessor
<1>2. CASE \E m \in msgs : Handle(m)
  BY <1>2 DEF Running, Handle, HandleGetPredecessor, HandleGetPredecessorResponse, HandleNotify
<1> QED
  BY <1>1, <1>2

\* The calls.
LEMMA ClientType ==
    ASSUME TypeOK, TypeInv, NEW n \in Nodes, NEW f \in Files, Client(n, f)
    PROVE  TypeInv'
<1> USE DEF TypeInv
<1>0. /\ Running' = Running /\ calls' \in 1 .. MaxCalls /\ n \in Nodes
  BY FilesAssumption DEF Client, StoreFile, StoreFileRemote, GetFile, DeleteFile, DeleteFileRemote,
     Called, vars, Running, Up, FilesTypeOK
<1>1. ASSUME NEW r, NEW t \in {"StoreChord", "GetChord", "DeleteChord"},
             r \in FindSuccessor(n, f), Asks(n, r, t, f)
      PROVE  jobs' \subseteq Jobs /\ r \in Nodes
  BY <1>0, <1>1, SuccessorType, DirectionType, JobType DEF Asks, FilesTypeOK
<1>2. CASE StoreFile(n, f)
  <2>1. past' \in Pasts
    BY <1>2 DEF StoreFile, Pasts
  <2> QED
    BY <1>0, <1>2, <2>1 DEF StoreFile, FilesTypeOK
<1>3. CASE StoreFileRemote(n, f)
  <2>1. past' \in Pasts
    BY <1>3 DEF StoreFileRemote, Pasts
  <2> QED
    BY <1>0, <1>1, <1>3, <2>1 DEF StoreFileRemote, FilesTypeOK
<1>4. CASE GetFile(n, f)
  <2> PICK r \in FindSuccessor(n, f) :
           Asks(n, r, "GetChord", f) /\ readers' = readers \cup {Reader(n, In(n, r), f, "get")}
    BY <1>4 DEF GetFile
  <2>1. jobs' \subseteq Jobs /\ r \in Nodes
    BY <1>1
  <2>2. Reader(n, In(n, r), f, "get") \in Readers /\ Reader(n, In(n, r), f, "get").at \in Running
    BY <2>1, <1>4, ReaderType, DirectionType DEF Reader, GetFile, Called, Up, Running
  <2> QED
    BY <1>0, <1>4, <2>1, <2>2 DEF GetFile, FilesTypeOK
<1>5. CASE DeleteFile(n, f)
  <2>1. past' \in Pasts
    BY <1>5 DEF DeleteFile, Deletes, Pasts
  <2>2. jobs' \subseteq Jobs /\ files' \in [Nodes -> SUBSET Files]
    <3> \A d \in Ways(n) : Job("Delete", d, f, calls') \in Jobs
      BY <1>0, WaysType, JobType
    <3> jobs' \subseteq jobs \cup {Job("Delete", d, f, calls') : d \in Ways(n)}
      BY <1>5 DEF DeleteFile, Remove
    <3> files' \in {files, [files EXCEPT ![n] = @ \ {f}]}
      BY <1>5 DEF DeleteFile, Remove
    <3> QED
      BY DEF FilesTypeOK
  <2>3. responsibles' \in [Nodes -> SUBSET Files] /\ UNCHANGED <<deaf, copying, readers, transfers>>
    BY <1>5 DEF DeleteFile, FilesTypeOK
  <2> QED
    BY <1>0, <2>1, <2>2, <2>3 DEF FilesTypeOK
<1>6. CASE DeleteFileRemote(n, f)
  <2>1. past' \in Pasts
    BY <1>6 DEF DeleteFileRemote, Deletes, Pasts
  <2> QED
    BY <1>0, <1>1, <1>6, <2>1 DEF DeleteFileRemote, FilesTypeOK
<1> QED
  BY <1>2, <1>3, <1>4, <1>5, <1>6 DEF Client

\* The handlers.
LEMMA HandlerType ==
    ASSUME TypeInv, NEW j \in jobs, FileHandler(j)
    PROVE  TypeInv'
<1> USE DEF TypeInv
<1>0. /\ j \in Jobs /\ Target(j.on) \in Nodes /\ j.on \in Directions /\ j.file \in Files
      /\ j.call \in 1 .. MaxCalls
  BY DirectionType DEF FilesTypeOK, Jobs
<1>1. Running' = Running /\ UNCHANGED <<calls, past, readers, transfers>>
  BY DEF FileHandler, Handles, handleMessageStoreChordFile, handleMessageGetChordFile,
     handleMessageDeleteChordFile, handleMessageDeleteFile, vars, Running
<1>2. CASE handleMessageStoreChordFile(j)
  BY <1>0, <1>1, <1>2 DEF handleMessageStoreChordFile, FilesTypeOK
<1>3. CASE handleMessageGetChordFile(j)
  BY <1>0, <1>1, <1>3 DEF handleMessageGetChordFile, FilesTypeOK
<1>4. CASE handleMessageDeleteChordFile(j)
  <2>2. jobs' \subseteq Jobs /\ files' \in [Nodes -> SUBSET Files]
    BY <1>0, <1>4, WaysType, JobType DEF handleMessageDeleteChordFile, Remove, FilesTypeOK
  <2> QED
    BY <1>0, <1>1, <1>4, <2>2 DEF handleMessageDeleteChordFile, FilesTypeOK
<1>5. CASE handleMessageDeleteFile(j)
  BY <1>0, <1>1, <1>5 DEF handleMessageDeleteFile, FilesTypeOK
<1> QED
  BY <1>2, <1>3, <1>4, <1>5 DEF FileHandler

\* A goroutine takes bytes of a message.
LEMMA TakesType ==
    ASSUME FilesTypeOK, NEW r \in readers, Takes(r)
    PROVE  /\ readers' \subseteq Readers /\ deaf' \subseteq Directions
           /\ \A q \in readers' : q.at \in Running
<1>1. r \in Readers /\ r.on \in Directions /\ r.at \in Running
  BY DEF FilesTypeOK, Readers
<1>2. [r EXCEPT !.state = "read"] \in Readers /\ [r EXCEPT !.state = "read"].at = r.at
  BY <1>1, ReaderState
<1> QED
  BY <1>1, <1>2 DEF Takes, FilesTypeOK

\* A file message is lost.
LEMMA LoseJobType ==
    ASSUME TypeInv, NEW j \in jobs, LoseJob(j)
    PROVE  TypeInv'
<1> USE DEF TypeInv
<1>1. Running' = Running
  BY DEF LoseJob, vars, Running
<1>2. past' \in Pasts
  BY DEF LoseJob, Pasts
<1>3. UNCHANGED <<readers, deaf>> \/ \E r \in readers : Takes(r)
  BY DEF LoseJob
<1>4. /\ readers' \subseteq Readers /\ deaf' \subseteq Directions
      /\ \A q \in readers' : q.at \in Running
  BY <1>3, TakesType DEF FilesTypeOK
<1> QED
  BY <1>1, <1>2, <1>4 DEF LoseJob, FilesTypeOK

\* The end of a copy.
LEMMA CopyEndsType ==
    ASSUME TypeInv, NEW n \in Nodes, CopyEnds(n)
    PROVE  TypeInv'
<1> USE DEF TypeInv
<1>1. Running' = Running
  BY DEF CopyEnds, vars, Running
<1>2. copying[n].file \in Files
  BY DEF CopyEnds, FilesTypeOK, Jobs
<1> QED
  BY <1>1, <1>2 DEF CopyEnds, FilesTypeOK

\* transferResponsibilities.
LEMMA TransferType ==
    ASSUME TypeInv, NEW n \in Nodes, transferResponsibilities(n)
    PROVE  TypeInv'
<1> USE DEF TypeInv
<1>1. Running' = Running /\ n \in Running
  BY DEF transferResponsibilities, vars, Running, FilesTypeOK
<1>2. readers' \subseteq Readers /\ \A q \in readers' : q.at \in Running
  <2> SUFFICES ASSUME NEW f \in filesToTransfer(n), NEW d \in Ways(n)
               PROVE  /\ Reader(n, Back(d), f, "asked") \in Readers
                      /\ Reader(n, Back(d), f, "asked").at \in Running
    BY DEF transferResponsibilities, FilesTypeOK
  <2> f \in Files /\ Back(d) \in Directions
    BY WaysType, DirectionType DEF filesToTransfer, FilesTypeOK
  <2> QED
    BY <1>1, ReaderType DEF Reader
<1> QED
  BY <1>1, <1>2 DEF transferResponsibilities, FilesTypeOK

\* What transferResponsibilities takes for an answer.
LEMMA GoesOnType ==
    ASSUME TypeInv, NEW r \in readers, TransferGoesOn(r)
    PROVE  TypeInv'
<1> USE DEF TypeInv
<1>0. r.at \in Nodes /\ r.at \in Running /\ r.file \in Files
  BY DEF FilesTypeOK, Readers
<1>1. Running' = Running
  BY DEF TransferGoesOn, vars, Running
<1>2. readers' \subseteq Readers /\ \A q \in readers' : q.at \in Running
  <2> SUFFICES ASSUME NEW d \in Ways(r.at)
               PROVE  /\ Reader(r.at, Back(d), r.file, "asked") \in Readers
                      /\ Reader(r.at, Back(d), r.file, "asked").at \in Running
    BY DEF TransferGoesOn, FilesTypeOK
  <2> Back(d) \in Directions
    BY <1>0, WaysType, DirectionType
  <2> QED
    BY <1>0, ReaderType DEF Reader
<1>3. past' \in Pasts
  BY DEF TransferGoesOn, Pasts
<1>4. deaf' \subseteq Directions /\ files' \in [Nodes -> SUBSET Files]
  BY <1>0 DEF TransferGoesOn, FilesTypeOK
<1> QED
  BY <1>1, <1>2, <1>3, <1>4 DEF TransferGoesOn, FilesTypeOK

\* The ring.
LEMMA RingType ==
    ASSUME TypeOK, TypeInv, RingStep \/ \E m \in msgs : HandleRingMessage(m)
    PROVE  TypeInv'
<1> USE DEF TypeInv
<1>1. Running \subseteq Running'
  BY RunningStays DEF HandleRingMessage
<1>2. CASE RingStep
  BY <1>1, <1>2 DEF RingStep, fileVars, FilesTypeOK
<1>3. CASE \E m \in msgs : HandleRingMessage(m)
  <2> PICK m \in msgs : HandleRingMessage(m)
    BY <1>3
  <2> m.dst \in Running
    BY DEF HandleRingMessage, Handle, HandleGetPredecessor, HandleGetPredecessorResponse,
           HandleNotify
  <2> QED
    BY <1>1 DEF HandleRingMessage, FilesTypeOK
<1> QED
  BY <1>2, <1>3

\* A message of the ring is lost.
LEMMA LoseRingType ==
    ASSUME TypeInv, NEW m \in msgs, LoseRingMessage(m)
    PROVE  TypeInv'
<1> USE DEF TypeInv
<1>1. Running' = Running
  BY DEF LoseRingMessage, Running
<1>2. UNCHANGED <<readers, deaf>> \/ \E r \in readers : Takes(r)
  BY DEF LoseRingMessage
<1>3. /\ readers' \subseteq Readers /\ deaf' \subseteq Directions
      /\ \A q \in readers' : q.at \in Running
  BY <1>2, TakesType DEF FilesTypeOK
<1> QED
  BY <1>1, <1>3 DEF LoseRingMessage, FilesTypeOK

\* The end of a process.
LEMMA EndsType ==
    ASSUME TypeOK, TypeInv, NEW n \in Nodes, Ends(n),
           files' \in [Nodes -> SUBSET Files]
    PROVE  TypeInv'
<1> USE DEF TypeInv
<1>1. Running \ {n} \subseteq Running'
  BY DEF Ends, Crash, Running, TypeOK
<1>2. past' \in Pasts
  BY DEF Ends, Pasts
<1>3. \A j \in Jobs : [j EXCEPT !.over = TRUE] \in Jobs
  BY JobOver
<1>4. jobs' \subseteq Jobs
  BY <1>3 DEF Ends, FilesTypeOK
<1>5. copying' \in [Nodes -> Jobs \cup {Nil}]
  BY <1>3 DEF Ends, FilesTypeOK
<1>6. readers' \subseteq Readers /\ \A q \in readers' : q.at \in Running'
  <2>1. \A r \in readers : r.at # n => r.at \in Running' /\ r \in Readers
    BY <1>1 DEF FilesTypeOK
  <2>2. \A r \in Readers : \A st \in {"read", "resumes"} :
            [r EXCEPT !.state = st] \in Readers /\ [r EXCEPT !.state = st].at = r.at
    BY ReaderState
  <2>3. \A q \in readers' : \E r \in readers :
            /\ r.at # n
            /\ q = r \/ \E st \in {"read", "resumes"} : q = [r EXCEPT !.state = st]
    BY Zenon DEF Ends
  <2> SUFFICES ASSUME NEW q \in readers' PROVE q \in Readers /\ q.at \in Running'
    OBVIOUS
  <2> PICK r \in readers :
           /\ r.at # n
           /\ q = r \/ \E st \in {"read", "resumes"} : q = [r EXCEPT !.state = st]
    BY <2>3
  <2>4. r \in Readers /\ r.at \in Running'
    BY <2>1
  <2>5. ASSUME NEW st \in {"read", "resumes"}, q = [r EXCEPT !.state = st]
        PROVE  q \in Readers /\ q.at \in Running'
    BY <2>2, <2>4, <2>5
  <2> QED
    BY <2>4, <2>5
<1>7. /\ responsibles' \in [Nodes -> SUBSET Files] /\ deaf' \subseteq Directions
      /\ transfers' \subseteq Running' /\ UNCHANGED calls
  BY <1>1 DEF Ends, FilesTypeOK
<1> QED
  BY <1>2, <1>4, <1>5, <1>6, <1>7 DEF FilesTypeOK

\* All steps.
LEMMA TypeInvStep ==
    ASSUME TypeOK, TypeInv, [FilesNext]_allVars
    PROVE  TypeInv'
<1>1. CASE UNCHANGED allVars
  BY <1>1 DEF TypeInv, FilesTypeOK, allVars, vars, fileVars, Running
<1>2. CASE \E n \in Nodes, f \in Files : Client(n, f)
  BY <1>2, ClientType
<1>3. CASE \E j \in jobs : FileHandler(j) \/ LoseJob(j)
  BY <1>3, HandlerType, LoseJobType
<1>4. CASE \E n \in Nodes : CopyEnds(n) \/ transferResponsibilities(n)
  BY <1>4, CopyEndsType, TransferType
<1>5. CASE \E r \in readers : TransferGoesOn(r)
  BY <1>5, GoesOnType
<1>6. CASE \E r \in readers : TransferPanics(r)
  <2> PICK r \in readers : TransferPanics(r)
    BY <1>6
  <2> r.at \in Nodes /\ r.file \in Files
    BY DEF TypeInv, FilesTypeOK, Readers
  <2> files' \in [Nodes -> SUBSET Files]
    BY DEF TransferPanics, TypeInv, FilesTypeOK
  <2> QED
    BY EndsType DEF TransferPanics
<1>7. CASE RingStep \/ \E m \in msgs : HandleRingMessage(m)
  BY <1>7, RingType
<1>8. CASE \E m \in msgs : LoseRingMessage(m)
  BY <1>8, LoseRingType
<1>9. CASE \E n \in Nodes : CrashNode(n)
  BY <1>9, EndsType DEF CrashNode, TypeInv, FilesTypeOK
<1> QED
  BY <1>1, <1>2, <1>3, <1>4, <1>5, <1>6, <1>7, <1>8, <1>9 DEF FilesNext

\* The ring's own variables.
LEMMA RingTypeCorrect == FilesSpec => []TypeOK
<1>1. RingProofs!Spec => []RingProofs!TypeOK
  BY RingAssumptions, RingProofs!TypeCorrect, PTL
<1>2. RingProofs!TypeOK <=> TypeOK
  BY DEF RingProofs!TypeOK, TypeOK, RingProofs!Phases, Phases, RingProofs!Messages, Messages
<1> QED
  BY <1>1, <1>2, FilesSpecIsRing, PTL

\* The type invariant with the history.
LEMMA TypeInvariant == FilesSpec => []TypeInv
<1>1. FilesInit => TypeInv
  BY FilesAssumption DEF FilesInit, TypeInv, FilesTypeOK, Pasts
<1> QED
  BY <1>1, RingTypeCorrect, TypeInvStep, PTL DEF FilesSpec

\* The values the variables take, whatever nodes and files there are: in particular
\* a node that is off, crashed or panicked, has no goroutine left.
THEOREM FilesTypeCorrect == FilesSpec => []FilesTypeOK
<1>1. TypeInv => FilesTypeOK
  BY DEF TypeInv
<1> QED
  BY <1>1, TypeInvariant, PTL

-----------------------------------------------------------------------------
(* Nothing is lost without a delete.                                        *)

\* A message of a delete is about a deleted file.
JobInv == \A j \in jobs : j.type \in {"DeleteChord", "Delete"} => j.file \in past.deleted
\* The invariant for ResponsibleHasFile and FilesStay, and what a step may take away.
DeletedInv == JobInv /\ ResponsibleHasFile
Stays == \A n \in Nodes : files[n] \ files'[n] \subseteq past'.deleted

\* What Remove may send and delete.
LEMMA RemoveJobs ==
    ASSUME NEW n, NEW f, NEW c, NEW rest, Remove(n, f, c, rest)
    PROVE  /\ jobs' \subseteq rest \cup {Job("Delete", d, f, c) : d \in Ways(n)}
           /\ files' \in {files, [files EXCEPT ![n] = @ \ {f}]}
BY DEF Remove

\* The calls, ...
LEMMA DeletedClient ==
    ASSUME TypeInv, DeletedInv, NEW n \in Nodes, NEW f \in Files, Client(n, f)
    PROVE  DeletedInv' /\ Stays
<1> USE DEF TypeInv, DeletedInv
<1>1. CASE StoreFile(n, f)
  <2> past'.deleted = past.deleted
    BY <1>1 DEF StoreFile, Pasts
  <2> QED
    BY <1>1 DEF StoreFile, JobInv, ResponsibleHasFile, Stays, FilesTypeOK
<1>2. CASE StoreFileRemote(n, f) \/ GetFile(n, f)
  <2>1. past'.deleted = past.deleted /\ UNCHANGED <<files, responsibles>>
    BY <1>2 DEF StoreFileRemote, GetFile, Pasts
  <2>2. \A j \in jobs' : j \in jobs \/ j.type \in {"StoreChord", "GetChord"}
    BY <1>2 DEF StoreFileRemote, GetFile, Asks, Job
  <2> QED
    BY <2>1, <2>2 DEF JobInv, ResponsibleHasFile, Stays
<1>3. CASE DeleteFile(n, f)
  <2>1. past'.deleted = past.deleted \cup {f}
    BY <1>3 DEF DeleteFile, Deletes, Pasts
  <2>2. \A j \in jobs' : j \in jobs \/ j.file = f
    BY <1>3, RemoveJobs DEF DeleteFile, Job
  <2>3. /\ files' \in {files, [files EXCEPT ![n] = @ \ {f}]}
        /\ responsibles' = [responsibles EXCEPT ![n] = @ \ {f}]
    BY <1>3, RemoveJobs DEF DeleteFile
  <2> QED
    BY <2>1, <2>2, <2>3 DEF JobInv, ResponsibleHasFile, Stays, FilesTypeOK
<1>4. CASE DeleteFileRemote(n, f)
  <2>1. past'.deleted = past.deleted \cup {f} /\ UNCHANGED <<files, responsibles>>
    BY <1>4 DEF DeleteFileRemote, Deletes, Pasts
  <2>2. \A j \in jobs' : j \in jobs \/ j.file = f
    BY <1>4 DEF DeleteFileRemote, Asks, Job
  <2> QED
    BY <2>1, <2>2 DEF JobInv, ResponsibleHasFile, Stays
<1> QED
  BY <1>1, <1>2, <1>3, <1>4 DEF Client

\* ... the handlers, ...
LEMMA DeletedHandler ==
    ASSUME TypeInv, DeletedInv, NEW j \in jobs, FileHandler(j)
    PROVE  DeletedInv' /\ Stays
<1> USE DEF TypeInv, DeletedInv
<1>0. UNCHANGED past /\ Target(j.on) \in Nodes
  BY DirectionType DEF FileHandler, handleMessageStoreChordFile, handleMessageGetChordFile,
     handleMessageDeleteChordFile, handleMessageDeleteFile, FilesTypeOK, Jobs
<1>1. CASE handleMessageStoreChordFile(j) \/ handleMessageGetChordFile(j)
  BY <1>0, <1>1 DEF handleMessageStoreChordFile, handleMessageGetChordFile, JobInv,
     ResponsibleHasFile, Stays
<1>2. CASE handleMessageDeleteChordFile(j)
  <2>1. j.file \in past.deleted
    BY <1>2 DEF handleMessageDeleteChordFile, Handles, JobInv
  <2>2. \A k \in jobs' : k \in jobs \/ k.file = j.file
    BY <1>2, RemoveJobs DEF handleMessageDeleteChordFile, Job
  <2>3. /\ files' \in {files, [files EXCEPT ![Target(j.on)] = @ \ {j.file}]}
        /\ responsibles' = [responsibles EXCEPT ![Target(j.on)] = @ \ {j.file}]
    BY <1>2, RemoveJobs DEF handleMessageDeleteChordFile
  <2> QED
    BY <1>0, <2>1, <2>2, <2>3 DEF JobInv, ResponsibleHasFile, Stays, FilesTypeOK
<1>3. CASE handleMessageDeleteFile(j)
  <2>1. j.file \in past.deleted
    BY <1>3 DEF handleMessageDeleteFile, Handles, JobInv
  <2> QED
    BY <1>0, <1>3, <2>1 DEF handleMessageDeleteFile, JobInv, ResponsibleHasFile, Stays, FilesTypeOK
<1> QED
  BY <1>1, <1>2, <1>3 DEF FileHandler

\* ... the end of a process, ...
LEMMA DeletedEnds ==
    ASSUME TypeInv, DeletedInv, NEW n \in Nodes, Ends(n), \A k \in Nodes : files[k] \subseteq files'[k]
    PROVE  DeletedInv' /\ Stays
<1> USE DEF TypeInv, DeletedInv
<1>1. past'.deleted = past.deleted
  BY DEF Ends, Pasts
<1>2. \A j \in jobs' : \E k \in jobs : j.type = k.type /\ j.file = k.file
  <2>1. \A k \in Jobs : [k EXCEPT !.over = TRUE].type = k.type /\ [k EXCEPT !.over = TRUE].file = k.file
    BY DEF Jobs
  <2>2. \A j \in jobs' : \E k \in jobs : j = k \/ j = [k EXCEPT !.over = TRUE]
    BY Zenon DEF Ends
  <2> QED
    BY <2>1, <2>2, Zenon DEF FilesTypeOK
<1>3. \A k \in Nodes : responsibles'[k] \subseteq responsibles[k]
  BY DEF Ends, FilesTypeOK
<1> QED
  BY <1>1, <1>2, <1>3 DEF JobInv, ResponsibleHasFile, Stays

\* ... and all other steps.
LEMMA DeletedStep ==
    ASSUME TypeInv, DeletedInv, [FilesNext]_allVars
    PROVE  DeletedInv' /\ Stays
<1> USE DEF TypeInv, DeletedInv
<1>1. CASE UNCHANGED <<files, responsibles, jobs, past>>
  BY <1>1 DEF JobInv, ResponsibleHasFile, Stays
<1>2. CASE \E n \in Nodes, f \in Files : Client(n, f)
  BY <1>2, DeletedClient
<1>3. CASE \E j \in jobs : FileHandler(j)
  BY <1>3, DeletedHandler
<1>4. CASE \E j \in jobs : LoseJob(j)
  <2> past'.deleted = past.deleted
    BY <1>4 DEF LoseJob, Pasts
  <2> QED
    BY <1>4 DEF LoseJob, JobInv, ResponsibleHasFile, Stays
<1>5. CASE \E n \in Nodes : CopyEnds(n)
  BY <1>5 DEF CopyEnds, JobInv, ResponsibleHasFile, Stays, FilesTypeOK
<1>6. CASE \E r \in readers : TransferGoesOn(r)
  <2> past'.deleted = past.deleted
    BY <1>6 DEF TransferGoesOn, Pasts
  <2> QED
    BY <1>6 DEF TransferGoesOn, JobInv, ResponsibleHasFile, Stays, FilesTypeOK
<1>7. CASE \E r \in readers : TransferPanics(r)
  <2> PICK r \in readers : TransferPanics(r)
    BY <1>7
  <2> r.at \in Nodes
    BY DEF FilesTypeOK, Readers
  <2> \A k \in Nodes : files[k] \subseteq files'[k]
    BY DEF TransferPanics, FilesTypeOK
  <2> QED
    BY DeletedEnds DEF TransferPanics
<1>8. CASE \E n \in Nodes : CrashNode(n)
  BY <1>8, DeletedEnds DEF CrashNode
<1> QED
  BY <1>1, <1>2, <1>3, <1>4, <1>5, <1>6, <1>7, <1>8
     DEF FilesNext, allVars, fileVars, transferResponsibilities, RingStep, HandleRingMessage,
         LoseRingMessage

\* The invariant.
LEMMA DeletedInvariant == FilesSpec => []DeletedInv
<1>1. FilesInit => DeletedInv
  BY DEF FilesInit, DeletedInv, JobInv, ResponsibleHasFile
<1>2. TypeInv /\ DeletedInv /\ [FilesNext]_allVars => DeletedInv'
  BY DeletedStep
<1> QED
  BY <1>1, <1>2, TypeInvariant, PTL DEF FilesSpec

\* Without a delete no node is responsible for a file that it does not have, so that
\* transferResponsibilities does not wait for the bytes of one.
THEOREM ResponsibleAlwaysHasFile == FilesSpec => []ResponsibleHasFile
<1>1. DeletedInv => ResponsibleHasFile
  BY DEF DeletedInv
<1> QED
  BY <1>1, DeletedInvariant, PTL

\* No file leaves a disk before somebody has called delete for it.
THEOREM FilesAlwaysStay == FilesSpec => FilesStay
<1>1. TypeInv /\ DeletedInv /\ [FilesNext]_allVars =>
          [\A n \in Nodes : files[n] \ files'[n] \subseteq past'.deleted]_allVars
  BY DeletedStep DEF Stays
<1> QED
  BY <1>1, TypeInvariant, DeletedInvariant, PTL DEF FilesSpec, FilesStay

-----------------------------------------------------------------------------
(* Remote stores do not end before a process does.                          *)

\* As long as no process has ended, no connection has either: a handler that copies
\* one does not come to its end.
OverInv ==
    crashes = 0 =>
        /\ \A j \in jobs : ~j.over
        /\ \A n \in Nodes : copying[n] # Nil => ~copying[n].over

\* The calls of clients add messages of connections that stand, ...
LEMMA OverClient ==
    ASSUME TypeInv, OverInv, NEW n \in Nodes, NEW f \in Files, Client(n, f)
    PROVE  OverInv'
<1>1. UNCHANGED <<crashes, copying>>
  BY DEF Client, StoreFile, StoreFileRemote, GetFile, DeleteFile, DeleteFileRemote, Called, vars
<1>2. CASE StoreFile(n, f)
  BY <1>1, <1>2 DEF StoreFile, OverInv
<1>3. CASE StoreFileRemote(n, f) \/ GetFile(n, f) \/ DeleteFileRemote(n, f)
  <2> \A j \in jobs' : j \in jobs \/ ~j.over
    BY <1>3 DEF StoreFileRemote, GetFile, DeleteFileRemote, Asks, Job
  <2> QED
    BY <1>1 DEF OverInv
<1>4. CASE DeleteFile(n, f)
  <2> \A j \in jobs' : j \in jobs \/ ~j.over
    BY <1>4, RemoveJobs DEF DeleteFile, Job
  <2> QED
    BY <1>1 DEF OverInv
<1> QED
  BY <1>2, <1>3, <1>4 DEF Client

\* ... and so do the handlers.
LEMMA OverHandler ==
    ASSUME TypeInv, OverInv, NEW j \in jobs, FileHandler(j)
    PROVE  OverInv'
<1> USE DEF TypeInv
<1>1. crashes' = crashes /\ Target(j.on) \in Nodes
  BY DirectionType DEF FileHandler, Handles, vars, FilesTypeOK, Jobs, handleMessageStoreChordFile,
     handleMessageGetChordFile, handleMessageDeleteChordFile, handleMessageDeleteFile
<1>2. CASE handleMessageStoreChordFile(j)
  BY <1>1, <1>2 DEF handleMessageStoreChordFile, OverInv, FilesTypeOK
<1>3. CASE handleMessageGetChordFile(j)
  BY <1>1, <1>3 DEF handleMessageGetChordFile, OverInv
<1>4. CASE handleMessageDeleteChordFile(j)
  <2> \A k \in jobs' : k \in jobs \/ ~k.over
    BY <1>4, RemoveJobs DEF handleMessageDeleteChordFile, Job
  <2> QED
    BY <1>1, <1>4 DEF handleMessageDeleteChordFile, OverInv
<1>5. CASE handleMessageDeleteFile(j)
  BY <1>1, <1>5 DEF handleMessageDeleteFile, OverInv
<1> QED
  BY <1>2, <1>3, <1>4, <1>5 DEF FileHandler

\* The other steps add no message and begin no copy.
LEMMA OverStep ==
    ASSUME TypeOK, TypeInv, OverInv, [FilesNext]_allVars
    PROVE  OverInv'
<1>1. CASE UNCHANGED <<crashes, copying>> /\ jobs' \subseteq jobs
  BY <1>1 DEF OverInv
<1>2. CASE \E n \in Nodes, f \in Files : Client(n, f)
  BY <1>2, OverClient
<1>3. CASE \E j \in jobs : FileHandler(j)
  BY <1>3, OverHandler
<1>4. CASE \/ \E j \in jobs : LoseJob(j)
           \/ \E m \in msgs : LoseRingMessage(m)
           \/ \E n \in Nodes : transferResponsibilities(n)
           \/ \E r \in readers : TransferGoesOn(r)
  BY <1>1, <1>4 DEF LoseJob, LoseRingMessage, transferResponsibilities, TransferGoesOn, vars
<1>7. CASE \E n \in Nodes : CopyEnds(n)
  BY <1>7 DEF CopyEnds, OverInv, vars
<1>8. CASE \E n : Ends(n)
  BY <1>8 DEF Ends, Crash, TypeOK, OverInv
<1>9. CASE \E m \in msgs : HandleRingMessage(m)
  BY <1>9 DEF HandleRingMessage, Handle, HandleGetPredecessor, HandleGetPredecessorResponse,
     HandleNotify, OverInv
<1>10. CASE RingStep
  BY <1>10, <1>1 DEF RingStep, Create, Join, JoinLink, JoinNotify, OnPeer, LookupDial, Stabilize,
     CheckPredecessor, RemovePredecessor, fileVars
<1> QED
  BY <1>1, <1>2, <1>3, <1>4, <1>7, <1>8, <1>9, <1>10
     DEF FilesNext, allVars, fileVars, vars, CrashNode, TransferPanics

\* The invariant.
LEMMA OverInvariant == FilesSpec => []OverInv
<1>1. FilesInit => OverInv
  BY DEF FilesInit, OverInv
<1>2. TypeOK /\ TypeInv /\ OverInv /\ [FilesNext]_allVars => OverInv'
  BY OverStep
<1> QED
  BY <1>1, <1>2, RingTypeCorrect, TypeInvariant, PTL DEF FilesSpec

-----------------------------------------------------------------------------
(* A delete reaches everybody.                                              *)

\* A message that will take f from n, now or by asking everybody to.
Pending(n, f, J) ==
    \E j \in J : j.file = f /\ (j.type = "DeleteChord" \/ (j.type = "Delete" /\ Target(j.on) = n))

\* After a delete in a whole network, a message is under way to each node that still
\* has the file, and the network stays whole.
ReachInv ==
    past.last # Nil =>
        /\ crashes = 0 /\ FullyConnected
        /\ \A n \in Nodes : past.last \in files[n] => Pending(n, past.last, jobs)

\* A node of a whole network has a connection to each other one, ...
LEMMA WaysReach ==
    ASSUME FullyConnected, NEW n \in Nodes, NEW m \in Nodes, m # n
    PROVE  \E d \in Ways(n) : Target(d) = m
<1>1. Connected(n, m) \/ Connected(m, n)
  BY DEF FullyConnected
<1>2. m \in Running
  BY DEF FullyConnected, Up, Running
<1>3. CASE Connected(n, m)
  <2> Out(n, m) \in Ways(n)
    BY <1>2, <1>3 DEF Ways
  <2> Target(Out(n, m)) = m
    BY DEF Out, Target, Source, Back
  <2> QED
    OBVIOUS
<1>4. CASE Connected(m, n)
  <2> In(m, n) \in Ways(n)
    BY <1>2, <1>4 DEF Ways
  <2> Target(In(m, n)) = m
    BY DEF In, Target, Source, Back
  <2> QED
    OBVIOUS
<1> QED
  BY <1>1, <1>3, <1>4

\* ... so that Remove tells each one that has the file, ...
LEMMA RemoveReaches ==
    ASSUME TypeInv, FullyConnected, crashes = 0, NEW n \in Nodes, NEW f, NEW c, NEW rest,
           Remove(n, f, c, rest), NEW m \in Nodes, f \in files'[m]
    PROVE  Pending(m, f, jobs')
<1>1. /\ jobs' = rest \cup {Job("Delete", d, f, c) : d \in Ways(n)}
      /\ files' = [files EXCEPT ![n] = @ \ {f}]
  BY DEF Remove
<1>2. m # n
  BY <1>1 DEF TypeInv, FilesTypeOK
<1> PICK d \in Ways(n) : Target(d) = m
  BY <1>2, WaysReach
<1>3. Job("Delete", d, f, c) \in jobs'
  BY <1>1
<1> QED
  BY <1>3 DEF Pending, Job

\* ... and nothing but a crash ends a connection.
LEMMA StaysConnected ==
    ASSUME TypeOK, FullyConnected, RingStep \/ \E m \in msgs : Handle(m)
    PROVE  FullyConnected'
<1>1. UNCHANGED phase
  <2> \A n \in Nodes : phase[n] = "up"
    BY DEF FullyConnected, Up
  <2> QED
    BY NodesAssumption DEF RingStep, Create, Join, JoinLink, JoinNotify, OnPeer, LookupDial, Stabilize,
       CheckPredecessor, RemovePredecessor, Handle, HandleGetPredecessor,
       HandleGetPredecessorResponse, HandleNotify
<1>2. UNCHANGED <<peers, broken>> \/ \E n, m \in Nodes : Enter(n, m)
  BY DEF RingStep, Create, Join, JoinLink, JoinNotify, OnPeer, LookupDial, Stabilize,
     CheckPredecessor, RemovePredecessor, Handle, HandleGetPredecessor, TypeOK, Running,
     HandleGetPredecessorResponse, HandleNotify, connVars
<1>3. \A n, m \in Nodes : Connected(n, m) => Connected(n, m)'
  BY <1>2 DEF Connected, Enter, TypeOK
<1> QED
  BY <1>1, <1>3 DEF FullyConnected, Up

\* The calls, ...
LEMMA ReachClient ==
    ASSUME TypeInv, ReachInv, NEW n \in Nodes, NEW f \in Files, Client(n, f)
    PROVE  ReachInv'
<1> USE DEF TypeInv
<1>0. /\ UNCHANGED vars /\ (FullyConnected <=> FullyConnected')
  BY DEF Client, StoreFile, StoreFileRemote, GetFile, DeleteFile, DeleteFileRemote, Called, vars,
     FullyConnected, Up, Connected
<1>1. CASE StoreFile(n, f) \/ StoreFileRemote(n, f)
  <2> past'.last = Nil
    BY <1>1 DEF StoreFile, StoreFileRemote, Pasts
  <2> QED
    BY DEF ReachInv
<1>2. CASE GetFile(n, f)
  BY <1>0, <1>2 DEF GetFile, Asks, ReachInv, Pending, vars
<1>3. CASE DeleteFile(n, f)
  <2> SUFFICES ASSUME past'.last # Nil PROVE ReachInv'
    BY DEF ReachInv
  <2>1. past'.last = f /\ FullyConnected /\ crashes = 0
    BY <1>3 DEF DeleteFile, Deletes, Pasts
  <2>2. \A m \in Nodes : f \in files'[m] => Pending(m, f, jobs')
    BY <1>3, <2>1, RemoveReaches DEF DeleteFile
  <2> QED
    BY <1>0, <2>1, <2>2 DEF ReachInv, vars, Pending
<1>4. CASE DeleteFileRemote(n, f)
  <2> SUFFICES ASSUME past'.last # Nil PROVE ReachInv'
    BY DEF ReachInv
  <2>1. past'.last = f /\ FullyConnected /\ crashes = 0
    BY <1>4 DEF DeleteFileRemote, Deletes, Pasts
  <2>2. \A m \in Nodes : Pending(m, f, jobs')
    <3> PICK r : jobs' = jobs \cup {Job("DeleteChord", Out(n, r), f, calls')}
      BY <1>4 DEF DeleteFileRemote, Asks
    <3> DEFINE job == Job("DeleteChord", Out(n, r), f, calls')
    <3>1. job \in jobs' /\ job.file = f /\ job.type = "DeleteChord"
      BY DEF Job
    <3> HIDE DEF job
    <3> QED
      BY <3>1 DEF Pending
  <2> QED
    BY <1>0, <2>1, <2>2 DEF ReachInv, vars, Pending
<1> QED
  BY <1>1, <1>2, <1>3, <1>4 DEF Client

\* ... the handlers, ...
LEMMA ReachHandler ==
    ASSUME TypeInv, ReachInv, NEW j \in jobs, FileHandler(j)
    PROVE  ReachInv'
<1> USE DEF TypeInv
<1>0. /\ UNCHANGED vars /\ UNCHANGED past /\ (FullyConnected <=> FullyConnected')
  BY DEF FileHandler, Handles, handleMessageStoreChordFile, handleMessageGetChordFile,
     handleMessageDeleteChordFile, handleMessageDeleteFile, vars,
     FullyConnected, Up, Connected
<1>1. Target(j.on) \in Nodes
  BY DirectionType DEF FilesTypeOK, Jobs
<1> SUFFICES ASSUME past.last # Nil, NEW n \in Nodes, past.last \in files'[n]
             PROVE  Pending(n, past.last, jobs')
  BY <1>0 DEF ReachInv, vars, Pending
<1>2. past.last \in files[n] => Pending(n, past.last, jobs)
  BY DEF ReachInv
<1>3. CASE handleMessageStoreChordFile(j) \/ handleMessageGetChordFile(j)
  BY <1>2, <1>3 DEF handleMessageStoreChordFile, handleMessageGetChordFile, Handles, Pending
<1>4. CASE handleMessageDeleteChordFile(j)
  <2>1. Remove(Target(j.on), j.file, j.call, jobs \ {j}) /\ FullyConnected /\ crashes = 0
    BY <1>4 DEF handleMessageDeleteChordFile, ReachInv
  <2>2. CASE j.file = past.last
    BY <1>1, <2>1, <2>2, RemoveReaches
  <2>3. CASE j.file # past.last
    <3>1. past.last \in files[n] /\ jobs \ {j} \subseteq jobs'
      BY <1>1, <2>1, <2>3 DEF Remove, FilesTypeOK
    <3> QED
      BY <1>2, <2>3, <3>1 DEF Pending
  <2> QED
    BY <2>2, <2>3
<1>5. CASE handleMessageDeleteFile(j)
  <2>1. /\ past.last \in files[n] /\ jobs' = jobs \ {j} /\ j.type = "Delete"
        /\ (n = Target(j.on) => past.last # j.file)
    BY <1>1, <1>5 DEF handleMessageDeleteFile, Handles, FilesTypeOK
  <2> QED
    BY <1>2, <2>1 DEF Pending
<1> QED
  BY <1>3, <1>4, <1>5 DEF FileHandler

\* ... and all other steps.
LEMMA ReachStep ==
    ASSUME TypeOK, TypeInv, OverInv, ReachInv, [FilesNext]_allVars
    PROVE  ReachInv'
<1> USE DEF TypeInv
<1>1. CASE past'.last = Nil
  BY <1>1 DEF ReachInv
<1>2. CASE UNCHANGED <<phase, peers, broken, crashes, files, jobs, past>>
  BY <1>2 DEF ReachInv, FullyConnected, Up, Connected, Pending
<1>3. CASE \E n \in Nodes, f \in Files : Client(n, f)
  BY <1>3, ReachClient
<1>4. CASE \E j \in jobs : FileHandler(j)
  BY <1>4, ReachHandler
<1>5. CASE \E n \in Nodes : CopyEnds(n)
  <2> past' = past /\ crashes # 0
    BY <1>5 DEF CopyEnds, OverInv
  <2> QED
    BY DEF ReachInv
<1>6. CASE RingStep \/ \E m \in msgs : HandleRingMessage(m)
  <2>1. UNCHANGED <<crashes, files, jobs, past>>
    BY <1>6 DEF RingStep, Create, Join, JoinLink, JoinNotify, OnPeer, LookupDial, Stabilize,
       CheckPredecessor, RemovePredecessor, HandleRingMessage, Handle, HandleGetPredecessor,
       HandleGetPredecessorResponse, HandleNotify, fileVars
  <2>2. FullyConnected => FullyConnected'
    BY <1>6, StaysConnected DEF HandleRingMessage
  <2> QED
    BY <2>1, <2>2 DEF ReachInv, Pending
<1>7. CASE \E n : Ends(n)
  BY <1>7, <1>1 DEF Ends, Pasts
<1>8. CASE (\E j \in jobs : LoseJob(j)) \/ \E r \in readers : TransferGoesOn(r)
  BY <1>8, <1>1 DEF LoseJob, TransferGoesOn, Pasts
<1> QED
  BY <1>2, <1>3, <1>4, <1>5, <1>6, <1>7, <1>8
     DEF FilesNext, allVars, vars, fileVars, connVars, CrashNode, TransferPanics, transferResponsibilities,
         LoseRingMessage

\* The invariant.
LEMMA ReachInvariant == FilesSpec => []ReachInv
<1>1. FilesInit => ReachInv
  BY DEF FilesInit, ReachInv
<1>2. TypeOK /\ TypeInv /\ OverInv /\ ReachInv /\ [FilesNext]_allVars => ReachInv'
  BY ReachStep
<1> QED
  BY <1>1, <1>2, RingTypeCorrect, TypeInvariant, OverInvariant, PTL DEF FilesSpec

\* A file that was deleted when the network was whole and at rest is nowhere once the
\* messages of the delete have arrived, of whichever node it was asked.
THEOREM DeleteAlwaysReachesAll == FilesSpec => []DeleteReachesAll
<1>1. ReachInv => DeleteReachesAll
  BY DEF ReachInv, DeleteReachesAll, Pending
<1> QED
  BY <1>1, ReachInvariant, PTL
================================================================================
