------------------------- MODULE PosixServerProofs -------------------------
(***************************************************************************)
(* The invariants of PosixServer that hold for every set of peers, every   *)
(* number of descriptors and addresses and every bound.                    *)
(***************************************************************************)
EXTENDS PosixServer, PosixConnectionsProofs

\* A registry nobody touches stays sound.
LEMMA RegistryUnchanged == RegistrySound /\ UNCHANGED registry => RegistrySound'
  BY DEF registry, RegistrySound, RegistryTypeOK, MappingSound,
         LiveConnectionOwnsFd

\* What performReceive returns and leaves are sequences of tokens.
LEMMA ReceivedType ==
  ASSUME ServerTypeOK, NEW p \in Peer
  PROVE  Received(p) \in Identifier /\ Unread(p) \in Seq(Token)
<1> DEFINE m == Min({RecvMax, Len(inbox[p])})
<1>1. inbox[p] \in Seq(Token) /\ Len(inbox[p]) \in Nat
  BY DEF ServerTypeOK, PeersTypeOK
<1>2. m \in Nat /\ m <= Len(inbox[p])
  <2> DEFINE S == {RecvMax, Len(inbox[p])}
  <2>1. \E x \in S : \A y \in S : x <= y
    BY <1>1, ServerAssumption
  <2>2. m \in S /\ \A y \in S : m <= y
    BY <2>1 DEF Min
  <2> QED BY <1>1, <2>2, ServerAssumption
<1>3. Received(p) \in Seq(Token)
  <2>1. \A i \in 1..m : inbox[p][i] \in Token
    BY <1>1, <1>2
  <2> HIDE DEF m
  <2>2. SubSeq(inbox[p], 1, m) \in Seq(Token)
    BY <1>2, <2>1, SubSeqProperties
  <2> QED BY <2>2 DEF Received, m
<1>4. Len(Received(p)) \in Nat
  BY <1>3
<1>5. Unread(p) \in Seq(Token)
  BY <1>1, <1>4, SubSeqProperties DEF Unread
<1> QED BY <1>3, <1>5 DEF Identifier

\* The upper bound select is given is a number.
LEMMA FdmaxType ==
  ASSUME mFdMax \in Int
  PROVE  Max({ListenFd, WakeFd, mFdMax}) \in Int
<1> DEFINE S == {ListenFd, WakeFd, mFdMax}
<1>1. \E x \in S : \A y \in S : x >= y
  BY ServerAssumption
<1>2. Max(S) \in S
  BY <1>1 DEF Max
<1> QED BY <1>2, ServerAssumption

-----------------------------------------------------------------------------

\* The invariant holds of what the constructors leave.
THEOREM InitIInv == Init => IInv
<1> SUFFICES ASSUME Init PROVE IInv
  OBVIOUS
<1>1. RegistrySound
  BY InitSound DEF Init
<1>2. loop \in LoopState /\ app \in AppState /\ event \in Events
  BY DEF Init, LoopState, AppState, Events, Identifier, All, NoEvent, NoFd,
         LoopPc, AppPc
<1>3. PeersTypeOK
  BY ServerAssumption DEF Init, PeersTypeOK, PeerPc
<1>4. mMasterWrite \subseteq Int
  BY ServerAssumption, RegistryAssumption DEF Init
<1>5. ServerTypeOK
  <2>1. /\ status \in {"up", "crashed"} /\ pipe \in 0..PipeCap
        /\ backlog \in Seq(Peer) /\ dest \in Seq(Identifier)
        /\ up \subseteq Identifier
    BY ServerAssumption DEF Init
  <2>2. listenOpen \in BOOLEAN /\ mHasBeenShutdown \in BOOLEAN
    BY DEF Init
  <2>3. copy = <<>> /\ torn \in BOOLEAN
    BY DEF Init
  <2> QED BY <2>1, <2>2, <2>3, <<>> \in Seq(Nat), <1>2, <1>3, <1>4 DEF ServerTypeOK
<1>6. Construction
  BY DEF Init, Construction, Sending
<1> QED BY <1>1, <1>5, <1>6 DEF IInv

\* What is left to show of a step of the loop.
LEMMA LoopFrame ==
  ASSUME IInv, RegistrySound', UNCHANGED LoopSpares, torn' \in BOOLEAN,
         loop' \in LoopState, up' \subseteq Identifier, event' \in Events,
         backlog' \in Seq(Peer), mMasterWrite' \subseteq Int,
         pipe' \in 0..PipeCap,
         inbox' \in [Peer -> Seq(Token)], got' \in [Peer -> Seq(Nat)],
         loop'.pc \in {"handshake", "register"} => loop'.conn \in live',
         loop'.pc = "handshake" => ~Mapped(loop.conn)'
  PROVE  IInv'
<1>1. PeersTypeOK'
  BY DEF IInv, ServerTypeOK, PeersTypeOK, LoopSpares
<1>2. ServerTypeOK'
  BY <1>1 DEF IInv, ServerTypeOK, LoopSpares
<1>3. Construction'
  BY DEF IInv, Construction, LoopSpares, Sending
<1> QED BY <1>2, <1>3 DEF IInv

\* What is left to show of a step of the application.
LEMMA AppFrame ==
  ASSUME IInv, RegistrySound', UNCHANGED AppSpares,
         copy' \in Seq(Nat), torn' \in BOOLEAN, app' \in AppState, dest' \in Seq(Identifier),
         listenOpen' \in BOOLEAN, mHasBeenShutdown' \in BOOLEAN,
         backlog' \in Seq(Peer), mMasterWrite' \subseteq Int,
         pipe' \in 0..PipeCap,
         app'.pc \in Sending => app'.conn \in Addr,
         app'.pc = "next" => app'.pos > 0
  PROVE  IInv'
<1>1. PeersTypeOK'
  BY DEF IInv, ServerTypeOK, PeersTypeOK, AppSpares, remote
<1>2. ServerTypeOK'
  BY <1>1 DEF IInv, ServerTypeOK, AppSpares, told
<1>3. Construction'
  BY DEF IInv, Construction, AppSpares, objects, Mapped
<1> QED BY <1>2, <1>3 DEF IInv

\* Steps of the loop that touch neither the registry nor a queue.
LEMMA LoopOnlySteps ==
  ASSUME IInv, LoopOnly, loop' \in LoopState,
         loop'.pc \notin {"handshake", "register"}
  PROVE  IInv'
<1>1. RegistrySound'
  BY RegistryUnchanged DEF IInv, LoopOnly
<1>2. event' \in Events /\ up' \subseteq Identifier
  BY DEF LoopOnly, Quiet, NoEvent, Events, Identifier, IInv, ServerTypeOK
<1> QED BY <1>1, <1>2, LoopFrame
        DEF IInv, ServerTypeOK, PeersTypeOK, LoopOnly, LoopKeeps

\* The loop's next state is a state of the loop.
LEMMA LoopStates ==
  ASSUME IInv
  PROVE  /\ LoopTop => loop' \in LoopState
         /\ SelectEnter => loop' \in LoopState
         /\ SelectReturn => loop' \in LoopState
         /\ ScanDone => loop' \in LoopState
         /\ ClearLoad => loop' \in LoopState
         /\ \A i \in Int : ReadDone(i) \in LoopState
<1>1. /\ loop \in LoopState
      /\ mFdMax \in Int /\ mRead \subseteq Int /\ mMasterWrite \subseteq Int
  BY DEF IInv, RegistrySound, RegistryTypeOK, ServerTypeOK
<1>2. LoopTop => loop' \in LoopState
  BY <1>1, FdmaxType DEF LoopTop, LoopState, LoopPc
<1>3. SelectEnter => loop' \in LoopState
  BY <1>1 DEF SelectEnter, LoopState, LoopPc
<1>4. SelectReturn => loop' \in LoopState
  <2> SUFFICES ASSUME SelectReturn PROVE loop' \in LoopState
    OBVIOUS
  <2>1. PICK r \in SUBSET loop.readFds, w \in SUBSET loop.writeFds :
          loop' = IF mHasBeenShutdown
                    THEN [loop EXCEPT !.pc = "returned", !.readFds = {},
                                      !.writeFds = {}]
                    ELSE [loop EXCEPT !.pc = "scan", !.readFds = r,
                                      !.writeFds = w]
    BY DEF SelectReturn
  <2>2. r \subseteq Int /\ w \subseteq Int
    BY <1>1 DEF LoopState
  <2> QED BY <1>1, <2>1, <2>2 DEF LoopState, LoopPc
<1>5. ScanDone => loop' \in LoopState
  BY <1>1 DEF ScanDone, LoopState, LoopPc
<1>6. ClearLoad => loop' \in LoopState
  BY <1>1 DEF ClearLoad, LoopState, LoopPc
<1>7. \A i \in Int : ReadDone(i) \in LoopState
  BY <1>1 DEF ReadDone, LoopState, LoopPc
<1> QED BY <1>2, <1>3, <1>4, <1>5, <1>6, <1>7

\* The types a step of the loop starts from.
LEMMA LoopTypes ==
  ASSUME IInv
  PROVE  /\ RegistrySound /\ RegistryTypeOK
         /\ loop \in LoopState /\ up \subseteq Identifier /\ event \in Events
         /\ backlog \in Seq(Peer) /\ mMasterWrite \subseteq Int
         /\ pipe \in 0..PipeCap /\ torn \in BOOLEAN
         /\ inbox \in [Peer -> Seq(Token)] /\ got \in [Peer -> Seq(Nat)]
  BY DEF IInv, RegistrySound, ServerTypeOK, PeersTypeOK

\* The callbacks are events of connections.
LEMMA TellTypes ==
  ASSUME IInv, NEW id \in Identifier,
         \/ Quiet \/ TellConnected(id) \/ TellDisconnected(id)
         \/ Tell("receive", id) \/ Tell("sent", id)
  PROVE  up' \subseteq Identifier /\ event' \in Events
<1>1. up \subseteq Identifier /\ <<>> \in Identifier
  BY LoopTypes DEF Identifier
<1>2. CASE Quiet
  BY <1>1, <1>2 DEF Quiet, NoEvent, Events
<1>3. CASE TellConnected(id)
  BY <1>1, <1>3 DEF TellConnected, Event, Events
<1>4. CASE TellDisconnected(id)
  BY <1>1, <1>4 DEF TellDisconnected, Event, Events
<1>5. CASE Tell("receive", id) \/ Tell("sent", id)
  BY <1>1, <1>5 DEF Tell, Event, Events
<1> QED BY <1>2, <1>3, <1>4, <1>5

-----------------------------------------------------------------------------

LEMMA LoopStartStep == IInv /\ LoopStart => IInv'
<1> SUFFICES ASSUME IInv, LoopStart PROVE IInv'
  OBVIOUS
<1> USE LoopTypes
<1>1. loop' \in LoopState /\ loop'.pc = "top"
  BY DEF LoopStart, LoopState, LoopPc
<1>2. RegistrySound'
  BY ServerAssumption
  DEF LoopStart, BaseRead, RegistrySound, RegistryTypeOK, MappingSound,
      LiveConnectionOwnsFd
<1>3. up' \subseteq Identifier /\ event' \in Events
  BY TellTypes, <<>> \in Identifier DEF LoopStart, Identifier
<1> QED BY <1>1, <1>2, <1>3, LoopFrame DEF LoopKeeps, LoopStart, server

LEMMA DrainWakeupStep == IInv /\ DrainWakeup => IInv'
<1> SUFFICES ASSUME IInv, DrainWakeup PROVE IInv'
  OBVIOUS
<1> USE LoopTypes
<1>1. loop' \in LoopState /\ loop'.pc = "scan"
  BY LoopStates, ServerAssumption DEF DrainWakeup, ReadDone, LoopState
<1>2. RegistrySound'
  BY RegistryUnchanged DEF DrainWakeup
<1>3. up' \subseteq Identifier /\ event' \in Events
  BY TellTypes, <<>> \in Identifier DEF DrainWakeup, Identifier
<1> QED BY <1>1, <1>2, <1>3, LoopFrame DEF LoopKeeps, DrainWakeup, RecvOnPipe

LEMMA AcceptStep == IInv /\ Accept => IInv'
<1> SUFFICES ASSUME IInv, Accept PROVE IInv'
  OBVIOUS
<1> USE LoopTypes
<1>1. PICK a \in Addr : /\ AcceptInto(a, Head(backlog))
                        /\ loop' = [loop EXCEPT !.pc = "handshake", !.conn = a]
  BY DEF Accept
<1>2. Head(backlog) \in Peer /\ backlog' \in Seq(Peer)
  BY DEF Accept
<1>3. RegistrySound' /\ a \in live' /\ ~Mapped(a)'
  BY <1>1, <1>2, AcceptSound
<1>4. loop' \in LoopState /\ loop'.conn = a
  BY <1>1 DEF LoopState, LoopPc
<1>5. got' \in [Peer -> Seq(Nat)]
  BY <1>2 DEF Accept, Greet, Ack
<1>6. up' \subseteq Identifier /\ event' \in Events
  BY TellTypes, <<>> \in Identifier DEF Accept, Identifier
<1>7. ~Mapped(loop.conn)'
  BY <1>3, <1>4
<1> QED BY <1>2, <1>3, <1>4, <1>5, <1>6, <1>7, LoopFrame DEF LoopKeeps, Accept

\* The descriptor under construction leads to a peer.
LEMMA JoiningType ==
  ASSUME IInv, loop.pc \in {"handshake", "register"}
  PROVE  Joining \in Peer /\ loop.conn \in Addr
  BY LoopTypes
  DEF IInv, Construction, Joining, RegistrySound, RegistryTypeOK,
      LiveConnectionOwnsFd

LEMMA IdentifiedStep == IInv /\ Identified => IInv'
<1> SUFFICES ASSUME IInv, Identified PROVE IInv'
  OBVIOUS
<1> USE LoopTypes
<1>1. Joining \in Peer /\ loop.conn \in Addr /\ loop.pc = "handshake"
  BY JoiningType DEF Identified, LoopAt
<1>2. Received(Joining) \in Identifier /\ Unread(Joining) \in Seq(Token)
  BY <1>1, ReceivedType DEF IInv
<1>3. loop' \in LoopState /\ loop'.pc = "register" /\ loop'.conn = loop.conn
  BY DEF Identified, LoopState, LoopPc
<1>4. loop.conn \in live /\ ~Mapped(loop.conn)
  BY <1>1 DEF IInv, Construction
<1>5. RegistrySound'
  BY <1>1, <1>2, <1>4, IdentifySound DEF Identified, objects
<1>6. up' \subseteq Identifier /\ event' \in Events
  BY <1>2, TellTypes DEF Identified
<1>7. inbox' \in [Peer -> Seq(Token)]
  BY <1>1, <1>2 DEF Identified
<1>8. loop'.conn \in live'
  BY <1>3, <1>4 DEF Identified, objects
<1> QED BY <1>3, <1>5, <1>6, <1>7, <1>8, LoopFrame DEF LoopKeeps, Identified

LEMMA HandshakeFailsStep == IInv /\ HandshakeFails => IInv'
<1> SUFFICES ASSUME IInv, HandshakeFails PROVE IInv'
  OBVIOUS
<1> USE LoopTypes
<1>1. loop.conn \in Addr /\ ~Mapped(loop.conn)
  BY JoiningType DEF HandshakeFails, LoopAt, IInv, Construction
<1>2. RegistrySound'
  BY <1>1, ThrowSound DEF HandshakeFails
<1>3. loop' \in LoopState /\ loop'.pc = "scan"
  BY LoopStates, ServerAssumption DEF HandshakeFails, ReadDone, LoopState
<1>4. up' \subseteq Identifier /\ event' \in Events
  BY TellTypes, <<>> \in Identifier DEF HandshakeFails, Identifier
<1> QED BY <1>2, <1>3, <1>4, LoopFrame DEF LoopKeeps, HandshakeFails

LEMMA RegisterStep == IInv /\ Register => IInv'
<1> SUFFICES ASSUME IInv, Register PROVE IInv'
  OBVIOUS
<1> USE LoopTypes
<1>1. loop.conn \in live
  BY DEF Register, LoopAt, IInv, Construction
<1>2. RegistrySound'
  BY <1>1, AddSound DEF Register
<1>3. loop' \in LoopState /\ loop'.pc = "scan"
  BY LoopStates, ServerAssumption DEF Register, ReadDone, LoopState
<1>4. up' \subseteq Identifier /\ event' \in Events
  BY TellTypes, <<>> \in Identifier DEF Register, Identifier
<1> QED BY <1>2, <1>3, <1>4, LoopFrame DEF LoopKeeps, Register

LEMMA ReceiveStep == IInv /\ (\E i \in ConnFd : Receive(i)) => IInv'
<1> SUFFICES ASSUME IInv, NEW i \in ConnFd, Receive(i) PROVE IInv'
  OBVIOUS
<1> USE LoopTypes
<1>1. Lookup(i) \in Addr /\ heap[Lookup(i)].mIdentifier \in Identifier
  BY FoundShowsSocket, RegistryAssumption
  DEF Receive, RegistryTypeOK, ServerConnection
<1>2. up' \subseteq Identifier /\ event' \in Events
  BY <1>1, TellTypes DEF Receive
<1>3. inbox' \in [Peer -> Seq(Token)]
  <2>1. \A p \in Peer : Unread(p) \in Seq(Token)
    BY ReceivedType DEF IInv
  <2> QED BY <2>1 DEF Receive
<1>4. RegistrySound'
  BY RegistryUnchanged DEF Receive
<1>5. loop' \in LoopState /\ loop'.pc = "scan"
  BY LoopStates, RegistryAssumption DEF Receive, ReadDone, LoopState
<1> QED BY <1>2, <1>3, <1>4, <1>5, LoopFrame DEF LoopKeeps, Receive

LEMMA ReceiveFailsStep == IInv /\ (\E i \in ConnFd : ReceiveFails(i)) => IInv'
<1> SUFFICES ASSUME IInv, NEW i \in ConnFd, ReceiveFails(i) PROVE IInv'
  OBVIOUS
<1> USE LoopTypes
<1>1. Lookup(i) \in Addr /\ heap[Lookup(i)].mIdentifier \in Identifier
  BY FoundShowsSocket, RegistryAssumption
  DEF ReceiveFails, RegistryTypeOK, ServerConnection
<1>2. up' \subseteq Identifier /\ event' \in Events
  BY <1>1, TellTypes DEF ReceiveFails
<1>3. RegistrySound'
  BY RegistryUnchanged DEF ReceiveFails
<1>4. loop' \in LoopState /\ loop'.pc = "remove"
  BY <1>1 DEF ReceiveFails, RemovalNext, LoopState, LoopPc
<1> QED BY <1>2, <1>3, <1>4, LoopFrame DEF LoopKeeps, ReceiveFails

LEMMA RemoveStep == IInv /\ (\E i \in ConnFd : Remove(i)) => IInv'
<1> SUFFICES ASSUME IInv, NEW i \in ConnFd, Remove(i) PROVE IInv'
  OBVIOUS
<1> USE LoopTypes
<1>1. RegistrySound'
  <2>1. CASE Found(i)
    BY <2>1, RemoveSound, RegistryAssumption DEF Remove
  <2>2. CASE ~Found(i)
    BY <2>2, RegistryAssumption
    DEF Remove, RemoveServerConnection, RegistrySound, RegistryTypeOK,
        MappingSound, LiveConnectionOwnsFd
  <2> QED BY <2>1, <2>2
<1>2. loop' \in LoopState /\ loop'.pc = "scan"
  BY LoopStates, RegistryAssumption DEF Remove, ReadDone, LoopState
<1>3. up' \subseteq Identifier /\ event' \in Events
  BY TellTypes, <<>> \in Identifier DEF Remove, Identifier
<1> QED BY <1>1, <1>2, <1>3, LoopFrame DEF LoopKeeps, Remove

LEMMA FlushStep == IInv /\ (\E i \in ConnFd : Flush(i)) => IInv'
<1> SUFFICES ASSUME IInv, NEW i \in ConnFd, Flush(i) PROVE IInv'
  OBVIOUS
<1> USE LoopTypes
<1> DEFINE a == Lookup(i)
           bytes == heap[a].mOutgoingBytes
<1>1. a \in Addr /\ bytes \in Seq(Nat) /\ heap[a].mIdentifier \in Identifier
  BY DEF Flush, RegistryTypeOK, ServerConnection
<1>2. RegistrySound'
  BY <1>1, QueueSound, <<>> \in Seq(Nat) DEF Flush, QueueSwapped, objects
<1>3. PICK n \in Accepted(fdTable[i], Len(bytes)) :
        /\ \/ got' = got
           \/ got' = [got EXCEPT ![fdTable[i]] = @ \o SubSeq(bytes, 1, n)]
        /\ \/ Tell("sent", heap[a].mIdentifier)
           \/ Quiet
  BY DEF Flush
<1>4. up' \subseteq Identifier /\ event' \in Events
  BY <1>1, <1>3, TellTypes
<1>5. SubSeq(bytes, 1, n) \in Seq(Nat)
  <2>1. n \in 0..Len(bytes)
    BY <1>1, <1>3 DEF Accepted
  <2>2. \A k \in 1..n : bytes[k] \in Nat
    <3>1. \A s \in Seq(Nat) : \A k \in 1..Len(s) : s[k] \in Nat
      OBVIOUS
    <3>2. Len(bytes) \in Nat
      BY <1>1
    <3> HIDE DEF bytes
    <3> HIDE LoopTypes
    <3> QED BY <1>1, <2>1, <3>1, <3>2
  <2> HIDE DEF bytes
  <2> QED BY <2>1, <2>2, <1>1, SubSeqProperties
<1>6. got' \in [Peer -> Seq(Nat)]
  <2>1. CASE got' = got
    BY <2>1
  <2>2. CASE got' = [got EXCEPT ![fdTable[i]] = @ \o SubSeq(bytes, 1, n)]
    <3>1. \A p \in Peer : got[p] \o SubSeq(bytes, 1, n) \in Seq(Nat)
      BY <1>5, ConcatProperties
    <3> HIDE DEF bytes
    <3> QED BY <2>2, <3>1
  <2> QED BY <1>3, <2>1, <2>2
<1>7. loop' \in LoopState /\ loop'.pc = "load"
  BY DEF Flush, LoopState, LoopPc
<1> QED BY <1>2, <1>4, <1>6, <1>7, LoopFrame DEF LoopKeeps, Flush

LEMMA ClearStoreStep == IInv /\ ClearStore => IInv'
<1> SUFFICES ASSUME IInv, ClearStore PROVE IInv'
  OBVIOUS
<1> USE LoopTypes
<1>1. loop' \in LoopState /\ loop'.pc = "scan" /\ mMasterWrite' \subseteq Int
  BY DEF ClearStore, LoopState, LoopPc
<1>2. RegistrySound'
  BY RegistryUnchanged DEF ClearStore
<1>3. up' \subseteq Identifier /\ event' \in Events
  BY TellTypes, <<>> \in Identifier DEF ClearStore, Identifier
<1> QED BY <1>1, <1>2, <1>3, LoopFrame DEF LoopKeeps, ClearStore

\* No step of waitForEvents breaks the invariant.
LEMMA LoopPreserves == IInv /\ LoopStep => IInv'
<1> SUFFICES ASSUME IInv, LoopStep PROVE IInv'
  OBVIOUS
<1>1. CASE LoopTop \/ SelectEnter \/ SelectReturn \/ ScanDone \/ ClearLoad
  <2>1. loop' \in LoopState
    BY <1>1, LoopStates
  <2>2. loop'.pc \notin {"handshake", "register"}
    BY <1>1, LoopTypes
    DEF LoopTop, SelectEnter, SelectReturn, ScanDone, ClearLoad, LoopState
  <2> QED BY <1>1, <2>1, <2>2, LoopOnlySteps
          DEF LoopTop, SelectEnter, SelectReturn, ScanDone, ClearLoad
<1>2. CASE AcceptFails \/ \E i \in ConnFd : ReadNobody(i)
  <2>1. PICK i \in Int : loop' = ReadDone(i) /\ LoopOnly
    BY <1>2, ServerAssumption, RegistryAssumption DEF AcceptFails, ReadNobody
  <2>2. ReadDone(i) \in LoopState /\ ReadDone(i).pc = "scan"
    BY LoopStates, LoopTypes DEF ReadDone, LoopState
  <2> QED BY <2>1, <2>2, LoopOnlySteps
<1>3. CASE \E i \in ConnFd : FlushNobody(i)
  <2>1. loop' \in LoopState /\ loop'.pc = "load" /\ LoopOnly
    BY <1>3, LoopTypes DEF FlushNobody, LoopState, LoopPc
  <2> QED BY <2>1, LoopOnlySteps
<1> QED BY <1>1, <1>2, <1>3, LoopStartStep, DrainWakeupStep, AcceptStep,
           IdentifiedStep, HandshakeFailsStep, RegisterStep, ReceiveStep,
           ReceiveFailsStep, RemoveStep, FlushStep, ClearStoreStep
        DEF LoopStep

-----------------------------------------------------------------------------

\* The types a step of the application starts from.
LEMMA AppTypes ==
  ASSUME IInv
  PROVE  /\ RegistrySound /\ RegistryTypeOK
         /\ app \in AppState /\ dest \in Seq(Identifier)
         /\ copy \in Seq(Nat) /\ torn \in BOOLEAN
         /\ app.pc \in Sending => app.conn \in Addr
         /\ app.pc = "next" => app.pos > 0
         /\ listenOpen \in BOOLEAN /\ mHasBeenShutdown \in BOOLEAN
         /\ backlog \in Seq(Peer) /\ mMasterWrite \subseteq Int
         /\ pipe \in 0..PipeCap
  BY DEF IInv, RegistrySound, ServerTypeOK, Construction

\* A call that ends or moves to the next connection is in a state of its own.
LEMMA AppStates ==
  ASSUME IInv
  PROVE  /\ Idle \in AppState /\ Idle.pc = "idle"
         /\ AfterInsert \in AppState /\ AfterInsert.pc \in {"next", "wake"}
         /\ AfterInsert.pc = "next" => AfterInsert.pos > 0
<1>1. app \in AppState /\ app.pos \in Nat /\ All \in Identifier
  BY AppTypes DEF AppState, All, Identifier
<1>2. Idle \in AppState /\ Idle.pc = "idle"
  <2>1. \A id \in Identifier, f \in Int :
          LET s == [app EXCEPT !.pc = "idle", !.to = id, !.pos = 0,
                               !.conn = NoAddr, !.fd = f]
          IN  s \in AppState /\ s.pc = "idle"
    BY <1>1 DEF AppState, AppPc
  <2>2. NoFd \in Int
    BY DEF NoFd
  <2> QED BY <1>1, <2>1, <2>2 DEF Idle
<1>3. ToNext \in AppState /\ ToNext.pc = "next" /\ ToNext.pos > 0
  <2>1. \A n \in Nat :
          LET s == [app EXCEPT !.pc = "next", !.pos = n, !.conn = NoAddr]
          IN  s \in AppState /\ s.pc = "next" /\ s.pos = n
    BY <1>1 DEF AppState, AppPc
  <2>2. app.pos + 1 \in Nat /\ app.pos + 1 > 0
    BY <1>1
  <2>3. ToNext = [app EXCEPT !.pc = "next", !.pos = app.pos + 1,
                             !.conn = NoAddr]
    BY DEF ToNext
  <2> QED BY <2>1, <2>2, <2>3
<1>4. [app EXCEPT !.pc = "wake", !.conn = NoAddr] \in AppState
  BY <1>1 DEF AppState, AppPc
<1>5. [app EXCEPT !.pc = "wake", !.conn = NoAddr].pc = "wake"
  BY <1>1 DEF AppState
<1> QED BY <1>2, <1>3, <1>4, <1>5 DEF AfterInsert

\* Steps of a call that only move the call on.
LEMMA AppOnlySteps ==
  ASSUME IInv, AppOnly, app' \in AppState,
         app'.pc \in Sending => app'.conn \in Addr,
         app'.pc = "next" => app'.pos > 0
  PROVE  IInv'
<1>1. RegistrySound'
  BY AppTypes, RegistryUnchanged
  DEF AppOnly, AppKeeps, AppSpares, objects, registry
<1> QED BY <1>1, AppTypes, AppFrame DEF AppKeeps, Sending, AppOnly, closing

LEMMA AppCallPreserves ==
  IInv /\ (Broadcast \/ Shutdown \/ \E p \in Peer : Send(p)) => IInv'
<1> SUFFICES ASSUME IInv, Broadcast \/ Shutdown \/ \E p \in Peer : Send(p)
             PROVE  IInv'
  OBVIOUS
<1> USE AppTypes
<1>1. RegistrySound'
  BY RegistryUnchanged
  DEF Broadcast, Shutdown, Send, AppKeeps, AppSpares, objects, registry
<1>2. \A p \in Peer : <<Name[p]>> \in Identifier
  BY ServerAssumption DEF Identifier
<1>3. All \in Identifier
  BY DEF All, Identifier
<1>4. CASE Broadcast
  <2>1. app' \in AppState /\ app'.pc = "next" /\ app'.pos > 0
    <3>1. \A n \in Nat : LET s == [app EXCEPT !.pc = "next", !.pos = n]
                         IN  s \in AppState /\ s.pc = "next" /\ s.pos = n
      BY DEF AppState, AppPc
    <3>2. app' = [app EXCEPT !.pc = "next", !.pos = 1]
      BY <1>4 DEF Broadcast
    <3>3. 1 \in Nat /\ 1 > 0
      OBVIOUS
    <3> HIDE AppTypes
    <3> QED BY <3>1, <3>2, <3>3
  <2>2. dest' \in Seq(Identifier)
    BY <1>3, <1>4 DEF Broadcast
  <2> QED BY <1>1, <1>4, <2>1, <2>2, AppFrame DEF AppKeeps, Sending, Broadcast, closing
<1>5. CASE Shutdown
  <2>1. app' \in AppState /\ app'.pc = "close"
    BY <1>5 DEF Shutdown, AppState, AppPc
  <2>2. mHasBeenShutdown' \in BOOLEAN
    BY <1>5 DEF Shutdown
  <2> QED BY <1>1, <1>5, <2>1, <2>2, AppFrame DEF AppKeeps, Sending, Shutdown
<1>6. ASSUME NEW p \in Peer, Send(p) PROVE IInv'
  <2>1. app' \in AppState /\ app'.pc = "find"
    BY <1>2, <1>6 DEF Send, AppState, AppPc
  <2>2. dest' \in Seq(Identifier)
    <3>1. dest' = Append(dest, <<Name[p]>>) /\ <<Name[p]>> \in Identifier
      BY <1>2, <1>6 DEF Send
    <3> QED BY <3>1, AppendProperties
  <2> QED BY <1>1, <1>6, <2>1, <2>2, AppFrame DEF AppKeeps, Sending, Send, closing
<1> QED BY <1>4, <1>5, <1>6

\* A shift leaves a queue of messages.
LEMMA ShiftedType == ASSUME NEW q \in Seq(Nat) PROVE Shifted(q) \in Seq(Nat)
<1>1. CASE q = <<>>
  BY <1>1 DEF Shifted
<1>2. CASE q # <<>>
  <2>1. q[1] \in Nat
    BY <1>2
  <2>2. <<q[1]>> \in Seq(Nat)
    BY <2>1
  <2> QED BY <1>2, <2>2, ConcatProperties DEF Shifted
<1> QED BY <1>1, <1>2

LEMMA AppStepPreserves == IInv /\ AppStep => IInv'
<1> SUFFICES ASSUME IInv, AppStep PROVE IInv'
  OBVIOUS
<1> USE AppTypes
<1>1. CASE Find
  <2>1. /\ app' \in AppState
        /\ app'.pc = "load" => app'.conn \in Addr
        /\ app'.pc \in {"load", "idle"}
    BY <1>1, AppStates DEF Find, Resolve, AppState, AppPc, RegistryTypeOK
  <2> QED BY <1>1, <2>1, AppOnlySteps DEF Sending, Find
<1>2. CASE NextConnection
  <2>1. app.pos <= Len(mContainer) => mContainer[app.pos] \in Addr
    BY <1>2 DEF NextConnection, AppAt, AppState, RegistryTypeOK
  <2>2. /\ app' \in AppState
        /\ app'.pc = "load" => app'.conn \in Addr
        /\ app'.pc \in {"load", "wake"}
    BY <1>2, <2>1 DEF NextConnection, AppState, AppPc
  <2> QED BY <1>2, <2>2, AppOnlySteps DEF Sending, NextConnection
<1>3. CASE SetLoad
  <2>1. app' \in AppState /\ app'.conn \in Addr /\ app'.pc = "store"
    BY <1>3 DEF SetLoad, AppAt, Sending, AppState, AppPc, RegistryTypeOK,
                ServerConnection
  <2> QED BY <1>3, <2>1, AppOnlySteps DEF Sending, SetLoad
<1>4. CASE SetStore
  <2>1. app' \in AppState /\ app'.conn \in Addr /\ app'.pc = "reserve"
    <3>1. app.conn \in Addr
      BY <1>4 DEF SetStore, AppAt, Sending
    <3>2. \A f \in Int :
            LET s == [app EXCEPT !.pc = "reserve", !.word = {}, !.fd = f]
            IN  s \in AppState /\ s.conn = app.conn /\ s.pc = "reserve"
      BY DEF AppState, AppPc
    <3>3. NoFd \in Int
      BY DEF NoFd
    <3> QED BY <1>4, <3>1, <3>2, <3>3 DEF SetStore
  <2>3. mMasterWrite' \subseteq Int
    BY <1>4 DEF SetStore, AppState
  <2>2. RegistrySound'
    BY <1>4, RegistryUnchanged DEF SetStore, AppKeeps, AppSpares, objects, registry
  <2> QED BY <1>4, <2>1, <2>2, <2>3, AppFrame DEF AppKeeps, Sending, SetStore, closing
<1>5. CASE Insert
  <2>1. app.conn \in Addr
    BY <1>5 DEF Insert, AppAt, Sending
  <2>2. heap[app.conn].mOutgoingBytes \in Seq(Nat) /\ Len(dest) \in Nat
    BY <2>1 DEF RegistryTypeOK, ServerConnection
  <2>3. <<Len(dest)>> \o heap[app.conn].mOutgoingBytes \in Seq(Nat)
    BY <2>2, ConcatProperties, <<Len(dest)>> \in Seq(Nat)
  <2>4. RegistrySound'
    BY <1>5, <2>1, <2>3, QueueSound
    DEF Insert, AddQueuedMessage, AppKeeps, AppSpares, objects, Sending
  <2> QED BY <1>5, <2>4, AppStates, AppFrame DEF AppKeeps, Sending, Insert, closing
<1>6. CASE InsertLost
  <2> DEFINE queue == heap[app.conn].mOutgoingBytes
  <2>1. app.conn \in Addr
    BY <1>6 DEF InsertLost, AppAt, Sending
  <2>2. queue \in Seq(Nat)
    BY <2>1 DEF RegistryTypeOK, ServerConnection
  <2>3. Shifted(queue) \in Seq(Nat)
    BY <2>2, ShiftedType
  <2>4. PICK left \in Seq(Nat) :
          heap' = [heap EXCEPT ![app.conn].mOutgoingBytes = left]
    BY <1>6, <2>2, <2>3 DEF InsertLost
  <2>5. RegistrySound'
    BY <1>6, <2>1, <2>4, QueueSound DEF InsertLost, AppSpares, objects
  <2>6. torn' \in BOOLEAN
    BY <1>6 DEF InsertLost
  <2> QED BY <1>6, <2>5, <2>6, AppStates, AppFrame DEF InsertLost, closing, Sending
<1>9. CASE Reserve
  <2>1. app.conn \in Addr /\ copy' \in Seq(Nat)
    BY <1>9 DEF Reserve, AppAt, Sending, RegistryTypeOK, ServerConnection
  <2>2. app' \in AppState /\ app'.pc = "install" /\ app'.conn = app.conn
    BY <1>9 DEF Reserve, AppState, AppPc
  <2>3. RegistrySound'
    BY <1>9, RegistryUnchanged DEF Reserve, AppSpares, objects, registry
  <2> QED BY <1>9, <2>1, <2>2, <2>3, AppFrame DEF Reserve, closing
<1>10. CASE Install
  <2>1. app.conn \in Addr /\ copy' \in Seq(Nat)
    BY <1>10 DEF Install, AppAt, Sending
  <2>2. app' \in AppState /\ app'.pc = "insert" /\ app'.conn = app.conn
    BY <1>10 DEF Install, AppState, AppPc
  <2>3. RegistrySound'
    BY <1>10, <2>1, QueueSound DEF Install, AppSpares, objects
  <2> QED BY <1>10, <2>1, <2>2, <2>3, AppFrame DEF Install, closing
<1>7. CASE CloseListen
  <2>1. app' \in AppState /\ app'.pc = "wake"
    BY <1>7 DEF CloseListen, AppState, AppPc
  <2>3. listenOpen' \in BOOLEAN
    BY <1>7 DEF CloseListen
  <2>4. backlog' \in Seq(Peer)
    BY <1>7 DEF CloseListen
  <2>2. RegistrySound'
    BY <1>7, RegistryUnchanged DEF CloseListen, AppKeeps, AppSpares, objects, registry
  <2> QED BY <1>7, <2>1, <2>2, <2>3, <2>4, AppFrame DEF AppKeeps, Sending, CloseListen
<1>8. CASE Wakeup
  <2>1. pipe' \in 0..PipeCap
    BY <1>8, ServerAssumption DEF Wakeup
  <2>2. RegistrySound'
    BY <1>8, RegistryUnchanged DEF Wakeup, AppKeeps, AppSpares, objects, registry
  <2> QED BY <1>8, <2>1, <2>2, AppStates, AppFrame DEF AppKeeps, Sending, Wakeup, closing
<1> QED BY <1>1, <1>2, <1>3, <1>4, <1>5, <1>6, <1>7, <1>8, <1>9, <1>10 DEF AppStep

\* ~Server runs when the loop has ended, and only destroys what is live.
LEMMA DestroyPreserves == IInv /\ Destroy => IInv'
<1> SUFFICES ASSUME IInv, Destroy PROVE IInv'
  OBVIOUS
<1>1. RegistrySound'
  BY AppTypes, ClearSound DEF Destroy
<1>2. app' \in AppState /\ app'.pc = "gone"
  BY AppTypes DEF Destroy, AppState, AppPc
<1>3. PeersTypeOK'
  BY DEF IInv, ServerTypeOK, PeersTypeOK, Destroy, remote
<1>4. ServerTypeOK'
  BY <1>2, <1>3 DEF IInv, ServerTypeOK, Destroy, server, closing, told
<1>5. Construction'
  BY <1>2 DEF Construction, Destroy, Sending
<1> QED BY <1>1, <1>4, <1>5 DEF IInv

\* The peers and the end of the process leave the server's memory alone.
LEMMA OutsidePreserves ==
  IInv /\ (PeerStep \/ Crash \/ UNCHANGED vars) => IInv'
<1> SUFFICES ASSUME IInv, PeerStep \/ Crash \/ UNCHANGED vars PROVE IInv'
  OBVIOUS
<1> USE DEF PeerStep, Connect, Identify, Talk, Close, Crash, vars
<1>1. UNCHANGED <<registry, mMasterWrite, pipe, loop, calls, told,
                  listenOpen, mHasBeenShutdown>>
  BY DEF server, closing
<1>2. RegistrySound'
  BY <1>1, RegistryUnchanged DEF IInv
<1>3. Construction'
  BY <1>1 DEF IInv, Construction, registry, calls, Mapped
<1>4. PeersTypeOK'
  <2>1. PeersTypeOK /\ \A p \in Peer : Name[p] \in Token /\ Data \in Token
    BY ServerAssumption DEF IInv, ServerTypeOK
  <2>2. peer' \in [Peer -> PeerPc]
    BY <2>1 DEF PeersTypeOK, PeerPc, remote
  <2>3. said' \in [Peer -> 0..MaxData]
    <3>1. CASE UNCHANGED said
      BY <2>1, <3>1 DEF PeersTypeOK
    <3>2. ASSUME NEW p \in Peer, Talk(p) PROVE said' \in [Peer -> 0..MaxData]
      <4>1. said \in [Peer -> 0..MaxData] /\ said[p] < MaxData
        BY <2>1, <3>2 DEF PeersTypeOK
      <4>2. said[p] + 1 \in 0..MaxData
        BY <4>1, ServerAssumption
      <4>3. said' = [said EXCEPT ![p] = said[p] + 1]
        BY <3>2
      <4> QED BY <4>1, <4>2, <4>3
    <3> QED BY <3>1, <3>2 DEF remote
  <2>4. inbox' \in [Peer -> Seq(Token)]
    <3>1. CASE UNCHANGED inbox
      BY <2>1, <3>1 DEF PeersTypeOK
    <3>2. ASSUME NEW p \in Peer, Talk(p) \/ Identify(p)
          PROVE  inbox' \in [Peer -> Seq(Token)]
      <4>1. PICK t \in Token : inbox' = [inbox EXCEPT ![p] = Append(@, t)]
        BY <2>1, <3>2
      <4>2. inbox \in [Peer -> Seq(Token)]
        BY <2>1 DEF PeersTypeOK
      <4>3. Append(inbox[p], t) \in Seq(Token)
        BY <4>2, AppendProperties
      <4> QED BY <4>1, <4>2, <4>3
    <3> QED BY <3>1, <3>2 DEF remote
  <2>5. got' \in [Peer -> Seq(Nat)]
    BY <2>1 DEF PeersTypeOK, remote
  <2> QED BY <2>2, <2>3, <2>4, <2>5 DEF PeersTypeOK
<1>5. backlog' \in Seq(Peer) /\ status' \in {"up", "crashed"}
  <2>1. backlog \in Seq(Peer) /\ status \in {"up", "crashed"}
    BY DEF IInv, ServerTypeOK
  <2>2. status' \in {"up", "crashed"}
    BY <2>1 DEF server
  <2>3. UNCHANGED backlog \/ \E p \in Peer : backlog' = Append(backlog, p)
    BY DEF server
  <2> QED BY <2>1, <2>2, <2>3, AppendProperties
<1>6. ServerTypeOK'
  BY <1>1, <1>4, <1>5 DEF IInv, ServerTypeOK, calls, told
<1> QED BY <1>2, <1>3, <1>6 DEF IInv

-----------------------------------------------------------------------------
(* The theorems *)

\* The invariant is inductive: it holds of every reachable state.
THEOREM Inductive == Spec => []IInv
<1>1. IInv /\ [Next]_vars => IInv'
  BY LoopPreserves, AppCallPreserves, AppStepPreserves, DestroyPreserves,
     OutsidePreserves
  DEF Next, AppCall, Over
<1> QED BY InitIInv, <1>1, PTL DEF Spec

\* Every variable keeps its type, through every interleaving of the threads.
THEOREM TypeCorrect == Spec => []TypeOK
<1>1. IInv => TypeOK
  BY DEF IInv, RegistrySound, TypeOK
<1> QED BY Inductive, <1>1, PTL

\* No identifier ever resolves to a deleted connection: send(identifier) starts
\* from a pointer that is valid when it is read, whatever the removal of other
\* connections did to mContainer.
THEOREM MappingIsSound == Spec => []MappingSound
<1>1. IInv => MappingSound
  BY DEF IInv, RegistrySound
<1> QED BY Inductive, <1>1, PTL

\* Every live connection has an open descriptor of its own: deleting one never
\* closes another's, although descriptors are reused and some are leaked.
THEOREM DescriptorsAreOwned == Spec => []LiveConnectionOwnsFd
<1>1. IInv => LiveConnectionOwnsFd
  BY DEF IInv, RegistrySound
<1> QED BY Inductive, <1>1, PTL

-----------------------------------------------------------------------------
(* No wakeup is lost *)

\* The loop's own steps keep NothingLeftBehind: it takes a fresh copy of the
\* write set before it sleeps, and only ever clears bits.
LEMMA LoopLeavesNothing ==
  ASSUME IInv, NothingLeftBehind, LoopStep, pipe' = pipe
  PROVE  NothingLeftBehind'
<1>1. UNCHANGED <<app, mHasBeenShutdown>>
  BY DEF LoopStep, LoopStart, LoopTop, SelectEnter, SelectReturn, ScanDone,
     DrainWakeup, Accept, AcceptFails, Identified, HandshakeFails, Register,
     ClearLoad, ClearStore, ReadNobody, Receive, ReceiveFails, Remove, Flush,
     FlushNobody, LoopOnly, LoopKeeps, LoopSpares
<1>2. loop'.pc \in {"select", "waiting"} =>
        \/ mMasterWrite' = loop'.writeFds
        \/ /\ loop.pc = "select"
           /\ UNCHANGED mMasterWrite /\ loop'.writeFds = loop.writeFds
  <2>1. loop \in LoopState
    BY DEF IInv, ServerTypeOK
  <2>2. CASE LoopTop \/ SelectEnter
    BY <2>1, <2>2 DEF LoopTop, SelectEnter, LoopAt, LoopOnly, LoopState
  <2>3. CASE ~(LoopTop \/ SelectEnter)
    BY <2>1, <2>3
    DEF LoopStep, LoopStart, SelectReturn, ScanDone, DrainWakeup, Accept,
        AcceptFails, Identified, HandshakeFails, Register, ClearLoad,
        ClearStore, ReadNobody, Receive, ReceiveFails, Remove, Flush,
        FlushNobody, ReadDone, RemovalNext, LoopState
  <2> QED BY <2>2, <2>3
<1> QED BY <1>1, <1>2 DEF NothingLeftBehind

\* A call ends without a byte in the pipe only if it found nobody to send to.
LEMMA AppLeavesNothing ==
  ASSUME IInv, NothingLeftBehind, AppCall \/ AppStep
  PROVE  NothingLeftBehind'
<1>1. loop' = loop
  BY DEF AppCall, AppStep, Broadcast, Shutdown, Destroy, Send, Find,
     NextConnection, SetLoad, SetStore, Reserve, Install, Insert, InsertLost,
     CloseListen, Wakeup, AppOnly, AppKeeps, AppSpares
<1>2. app \in AppState /\ pipe \in Nat
  BY DEF IInv, ServerTypeOK
<1>3. CASE Wakeup
  BY <1>2, <1>3 DEF Wakeup, NothingLeftBehind
<1>4. CASE Find \/ \E p \in Peer : Send(p)
  <2>1. /\ app.pc \in {"idle", "find"}
        /\ UNCHANGED <<pipe, mHasBeenShutdown, mMasterWrite>>
    BY <1>4 DEF Find, Send, AppAt, AppOnly, closing
  <2> QED BY <1>1, <2>1 DEF NothingLeftBehind
<1>5. CASE Broadcast \/ Shutdown \/ Destroy \/ NextConnection \/ SetLoad
           \/ SetStore \/ Reserve \/ Install \/ Insert \/ InsertLost \/ CloseListen
  <2>1. app'.pc \notin {"idle", "find"}
    BY <1>2, <1>5, AppStates
    DEF Broadcast, Shutdown, Destroy, NextConnection, SetLoad, SetStore, Reserve,
        Install, Insert, InsertLost, CloseListen, AppState
  <2> QED BY <2>1 DEF NothingLeftBehind
<1> QED BY <1>3, <1>4, <1>5 DEF AppCall, AppStep

\* The loop never sleeps while a call that is over, or a shutdown, has left it
\* something to do, whatever the interleaving of the unlocked accesses.
THEOREM NoWakeupIsLost == Spec => []WakeupNotLost
<1>1. Init => NothingLeftBehind
  BY DEF Init, NothingLeftBehind
<1>2. IInv /\ NothingLeftBehind /\ [Next]_vars => NothingLeftBehind'
  <2> SUFFICES ASSUME IInv, NothingLeftBehind, [Next]_vars
               PROVE  NothingLeftBehind'
    OBVIOUS
  <2>1. CASE LoopStep
    <3>1. pipe' = pipe
      BY <2>1 DEF LoopStep, LoopStart, LoopTop, SelectEnter, SelectReturn,
         ScanDone, DrainWakeup, RecvOnPipe, Accept, AcceptFails, Identified,
         HandshakeFails, Register, ClearLoad, ClearStore, ReadNobody, Receive,
         ReceiveFails, Remove, Flush, FlushNobody, LoopOnly
    <3> QED BY <2>1, <3>1, LoopLeavesNothing
  <2>2. CASE AppCall \/ AppStep
    BY <2>2, AppLeavesNothing
  <2>3. CASE PeerStep \/ Crash \/ Over \/ UNCHANGED vars
    BY <2>3 DEF PeerStep, Connect, Identify, Talk, Close, Crash, Over, vars,
       server, calls, NothingLeftBehind
  <2> QED BY <2>1, <2>2, <2>3 DEF Next
<1>3. IInv /\ NothingLeftBehind => WakeupNotLost
  <2>1. IInv => pipe \in Nat
    BY ServerAssumption DEF IInv, ServerTypeOK
  <2>2. pipe \in Nat => pipe = 0 \/ pipe > 0
    OBVIOUS
  <2> QED BY <2>1, <2>2 DEF NothingLeftBehind, WakeupNotLost
<1> QED BY Inductive, <1>1, <1>2, <1>3, PTL DEF Spec
=============================================================================
