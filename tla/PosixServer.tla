---------------------------- MODULE PosixServer ----------------------------
(***************************************************************************)
(* posix::Server: the thread that runs waitForEvents, one application      *)
(* thread that calls send, broadcast, shutdown and the destructor, and the *)
(* peers at the other end of the sockets.                                  *)
(*                                                                         *)
(* The two threads share the registry, the outgoing queues and             *)
(* mMasterWrite without any lock, so every access that the other thread    *)
(* can come between is a step of its own; FD_SET and FD_CLR are a load and *)
(* a store of one word.                                                    *)
(***************************************************************************)
EXTENDS PosixConnections

CONSTANTS ListenFd, WakeFd,  \* listening socket and read end of the pipe
          Name,        \* Name[p]: the identifier p's client was given
          Data,        \* the token every other message of a peer is made of
          Closers,     \* peers that may close their connection
          Silent,      \* peers that never say who they are
          Slow,        \* peers whose receive window may be full
          MaxData,     \* bound: data tokens a peer sends
          MaxCalls,    \* bound: calls of send and broadcast
          PipeCap,     \* bytes the wakeup pipe holds
          RecvMax,     \* tokens one recv returns (MAX_BUFFER_SIZE)
          UnsetBits    \* bits the uninitialised mMasterWrite may start with

ASSUME ServerAssumption ==
  /\ ListenFd \in Nat /\ WakeFd \in Nat
  /\ ListenFd # WakeFd
  /\ ConnFd \cap {ListenFd, WakeFd} = {}
  /\ Name \in [Peer -> Token] /\ Data \in Token
  /\ Closers \subseteq Peer /\ Silent \subseteq Peer /\ Slow \subseteq Peer
  /\ MaxData \in Nat /\ MaxCalls \in Nat
  /\ PipeCap \in Nat \ {0} /\ RecvMax \in Nat \ {0}
  /\ UnsetBits \subseteq ConnFd

VARIABLES status,            \* "up", or "crashed": the process died
          listenOpen,        \* the listening socket is open
          backlog,           \* connections waiting to be accepted
          mHasBeenShutdown,
          mMasterWrite,
          pipe,              \* bytes in the wakeup pipe
          loop,              \* the thread in waitForEvents
          app,               \* the application thread
          copy,              \* what its reserve has copied of mOutgoingBytes
          dest,              \* history: whom the n-th call addressed
          torn,              \* history: a swap fell between the copy of a reserve and
                             \* its installation, or into an insertion's shift
          peer,              \* what each peer is doing
          said,              \* how many data tokens a peer has sent
          inbox,             \* bytes from a peer that nobody received yet
          got,               \* bytes that reached a peer
          up, event          \* identifiers announced, callback just made

server == <<status, listenOpen, backlog, mHasBeenShutdown, mMasterWrite, pipe>>
closing == <<listenOpen, backlog, mHasBeenShutdown>>
objects == <<live, fdTable, mContainer, mMapping, mFdMax, mRead>>
remote == <<peer, said, inbox, got>>
told   == <<up, event>>
calls  == <<app, copy, dest, torn>>
vars   == <<registry, server, loop, calls, remote, told>>

All == <<>>   \* stands for everyone: no client has the empty identifier
Ack == 0      \* the acknowledgement; messages are numbered from 1

NoEvent == [kind |-> "none", id |-> <<>>]
Event(k, i) == [kind |-> k, id |-> i]

LoopPc == {"init", "top", "select", "waiting", "scan", "handshake", "register",
           "remove", "load", "store", "returned", "threw"}
AppPc  == {"idle", "find", "next", "load", "store", "reserve", "install",
           "insert", "wake", "close", "gone"}
PeerPc == {"new", "greeting", "talking", "closed"}

LoopState == [pc : LoopPc, fdmax : Int, readFds : SUBSET Int,
              writeFds : SUBSET Int, conn : Addr \cup {NoAddr},
              word : SUBSET Int]
AppState == [pc : AppPc, to : Identifier, pos : Nat,
             conn : Addr \cup {NoAddr}, word : SUBSET Int, fd : Int]
Events == [kind : {"none", "connected", "receive", "sent", "disconnected"},
           id : Identifier]

PeersTypeOK ==
  /\ peer \in [Peer -> PeerPc]
  /\ said \in [Peer -> 0..MaxData]
  /\ inbox \in [Peer -> Seq(Token)]
  /\ got \in [Peer -> Seq(Nat)]

ServerTypeOK ==
  /\ status \in {"up", "crashed"}
  /\ listenOpen \in BOOLEAN /\ mHasBeenShutdown \in BOOLEAN
  /\ backlog \in Seq(Peer)
  /\ mMasterWrite \subseteq Int
  /\ pipe \in 0..PipeCap
  /\ loop \in LoopState
  /\ app \in AppState
  /\ copy \in Seq(Nat)
  /\ dest \in Seq(Identifier)
  /\ torn \in BOOLEAN
  /\ PeersTypeOK
  /\ up \subseteq Identifier
  /\ event \in Events

TypeOK == RegistryTypeOK /\ ServerTypeOK

Init ==
  /\ RegistryInit
  /\ status = "up"
  /\ listenOpen = TRUE
  /\ backlog = <<>>
  /\ mHasBeenShutdown = FALSE
  /\ mMasterWrite \in SUBSET UnsetBits
  /\ pipe = 0
  /\ loop = [pc |-> "init", fdmax |-> NoFd, readFds |-> {}, writeFds |-> {},
             conn |-> NoAddr, word |-> {}]
  /\ app = [pc |-> "idle", to |-> All, pos |-> 0, conn |-> NoAddr, word |-> {},
            fd |-> NoFd]
  /\ copy = <<>> /\ dest = <<>> /\ torn = FALSE
  /\ peer = [p \in Peer |-> "new"]
  /\ said = [p \in Peer |-> 0]
  /\ inbox = [p \in Peer |-> <<>>]
  /\ got = [p \in Peer |-> <<>>]
  /\ up = {}
  /\ event = NoEvent

-----------------------------------------------------------------------------
(* The kernel's side of select, recv and send *)

Open(f) == \/ f = WakeFd
           \/ f = ListenFd /\ listenOpen
           \/ f \in ConnFd /\ fdTable[f] # NoPeer

\* Readable includes end of file, and a listening socket after shutdown(2).
Readable(f) == \/ f = WakeFd /\ pipe > 0
               \/ f = ListenFd /\ (backlog # <<>> \/ ~listenOpen)
               \/ f \in ConnFd /\ \/ inbox[fdTable[f]] # <<>>
                                  \/ peer[fdTable[f]] = "closed"

\* How many of len queued messages one send can take.
Accepted(p, len) == IF p \in Slow \/ peer[p] = "closed" THEN 0..len ELSE {len}

\* recv(2) on the wakeup pipe fails with ENOTSOCK: the byte stays.
ReadWholeBuffer(n) == n - RecvMax
RecvOnPipe(n) == n

Quiet == up' = up /\ event' = NoEvent

\* The callbacks an application is told of a connection by.
ConnectedUntold(id) == Quiet
TellConnected(id) == up' = up \cup {id} /\ event' = Event("connected", id)
TellDisconnected(id) == up' = up \ {id} /\ event' = Event("disconnected", id)
Tell(kind, id) == up' = up /\ event' = Event(kind, id)

-----------------------------------------------------------------------------
(* waitForEvents *)

\* No step of the loop has an effect on these, and no other than a swap on torn.
LoopSpares == <<status, listenOpen, mHasBeenShutdown, app, copy, dest, peer, said>>
LoopKeeps == <<LoopSpares, torn>>

LoopAt(pc) == status = "up" /\ loop.pc = pc

LoopOnly == /\ Quiet
            /\ UNCHANGED <<LoopKeeps, registry, backlog, mMasterWrite, pipe,
                           inbox, got>>

\* What the loop reads from besides its connections.
OnlyPipe == {WakeFd}
BaseRead == {WakeFd, ListenFd}

\* Lines 80-88: the read set and a new registry.
LoopStart ==
  /\ LoopAt("init")
  /\ loop' = [loop EXCEPT !.pc = "top"]
  /\ mRead' = BaseRead
  /\ Quiet
  /\ UNCHANGED <<LoopKeeps, heap, live, fdTable, mContainer, mMapping, mFdMax,
                 backlog, mMasterWrite, pipe, inbox, got>>

\* Lines 90-100: the shutdown test, fdmax and the copies select works on.
LoopTop ==
  /\ LoopAt("top")
  /\ loop' = IF mHasBeenShutdown
               THEN [loop EXCEPT !.pc = "returned"]
               ELSE [loop EXCEPT !.pc = "select",
                                 !.fdmax = Max({ListenFd, WakeFd, mFdMax}),
                                 !.readFds = mRead,
                                 !.writeFds = mMasterWrite]
  /\ LoopOnly

Watched == {f \in loop.readFds \cup loop.writeFds : f <= loop.fdmax}

\* Lines 105-112: select fails at once when it is given a closed descriptor,
\* and the exception leaves waitForEvents.
SelectEnter ==
  /\ LoopAt("select")
  /\ loop' = IF \A f \in Watched : Open(f)
               THEN [loop EXCEPT !.pc = "waiting"]
               ELSE [loop EXCEPT !.pc = "threw", !.readFds = {},
                                 !.writeFds = {}]
  /\ LoopOnly

\* Lines 105-115: select returns what is ready.  A slow peer's socket may be
\* unwritable; every other one is writable.
SelectReturn ==
  /\ LoopAt("waiting")
  /\ \E full \in SUBSET {f \in ConnFd : fdTable[f] \in Slow} :
       LET r == {f \in loop.readFds \cap Watched : Readable(f)}
           w == (loop.writeFds \cap Watched) \ full
       IN  /\ r \cup w # {}
           /\ loop' = IF mHasBeenShutdown
                        THEN [loop EXCEPT !.pc = "returned", !.readFds = {},
                                          !.writeFds = {}]
                        ELSE [loop EXCEPT !.pc = "scan", !.readFds = r,
                                          !.writeFds = w]
  /\ LoopOnly

\* The i of the scan, lines 120-176.
Current == Min(loop.readFds \cup loop.writeFds)
Reading(i) == LoopAt("scan") /\ i \in loop.readFds /\ i = Current
Writing(i) == /\ LoopAt("scan")
              /\ i \in loop.writeFds \ loop.readFds /\ i = Current

ReadDone(i) == [loop EXCEPT !.pc = "scan", !.readFds = @ \ {i}, !.conn = NoAddr]

\* The scan is over; lines 155-159 ran in it when the pipe was readable.
ScanDone ==
  /\ LoopAt("scan")
  /\ loop.readFds \cup loop.writeFds = {}
  /\ loop' = [loop EXCEPT !.pc = "top"]
  /\ LoopOnly

\* The pipe has its own branch, and its descriptor is no connection.
DrainWakeup ==
  /\ Reading(WakeFd)
  /\ pipe' = RecvOnPipe(pipe)
  /\ loop' = ReadDone(WakeFd)
  /\ Quiet
  /\ UNCHANGED <<LoopKeeps, registry, backlog, mMasterWrite, inbox, got>>

\* The acknowledgement, which a peer that has closed does not get.
GreetTwice(p) == [got EXCEPT ![p] = @ \o <<Ack, Ack>>]
Greet(p) == IF peer[p] = "closed" THEN got
              ELSE [got EXCEPT ![p] = Append(@, Ack)]

\* ServerConnection's constructor up to its poll: accept, then the ack.
Accept ==
  /\ Reading(ListenFd)
  /\ listenOpen /\ backlog # <<>>
  /\ \E a \in Addr : /\ AcceptInto(a, Head(backlog))
                     /\ loop' = [loop EXCEPT !.pc = "handshake", !.conn = a]
  /\ backlog' = Tail(backlog)
  /\ got' = Greet(Head(backlog))
  /\ Quiet
  /\ UNCHANGED <<LoopKeeps, mMasterWrite, pipe, inbox>>

\* accept fails and the exception is dropped, lines 138-142.
AcceptFails ==
  /\ Reading(ListenFd)
  /\ ~listenOpen \/ backlog = <<>> \/ FreeFds = {}
  /\ loop' = ReadDone(ListenFd)
  /\ LoopOnly

Joining == fdTable[heap[loop.conn].mSocket]

\* performReceive takes at most RecvMax of what is there.
Received(p) == SubSeq(inbox[p], 1, Min({RecvMax, Len(inbox[p])}))
Unread(p)   == SubSeq(inbox[p], Len(Received(p)) + 1, Len(inbox[p]))

\* The poll without a timeout ends because the peer sent something: all of it
\* is the identifier.  connected is called before the registry knows it.
Identified ==
  /\ LoopAt("handshake")
  /\ inbox[Joining] # <<>>
  /\ heap' = [heap EXCEPT ![loop.conn].mIdentifier = Received(Joining)]
  /\ inbox' = [inbox EXCEPT ![Joining] = Unread(Joining)]
  /\ loop' = [loop EXCEPT !.pc = "register"]
  /\ TellConnected(Received(Joining))
  /\ UNCHANGED <<LoopKeeps, objects, backlog, mMasterWrite, pipe, got>>

\* recv returned 0: nothing is left to read and nothing will come.
HangupIgnored(p) == FALSE
Hangup(p) == inbox[p] = <<>> /\ peer[p] = "closed"

\* The peer is gone before it said who it is.
HandshakeFails ==
  /\ LoopAt("handshake")
  /\ Hangup(Joining)
  /\ ConstructorThrows(loop.conn)
  /\ loop' = ReadDone(ListenFd)
  /\ Quiet
  /\ UNCHANGED <<LoopKeeps, backlog, mMasterWrite, pipe, inbox, got>>

Register ==
  /\ LoopAt("register")
  /\ AddServerConnection(loop.conn)
  /\ loop' = ReadDone(ListenFd)
  /\ Quiet
  /\ UNCHANGED <<LoopKeeps, backlog, mMasterWrite, pipe, inbox, got>>

\* handleServerConnection: the descriptor belongs to no registered connection.
ReadNobody(i) ==
  /\ Reading(i) /\ i \in ConnFd
  /\ ~Found(i)
  /\ loop' = ReadDone(i)
  /\ LoopOnly

\* performReceive on the connection looked up, which may be a stale pointer that
\* survives it: its socket is i.
Receive(i) ==
  /\ Reading(i) /\ i \in ConnFd
  /\ Found(i) /\ fdTable[i] # NoPeer
  /\ LET p == fdTable[i]
     IN  /\ inbox[p] # <<>>
         /\ inbox' = [inbox EXCEPT ![p] = Unread(p)]
  /\ loop' = ReadDone(i)
  /\ Tell("receive", heap[Lookup(i)].mIdentifier)
  /\ UNCHANGED <<LoopKeeps, registry, backlog, mMasterWrite, pipe, got>>

RemovalForgotten(i) == ReadDone(i)
RemovalNext(i) == [loop EXCEPT !.pc = "remove", !.conn = Lookup(i)]

\* recv returned 0 or -1: the application is told first ...
ReceiveFails(i) ==
  /\ Reading(i) /\ i \in ConnFd
  /\ Found(i)
  /\ fdTable[i] # NoPeer => inbox[fdTable[i]] = <<>>
  /\ loop' = RemovalNext(i)
  /\ TellDisconnected(heap[Lookup(i)].mIdentifier)
  /\ UNCHANGED <<LoopKeeps, registry, backlog, mMasterWrite, pipe, inbox, got>>

\* ... then the registry removes a connection.  To delete one a second time only
\* ends the process: the allocator stops at it.
Remove(i) ==
  /\ LoopAt("remove") /\ i = Current
  /\ Victim(i) \in live
  /\ RemoveServerConnection(i)
  /\ loop' = ReadDone(i)
  /\ Quiet
  /\ UNCHANGED <<LoopKeeps, backlog, mMasterWrite, pipe, inbox, got>>

\* The swap leaves the queue empty.
QueueCopied(a) == heap
QueueSwapped(a) == [heap EXCEPT ![a].mOutgoingBytes = <<>>]
Installing(a) == app.pc = "install" /\ app.conn = a

\* sendQueuedMessage: the queue is swapped out, whatever send does not take of
\* it is dropped, and only a complete send is reported.
Flush(i) ==
  /\ Writing(i)
  /\ Found(i) /\ Lookup(i) \in live
  /\ LET a == Lookup(i)
         p == fdTable[i]
         bytes == heap[a].mOutgoingBytes
     IN  /\ heap' = QueueSwapped(a)
         /\ \E n \in Accepted(p, Len(bytes)) :
              /\ got' = IF peer[p] = "closed" THEN got
                          ELSE [got EXCEPT ![p] = @ \o SubSeq(bytes, 1, n)]
              /\ IF n = Len(bytes) THEN Tell("sent", heap[a].mIdentifier)
                                   ELSE Quiet
  /\ torn' = (torn \/ (Installing(Lookup(i)) /\ copy # <<>>))
  /\ loop' = [loop EXCEPT !.pc = "load"]
  /\ UNCHANGED <<LoopSpares, objects, backlog, mMasterWrite, pipe, inbox>>

\* Nobody to write to, or an object already freed that happens to survive it.
FlushNobody(i) ==
  /\ Writing(i)
  /\ Found(i) => Lookup(i) \notin live
  /\ loop' = [loop EXCEPT !.pc = "load"]
  /\ LoopOnly

\* FD_CLR(i, &mMasterWrite), line 174, after the send.
ClearLoad ==
  /\ LoopAt("load")
  /\ loop' = [loop EXCEPT !.pc = "store", !.word = mMasterWrite]
  /\ LoopOnly

ClearStore ==
  /\ LoopAt("store")
  /\ mMasterWrite' = loop.word \ {Current}
  /\ loop' = [loop EXCEPT !.pc = "scan", !.writeFds = @ \ {Current},
                          !.word = {}]
  /\ Quiet
  /\ UNCHANGED <<LoopKeeps, registry, backlog, pipe, inbox, got>>

-----------------------------------------------------------------------------
(* The application thread *)

Idle == [app EXCEPT !.pc = "idle", !.to = All, !.pos = 0, !.conn = NoAddr,
                    !.fd = NoFd]

\* No step of a call has an effect on these.
AppSpares == <<status, objects, loop, remote, told>>
AppKeeps == <<AppSpares, copy, torn>>

AppAt(pc) == status = "up" /\ app.pc = pc

AppOnly == UNCHANGED <<AppKeeps, heap, closing, mMasterWrite, pipe, dest>>

\* send(data, count, identifier), 265-268.  Calls made before waitForEvents has
\* set the registry up are out of the model.
Send(p) ==
  /\ AppAt("idle") /\ loop.pc # "init" /\ Len(dest) < MaxCalls
  /\ app' = [app EXCEPT !.pc = "find", !.to = <<Name[p]>>]
  /\ dest' = Append(dest, <<Name[p]>>)
  /\ UNCHANGED <<AppKeeps, heap, closing, mMasterWrite, pipe>>

\* getServerConnection(identifier), when there is one.
LatestConnection(id) == mContainer[Len(mContainer)]
Resolve(id) == mMapping[id]

\* The lookup finds the connection, or throws to the caller.
Find ==
  /\ AppAt("find")
  /\ app' = IF app.to \in DOMAIN mMapping
              THEN [app EXCEPT !.pc = "load", !.conn = Resolve(app.to)]
              ELSE Idle
  /\ AppOnly

\* broadcast, 240-249: an iterator over mContainer, by reference.
Broadcast ==
  /\ AppAt("idle") /\ loop.pc # "init" /\ Len(dest) < MaxCalls
  /\ app' = [app EXCEPT !.pc = "next", !.pos = 1]
  /\ dest' = Append(dest, All)
  /\ UNCHANGED <<AppKeeps, heap, closing, mMasterWrite, pipe>>

NextConnection ==
  /\ AppAt("next")
  /\ app.pos <= Len(mContainer) + 1
  /\ app' = IF app.pos <= Len(mContainer)
              THEN [app EXCEPT !.pc = "load", !.conn = mContainer[app.pos]]
              ELSE [app EXCEPT !.pc = "wake"]
  /\ AppOnly

\* send(data, count, connection), 261: FD_SET, and only then ...
SetLoad ==
  /\ AppAt("load")
  /\ app' = [app EXCEPT !.pc = "store", !.word = mMasterWrite,
                        !.fd = heap[app.conn].mSocket]
  /\ AppOnly

SetStore ==
  /\ AppAt("store")
  /\ mMasterWrite' = app.word \cup ({app.fd} \ {NoFd})
  /\ app' = [app EXCEPT !.pc = "reserve", !.word = {}, !.fd = NoFd]
  /\ UNCHANGED <<AppKeeps, heap, closing, pipe, dest>>

\* broadcast goes on to the next connection, send to its performWakeup.
ToNext == [app EXCEPT !.pc = "next", !.pos = @ + 1, !.conn = NoAddr]
ToIdle == IF app.to = All THEN ToNext ELSE Idle
AfterInsert == IF app.to = All THEN ToNext
                               ELSE [app EXCEPT !.pc = "wake", !.conn = NoAddr]

\* ... 262: the message, numbered like the call.  reserve copies the old bytes into
\* a new buffer, which replaces the old one whatever the loop has swapped out or
\* deleted in the meantime; only then are the new bytes put in front.
Reserve ==
  /\ AppAt("reserve")
  /\ copy' = heap[app.conn].mOutgoingBytes
  /\ app' = [app EXCEPT !.pc = "install"]
  /\ UNCHANGED <<AppSpares, heap, closing, mMasterWrite, pipe, dest, torn>>

Install ==
  /\ AppAt("install")
  /\ heap' = [heap EXCEPT ![app.conn].mOutgoingBytes = copy]
  /\ copy' = <<>>
  /\ app' = [app EXCEPT !.pc = "insert"]
  /\ UNCHANGED <<AppSpares, closing, mMasterWrite, pipe, dest, torn>>

Insert ==
  /\ AppAt("insert")
  /\ app.conn \in live
  /\ AddQueuedMessage(app.conn, Len(dest))
  /\ app' = AfterInsert
  /\ UNCHANGED <<AppKeeps, closing, mMasterWrite, pipe, dest>>

\* The object is freed, or the loop swaps the vector out of the insertion that
\* is under way.  The message is then lost; and a swap that comes when the old bytes
\* have been shifted finds them where they were and where they are shifted to.
SwapNext == \E i \in ConnFd : Writing(i) /\ Found(i) /\ Lookup(i) = app.conn
Shifted(q) == IF q = <<>> THEN q ELSE <<q[1]>> \o q
Spoiled == app.conn \notin live \/ SwapNext

InsertLost ==
  /\ AppAt("insert") /\ Spoiled
  /\ LET queue == heap[app.conn].mOutgoingBytes
     IN  \E left \in IF SwapNext THEN {queue, Shifted(queue)} ELSE {queue} :
           /\ heap' = [heap EXCEPT ![app.conn].mOutgoingBytes = left]
           /\ torn' = (torn \/ left # queue)
  /\ app' = AfterInsert
  /\ UNCHANGED <<AppSpares, copy, closing, mMasterWrite, pipe, dest>>

\* performWakeup: the poll blocks while the pipe is full.
Wakeup ==
  /\ AppAt("wake")
  /\ pipe < PipeCap
  /\ pipe' = pipe + 1
  /\ app' = Idle
  /\ UNCHANGED <<AppKeeps, heap, closing, mMasterWrite, dest>>

\* shutdown, 284-288: the flag, then the listening socket, then the wakeup.
Shutdown ==
  /\ AppAt("idle") /\ loop.pc # "init" /\ ~mHasBeenShutdown
  /\ mHasBeenShutdown' = TRUE
  /\ app' = [app EXCEPT !.pc = "close"]
  /\ UNCHANGED <<AppKeeps, heap, listenOpen, backlog, mMasterWrite, pipe, dest>>

CloseListen ==
  /\ AppAt("close")
  /\ listenOpen' = FALSE
  /\ backlog' = <<>>
  /\ app' = [app EXCEPT !.pc = "wake"]
  /\ UNCHANGED <<AppKeeps, heap, mHasBeenShutdown, mMasterWrite, pipe, dest>>

\* ~Server once the loop thread has been joined, 229-238.  The second close of the
\* listening number, 231-235, is left to Facades: no file is opened here.
Destroy ==
  /\ AppAt("idle") /\ mHasBeenShutdown
  /\ loop.pc \in {"returned", "threw"}
  /\ \A k \in 1..Len(mContainer) : mContainer[k] \in live
  /\ Clear
  /\ app' = [app EXCEPT !.pc = "gone"]
  /\ UNCHANGED <<server, loop, remote, told, copy, dest, torn>>

-----------------------------------------------------------------------------
(* The peers.  The library's client connects, waits for the acknowledgement,*)
(* sends its identifier and after that whatever it is given.                *)

Linked(p) == \E f \in ConnFd : fdTable[f] = p

Connect(p) ==
  /\ status = "up" /\ peer[p] = "new" /\ listenOpen
  /\ peer' = [peer EXCEPT ![p] = "greeting"]
  /\ backlog' = Append(backlog, p)
  /\ UNCHANGED <<registry, status, listenOpen, mHasBeenShutdown, mMasterWrite,
                 pipe, loop, calls, said, inbox, got, told>>

Identify(p) ==
  /\ status = "up" /\ p \notin Silent
  /\ peer[p] = "greeting" /\ got[p] # <<>> /\ Linked(p)
  /\ peer' = [peer EXCEPT ![p] = "talking"]
  /\ inbox' = [inbox EXCEPT ![p] = Append(@, Name[p])]
  /\ UNCHANGED <<registry, server, loop, calls, said, got, told>>

Talk(p) ==
  /\ status = "up" /\ peer[p] = "talking" /\ said[p] < MaxData /\ Linked(p)
  /\ said' = [said EXCEPT ![p] = @ + 1]
  /\ inbox' = [inbox EXCEPT ![p] = Append(@, Data)]
  /\ UNCHANGED <<registry, server, loop, calls, peer, got, told>>

Close(p) ==
  /\ status = "up" /\ p \in Closers
  /\ peer[p] \in {"greeting", "talking"}
  /\ peer' = [peer EXCEPT ![p] = "closed"]
  /\ UNCHANGED <<registry, server, loop, calls, said, inbox, got, told>>

-----------------------------------------------------------------------------
(* Undefined behaviour that kills the process, and SIGPIPE *)

\* The application thread holds a connection it was given.
Sending == {"load", "store", "reserve", "install", "insert"}

\* The application thread is inside mMapping or iterates over mContainer.
InRegistry == \/ app.pc = "find"
              \/ app.pc \in {"next"} \cup Sending /\ app.to = All

CrashCause ==
  \* the loop follows a stale pointer, or deletes one a second time
  \/ \E i \in ConnFd : /\ Reading(i) \/ Writing(i)
                       /\ Found(i) /\ Lookup(i) \notin live
  \/ loop.pc = "remove" /\ Victim(Current) \notin live
  \* send to a peer that is gone
  \/ \E i \in ConnFd : /\ Writing(i) /\ Found(i)
                       /\ Open(i) /\ peer[fdTable[i]] = "closed"
  \* the containers change under the application's feet
  \/ loop.pc \in {"register", "remove"} /\ InRegistry
  \* the iterator has passed the end
  \/ app.pc = "next" /\ app.pos > Len(mContainer) + 1
  \* insertion into a freed object's vector, or into one being swapped
  \/ app.pc \in {"reserve", "install", "insert"} /\ Spoiled
  \* ~Connections deletes what is already deleted
  \/ /\ app.pc = "idle" /\ mHasBeenShutdown /\ loop.pc \in {"returned", "threw"}
     /\ \E k \in 1..Len(mContainer) : mContainer[k] \notin live

Crash ==
  /\ status = "up" /\ CrashCause
  /\ status' = "crashed"
  /\ UNCHANGED <<registry, listenOpen, backlog, mHasBeenShutdown, mMasterWrite,
                 pipe, loop, calls, remote, told>>

-----------------------------------------------------------------------------

LoopStep ==
  \/ LoopStart \/ LoopTop \/ SelectEnter \/ SelectReturn \/ ScanDone
  \/ DrainWakeup \/ Accept \/ AcceptFails \/ Identified \/ HandshakeFails
  \/ Register \/ ClearLoad \/ ClearStore
  \/ \E i \in ConnFd : \/ ReadNobody(i) \/ Receive(i) \/ ReceiveFails(i)
                       \/ Remove(i) \/ Flush(i) \/ FlushNobody(i)

\* A call of the application begins, and goes on.
AppCall == Broadcast \/ Shutdown \/ Destroy \/ \E p \in Peer : Send(p)
AppStep == \/ Find \/ NextConnection \/ SetLoad \/ SetStore \/ Reserve
           \/ Install \/ Insert \/ InsertLost \/ CloseListen \/ Wakeup

PeerStep == \E p \in Peer : Connect(p) \/ Identify(p) \/ Talk(p) \/ Close(p)

Over == /\ status = "crashed" \/ app.pc = "gone"
        /\ UNCHANGED vars

Next == LoopStep \/ AppCall \/ AppStep \/ PeerStep \/ Crash \/ Over

\* Both threads are scheduled, and a client sends its identifier; nobody has to
\* call anything, connect, talk or close.
Fairness ==
  /\ WF_vars(LoopStep \/ Crash)
  /\ WF_vars(AppStep)
  /\ \A p \in Peer : WF_vars(Identify(p))

Spec == Init /\ [][Next]_vars /\ Fairness

-----------------------------------------------------------------------------
(* Properties *)

\* The callbacks a run makes follow the protocol of the Callback interface, while
\* calls and the loop meet at every step; that needs clients that stay
\* (Server.cpp:136, 213; ServerConnection.cpp:125).
Contract == INSTANCE CallbackContract
CallbackProtocol == Contract!Spec

Ended == status = "crashed" \/ loop.pc \in {"returned", "threw"}

\* A client reads the acknowledgement before anything else and exactly once,
\* and no message overtakes its identification, whatever descriptors and
\* addresses were used before (ServerConnection.cpp:41-59, Server.cpp:134-137).
AckFirst ==
  \A p \in Peer :
    got[p] # <<>> => /\ got[p][1] = Ack
                     /\ \A k \in 2..Len(got[p]) : got[p][k] # Ack
                     /\ Len(got[p]) > 1 => peer[p] \in {"talking", "closed"}

\* A message reaches a client twice only if the loop's swap fell between the copy of
\* a reserve and its installation, or into the shift of an insertion: no other
\* meeting of a call, or of two, with the loop repeats one (ServerConnection.cpp:108,
\* 109, 115).
NoRepeats(s) == \A j, k \in 1..Len(s) : s[j] = s[k] => j = k
RepeatsOnlyTorn == torn \/ \A p \in Peer : NoRepeats(got[p])

\* A message only reaches a client it was addressed to (Server.cpp:265-271).
NoCrossTalk ==
  \A p \in Peer : \A k \in 1..Len(got[p]) :
    got[p][k] # Ack => dest[got[p][k]] \in {All, <<Name[p]>>}

\* The connections the vector lists, and whether every object alive is listed or
\* under construction: so it is until a removal deletes another object than the
\* one that failed.
Connected == {mContainer[k] : k \in 1..Len(mContainer)}
UnderConstruction == IF loop.pc \in {"handshake", "register"} THEN {loop.conn}
                                                              ELSE {}
Whole == live \subseteq Connected \cup UnderConstruction

\* Until then the callbacks follow their protocol also when connections fail while
\* messages to them are under way: nobody is announced or withdrawn twice, and
\* nothing is reported of who is gone (Server.cpp:136, 213, 221;
\* ServerConnection.cpp:125).
ProtocolWhileWhole == [][Whole => Contract!Next]_told

\* Whenever the loop sleeps in select, the five records of who is connected
\* agree: the vector, the map, the read set, the largest descriptor and what
\* the application was told.  Only the loss of an object sets them apart: no
\* other removal, failed handshake or reuse of a descriptor or an address does
\* (Connections.cpp:23-51, Server.cpp:93-112).
ConsistentWhileWaiting ==
  loop.pc = "waiting" /\ Whole =>
    /\ Connected \subseteq live /\ Cardinality(Connected) = Len(mContainer)
    /\ mRead = {ListenFd, WakeFd} \cup {heap[a].mSocket : a \in Connected}
    /\ \A f \in mRead : f <= loop.fdmax
    /\ DOMAIN mMapping = up
    /\ {heap[a].mIdentifier : a \in Connected} = up

\* The loop does not sleep on work: with no call under way, a shutdown request
\* or a flagged open descriptor that select does not watch leaves a byte in the
\* pipe (Server.cpp:184-192, 249, 261, 280, 286-288).
WakeupNotLost ==
  loop.pc = "waiting" /\ app.pc = "idle" =>
    \/ pipe > 0
    \/ /\ ~mHasBeenShutdown
       /\ \A f \in mMasterWrite : Open(f) => f \in loop.writeFds

\* A shutdown ends waitForEvents, wherever the loop is when the flag is set
\* (Server.cpp:90, 114, 284-288).
ShutdownTerminates == mHasBeenShutdown ~> Ended

\* A message queued for a registered connection whose bit is set reaches its client:
\* neither the sleep in select nor the removal, the handshake or the flush of another
\* connection leaves it behind.  Exempt are the moments when FD_CLR is under way
\* (QueuedIsSent), clients whose network takes a part of a send, and connections that
\* end (Server.cpp:93-112, 164-175, 184-192; Connections.cpp:44-49).
Registered(f) == Found(f) /\ Lookup(f) \in live
Queued(f, n) == /\ Registered(f)
                /\ \E k \in 1..Len(heap[Lookup(f)].mOutgoingBytes) :
                     heap[Lookup(f)].mOutgoingBytes[k] = n
FlaggedIsSent ==
  \A f \in ConnFd, p \in Peer \ Slow, n \in 1..MaxCalls :
    /\ Queued(f, n) /\ fdTable[f] = p
    /\ f \in mMasterWrite /\ loop.pc \notin {"load", "store"}
    ~> \/ \E k \in 1..Len(got[p]) : got[p][k] = n
       \/ peer[p] = "closed" \/ fdTable[f] # p \/ Ended

\* A client that connects is announced to the application, unless the loop ends
\* or is about to (Server.cpp:129-137).
ConnectIsAnnounced ==
  \A p \in Peer : peer[p] = "greeting" ~>
    \/ \E id \in up : id[1] = Name[p]
    \/ peer[p] = "closed" \/ mHasBeenShutdown \/ Ended

\* What makes the registry's invariants inductive: a connection under
\* construction is live and unknown to the registry until it is added, and the
\* application works on an address it was given (ServerConnection.cpp:19-60,
\* Server.cpp:134-137, 247, 268).
Construction ==
  /\ loop.pc \in {"handshake", "register"} => loop.conn \in live
  /\ loop.pc = "handshake" => ~Mapped(loop.conn)
  /\ app.pc \in Sending => app.conn \in Addr
  /\ app.pc = "next" => app.pos > 0

IInv == RegistrySound /\ ServerTypeOK /\ Construction

\* What makes WakeupNotLost inductive.  As long as no call has left a byte in the
\* pipe, none has set a bit or the flag and come to its end, and what the loop
\* took into its write set still covers mMasterWrite (Server.cpp:100, 261-280).
NothingLeftBehind ==
  pipe = 0 /\ app.pc \in {"idle", "find"} =>
    /\ ~mHasBeenShutdown
    /\ loop.pc \in {"select", "waiting"} => mMasterWrite \subseteq loop.writeFds

-----------------------------------------------------------------------------
(* What the documentation says and the code does not do *)

\* "When the socket is available for writing, the message will be sent"
\* (ServerConnection.h:29).
QueuedIsSent ==
  \A a \in Addr : a \in live /\ heap[a].mOutgoingBytes # <<>> ~>
    a \notin live \/ heap[a].mOutgoingBytes = <<>> \/ mHasBeenShutdown \/ Ended
=============================================================================
