# C11Http: a TLA+ model of the TCP layer and the worker pool

C11Http is a small C++ library: a TCP server and client for POSIX and for
Windows, facades that pick one of them, HTTP value classes, and a worker pool.
Its core logic is the concurrency between an event loop (`waitForEvents`) and
the threads that call `send`, `broadcast`, `shutdown` and the destructor. This
directory holds TLA+ modules of that logic, TLC configurations that check them,
and TLAPS proofs about them.

Paths below are relative to the repository (`src/...`).

## 1. Inventory

### POSIX server (`src/server/posix/`)

* **Server** (`Server.cpp`). State: the listening socket, the wakeup pipe,
  `mMasterWrite` (the descriptors with something to send), `mHasBeenShutdown`,
  the pointer to `Connections`. The thread in `waitForEvents` selects over the
  listening socket, the pipe and the connections, accepts, receives, sends and
  calls the callbacks. Any other thread calls `send`, `broadcast`, `shutdown`
  and finally the destructor. There is no lock anywhere: the two threads share
  `mMasterWrite` (an `fd_set`, so every change is a load and a store of a word),
  the flag, the vector and the map of connections, and the outgoing queues.
  Correct means: the loop does not sleep on work it was told of; a message goes
  to whom it was addressed, at most once; a shutdown ends the loop; the callbacks
  of a connection follow connected, receive/sent, disconnected.
* **Connections** (`Connections.cpp`). State: the vector `mContainer`, the map
  `mMapping` from identifier to pointer, `mFdMax`, and by reference the loop's
  read set. Operations: add, remove by descriptor (with `std::remove_if`), two
  lookups, clear. Correct means: the records agree, no identifier leads to a
  deleted object, an object's descriptor belongs to it alone.
* **ServerConnection, Socket**. State: descriptor, identifier, outgoing bytes.
  The constructor accepts, sends `ack`, polls without a timeout for the
  identifier, all on the event loop's thread. `~Socket` does not close;
  `~ServerConnection` does.
* **Callback**. The interface the application implements.

### POSIX client (`src/client/posix/`)

State: one socket, `mConnected`, `mMasterWrite`, the outgoing bytes, a wakeup
pipe. The constructor connects, waits for `ack`, sends the identifier; the loop
receives and sends; other threads call `sendDataToServer` and `disconnect`, with
the same unlocked sharing as the server. Correct means: data handed over is sent,
a disconnect or the server's end ends the loop, the callbacks report what
happened. `Client.h` declares another interface than `Client.cpp` defines; the
definitions are what is modelled.

### Windows server and client (`src/server/windows/`, `src/client/windows/`)

Overlapped I/O: `AcceptEx`, `WSARecv` and `WSASend` complete by event handles or
by completion routines run inside an alertable wait. State: the connections
(vector and map), a queue of send targets, the client's queue of send buffers.
Correct means: a completion is attributed to the connection and buffer it belongs
to, a handle waited for still has a connection, every connection is served (the
handle array is rotated), shutdown does not delete what the loop is using.
`ConnectionInformationReceivedFromClient` is used and defined nowhere.

### Facades, interfaces, objects (`src/server/Server.cpp`, `src/client/Client.cpp`, `*/interface/`, `src/objects/`)

Wrappers that create a platform object, forward to it, and shut it down or
disconnect it when they are deleted, although an application that follows the
test has done so already; the platform object itself is never deleted, so the
server's pipe and connections and a client's pipe stay open. What all objects of
a process share is its table of descriptors, whose numbers are reused at once.
Correct means: no object closes or uses a number that has come to name another's
descriptor, and a teardown ends. Besides: abstract classes holding one callback,
and value classes.

### Worker pool (`src/workers/`)

Each worker thread waits on a `std::promise` for its job; the pool hands out
jobs round robin under a mutex. Correct means: every job given is run once, and
destruction ends every thread. A promise can be set only once, and the pool
deletes workers before it joins their threads.

### What is hard here

Two threads without locks over shared containers and over words of an `fd_set`;
pointers and descriptor numbers that outlive what they named, and are reused;
the window between testing a flag and blocking; order of effects around
shutdown; sends that take part of a queue; a handshake that blocks the loop.
`PROJECT.json` lists each hazard at its line.

## 2. Modules

| module | contents | code |
|---|---|---|
| `PosixConnections` | the registry and the objects in it, down to addresses and descriptors | `Connections.cpp`, parts of `ServerConnection.cpp`, `Socket.cpp` |
| `PosixServer` | extends it with the event loop, one application thread, the peers and the kernel's part of `select`, `recv`, `send` | `Server.cpp`, `ServerConnection.cpp`; peers from `src/client/posix/Client.cpp` |
| `CallbackContract` | the abstract protocol of the callbacks, which `PosixServer` implements | `Callback.h` |
| `PosixClient` | the client: its event loop, the thread that constructs, calls and destroys it, and the server at the other end | `src/client/posix/Client.cpp`, `Socket.cpp`; the server's part from `ServerConnection.cpp` |
| `MCPosixServer` | instances of the server for TLC | |
| `PosixConnectionsProofs` | each registry operation preserves the registry's invariants | |
| `PosixServerProofs` | the server's inductive invariant and its consequences | |
| `PosixSessionProofs` | what holds of each client's session: greeting, identity, the records of who is connected, callbacks, messages | |
| `PosixClientProofs` | the same for the client | |
| `WorkerPool` | the pool: its owner, the threads that call `addWork`, the workers' threads | `src/workers/Worker.cpp`, `WorkerPool.cpp` |
| `JobPool` | what a pool promises of its jobs, which `WorkerPool` implements | the same |
| `WorkerPoolProofs` | the pool's invariants and the refinement | |
| `WinServer` | the Windows server with its registry, one calling thread, the peers and Winsock's completions | `src/server/windows/Server.cpp`, `Connections.cpp`, `Overlap.h` |
| `WinServerProofs` | its inductive invariant and what follows from it | |
| `WinClient` | the Windows client: its event loop, the thread that connects, sends, disconnects and destroys it, Winsock and the server | `src/client/windows/Client.cpp` |
| `WinClientProofs` | its inductive invariant and what follows from it | |
| `Facades` | one process with a server and clients: the lifecycle of the facades and the process's descriptors | `src/server/Server.cpp`, `src/client/Client.cpp`, `src/test/TestHttpRequestResponse.cpp`; descriptors from the POSIX objects |
| `MCFacades` | an instance of it for TLC | |
| `FacadesProofs` | ownership of descriptor numbers | |

### PosixConnections

A `ServerConnection*` is a member of `Addr`. `heap[a]` is what was last stored at
`a`, also after `delete`: a stale pointer reads what is left there, either the old
socket or something that matches none (`Delete` chooses), until the address is
allocated again. `live` is the set of allocated addresses, `fdTable` the kernel's
table of open connection descriptors. `RemoveServerConnection` follows
`Connections.cpp:31-51` literally: `remove_if` moves the elements it keeps to the
front and leaves the tail as it was, and the object deleted is the one at the
position it returns (`Victim`). The new `mFdMax` is read from memory after that
delete, through every pointer left in the vector (`LargestSocket`).

Accepted descriptors are the lowest free ones, as POSIX requires; addresses are
chosen freely, as `operator new` may. A constructor that throws leaves its
descriptor open (`ConstructorThrows`).

### PosixServer

* `loop` is the thread in `waitForEvents`: `pc` is where it stands, `fdmax`,
  `readFds`, `writeFds` its locals, `conn` the object it is working on, `word`
  the word of `mMasterWrite` it has loaded. The scan over descriptors is the
  minimum of what is left in the two sets; descriptors are handled in increasing
  order, read before write, as in lines 120-176.
* `app` is the application's thread, with the call's position in the same way.
  `Send` and `Find` are the lookup; `SetLoad`, `SetStore` are line 261; `Reserve`,
  `Install` and `Insert` are `addQueuedMessage` (`ServerConnection.cpp:108-109`), which
  line 262 calls: `reserve` copies the queue's bytes (`copy`), the copy replaces the
  queue, and the new bytes go in front. `Wakeup` is `performWakeup`. `Broadcast` and `NextConnection` iterate
  over the vector that the loop changes. `Shutdown`, `CloseListen`, `Wakeup` are
  lines 286 to 288.
* `Destroy` is `~Server` after the loop's thread was joined, as in
  `src/test/TestHttpRequestResponse.cpp:59-64`.
* Steps are as fine as the other thread can tell: the test of the flag, entering
  `select`, returning from it, accept, the end of the handshake, registration,
  the callback before a removal and the removal, the send, and the load and the
  store of `FD_CLR` are separate.
* Peers connect, identify themselves once acknowledged, send data, and may close.
  `Silent` peers never identify themselves; `Slow` ones may have a full window, so
  their socket is not writable or a send takes a prefix.
* Messages are numbered by the call that sent them. `dest` is a history of whom
  each call addressed; `got[p]` is what reached a peer, 0 being the
  acknowledgement.
* `RecvOnPipe` leaves the pipe as it is: line 158 calls `recv` on a pipe, which
  fails with `ENOTSOCK`. So a byte written once is never removed, and the loop
  does not block again; `Wakeup` blocks when the pipe is full.
* Undefined behaviour is a choice: the code carries on with the values left in
  memory, or, while `CrashCause` holds (a stale pointer followed, a container
  changed under an iterator, a reserve or an insertion into a vector being swapped,
  `SIGPIPE`), the process ends (`Crash`). A swap between the copy of a `reserve` and its
  installation puts back what is being sent; one inside `insert` loses the new message
  and may find the first old one twice (`InsertLost`). Both are remembered in `torn`. A
  second `delete` of an object ends the process: the allocator stops at it. A crashed process is a final state; nothing in the
  library is persistent or restarts.

Abstracted: bytes within a message (a short send, or a torn insertion, cuts between
messages), the second close of the listening number in `~Server` (`Facades` has it),
socket options, the text of exceptions. `mMasterWrite` is one word, since all
descriptors of an instance fit in one.

### CallbackContract

Two variables, the identifiers announced and the last callback. `PosixServer`
keeps both as history variables set by the actions that make the callbacks, so
`CallbackProtocol == Contract!Spec` is a refinement with the identity mapping
on them; what has to be shown is that the loop never makes a callback the
contract does not allow. With clients that close it may, once a removal has deleted
another object than the one that failed and the address is reused; so the refinement
is stated of clients that stay, and `ProtocolWhileWhole` says the same of the others
for as long as no object is lost (`Whole`).

### PosixClient

* `loop` is the thread in `waitForEvents` (lines 113-205): `pc` and what `select`
  reported of the socket and the pipe. The flag is tested on line 123 (`LoopTop`,
  which also copies `mMasterWrite`) and again on line 137 (`SelectReturn`), each
  receive, the read of the pipe, the swap and send (`Flush`) and `FD_CLR`
  (`Clear`) are steps of their own.
* `app` is the other thread: `Connect`, `ReadAck`, `Identify` are the constructor;
  `SendData`, `Reserve`, `Install`, `Insert`, `Flag`, `Wakeup` are `sendDataToServer`,
  with the same races as in the server (`copy`, `InsertLost`, `torn`); `Disconnect`,
  `PollWritable`, `Shut`, `CloseSocket`, `Wakeup` are `disconnect`. A call made
  before the loop starts is possible, as in the code.
* `mMasterWrite` holds one descriptor, so `FD_SET`, `FD_CLR` and `FD_ZERO` are one
  store each; bits of other descriptors that the uninitialised set may hold before
  line 119 are left out.
* `sock` distinguishes a socket that was shut down from one that is closed: the
  first is readable and ends, the second fails `select` and `recv`.
* `inbox` is what was sent to the client and not yet received, `heard` what
  `receiveComplete` was given; `full` is the send buffer, which `send` may fill
  and `ServerReads` drains.
* `ServerLeaves` closes or resets the connection at any point, the handshake
  included. Writing after that may raise `SIGPIPE` (`Crash`).
* As in the server, `recv` on the pipe takes nothing out of it.

`posix_client` runs this module itself; it needs no definitions beyond its constants.

### WorkerPool

* `owner` is the thread that constructs and destroys the pool: `StartThread` is
  one round of lines 14-16 of `WorkerPool.cpp`, `StopWorker` and `FreeWorker` are
  `delete worker` (the destructor's body, then the memory), `JoinThread` is one
  round of lines 25-27.
* `caller` are the threads in `addWork`. `AddWork` is the part under the mutex,
  which claims a worker; `ProvideWork` is `set_value`, outside the mutex.
* `thread[w]` is `threadEntryPoint` of one worker: the test of the flag,
  `get_future`, `wait` and `get`, and the call of the job are steps.
* `mPromiseToWork[w]` is a cell that takes one value and gives its future once.
  A second `set_value` throws to its caller (`refused`), or, in `~Worker`, ends the
  process, as does a second `get_future`: `CrashCause`.
* Freed memory is a choice: the flag of a deleted worker reads as anything; or the
  process ends. `StrayFlag` lets the flag, which the constructor leaves
  uninitialised, hold either value from the start.
* The destructor begins with no call of `addWork` under way, as every C++ object
  requires of its owner; the workers' threads are wherever they are.

`JobPool` has two actions, accepting a job and running one that was accepted and
has not run. The mapping is `given <- accepted, done <- ran`.

### WinServer

* A `ServerConnection`, its event, its `OVERLAPPED` and its identifier are all named
  by the peer. Each peer connects once, so that no name is reused: reuse of
  addresses is studied in the POSIX server.
* `mContainer` is the vector, `mMapping` the keys of the map, `targets` the length
  of the queue of send targets. `conn[p]` is how far the connection is,
  `recv[p]` the receive posted on it and how it ended, `signalled` the events that
  are set.
* A connection has one `OVERLAPPED`, which its receive (line 355) and every send to it
  (line 163) use; nothing is buffered (`Socket.cpp:46`), so a send is pending until
  Winsock has done it. `sending[p]` are the threads whose sends are under way,
  `overlap[p]` is whose result the structure holds. `ReceiveResult` reads it
  (`Outcome`): the result of a send covers the receive's, so that the end of a
  connection is taken for data; a send that is pending makes the loop wait, since
  line 269 passes `TRUE`, on an event that line 249 has reset and that a send with a
  completion routine does not set. The loop is then `Blocked`, for good.
* The two threads are in `Connections` without a lock. `GetHandleArray` and `PushBack`
  are the two halves of a rotation, `RunJoined` and `AddServerConnection` those of an
  addition (map, then vector), `BeginRemoval`, `Delete` and `Erase` are
  `removeServerConnection`: out of the map, `delete`, out of the vector, at an iterator
  that is a position. `removing[t]` is the call of one thread. An erase by one thread
  moves what the other's iterator points at: `torn` remembers it, and the next use of
  the iterator deletes or erases another connection, or is undefined (`Strays`).
* `loop` is the thread in `waitForEvents`: the copy of the handles it waits for, the
  handle it is at, and the completion routine it runs. `WaitReturns` takes the first event set, in the order of the
  array; `WaitInterrupted` lets an alertable wait run one routine and go round
  again with a new array (lines 216-230).
* `routines` are the routines queued to the loop's thread. A routine runs on the
  thread that started the operation, when it next waits: the other thread never
  does, so what it sends never reports completion. `RunSent` is
  `DataSentToClient`, which resets the shared event.
* `RunJoined` stands for `ConnectionInformationReceivedFromClient`, which the code
  names and nowhere defines. It adds the connection (`Server.h:66-68`, the comment of
  `addConnection`) and posts the first receive; it is marked external.
* `app` is the other thread. `Begins` is the lookup of `send` or the copy of
  `broadcast`, `PushTarget`, `SendTo` and `PushAgain` are lines 155, 161-189 and 142;
  `Shutdown`, `CloseNext`, `Wake` are lines 119-133; `Destroy` is the destructor
  after the loop's thread was joined.
* `NoReply` and `Reply` are what the application does in `receiveComplete`: nothing,
  or one send to that client, on the loop's thread.
* Undefined behaviour is `Crash`, a choice while `CrashCause` holds: one thread in a
  container the other changes, memory of a deleted connection (also an `OVERLAPPED`
  freed with a receive or a send pending, and a deleted connection that is still listed
  when `find_if` or the rotation looks at it), the front of an empty queue or vector, a null
  `mIncomingSocket` in the destructor.

Abstracted: a `WSASend` that completes at once is one whose `SendCompletes` is the next
step, which differ only in how often `sendComplete` is called; who a completion is
reported to; the buffers. Peers identify themselves before they leave. A send to a peer
that has closed may be answered by a reset. A wait takes `MaxHandles` events at most (64
in Winsock); with more it fails (`TooMany`).

### WinClient

* `loop` is the thread in `waitForEvents`: the test of the flag, the wait, which
  returns the first of the two events that is set, the result, the pop of a
  buffer and the reset of the event are steps. `handles[0]` is event 0, the
  receive's, `handles[1]` event 1, the send's.
* `app` is the other thread: `Connect` and `ConnectFails` with `ReceivePends`,
  `ReceiveAtOnce`, `PrepareThrows` are `connect`; `SendData`, `Push` and
  `SendPends`, `SendAtOnce` or `SendThrows` are `sendDataToServer`; `Disconnect`,
  `Signal`, `CloseSocket` are `disconnect`.
* A buffer is named by the number of its send. `mSendBuffers` is the queue,
  `flight` the sends that Winsock still reads from, `sendResult` what the one
  `OVERLAPPED` of all sends says, `event` the two events. WSASend and WSARecv
  clear the event of their `OVERLAPPED`; a completion sets it.
* `recv` is the receive. It is posted by `connect` only, so the loop hands over one
  completed receive and hears of no later one (a finding).
* No line of the code sets `mConnected`: `Init` leaves it open. Nor is `mSocket` set when
  no address answers, and line 89 tests it: `ConnectFails` throws or goes on to a
  receive that fails. That the value happens to be another socket of the process is left
  out.
* Undefined behaviour: `PushLost` is a push that meets a pop of the unlocked queue
  and loses one of the two changes, remembered in `spoiled`; `Crash` is the choice
  that the process ends, while `CrashCause` holds (that race, the front of an
  empty queue, the endless recursion of `prepareClientToReceiveData` on a closed
  connection, a destructor that deletes what was never set or what Winsock has yet
  to write to).

`win_client` runs this module itself.

### Facades

* `table` maps each descriptor number of the process to who opened it; `listen`,
  `listed`, `client[c].mSocket` and `files` are the numbers the server, its
  connections, the clients and the rest of the application hold. A number that is
  opened is the lowest that is free.
* `listed` is the vector of connections, as numbers with whether the object is alive,
  and `watched` the read set. `Remove` is `removeServerConnection` for any number that
  is watched: every entry of that number leaves the vector, but the object deleted is
  any that `remove_if` may have left behind the new end (the order of the vector is in
  `PosixConnections`). So the failed descriptor may stay open, and a deleted object
  listed and watched; deleting it again closes the number it still holds, or that of
  the object that now has its memory (`Deleted`).
* `stage` is how far the server facade has come, in the order of
  `TestHttpRequestResponse.cpp:54-64` and `server/Server.cpp:107-114`: up, `Shutdown`
  (the flag), `CloseListen`, `Wakeup`, `JoinServer`, and again `CloseListen` and
  `Wakeup` from `~Server`. `client[c]` is the same for a client, whose second
  disconnect is stopped by `mConnected` (`IsConnected`).
* The loops appear by what they do to descriptors and by when they return:
  `Accept`, `Remove`, `ServerReturns`, `ServerLeft`, `ClientReturns`. An exception
  that leaves `waitForEvents`, which is the whole of its thread, ends the process
  (`Throws`).
* `astray` remembers that a number was closed for a second time when it already named
  something: by `~Server`, after a file or a connection was opened at the number of the
  listening socket, or by the second deletion of a connection.

A constructor or handshake that throws leaves its descriptor open, as in the code.

## 3. Runs

| run | instance | checks | result |
|---|---|---|---|
| `posix_serve` | 2 clients that stay, one slow, 2 calls, a shutdown | `RepeatsOnlyTorn`, `NoCrossTalk`, `WakeupNotLost`, `CallbackProtocol` | holds |
| `posix_churn` | one client may close, 1 data token each, 1 call, stray bit in `mMasterWrite` | `TypeOK`, `MappingSound`, `LiveConnectionOwnsFd`, `AckFirst`, `ConsistentWhileWaiting`, `ProtocolWhileWhole` | holds |
| `posix_live` | one client may close, 1 call, a shutdown, fairness | `ShutdownTerminates`, `FlaggedIsSent`, `ConnectIsAnnounced` | holds |
| `posix_lost_flag` | one client, one broadcast, fairness | `QueuedIsSent` | violated |
| `posix_cross_talk` | one of two clients closes, 2 calls | `NoCrossTalk` | violated |
| `posix_client` | 2 sends, 2 replies, a pipe of 3, fairness | `TypeOK`, `RepliesInOrder`, `RepeatsOnlyTorn`, `WakeupNotLost`, `DisconnectTerminates`, `ServerGoneTerminates`, `FlaggedIsSent` | holds |
| `worker_pool` | 2 workers, 2 callers, 3 jobs, stray flags, fairness | `TypeOK`, `FirstRoundSucceeds`, `JobsAccountedFor`, `OnceEach`, `AcceptedIsRun`, `DestructorReturns` | holds |
| `win_server` | 2 clients, one may leave, 1 call, a shutdown | `TypeOK`, `RegistryAgrees`, `NoneGoesDeaf`, `OnlyResetThrows` | holds |
| `win_live` | 2 clients, one may leave and is answered once, a shutdown, fairness | `ReadyIsServed`, `EndIsNoticed`, `ShutdownTerminates` | holds |
| `win_stuck` | 1 client, 1 call, a shutdown, fairness | `ShutdownIsNoticed` | violated |
| `win_client` | 3 sends, 2 replies, a disconnect, a server that may leave, fairness | `TypeOK`, `BufferOutlivesSend`, `DisconnectTerminates`, `ReceivedIsHeard` | holds |
| `facades` | 6 descriptors, 1 client, 1 file, 2 broadcasts, a pipe of 3, fairness | `TypeOK`, `EachOwnsItsNumber`, `TeardownEnds` | holds |

What the passing runs show, beyond their names:

* `ConsistentWhileWaiting` says that whatever else happens, removals of the right
  object, failed handshakes, reuse of addresses and descriptors, all five records
  agree while the loop sleeps. Only a removal that deletes the wrong object sets them
  apart; what follows from that is a finding: the object is still pointed to, its
  freed memory takes part in `mFdMax`, and its address may come back.
* `WakeupNotLost` holds because the pipe is never drained as much as because of
  the order in `send`: what is left in the pipe outlives every race.
* `RepeatsOnlyTorn` says that one race is the only one that repeats a message (a
  finding: TLC has its trace when `torn` is left out of the property): a swap between the copy and the installation of a `reserve`, or inside the
  shift of an `insert`. Two calls, short sends, queues left at reused addresses and
  broadcasts over a growing vector do not.
* `FlaggedIsSent` is about the message, not the bit: what is queued for a registered
  connection whose bit is set reaches its client (of the POSIX client: leaves the queue
  for `send`). It leaves out a bit that `FD_CLR` is about to clear. `QueuedIsSent`, which
  is what `ServerConnection.h:29` says, fails, because the bit and the queue are not
  changed together (`posix_lost_flag`). In the client `FD_ZERO` of line 119, where the
  loop starts, takes a bit away too (a finding).
* `NoCrossTalk` holds while nobody disconnects (`posix_serve`) and fails when
  somebody may (`posix_cross_talk`); the violation needs an address that is reused.

* `DisconnectTerminates` holds by two ways out: the loop returns when it sees the
  flag, or throws when `select` or `recv` meets the closed descriptor. Its `~>`
  starts at the poll of line 247, which a full send buffer may delay.
* `ServerGoneTerminates` includes a server that leaves during the handshake, whose
  failures the constructor ignores: the loop then sees the end itself.

* `OnceEach` and `JobsAccountedFor` hold because a promise refuses a second value,
  not because the pool takes care: a worker is good for one job. Any worker that
  finishes one comes back for the same future and ends the process, and
  `AcceptedIsRun` and `DestructorReturns` name that way out. What the pool gets right
  is the claim under the mutex: `FirstRoundSucceeds`.
* `NoneGoesDeaf` says that no completed receive is forgotten: the reset of line 249
  comes before the result is read, and the reset of line 353 when no receive is
  posted. It is about connections the callback does not answer; for the others
  line 57 breaks it (a finding: TLC has the trace when `Repliers` are not left out). A loop that is `Blocked` is excused:
  `win_stuck` shows it.
* `RegistryAgrees` speaks of the moments when no thread is inside `Connections`, and
  holds until an erase has moved the element of another thread's iterator: a shutdown
  that removes while the loop rotates, adds or removes otherwise leaves nothing behind.
* `EndIsNoticed` and `ReadyIsServed` hold although the result of a send covers the
  receive's: the count of a send is taken for data, the receive is posted again, and
  ends again at once. What hides it for good is the wait that hangs, and a signal that
  the routine of an answer took away (`Deaf`). `win_live` makes no calls from the other
  thread, and it is those that make the loop hang (`win_stuck`): its loop never does, and
  sends come from the callback only.
* `OnlyResetThrows` holds although the handle is copied before the wait: routines
  that run during the wait add connections and never remove them, and the array is
  taken again after each.
* `OnlyResetThrows` also excuses a wait for too many events, which does throw. The runs
  have room for all (`MaxHandles` 3 for two clients and the listener), so that both
  clients can be listed together and `TooMany` never holds in them.
* `ReadyIsServed` fails without the rotation; a client may be signalled again and
  again, and the rotation is what gives the other its turn.

* `BufferOutlivesSend` holds although one signal may stand for several completed
  sends and although the send after next may reuse the event: at most one buffer is
  freed per signal, and the sends of one connection are done in order. What goes wrong
  instead is that buffers are left over (a finding).
* `ReceivedIsHeard` and `DisconnectTerminates` are about the reset of line 245, which
  comes after the result was read: it must reset that event only, and a disconnect
  clears the flag before it sets the event, so that a reset which swallows the signal
  is followed by a test of the flag.
* `EachOwnsItsNumber` holds for the double disconnect because of a flag
  (`IsConnected`), and for removals of the wrong connection because what is closed is
  some connection's own number, as long as no object is deleted twice. The double close
  of the listening number, and of a deleted connection's, is what `astray` excuses;
  with the conjunct left out TLC finds the file that is opened at the freed number and
  closed by `~Server`.
* `TeardownEnds` is about the pipe nobody empties: each of the two shutdowns writes a
  byte to it, after what the calls have left there. A pipe that is full blocks it for
  ever (a finding). That the server's loop returns is assumed here (`ServerReturns`); it
  is `ShutdownTerminates` of `PosixServer`, which holds with no `Silent` client.

`posix_serve` and `posix_churn` share the state space between them on purpose:
calls against calls with stable clients, and disconnects against one call.
Together they take every action of the model.

### Bounds and why they are enough

Two peers, addresses and descriptors: the smallest number with a connection that
fails beside one that does not, with a vector whose last element is not the one
removed, and with an address and a descriptor reused while somebody still holds
the old one. `MaxCalls` is 2 where queue order and duplication matter, 1 where
disconnection does. `MaxData` 1 lets data follow the identifier, in the same
`recv` too (`RecvMax` 2). `PipeCap` covers the
calls of the instance and the shutdown, so that no call blocks and hides what
comes after it: that a full pipe blocks the caller for ever is a finding, not a
behaviour the other properties are about. Two application threads are not modelled: `Send`
and `Broadcast` of two threads would race on the same fields as the loop does.
Addresses are interchangeable and no liveness is checked in `posix_churn`, so
it uses symmetry over them; descriptors are ordered and are not symmetric.

For the client, two sends are the smallest number with one queued while the other
is under way; two replies with `RecvMax` 1 leave one behind in the stream; a pipe
of three bytes covers both sends and the disconnect, for the same reason as
above. `Narrow` lets the send buffer take part of a batch.

For the pool, two workers and three jobs are the smallest numbers with a worker
that is reached twice; two callers let claims and hand-overs cross. For the Windows
server, two clients are one that hides the other in the array and one that is
removed while the other is handled; a call and a shutdown then meet every step of
removal, rotation and addition. The liveness properties are checked on a smaller
instance, with what can break them: a client beside another, one that leaves and has a
send on its `OVERLAPPED`, and the removals of the shutdown. With calls of the other
thread instead of the answer they hold too, on two instances that are not among the
runs: `ReadyIsServed` with two clients that stay and `MaxCalls` 1, all three with
one client that leaves and `MaxCalls` 2. All of that at once exceeds what TLC checks
for liveness in minutes. `Leavers` has one client in the runs; the proofs cover all,
and so they do for any number of answers and calls.

For the Windows client, three sends are the smallest number with one queued, one under
way and one whose signal is merged with another's; two replies let one arrive after
the only receive. For the facades, six descriptors are the server's three and a
client's three, or two connections and a file beside the server's: the numbers run out
and are reused in every combination of kinds. Two listed connections are one that fails
and one that is deleted in its place; two broadcasts and a pipe of three make a
teardown that has room and one that has not. `posix_lost_flag`,
`posix_cross_talk` and `win_stuck` have the least that shows the trace.

### Fairness

Server: `WF(LoopStep \/ Crash)` and `WF(AppStep)`: both threads are scheduled and a call
under way goes on unless it blocks. `WF(Identify(p))`: a client of this library
answers the acknowledgement (`Client.cpp:67-71`). No fairness on calls, connects,
data or closing: nobody has to do those. `select` and a slow peer get no fairness
of their own: `posix_live` has no slow peer, since nothing in the code bounds how
long a peer's window stays full. With a `Silent` peer none of the three liveness
properties holds, since `ServerConnection.cpp:51` polls without a timeout on the
loop's thread.

Client: `WF(LoopStep \/ Crash)`, `WF(AppStep)`, for the same reason, and
`WF(ServerAccepts)`, `WF(ServerReads)`: the library's server acknowledges as soon as
it has accepted (`ServerConnection.cpp:41`) and receives in its loop, so a full
send buffer is drained. Replies, the server's end and calls get none.

Pool: `WF` of each worker's thread, of a call of `addWork` under way, of the owner's
constructor and destructor, and of `Crash`: an exception nobody catches does end
the process. Nobody has to call `addWork` or destroy the pool.

Windows server: `WF(LoopStep \/ Crash)`, `WF(AppStep)`, and `WF(Completion(p))`:
Winsock completes the accepts and receives that can be completed. Which of an event and
a routine the wait takes is left open where it can be. Connecting, sending and leaving
get none, and neither do the server's own sends (`SendCompletes`): with `SO_SNDBUF` 0 a
send is done when the peer has taken it, and nobody has to read.

Windows client: `WF(LoopStep \/ Crash)`, `WF(AppStep)`, `WF(Completion)`, as for the
server. Calls, replies and the server's end get none.

Facades: `WF(TearDown)`, a destructor goes on unless the pipe blocks it, and
`WF(ServerReturns)`: a server that was shut down returns, which is
`ShutdownTerminates` of `PosixServer`. Everything else is free to happen or not.

## 4. Proofs

### Server

`PosixServerProofs` proves, for every value of the constants that the
assumptions `RegistryAssumption` and `ServerAssumption` allow:

* `TypeCorrect`: `Spec => []TypeOK`
* `MappingIsSound`: `Spec => []MappingSound`
* `DescriptorsAreOwned`: `Spec => []LiveConnectionOwnsFd`
* `NoWakeupIsLost`: `Spec => []WakeupNotLost`

from `Inductive`: `Spec => []IInv`, where

    IInv == RegistrySound /\ ServerTypeOK /\ Construction

`RegistrySound` (types, `MappingSound`, `LiveConnectionOwnsFd`) is what each
operation of the registry preserves; `PosixConnectionsProofs` shows that one
operation at a time, without the server. It is not inductive for the server
alone. The constructor rewrites `mIdentifier` of the object it is building, which
keeps `MappingSound` only if no identifier leads to that object yet; adding an
object keeps it only if the object is live; both are `Construction`, with what
the application's thread knows of the address it works on. The two halves of
`RegistrySound` need each other: a removal deletes an object that may be the wrong
one, and the erased identifier is that object's own (`MappingSound`), and the
descriptor it closes is used by no other live object (`LiveConnectionOwnsFd`).

The argument for the vector is lemma `RemovalKeepsVector`: whatever `remove_if`
left behind, the new vector only holds addresses. Each action has a lemma;
`LoopFrame` and `AppFrame` say what is left to show for a step that changes one
thread's part only.

`IInv` was checked as an invariant of the churn instance before it was proved.

`WakeupNotLost` speaks of a loop that waits; what is inductive is
`NothingLeftBehind`, the same from line 93 on, before `select` is entered, and only
while the pipe is empty: a call that leaves work behind ends in `performWakeup`, and
no step takes a byte out. The step that matters is the one that copies
`mMasterWrite`, after which every later change comes with a byte.

### Sessions with the server's clients

`PosixSessionProofs` builds on that, in layers. Each is an invariant TLC checked on
the churn and the serve instances before it was proved.

* `AcknowledgedFirst`: `Spec => []AckFirst`, from `Sessions`. A connection in the
  backlog belongs to a client that nothing has reached and no descriptor leads to; no
  two descriptors lead to one client; a client says nothing before it is greeted; a
  live connection has been acknowledged and, past its constructor, has identified
  itself. Then the acknowledgement is written to an empty stream, and what a flush
  writes comes from the queue of a connection that is past its greeting, also when the
  pointer or the descriptor had been another's.
* `RecordsAgree`: `ASSUME DistinctNames PROVE Spec => []ConsistentWhileWaiting`, from
  `SessionInv`. `Identities` says that what a client says first starts with its name,
  which is then its connection's identifier. `Records` says, while no object is lost,
  that the vector has every connection once and what the read set, the bound and the
  map hold, and how far the application's knowledge is ahead of them between a
  callback and the change of the registry. The hard step is `Remove`
  (`RemoveRecords`): with the failed connection last in the vector the right object
  goes and all records lose the same entry; with any other an object is lost
  (`WrongRemovalLoses`), and nothing is claimed after.
* `ProtocolUntilLoss`: `ASSUME DistinctNames PROVE Spec => ProtocolWhileWhole`, the
  refinement of `CallbackContract` step by step (`CallbackStep`).
* `ProtocolWhenAllStay`: `ASSUME DistinctNames, Closers = {} PROVE Spec =>
  CallbackProtocol`. `AllStay` shows that nothing is removed when nobody closes: what
  `select` reported leads to a client with something to say (`Heard`), so no receive
  fails and no object is lost.
* `NobodyElseHears` and `NobodyHearsTwice`: under the same two assumptions
  `Spec => []NoCrossTalk` and `Spec => []RepeatsOnlyTorn`, from `Deliveries`: what is
  queued for a client, copied by a reserve or has reached it was meant for it
  (`Addressed`) and, until something is torn, is in one place only (`InOnePlace`); and `CallInOrder`, which relates a call under way to
  both. A send has found the connection of the client it names, and its number is
  nowhere yet. A broadcast's number is only with the clients it has passed, although
  the loop appends to the vector below its iterator.

`DistinctNames` (no two clients use one identifier) is what a deployment has to see
to: the server does not ask, and with two clients of one name the map has one entry
for two connections. `Closers = {}` is needed: `posix_cross_talk` violates
`NoCrossTalk` with one client that closes; with a third client that gets the address of
the object wrongly deleted, it is listed twice and a broadcast reaches it twice.
`AckFirst` needs neither.

### Client

`PosixClientProofs` proves, under `ClientAssumption` only:

* `TypeCorrect`: `Spec => []TypeOK`
* `RepliesAreInOrder`: `Spec => []RepliesInOrder`
* `NoWakeupIsLost`: `Spec => []WakeupNotLost`
* `MessagesReachOnce`: `Spec => []RepeatsOnlyTorn`

from `IInv == TypeOK /\ Handshake /\ RepliesInOrder`. `RepliesInOrder` alone is not
inductive: one blocking `recv` of the constructor takes the acknowledgement out of
the same stream, so the server must not have replied before the identifier was
sent, and the loop must not have received; that is `Handshake`. The rest is that
what `recv` returns and what it leaves make up what was there (`TakenAndRest`).
`NothingLeftBehind` plays the same part as in the server. `RepeatsOnlyTorn` needs
`OnePlace`, which holds until something is torn: the numbers in the queue and those that
were sent have none in common, and the call under way has one that neither has; a flush
moves the first numbers of the queue and forgets the others. Between the two steps of a
reserve the copy is the queue.

### Worker pool

`WorkerPoolProofs` proves, under `PoolAssumption` only:

* `TypeCorrect`: `Spec => []TypeOK`
* `FirstRound`: `Spec => []FirstRoundSucceeds`
* `NothingOverwritten`: `Spec => []JobsAccountedFor`
* `Implements`: `Spec => OnceEach`, that is, `Spec` implements `JobPool`

from `IInv == TypeOK /\ Claims /\ JobsAccountedFor /\ FirstRoundSucceeds /\ Runs`.
`Claims` says who holds which of the jobs claimed so far: while there are at most
`NbWorkers` of them, job `j` goes to worker `j - 1`, so no two meet at a promise,
however the hand-overs are ordered; jobs being handed over are distinct and neither
accepted nor refused. `Runs` says that a job whose promise has not given its future has
not been run, and neither has one that a thread is waiting for or about to run; it
makes the step that runs a job a step of `JobPool`.

### Windows server

`WinServerProofs` proves, under `WinAssumption` only:

* `TypeCorrect`: `Spec => []TypeOK`
* `RegistryIsSound`: `Spec => []RegistryAgrees`
* `NobodyGoesDeaf`: `Spec => []NoneGoesDeaf`
* `ThrowsOnlyOnReset`: `Spec => []OnlyResetThrows`

from `IInv`, the conjunction of `TypeOK`, `NoneGoesDeaf` and

* `Tracked`, the form of `RegistryAgrees` that holds between any two steps inside
  `Connections`, until something is torn: a name is in the map exactly if the container
  holds it, or the rotation has it in hand, and no removal is taking it out, or it is
  being added; a removal's iterator is within the container, and past its `delete`
  points at what was deleted. `RegistryAgrees` is what is left when no thread is inside;
* `Placed`, torn or not: the container has no duplicates, what the rotation has in hand
  is not in it, and the loop returns from a removal before it goes on;
* `Joins`: the routine that adds a connection exists once per peer, and only
  while that peer is not in the registry, which keeps the container without
  duplicates;
* `AtHandle`, `InCall`: what the loop and the call are at exists;
* `Intact`, from which `OnlyResetThrows` follows: without a shutdown or a reset nothing is
  torn, the other thread removes nothing, every handle the loop has copied still names a
  listed connection, and it has thrown only if there were too many. It is inductive
  because only those two lead to a removal while the loop holds handles, apart from the
  removal of the connection at hand;
* `Sources`: only what was sent to a replier comes back as a routine, so line 57 resets
  no other event, and only a reset or the close of the socket fails what was started.

The step that matters is `Erase`: an iterator is a position, and the erase leaves the
other thread's at the same position of a shorter vector. It is harmless exactly if that
thread has no removal under way; with one, `torn` holds from then on and nothing but
`Placed` is claimed.

### Windows client

`WinClientProofs` proves, under `ClientAssumption` only:

* `TypeCorrect`: `Spec => []TypeOK`
* `BuffersOutliveSends`: `Spec => []BufferOutlivesSend`

from `IInv == TypeOK /\ AtWork /\ (~spoiled => InOrder /\ FrontIsOver /\
BufferOutlivesSend)`. `InOrder` says that the queue and the sends under way are in the
order of the calls. `FrontIsOver` is the strengthening: a signal that was not yet
acted on stands for a buffer at the front of the queue whose send is over. It is
preserved because a send that completes is the oldest under way, because a send done
at once was preceded by all others, and because a signal is reset before the loop
acts on the next.

### Facades

`FacadesProofs` proves, under `FacadeAssumption`:

* `TypeCorrect`: `Spec => []TypeOK`
* `NumbersAreOwned`: `Spec => []EachOwnsItsNumber`

from `IInv == TypeOK /\ EachOwnsItsNumber /\ ConnectingOwns`, where `ConnectingOwns`
says that a client's socket is its own before its flag says so. Both hold until
`astray`: a number that is closed a second time is either still free, and then nothing
changes (`CloseFree`), or names something by now, and then the close is astray. What
holds without that disjunct is `Owned`; `OwnedStep` shows that a step that ends with
nothing astray preserves it, and `AstrayStays` is the other half. Lemma `OtherKinds`
carries most steps: what changes numbers of one kind leaves everyone else's where they
are. In `RemoveKeeps` the number closed is the deleted object's, which is a live
connection's own, or a deleted one's that is free.

### Only model-checked

Every invariant and action property the passing runs check is stated by a theorem,
some under the assumptions given above. The liveness properties are not: fairness and
`ENABLED` are out of the prover's reach. They are `ShutdownTerminates`, `FlaggedIsSent`
and `ConnectIsAnnounced` of the server; `DisconnectTerminates`, `ServerGoneTerminates`
and `FlaggedIsSent` of the client; `AcceptedIsRun` and `DestructorReturns` of the pool;
`ReadyIsServed`, `ShutdownTerminates` and `EndIsNoticed` of the Windows server;
`DisconnectTerminates` and `ReceivedIsHeard` of the Windows client; `TeardownEnds` of
the facades.

## 5. Not modelled

* Calls before `waitForEvents` has created `mConnections` (an uninitialised
  pointer), and a second `waitForEvents`, which replaces it.
* Failures of `socket`, `bind`, `listen`, `pipe` in the constructor.
* Calls of `send`, `sendDataToServer` or `disconnect` from inside a callback.
* More than one application thread.
* The count given to the client's `sendComplete`: line 196 passes the size of the
  batch whatever `send` returned.
* What `ConnectionInformationReceivedFromClient` would do beyond adding the connection;
  `ClientDataReady`, which nothing passes to Winsock.
* The name a completion is reported to on Windows (a finding, by reading).
* Two threads that call the Windows server, and calls that overlap the
  destructor.
* Failures of `WSAStartup`, `getaddrinfo` and of creating events in the Windows client,
  and the count it gives to `sendComplete`.
* The facades over the Windows objects.
* The interfaces (`*/interface/`) and the HTTP objects (`src/objects/`): they hold a
  callback or a string and change no state after construction.
* Build files, and `src/thirdparty/gtest-1.6.0`: a vendored test framework of about
  33,000 lines, nearly nine tenths of the repository's code. It is no part of the
  library and none of its behaviour matters to it. The library itself has
  about 4,000 lines, headers included; those that keep state and change
  it are in the modules above.
* Everything else that `PROJECT.json` marks `not_modelled`.

What the code's comments suggest of a POSIX server that is shut down between the test
of the flag and `select` fails, and no run of its own checks it: it throws out of
`waitForEvents`. It is a finding in `PROJECT.json`, with the steps of the module that
show it.

## 6. Plan

Entries 1 to 8 are done.

1. `PosixConnections`, `PosixServer`, `CallbackContract`, and their runs.
2. `PosixConnectionsProofs`, `PosixServerProofs`: types, mapping, descriptors,
   wakeups.
3. `PosixClient` and `PosixClientProofs`.
4. `WorkerPool`, `JobPool` and `WorkerPoolProofs`.
5. `WinServer`, with the registry in it, and `WinServerProofs`.
6. `WinClient` and `WinClientProofs`: send buffers against completion events.
7. `Facades` and `FacadesProofs`: the order of shutdown, join and delete, and
   descriptors that are reused.
8. `PosixSessionProofs`: `AckFirst`, `ConsistentWhileWaiting`, the callbacks'
   protocol, `NoCrossTalk` and `RepeatsOnlyTorn` of the server; `RepeatsOnlyTorn` of the
   client.
9. Calls from inside callbacks; `PosixServer`'s peers replaced by `PosixClient`.
