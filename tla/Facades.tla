------------------------------ MODULE Facades ------------------------------
(***************************************************************************)
(* One process that uses the library through its facades, as the test     *)
(* does: a Server and any number of Clients, each with a thread in its     *)
(* waitForEvents, made and destroyed by one application thread.  What they *)
(* share is the process's table of descriptors, whose numbers are used     *)
(* again as soon as they are closed.  The platform objects behind the      *)
(* facades (POSIX) appear by the descriptors they open and close, and by   *)
(* when their loops may end; PosixServer and PosixClient are their         *)
(* detailed models.                                                        *)
(***************************************************************************)
EXTENDS Integers, FiniteSets

CONSTANTS Fd,        \* the descriptor numbers the process may have
          Client,    \* the client facades
          MaxCalls,  \* bound: calls of broadcast
          MaxFiles,  \* bound: what else the application has open at once
          MaxListed, \* bound: entries of mContainer when a client is accepted
          PipeCap    \* bytes the server's wakeup pipe holds

\* Who a descriptor belongs to, besides a client.
Kinds == {"free", "listen", "pipe", "connection", "file"}

ASSUME FacadeAssumption ==
  /\ Fd \subseteq Nat /\ Fd # {}
  /\ Client \cap Kinds = {}
  /\ MaxCalls \in Nat /\ MaxFiles \in Nat /\ MaxListed \in Nat /\ PipeCap \in Nat

VARIABLES status,     \* "up", or "terminated": the process died
          table,      \* the kernel's table: who opened each descriptor
          stage,      \* how far the server facade has come
          serving,    \* its thread: "idle", "running" or "returned"
          listen,     \* the number in mConnectSocket
          listed,     \* what mContainer points to: the number in each object, and
                      \* whether the object is alive
          watched,    \* mRead, without the server's own two
          astray,     \* history: a number was closed for the second time, when it
                      \* was somebody else's
          pipe,       \* bytes in the server's wakeup pipe
          calls,      \* broadcasts so far
          client,     \* per client: how far its facade and its thread have come
          files       \* the numbers of what else the application has opened

connections == <<listed, watched, astray>>
serverVars == <<stage, serving, listen, connections, pipe, calls>>
vars == <<status, table, serverVars, client, files>>

Stage == {"new", "up", "flagged", "closed", "down", "joined", "reclosed", "gone"}

TypeOK ==
  /\ status \in {"up", "terminated"}
  /\ table \in [Fd -> Kinds \cup Client]
  /\ stage \in Stage
  /\ serving \in {"idle", "running", "returned"}
  /\ listen \in Fd /\ watched \subseteq Fd /\ files \subseteq Fd
  /\ listed \subseteq [fd : Fd, live : BOOLEAN] /\ astray \in BOOLEAN
  /\ pipe \in 0..PipeCap /\ calls \in 0..MaxCalls
  /\ client \in [Client -> [at : {"new", "connecting", "up", "left", "gone"},
                            thread : {"idle", "running", "returned"},
                            mConnected : BOOLEAN, mSocket : Fd]]

Free == {f \in Fd : table[f] = "free"}

\* socket(2), accept(2) and pipe(2) return the lowest numbers that are free.
Lowest(n) == {f \in Free : Cardinality({g \in Free : g < f}) < n}
Open(n, owner) == [f \in Fd |-> IF f \in Lowest(n) THEN owner ELSE table[f]]
Closed(f) == [table EXCEPT ![f] = "free"]

\* Whatever an object that is not made yet would name.
NoFd == CHOOSE f \in Fd : TRUE

Init ==
  /\ status = "up"
  /\ table = [f \in Fd |-> "free"]
  /\ stage = "new" /\ serving = "idle"
  /\ listen = NoFd /\ listed = {} /\ watched = {} /\ files = {}
  /\ astray = FALSE
  /\ pipe = 0 /\ calls = 0
  /\ client = [c \in Client |-> [at |-> "new", thread |-> "idle",
                                 mConnected |-> FALSE, mSocket |-> NoFd]]

-----------------------------------------------------------------------------
(* The application's thread *)

\* Server::Server down to posix::Server, and its thread.
StartServer ==
  /\ status = "up" /\ stage = "new" /\ Cardinality(Free) >= 3
  /\ \E f \in Lowest(1) : /\ listen' = f
                         /\ table' = [Open(3, "pipe") EXCEPT ![f] = "listen"]
  /\ stage' = "up" /\ serving' = "running"
  /\ UNCHANGED <<status, connections, pipe, calls, client, files>>

\* performWakeup polls the pipe, and waits while it is full, before it writes to it.
TwoBytes == 2
Byte == 1
NeverFull == TRUE
HasRoom == pipe + Byte <= PipeCap

\* broadcast, of which the wakeup matters here.
Broadcast ==
  /\ status = "up" /\ stage = "up" /\ calls < MaxCalls /\ HasRoom
  /\ calls' = calls + 1 /\ pipe' = pipe + Byte
  /\ UNCHANGED <<status, table, stage, serving, listen, connections, client, files>>

\* The first shutdown sets the flag; so does the second, which finds it set.
Shutdown ==
  /\ status = "up" /\ stage = "up"
  /\ stage' = "flagged"
  /\ UNCHANGED <<status, table, serving, listen, connections, pipe, calls, client, files>>

\* posix::Server::shutdown closes the number it knows, each time it is called:
\* from ~ServerThread, and again from ~Server once the thread is joined.  By then the
\* number may have been given out again.
Closing == [flagged |-> "closed", joined |-> "reclosed"]
CloseListen ==
  /\ status = "up" /\ stage \in DOMAIN Closing
  /\ table' = Closed(listen)
  /\ stage' = Closing[stage]
  /\ astray' = (astray \/ (stage = "joined" /\ table[listen] # "free"))
  /\ UNCHANGED <<status, serving, listen, listed, watched, pipe, calls, client, files>>

\* performWakeup; after the second one ~Server deletes the wrapper and the callback,
\* never the platform's server, so its pipe and connections stay open.
Waking == [closed |-> "down", reclosed |-> "gone"]
Wakeup ==
  /\ status = "up" /\ stage \in DOMAIN Waking /\ HasRoom
  /\ pipe' = pipe + Byte
  /\ stage' = Waking[stage]
  /\ UNCHANGED <<status, table, serving, listen, connections, calls, client, files>>

JoinServer ==
  /\ status = "up" /\ stage = "down" /\ serving = "returned"
  /\ stage' = "joined"
  /\ UNCHANGED <<status, table, serving, listen, connections, pipe, calls, client, files>>

\* What is the same for one client after another.
ClientKeeps == <<status, serverVars, files>>

\* posix::Client::Client opens a socket and connects.
Connect(c) ==
  /\ status = "up" /\ client[c].at = "new"
  /\ table' = Open(1, c)
  /\ \E f \in Lowest(1) :
       client' = [client EXCEPT ![c].at = "connecting", ![c].mSocket = f]
  /\ UNCHANGED ClientKeeps

\* It is connected, opens its pipe, and its thread starts.
Connected(c) ==
  /\ status = "up" /\ client[c].at = "connecting"
  /\ Cardinality(Free) >= 2
  /\ table' = Open(2, "pipe")
  /\ client' = [client EXCEPT ![c].at = "up", ![c].thread = "running",
                              ![c].mConnected = TRUE]
  /\ UNCHANGED ClientKeeps

\* The constructor throws and the socket stays open; no destructor follows.
ConnectFails(c) ==
  /\ status = "up" /\ client[c].at = "connecting"
  /\ client' = [client EXCEPT ![c].at = "gone"]
  /\ UNCHANGED <<ClientKeeps, table>>

\* disconnect closes the socket unless mConnected says that there is none: called
\* from ~ClientThread, and again from ~Client once the thread is joined.
Always(c) == TRUE
IsConnected(c) == client[c].mConnected
ClosedBy(c) == IF IsConnected(c) THEN Closed(client[c].mSocket) ELSE table
Disconnect(c) ==
  /\ status = "up" /\ client[c].at = "up"
  /\ table' = ClosedBy(c)
  /\ client' = [client EXCEPT ![c].at = "left", ![c].mConnected = FALSE]
  /\ UNCHANGED ClientKeeps

DeleteClient(c) ==
  /\ status = "up" /\ client[c].at = "left" /\ client[c].thread = "returned"
  /\ table' = ClosedBy(c)
  /\ client' = [client EXCEPT ![c].at = "gone", ![c].mConnected = FALSE]
  /\ UNCHANGED ClientKeeps

\* The rest of the application.
OpenFile ==
  /\ status = "up" /\ Cardinality(files) < MaxFiles
  /\ table' = Open(1, "file")
  /\ \E f \in Lowest(1) : files' = files \cup {f}
  /\ UNCHANGED <<status, serverVars, client>>

CloseFile ==
  /\ status = "up"
  /\ \E f \in files : table' = Closed(f) /\ files' = files \ {f}
  /\ UNCHANGED <<status, serverVars, client>>

-----------------------------------------------------------------------------
(* The threads in waitForEvents *)

\* A client is accepted, and registered unless its handshake fails, which leaves
\* the descriptor open.
Accept ==
  /\ status = "up" /\ serving = "running"
  /\ table[listen] = "listen" /\ Cardinality(listed) < MaxListed
  /\ table' = Open(1, "connection")
  /\ \/ \E f \in Lowest(1) : /\ listed' = listed \cup {[fd |-> f, live |-> TRUE]}
                            /\ watched' = watched \cup {f}
     \/ UNCHANGED <<listed, watched>>
  /\ UNCHANGED <<status, stage, serving, listen, astray, pipe, calls, client, files>>

\* What find_if and remove_if take for the connection of a number; a pointer to a
\* deleted object may still read as it.
Named(f) == {e \in listed : e.fd = f}
Stale == {e \in listed : ~e.live}

\* The pointers to an object that is deleted stay, if anything still lists it.
Buried(e, list) == IF e \in list THEN (list \ {e}) \cup {[e EXCEPT !.live = FALSE]}
                                ELSE list

\* recv fails on a descriptor that is watched, and removeServerConnection takes every
\* entry of that number out of the vector, but deletes and erases what remove_if has
\* left behind the new end: any entry, since the order of the vector is kept in
\* PosixServer only.  The failed connection's own descriptor then stays open, and the
\* deleted one stays listed and watched.  A stale entry is deleted again, which closes
\* the number it holds, or the object that has its memory now.  If more than one entry
\* reads as f, which takes a stale one, others are left behind the new end.
Deleted(e) == IF e.live THEN {e} ELSE {e} \cup (listed \ Stale)
Remove ==
  /\ status = "up" /\ serving = "running"
  /\ \E f \in watched, victim \in listed :
       /\ Named(f) # {} /\ table[f] # "free"
       /\ \E gone \in Deleted(victim), left \in SUBSET (listed \ {victim}) :
            /\ Cardinality(left) <= Cardinality(Stale)
            /\ table' = Closed(gone.fd)
            /\ listed' = Buried(gone, (listed \ Named(f)) \cup left)
            /\ astray' = (astray \/ (~gone.live /\ table[gone.fd] # "free"))
       /\ watched' = watched \ {f}
  /\ UNCHANGED <<status, stage, serving, listen, pipe, calls, client, files>>

ServerReturns ==
  /\ status = "up" /\ serving = "running" /\ stage \notin {"new", "up"}
  /\ serving' = "returned"
  /\ UNCHANGED <<status, table, stage, listen, connections, pipe, calls, client, files>>

\* The client's loop sees the end of the connection, and clears the flag; the
\* socket stays open.
ServerLeft(c) ==
  /\ status = "up" /\ client[c].thread = "running" /\ client[c].mConnected
  /\ client' = [client EXCEPT ![c].mConnected = FALSE]
  /\ UNCHANGED <<ClientKeeps, table>>

ClientReturns(c) ==
  /\ status = "up" /\ client[c].thread = "running" /\ ~client[c].mConnected
  /\ client' = [client EXCEPT ![c].thread = "returned"]
  /\ UNCHANGED <<ClientKeeps, table>>

\* waitForEvents is the whole of its thread: what it throws ends the process.
Throws ==
  /\ status = "up"
  /\ serving = "running" \/ \E c \in Client : client[c].thread = "running"
  /\ status' = "terminated"
  /\ UNCHANGED <<table, serverVars, client, files>>

-----------------------------------------------------------------------------

TearDown == CloseListen \/ Wakeup \/ JoinServer
ClientStep(c) == \/ Connect(c) \/ Connected(c) \/ ConnectFails(c) \/ Disconnect(c)
                 \/ DeleteClient(c) \/ ServerLeft(c) \/ ClientReturns(c)

Next == \/ StartServer \/ Broadcast \/ Shutdown \/ TearDown
        \/ \E c \in Client : ClientStep(c)
        \/ OpenFile \/ CloseFile
        \/ Accept \/ Remove \/ ServerReturns \/ Throws

\* A destructor goes on, and a flagged server's loop returns (ShutdownTerminates of
\* PosixServer).
Spec == Init /\ [][Next]_vars /\ WF_vars(TearDown) /\ WF_vars(ServerReturns)

-----------------------------------------------------------------------------
(* Properties *)

\* Whoever still uses a number finds its own descriptor there, although numbers are
\* given out again at once, removal may delete another connection than the one that
\* failed, and every shutdown and disconnect is done twice: only the deletion of what
\* was deleted before, and the second close of the server's socket, can take a number
\* from its owner (server/Server.cpp:107-114, posix/Connections.cpp:33-48,
\* posix/Server.cpp:284-288, posix/Client.cpp:240-258).
EachOwnsItsNumber ==
  astray \/ /\ stage \in {"up", "flagged"} => table[listen] = "listen"
            /\ \A e \in listed : e.live => table[e.fd] = "connection"
            /\ \A c \in Client : client[c].mConnected => table[client[c].mSocket] = c
            /\ \A f \in files : table[f] = "file"

\* A teardown ends if the pipe, which nobody empties, has room for the wakeups of
\* both shutdowns (server/Server.cpp:107-114, posix/Server.cpp:184-192).
TeardownEnds ==
  stage = "flagged" /\ pipe + 2 <= PipeCap ~> stage = "gone" \/ status = "terminated"
=============================================================================
