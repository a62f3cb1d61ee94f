--------------------------- MODULE FacadesProofs ---------------------------
(***************************************************************************)
(* Proofs about Facades: every holder of a descriptor number owns what the *)
(* number names, for every set of descriptors, every number of clients and *)
(* every size of the pipe, until a number is closed a second time that has *)
(* been given out again.                                                   *)
(*                                                                         *)
(* EachOwnsItsNumber is not inductive: a client's flag is set only some    *)
(* time after its socket was opened.                                       *)
(***************************************************************************)
EXTENDS Facades, TLAPS

\* A client owns its socket before it knows that it is connected.
ConnectingOwns == astray \/ \A c \in Client :
  client[c].at = "connecting" => table[client[c].mSocket] = c

IInv == TypeOK /\ EachOwnsItsNumber /\ ConnectingOwns

USE FacadeAssumption

-----------------------------------------------------------------------------
(* The table *)

\* What is opened was free, and nothing else changes (socket, accept, pipe).
LEMMA OpenLeaves ==
  ASSUME NEW n \in Nat, NEW owner, NEW g \in Fd, table[g] # "free"
  PROVE  Open(n, owner)[g] = table[g]
BY DEF Open, Lowest, Free

LEMMA OpenTypes ==
  ASSUME TypeOK, NEW n \in Nat, NEW owner \in Kinds \cup Client
  PROVE  Open(n, owner) \in [Fd -> Kinds \cup Client]
BY DEF Open, Lowest, Free, TypeOK

\* The number that is handed out names what was opened.
LEMMA OpenGives ==
  ASSUME NEW n \in Nat, NEW owner, NEW f \in Lowest(n)
  PROVE  f \in Fd /\ table[f] = "free" /\ Open(n, owner)[f] = owner
BY DEF Open, Lowest, Free

\* Closing a number that is free changes nothing.
LEMMA CloseFree ==
  ASSUME TypeOK, NEW f \in Fd, table[f] = "free"
  PROVE  Closed(f) = table
BY DEF Closed, TypeOK

-----------------------------------------------------------------------------
(* The types *)

\* What a step of a client does to the clients is of the right type.
LEMMA ClientTypes ==
  ASSUME TypeOK, NEW c \in Client, ClientStep(c)
  PROVE  client' \in [Client -> [at : {"new", "connecting", "up", "left", "gone"},
                            thread : {"idle", "running", "returned"},
                            mConnected : BOOLEAN, mSocket : Fd]]
<1>1. CASE Connect(c)
  <2>1. PICK f \in Lowest(1) :
          client' = [client EXCEPT ![c].at = "connecting", ![c].mSocket = f]
    BY <1>1 DEF Connect
  <2>2. f \in Fd
    BY DEF Lowest, Free
  <2>3. QED BY <2>1, <2>2 DEF TypeOK
<1>2. CASE Connected(c)
  <2> DEFINE Facade == [at : {"new", "connecting", "up", "left", "gone"},
                        thread : {"idle", "running", "returned"},
                        mConnected : BOOLEAN, mSocket : Fd]
             r == [client[c] EXCEPT !.at = "up", !.thread = "running",
                                    !.mConnected = TRUE]
  <2>1. client \in [Client -> Facade]
    BY DEF TypeOK
  <2>2. r \in Facade
    BY <2>1
  <2>3. client' = [client EXCEPT ![c] = r]
    BY <1>2, <2>1 DEF Connected
  <2> HIDE DEF Facade, r
  <2>4. client' \in [Client -> Facade]
    BY <2>1, <2>2, <2>3
  <2>5. QED BY <2>4 DEF Facade
<1>3. CASE ConnectFails(c)
  BY <1>3 DEF ConnectFails, TypeOK
<1>4. CASE Disconnect(c)
  BY <1>4 DEF Disconnect, TypeOK
<1>5. CASE DeleteClient(c)
  BY <1>5 DEF DeleteClient, TypeOK
<1>6. CASE ServerLeft(c)
  BY <1>6 DEF ServerLeft, TypeOK
<1>7. CASE ClientReturns(c)
  BY <1>7 DEF ClientReturns, TypeOK
<1>8. QED BY <1>1, <1>2, <1>3, <1>4, <1>5, <1>6, <1>7 DEF ClientStep

LEMMA ClientTableTypes ==
  ASSUME TypeOK, NEW c \in Client, ClientStep(c)
  PROVE  table' \in [Fd -> Kinds \cup Client]
<1>1. CASE Connect(c)
  BY <1>1, OpenTypes DEF Connect
<1>2. CASE Connected(c)
  BY <1>2, OpenTypes DEF Connected, Kinds
<1>3. CASE ConnectFails(c) \/ ServerLeft(c) \/ ClientReturns(c)
  BY <1>3 DEF ConnectFails, ServerLeft, ClientReturns, TypeOK
<1>4. CASE Disconnect(c) \/ DeleteClient(c)
  BY <1>4 DEF Disconnect, DeleteClient, ClosedBy, Closed, TypeOK, Kinds
<1>5. QED BY <1>1, <1>2, <1>3, <1>4 DEF ClientStep

LEMMA ClientTypeOK ==
  ASSUME TypeOK, NEW c \in Client, ClientStep(c)
  PROVE  TypeOK'
<1>1. UNCHANGED ClientKeeps
  BY DEF ClientStep, Connect, Connected, ConnectFails, Disconnect, DeleteClient,
         ServerLeft, ClientReturns
<1>2. QED BY <1>1, ClientTypes, ClientTableTypes
          DEF TypeOK, ClientKeeps, serverVars, connections

LEMMA TypeStep == TypeOK /\ [Next]_vars => TypeOK'
<1> SUFFICES ASSUME TypeOK, [Next]_vars PROVE TypeOK' OBVIOUS
<1>1. CASE StartServer
  <2>1. PICK f \in Lowest(1) : /\ listen' = f
                               /\ table' = [Open(3, "pipe") EXCEPT ![f] = "listen"]
    BY <1>1 DEF StartServer
  <2>2. f \in Fd
    BY DEF Lowest, Free
  <2>3. table' \in [Fd -> Kinds \cup Client]
    BY <2>1, OpenTypes DEF Kinds
  <2>4. QED BY <1>1, <2>1, <2>2, <2>3 DEF StartServer, TypeOK, Stage, connections
<1>2. CASE Broadcast
  BY <1>2 DEF Broadcast, HasRoom, Byte, TypeOK, connections
<1>3. CASE Shutdown
  BY <1>3 DEF Shutdown, TypeOK, Stage, connections
<1>4. CASE CloseListen
  BY <1>4 DEF CloseListen, Closing, Closed, TypeOK, Stage, Kinds
<1>5. CASE Wakeup
  BY <1>5 DEF Wakeup, Waking, HasRoom, Byte, TypeOK, Stage, connections
<1>6. CASE JoinServer
  BY <1>6 DEF JoinServer, TypeOK, Stage, connections
<1>7. ASSUME NEW c \in Client, ClientStep(c) PROVE TypeOK'
  BY <1>7, ClientTypeOK
<1>8. CASE OpenFile
  <2>1. table' \in [Fd -> Kinds \cup Client]
    BY <1>8, OpenTypes DEF OpenFile, Kinds
  <2>2. QED BY <1>8, <2>1 DEF OpenFile, TypeOK, serverVars, connections, Lowest, Free
<1>9. CASE CloseFile
  BY <1>9 DEF CloseFile, TypeOK, serverVars, connections, Closed, Kinds
<1>10. CASE Accept
  <2>1. table' \in [Fd -> Kinds \cup Client]
    BY <1>10, OpenTypes DEF Accept, Kinds
  <2>2. \A f \in Lowest(1) : f \in Fd /\ [fd |-> f, live |-> TRUE] \in [fd : Fd, live : BOOLEAN]
    BY DEF Lowest, Free
  <2>3. listed' \subseteq [fd : Fd, live : BOOLEAN] /\ watched' \subseteq Fd
    BY <1>10, <2>2 DEF Accept, TypeOK
  <2>4. QED BY <1>10, <2>1, <2>3 DEF Accept, TypeOK
<1>11. CASE Remove
  <2>1. PICK f \in watched, victim \in listed :
             \E gone \in Deleted(victim), left \in SUBSET (listed \ {victim}) :
               /\ table' = Closed(gone.fd)
               /\ listed' = Buried(gone, (listed \ Named(f)) \cup left)
               /\ astray' = (astray \/ (~gone.live /\ table[gone.fd] # "free"))
    BY <1>11 DEF Remove
  <2>2. PICK gone \in Deleted(victim), left \in SUBSET (listed \ {victim}) :
               /\ table' = Closed(gone.fd)
               /\ listed' = Buried(gone, (listed \ Named(f)) \cup left)
               /\ astray' = (astray \/ (~gone.live /\ table[gone.fd] # "free"))
    BY <2>1
  <2>3. gone \in [fd : Fd, live : BOOLEAN]
    BY DEF Deleted, TypeOK
  <2>4. listed' \subseteq [fd : Fd, live : BOOLEAN]
    <3> DEFINE Rest == (listed \ Named(f)) \cup left
    <3>1. Rest \subseteq [fd : Fd, live : BOOLEAN]
      BY DEF TypeOK
    <3>2. [gone EXCEPT !.live = FALSE] \in [fd : Fd, live : BOOLEAN]
      BY <2>3
    <3>3. listed' = Buried(gone, Rest)
      BY <2>2
    <3> HIDE DEF Rest
    <3>4. QED BY <3>1, <3>2, <3>3 DEF Buried
  <2>5. table' \in [Fd -> Kinds \cup Client] /\ astray' \in BOOLEAN
    BY <2>2, <2>3 DEF Closed, TypeOK, Kinds
  <2>6. watched' \subseteq Fd /\ UNCHANGED <<status, stage, serving, listen, pipe,
                                            calls, client, files>>
    BY <1>11 DEF Remove, TypeOK
  <2>7. QED BY <2>4, <2>5, <2>6 DEF TypeOK
<1>12. CASE ServerReturns
  BY <1>12 DEF ServerReturns, TypeOK, connections
<1>13. CASE Throws
  BY <1>13 DEF Throws, TypeOK, serverVars, connections
<1>14. CASE UNCHANGED vars
  BY <1>14 DEF vars, serverVars, connections, TypeOK
<1>15. QED BY <1>1, <1>2, <1>3, <1>4, <1>5, <1>6, <1>7, <1>8, <1>9, <1>10, <1>11,
              <1>12, <1>13, <1>14 DEF Next, TearDown

-----------------------------------------------------------------------------
(* The numbers *)

Numbers == EachOwnsItsNumber /\ ConnectingOwns

\* As long as nothing has gone astray.
Owned ==
  /\ stage \in {"up", "flagged"} => table[listen] = "listen"
  /\ \A e \in listed : e.live => table[e.fd] = "connection"
  /\ \A d \in Client : client[d].mConnected \/ client[d].at = "connecting"
                        => table[client[d].mSocket] = d
  /\ \A f \in files : table[f] = "file"

LEMMA NumbersIsOwned == Numbers <=> (astray \/ Owned)
BY DEF Numbers, EachOwnsItsNumber, ConnectingOwns, Owned

\* No client is taken for one of the kinds.
LEMMA ClientIsNoKind == \A c \in Client :
  c \notin {"free", "listen", "pipe", "connection", "file"}
BY DEF Kinds

\* A step that changes nothing but numbers of one kind leaves the others where their
\* holders look for them.
LEMMA OtherKinds ==
  ASSUME TypeOK, Owned, NEW kind,
         \A g \in Fd : table[g] # kind => table'[g] = table[g]
  PROVE  /\ kind # "listen" /\ stage \in {"up", "flagged"} => table'[listen] = "listen"
         /\ kind # "connection" =>
              \A e \in listed : e.live => table'[e.fd] = "connection"
         /\ \A d \in Client : kind # d =>
              (client[d].mConnected \/ client[d].at = "connecting"
               => table'[client[d].mSocket] = d)
         /\ kind # "file" => \A f \in files : table'[f] = "file"
<1>1. kind # "listen" /\ stage \in {"up", "flagged"} => table'[listen] = "listen"
  BY DEF Owned, TypeOK
<1>2. kind # "connection" => \A e \in listed : e.live => table'[e.fd] = "connection"
  <2>1. \A e \in listed : e.fd \in Fd
    BY DEF TypeOK
  <2>2. QED BY <2>1 DEF Owned
<1>3. ASSUME NEW d \in Client, kind # d,
             client[d].mConnected \/ client[d].at = "connecting"
      PROVE  table'[client[d].mSocket] = d
  <2>1. client[d].mSocket \in Fd
    BY DEF TypeOK
  <2>2. table[client[d].mSocket] = d
    BY <1>3 DEF Owned
  <2>3. QED BY <1>3, <2>1, <2>2
<1>4. kind # "file" => \A f \in files : table'[f] = "file"
  BY DEF Owned, TypeOK
<1>5. QED BY <1>1, <1>2, <1>3, <1>4

\* In particular a step that opens descriptors, since nobody holds a free number.
LEMMA OpenKeeps ==
  ASSUME TypeOK, Owned, \A g \in Fd : table[g] # "free" => table'[g] = table[g]
  PROVE  /\ stage \in {"up", "flagged"} => table'[listen] = "listen"
         /\ \A e \in listed : e.live => table'[e.fd] = "connection"
         /\ \A d \in Client :
              client[d].mConnected \/ client[d].at = "connecting"
              => table'[client[d].mSocket] = d
         /\ \A f \in files : table'[f] = "file"
<1>1. \A d \in Client : "free" # d
  BY ClientIsNoKind
<1>2. QED BY <1>1, OtherKinds

LEMMA Same ==
  ASSUME Owned, UNCHANGED <<table, stage, listen, listed, client, files>>
  PROVE  Owned'
BY DEF Owned

LEMMA ConnectKeeps ==
  ASSUME TypeOK, Owned, NEW c \in Client, Connect(c)
  PROVE  Owned'
<1>1. PICK f \in Lowest(1) :
        client' = [client EXCEPT ![c].at = "connecting", ![c].mSocket = f]
  BY DEF Connect
<1>2. /\ f \in Fd /\ table'[f] = c
      /\ \A g \in Fd : table[g] # "free" => table'[g] = table[g]
  BY OpenLeaves, OpenGives DEF Connect
<1>3. UNCHANGED <<stage, listen, listed, files>>
  BY DEF Connect, ClientKeeps, serverVars, connections
<1>4. client'[c].mSocket = f /\ \A d \in Client \ {c} : client'[d] = client[d]
  BY <1>1 DEF TypeOK
<1>5. \A d \in Client : client'[d].mConnected \/ client'[d].at = "connecting"
                          => table'[client'[d].mSocket] = d
  BY <1>2, <1>4, OpenKeeps
<1>6. QED BY <1>2, <1>3, <1>5, OpenKeeps DEF Owned

LEMMA ConnectedKeeps ==
  ASSUME TypeOK, Owned, NEW c \in Client, Connected(c)
  PROVE  Owned'
<1>1. \A g \in Fd : table[g] # "free" => table'[g] = table[g]
  BY OpenLeaves DEF Connected
<1>2. UNCHANGED <<stage, listen, listed, files>>
  BY DEF Connected, ClientKeeps, serverVars, connections
<1>3. /\ client'[c].mSocket = client[c].mSocket /\ client[c].at = "connecting"
      /\ client'[c].at = "up"
      /\ \A d \in Client \ {c} : client'[d] = client[d]
  BY DEF Connected, TypeOK
<1>4. \A d \in Client : client'[d].mConnected \/ client'[d].at = "connecting"
                          => table'[client'[d].mSocket] = d
  <2>1. client'[c].mConnected \/ client'[c].at = "connecting"
        => table'[client'[c].mSocket] = c
    BY <1>1, <1>3, OpenKeeps
  <2>2. QED BY <1>1, <1>3, <2>1, OpenKeeps
<1>5. QED BY <1>1, <1>2, <1>4, OpenKeeps DEF Owned

\* disconnect, called once or twice, takes nobody else's number: the flag guards it.
LEMMA DisconnectKeeps ==
  ASSUME TypeOK, Owned, NEW c \in Client, Disconnect(c) \/ DeleteClient(c)
  PROVE  Owned'
<1>1. /\ UNCHANGED <<stage, listen, listed, files>>
      /\ client'[c].mConnected = FALSE /\ client'[c].at \in {"left", "gone"}
      /\ \A d \in Client \ {c} : client'[d] = client[d]
  BY DEF Disconnect, DeleteClient, ClientKeeps, serverVars, connections, TypeOK
<1>2. \A g \in Fd : table[g] # c => table'[g] = table[g]
  BY DEF Disconnect, DeleteClient, ClosedBy, IsConnected, Closed, Owned, TypeOK
<1>3. ASSUME NEW d \in Client, client'[d].mConnected \/ client'[d].at = "connecting"
      PROVE  table'[client'[d].mSocket] = d
  <2>1. d # c
    BY <1>1, <1>3
  <2>2. client'[d] = client[d]
    BY <1>1, <2>1
  <2>3. QED BY <1>2, <1>3, <2>1, <2>2, OtherKinds
<1>4. QED BY <1>1, <1>2, <1>3, OtherKinds, ClientIsNoKind DEF Owned

\* A client's flag is cleared, its thread ends or its connect fails: nothing is opened
\* or closed.
LEMMA ClientForgets ==
  ASSUME TypeOK, Owned, NEW c \in Client,
         ConnectFails(c) \/ ServerLeft(c) \/ ClientReturns(c)
  PROVE  Owned'
<1>1. UNCHANGED <<table, stage, listen, listed, files>>
  BY DEF ConnectFails, ServerLeft, ClientReturns, ClientKeeps, serverVars, connections
<1>2. \A d \in Client : /\ client'[d].mSocket = client[d].mSocket
                        /\ client'[d].mConnected => client[d].mConnected
                        /\ client'[d].at = "connecting" => client[d].at = "connecting"
  BY DEF ConnectFails, ServerLeft, ClientReturns, TypeOK
<1>3. QED BY <1>1, <1>2 DEF Owned

\* Whichever connection a removal deletes, it closes that one's own number, or a number
\* nobody has, or something has gone astray.
LEMMA RemoveKeeps ==
  ASSUME TypeOK, Owned, Remove, ~astray'
  PROVE  Owned'
<1>1. PICK f \in watched, victim \in listed :
           \E gone \in Deleted(victim), left \in SUBSET (listed \ {victim}) :
             /\ table' = Closed(gone.fd)
             /\ listed' = Buried(gone, (listed \ Named(f)) \cup left)
             /\ astray' = (astray \/ (~gone.live /\ table[gone.fd] # "free"))
  BY DEF Remove
<1>2. PICK gone \in Deleted(victim), left \in SUBSET (listed \ {victim}) :
             /\ table' = Closed(gone.fd)
             /\ listed' = Buried(gone, (listed \ Named(f)) \cup left)
             /\ astray' = (astray \/ (~gone.live /\ table[gone.fd] # "free"))
  BY <1>1
<1>3. gone \in listed /\ gone \in [fd : Fd, live : BOOLEAN]
  BY DEF Deleted, TypeOK
<1>4. UNCHANGED <<stage, listen, client, files>>
  BY DEF Remove
<1>5. \A g \in Fd : table[g] # "connection" => table'[g] = table[g]
  <2>1. table[gone.fd] \in {"connection", "free"}
    BY <1>2, <1>3 DEF Owned
  <2>2. QED BY <1>2, <1>3, <2>1 DEF Closed, TypeOK
<1>6. \A e \in listed' : e.live => e \in listed /\ e # gone
  <2> DEFINE Rest == (listed \ Named(f)) \cup left
             Dead == [gone EXCEPT !.live = FALSE]
  <2>1. Rest \subseteq listed
    OBVIOUS
  <2>2. ~Dead.live
    BY <1>3
  <2>3. listed' = IF gone \in Rest THEN (Rest \ {gone}) \cup {Dead} ELSE Rest
    BY <1>2 DEF Buried
  <2> HIDE DEF Rest, Dead
  <2>4. QED BY <2>1, <2>2, <2>3
<1>7. \A e \in listed' : e.live => table'[e.fd] = "connection"
  <2> SUFFICES ASSUME NEW e \in listed', e.live PROVE table'[e.fd] = "connection"
    OBVIOUS
  <2>1. e \in listed /\ e # gone /\ e \in [fd : Fd, live : BOOLEAN]
    BY <1>6 DEF TypeOK
  <2>2. table[e.fd] = "connection"
    BY <2>1 DEF Owned
  <2>3. CASE gone.live
    <3>1. e.live = TRUE /\ gone.live = TRUE
      BY <1>3, <2>1, <2>3
    <3>2. e.fd # gone.fd
      BY <1>3, <2>1, <3>1
    <3>3. QED BY <1>2, <1>3, <2>1, <2>2, <3>2 DEF Closed, TypeOK
  <2>4. CASE ~gone.live
    <3>1. table[gone.fd] = "free"
      BY <1>2, <2>4
    <3>2. table' = table
      BY <1>2, <1>3, <3>1, CloseFree
    <3>3. QED BY <2>2, <3>2
  <2>5. QED BY <2>3, <2>4
<1>8. QED BY <1>4, <1>5, <1>7, OtherKinds, ClientIsNoKind DEF Owned

\* The server's two closes: the second does nothing while the number is free.
LEMMA CloseListenKeeps ==
  ASSUME TypeOK, Owned, CloseListen, ~astray'
  PROVE  Owned'
<1>1. UNCHANGED <<listen, listed, client, files>> /\ table' = Closed(listen)
  BY DEF CloseListen
<1>2. CASE stage = "flagged"
  <2>1. table[listen] = "listen" /\ stage' = "closed"
    BY <1>2 DEF CloseListen, Closing, Owned
  <2>2. \A g \in Fd : table[g] # "listen" => table'[g] = table[g]
    BY <1>1, <2>1 DEF Closed, TypeOK
  <2>3. QED BY <1>1, <2>1, <2>2, OtherKinds, ClientIsNoKind DEF Owned
<1>3. CASE stage = "joined"
  <2>1. table[listen] = "free" /\ stage' = "reclosed"
    BY <1>3 DEF CloseListen, Closing
  <2>2. table' = table
    BY <1>1, <2>1, CloseFree DEF TypeOK
  <2>3. QED BY <1>1, <2>1, <2>2 DEF Owned
<1>4. QED BY <1>2, <1>3 DEF CloseListen, Closing

LEMMA OwnedStep ==
  ASSUME TypeOK, Owned, [Next]_vars, ~astray'
  PROVE  Owned'
<1>1. CASE StartServer
  <2>1. PICK f \in Lowest(1) : /\ listen' = f
                               /\ table' = [Open(3, "pipe") EXCEPT ![f] = "listen"]
    BY <1>1 DEF StartServer
  <2>2. f \in Fd /\ table[f] = "free" /\ table'[f] = "listen"
    BY <2>1, OpenTypes, OpenGives DEF Kinds
  <2>3. \A g \in Fd : table[g] # "free" => table'[g] = table[g]
    BY <2>1, <2>2, OpenLeaves, OpenTypes DEF Kinds
  <2>4. stage' = "up" /\ UNCHANGED <<listed, client, files>>
    BY <1>1 DEF StartServer, connections
  <2>5. QED BY <2>1, <2>2, <2>3, <2>4, OpenKeeps DEF Owned
<1>2. CASE Broadcast \/ ServerReturns \/ Throws \/ UNCHANGED vars
  BY <1>2, Same DEF Broadcast, ServerReturns, Throws, vars, serverVars, connections
<1>3. CASE Shutdown
  BY <1>3 DEF Shutdown, connections, Owned
<1>4. CASE CloseListen
  BY <1>4, CloseListenKeeps
<1>5. CASE Wakeup
  <2>1. /\ stage' \in {"down", "gone"}
        /\ UNCHANGED <<table, listen, listed, client, files>>
    BY <1>5 DEF Wakeup, Waking, connections
  <2>2. QED BY <2>1 DEF Owned
<1>6. CASE JoinServer
  BY <1>6 DEF JoinServer, connections, Owned
<1>7. ASSUME NEW c \in Client, ClientStep(c) PROVE Owned'
  BY <1>7, ConnectKeeps, ConnectedKeeps, DisconnectKeeps, ClientForgets DEF ClientStep
<1>8. CASE OpenFile
  <2>1. PICK f \in Lowest(1) : files' = files \cup {f}
    BY <1>8 DEF OpenFile
  <2>2. /\ f \in Fd /\ table'[f] = "file"
        /\ \A g \in Fd : table[g] # "free" => table'[g] = table[g]
    BY <1>8, OpenLeaves, OpenGives DEF OpenFile
  <2>3. UNCHANGED <<stage, listen, listed, client>>
    BY <1>8 DEF OpenFile, serverVars, connections
  <2>4. QED BY <2>1, <2>2, <2>3, OpenKeeps DEF Owned
<1>9. CASE CloseFile
  <2>1. PICK f \in files : table' = Closed(f) /\ files' = files \ {f}
    BY <1>9 DEF CloseFile
  <2>2. \A g \in Fd : table[g] # "file" => table'[g] = table[g]
    BY <2>1 DEF Closed, Owned, TypeOK
  <2>3. \A g \in files' : table'[g] = "file"
    BY <2>1 DEF Closed, Owned, TypeOK
  <2>4. UNCHANGED <<stage, listen, listed, client>>
    BY <1>9 DEF CloseFile, serverVars, connections
  <2>5. QED BY <2>2, <2>3, <2>4, OtherKinds, ClientIsNoKind DEF Owned
<1>10. CASE Accept
  <2>1. \A g \in Fd : table[g] # "free" => table'[g] = table[g]
    BY <1>10, OpenLeaves DEF Accept
  <2>2. \/ listed' = listed
        \/ \E f \in Lowest(1) : listed' = listed \cup {[fd |-> f, live |-> TRUE]}
    BY <1>10 DEF Accept
  <2>3. \A f \in Lowest(1) : table'[f] = "connection"
    BY <1>10, OpenGives DEF Accept
  <2>4. UNCHANGED <<stage, listen, client, files>>
    BY <1>10 DEF Accept
  <2>5. QED BY <2>1, <2>2, <2>3, <2>4, OpenKeeps DEF Owned
<1>11. CASE Remove
  BY <1>11, RemoveKeeps
<1>12. QED BY <1>1, <1>2, <1>3, <1>4, <1>5, <1>6, <1>7, <1>8, <1>9, <1>10, <1>11
           DEF Next, TearDown

\* What has gone astray stays so.
LEMMA AstrayStays == astray /\ [Next]_vars => astray'
BY DEF Next, vars, serverVars, connections, StartServer, Broadcast, Shutdown, TearDown,
       CloseListen, Wakeup, JoinServer, ClientStep, Connect, Connected, ConnectFails,
       Disconnect, DeleteClient, ServerLeft, ClientReturns, ClientKeeps, OpenFile,
       CloseFile, Accept, Remove, ServerReturns, Throws

-----------------------------------------------------------------------------

LEMMA Start == Init => IInv
<1> SUFFICES ASSUME Init PROVE IInv OBVIOUS
<1>1. NoFd \in Fd
  BY DEF NoFd
<1>2. TypeOK
  <2>1. client \in [Client -> [at : {"new", "connecting", "up", "left", "gone"},
                            thread : {"idle", "running", "returned"},
                            mConnected : BOOLEAN, mSocket : Fd]]
    BY <1>1 DEF Init
  <2>2. pipe \in 0..PipeCap /\ calls \in 0..MaxCalls
    BY DEF Init
  <2>3. QED BY <1>1, <2>1, <2>2 DEF Init, TypeOK, Kinds, Stage
<1>3. EachOwnsItsNumber /\ ConnectingOwns
  BY DEF Init, EachOwnsItsNumber, ConnectingOwns
<1>4. QED BY <1>2, <1>3 DEF IInv

\* The types, the capacity of the pipe among them.
THEOREM TypeCorrect == Spec => []TypeOK
<1>1. Init => TypeOK
  BY Start DEF IInv
<1>2. QED BY <1>1, TypeStep, PTL DEF Spec

\* IInv holds for every application, in whatever order it opens, closes and deletes
\* (server/Server.cpp:107-114).
THEOREM Inductive == Spec => []IInv
<1>1. IInv /\ [Next]_vars => IInv'
  <2> SUFFICES ASSUME IInv, [Next]_vars PROVE IInv' OBVIOUS
  <2>1. TypeOK'
    BY TypeStep DEF IInv
  <2>2. astray \/ Owned
    BY NumbersIsOwned DEF IInv, Numbers
  <2>3. astray' \/ Owned'
    BY <2>2, OwnedStep, AstrayStays DEF IInv
  <2>4. Numbers'
    BY <2>3, NumbersIsOwned, PTL
  <2>5. QED BY <2>1, <2>4 DEF IInv, Numbers
<1>2. QED BY <1>1, Start, PTL DEF Spec

\* Until a number is closed for the second time when it was somebody else's, the
\* server's connections, each client and every other user of a descriptor find their
\* own under the number they hold, whichever connections removals delete
\* (posix/Connections.cpp:33-48, posix/Server.cpp:284-288, posix/Client.cpp:240-258).
THEOREM NumbersAreOwned == Spec => []EachOwnsItsNumber
<1>1. IInv => EachOwnsItsNumber
  BY DEF IInv
<1>2. QED BY <1>1, Inductive, PTL
=============================================================================
