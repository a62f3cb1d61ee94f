------------------------- MODULE PosixSessionProofs -------------------------
(***************************************************************************)
(* What every session with a client satisfies, for every set of peers,     *)
(* every number of descriptors and addresses and every bound: the          *)
(* acknowledgement comes first and once; the five records of who is        *)
(* connected agree and the callbacks follow their protocol for as long as  *)
(* no object is lost; and when nobody closes, none is lost, a message      *)
(* reaches only those it was addressed to, and reaches none twice unless   *)
(* the loop's swap fell into a reserve or an insertion.                    *)
(***************************************************************************)
EXTENDS PosixServerProofs

\* A call is under way and its message not yet in every queue it is for.
Calling == {"find", "next"} \cup Sending

USE DEF Calling, Sending, calls, LoopSpares, AppSpares

(* The acknowledgement *)

\* A connection waiting to be accepted belongs to a client that has connected
\* once and exchanged nothing yet.
InBacklog(p) == \E k \in 1..Len(backlog) : backlog[k] = p

BacklogIsFresh ==
  /\ \A j, k \in 1..Len(backlog) : backlog[j] = backlog[k] => j = k
  /\ \A p \in Peer : InBacklog(p) => /\ peer[p] \in {"greeting", "closed"}
                                     /\ got[p] = <<>> /\ inbox[p] = <<>>
                                     /\ ~Linked(p)

\* A descriptor leads to a client that has connected, no two lead to the same,
\* and a client says nothing before it is greeted.
PeersInOrder ==
  /\ \A p \in Peer : Linked(p) => peer[p] # "new"
  /\ \A f, g \in ConnFd : fdTable[f] = fdTable[g] /\ fdTable[f] # NoPeer => f = g
  /\ \A p \in Peer : peer[p] \in {"new", "greeting"} => inbox[p] = <<>>
  /\ \A p \in Peer : peer[p] = "new" => got[p] = <<>>

\* Only messages are queued, and they are numbered from 1.
QueuesHoldMessages ==
  /\ \A a \in Addr : \A k \in 1..Len(heap[a].mOutgoingBytes) :
       heap[a].mOutgoingBytes[k] # Ack
  /\ \A k \in 1..Len(copy) : copy[k] # Ack
  /\ app.pc \in Calling => Len(dest) > 0

\* A live connection has been acknowledged, and past its constructor it has
\* identified itself.
Underway(a) == loop.pc = "handshake" /\ a = loop.conn
Far(a) == fdTable[heap[a].mSocket]

LiveIsGreeted ==
  \A a \in live : /\ got[Far(a)] # <<>> \/ peer[Far(a)] = "closed"
                  /\ ~Underway(a) => peer[Far(a)] \in {"talking", "closed"}

\* What makes AckFirst inductive.
Sessions == /\ BacklogIsFresh /\ PeersInOrder /\ QueuesHoldMessages
            /\ LiveIsGreeted /\ AckFirst

\* A live connection's descriptor leads to a client.
LEMMA LiveTypes ==
  ASSUME IInv, NEW a \in live
  PROVE  /\ a \in Addr /\ heap[a].mSocket \in ConnFd
         /\ Far(a) \in Peer /\ Linked(Far(a))
  BY DEF IInv, RegistrySound, RegistryTypeOK, LiveConnectionOwnsFd, Far, Linked

\* The three steps of a call that write a queue write that of its connection only.
LEMMA QueueWritten ==
  ASSUME IInv, Install \/ Insert \/ InsertLost
  PROVE  /\ UNCHANGED <<live, fdTable, mContainer, mMapping, mFdMax, mRead, loop, up,
                        event, peer, said, inbox, got, backlog, dest>>
         /\ app.conn \in Addr
         /\ \E q \in Seq(Nat) : heap' = [heap EXCEPT ![app.conn].mOutgoingBytes = q]
         /\ \A a \in Addr : /\ heap'[a].mIdentifier = heap[a].mIdentifier
                            /\ heap'[a].mSocket = heap[a].mSocket
<1>1. /\ UNCHANGED <<live, fdTable, mContainer, mMapping, mFdMax, mRead, loop, up,
                     event, peer, said, inbox, got, backlog, dest>>
      /\ app.conn \in Addr
  BY AppTypes DEF Install, Insert, InsertLost, AppAt, AppKeeps, objects, remote,
     closing, told
<1> DEFINE queue == heap[app.conn].mOutgoingBytes
<1>2. queue \in Seq(Nat) /\ RegistryTypeOK
  BY <1>1, AppTypes DEF RegistryTypeOK, ServerConnection
<1>3. \E q \in Seq(Nat) : heap' = [heap EXCEPT ![app.conn].mOutgoingBytes = q]
  <2>1. CASE Install
    BY <2>1, AppTypes DEF Install
  <2>2. CASE Insert
    <3>1. <<Len(dest)>> \o queue \in Seq(Nat)
      <4> HIDE DEF queue
      <4> QED BY <1>2, AppTypes, ConcatProperties, <<Len(dest)>> \in Seq(Nat)
    <3>2. heap' = [heap EXCEPT ![app.conn].mOutgoingBytes = <<Len(dest)>> \o queue]
      BY <2>2 DEF Insert, AddQueuedMessage
    <3> QED BY <3>1, <3>2
  <2>3. CASE InsertLost
    <3>1. Shifted(queue) \in Seq(Nat)
      BY <1>2, ShiftedType
    <3> QED BY <1>2, <2>3, <3>1 DEF InsertLost
  <2> QED BY <2>1, <2>2, <2>3
<1>4. \A a \in Addr : /\ heap'[a].mIdentifier = heap[a].mIdentifier
                     /\ heap'[a].mSocket = heap[a].mSocket
  BY <1>1, <1>2, <1>3 DEF RegistryTypeOK, ServerConnection
<1> QED BY <1>1, <1>3, <1>4

\* Steps that touch none of what Sessions speaks of.
LEMMA SessionsUnchanged ==
  ASSUME Sessions,
         UNCHANGED <<heap, live, fdTable, backlog, peer, inbox, got, dest, copy>>,
         app'.pc \in Calling =>
           app.pc \in Calling,
         loop.pc # "handshake"
  PROVE  Sessions'
<1>1. BacklogIsFresh' /\ PeersInOrder'
  BY DEF Sessions, BacklogIsFresh, PeersInOrder, InBacklog, Linked
<1>2. QueuesHoldMessages' /\ LiveIsGreeted' /\ AckFirst'
  BY DEF Sessions, QueuesHoldMessages, LiveIsGreeted, Far, Underway, AckFirst
<1> QED BY <1>1, <1>2 DEF Sessions

\* What is left of a sequence without its first element.
LEMMA TailShifts ==
  ASSUME NEW S, NEW s \in Seq(S), s # <<>>
  PROVE  /\ Len(Tail(s)) = Len(s) - 1
         /\ \A k \in 1..Len(Tail(s)) : /\ k + 1 \in 2..Len(s)
                                       /\ Tail(s)[k] = s[k + 1]
  OBVIOUS

\* What is behind the first element of a sequence that grows.
LEMMA JoinedTail ==
  ASSUME NEW s \in Seq(Nat), NEW t \in Seq(Nat), s # <<>>
  PROVE  /\ s \o t # <<>> /\ (s \o t)[1] = s[1]
         /\ \A k \in 2..Len(s \o t) :
              \/ k \in 2..Len(s) /\ (s \o t)[k] = s[k]
              \/ \E j \in 1..Len(t) : (s \o t)[k] = t[j]
<1>1. /\ Len(s) \in Nat /\ Len(s) > 0 /\ Len(t) \in Nat
      /\ Len(s \o t) = Len(s) + Len(t)
      /\ \A k \in 1..Len(s) + Len(t) :
           (s \o t)[k] = IF k <= Len(s) THEN s[k] ELSE t[k - Len(s)]
  OBVIOUS
<1>2. s \o t # <<>> /\ (s \o t)[1] = s[1]
  BY <1>1
<1>3. ASSUME NEW k \in 2..Len(s \o t)
      PROVE  \/ k \in 2..Len(s) /\ (s \o t)[k] = s[k]
             \/ \E j \in 1..Len(t) : (s \o t)[k] = t[j]
  <2> DEFINE u == s \o t
             n == Len(s)
             m == Len(t)
  <2>1. /\ n \in Nat /\ m \in Nat /\ k \in 2..n + m
        /\ u[k] = IF k <= n THEN s[k] ELSE t[k - n]
    <3>1. k \in 2..Len(s) + Len(t)
      BY <1>1
    <3>2. k \in 1..Len(s) + Len(t)
      BY <1>1, <3>1
    <3> QED BY <1>1, <3>1, <3>2
  <2>2. SUFFICES \/ k \in 2..n /\ u[k] = s[k]
                 \/ \E j \in 1..m : u[k] = t[j]
    OBVIOUS
  <2> HIDE DEF u, n, m
  <2>3. CASE k <= n
    <3>1. k \in 2..n /\ u[k] = s[k]
      BY <2>1, <2>3
    <3> QED BY <3>1
  <2>4. CASE ~(k <= n)
    <3>1. k - n \in 1..m /\ u[k] = t[k - n]
      BY <2>1, <2>4
    <3> QED BY <3>1
  <2> QED BY <2>3, <2>4
<1>4. \A k \in 2..Len(s \o t) :
        \/ k \in 2..Len(s) /\ (s \o t)[k] = s[k]
        \/ \E j \in 1..Len(t) : (s \o t)[k] = t[j]
  BY <1>3
<1> QED BY <1>2, <1>4

LEMMA InitSessions == Init => Sessions
<1> SUFFICES ASSUME Init PROVE Sessions
  OBVIOUS
<1>1. \A p \in Peer : ~Linked(p) /\ ~InBacklog(p)
  BY RegistryAssumption DEF Init, RegistryInit, Linked, InBacklog
<1>2. BacklogIsFresh /\ PeersInOrder
  BY <1>1 DEF Init, RegistryInit, BacklogIsFresh, PeersInOrder
<1>3. QueuesHoldMessages /\ LiveIsGreeted /\ AckFirst
  BY DEF Init, RegistryInit, QueuesHoldMessages, LiveIsGreeted, AckFirst
<1> QED BY <1>2, <1>3 DEF Sessions

\* A client is acknowledged when it is accepted, and it had nothing before.
LEMMA AcceptSessions == IInv /\ Sessions /\ Accept => Sessions'
<1> SUFFICES ASSUME IInv, Sessions, Accept PROVE Sessions'
  OBVIOUS
<1> USE LoopTypes
<1> DEFINE p == Head(backlog)
<1>1. PICK a \in Addr : /\ AcceptInto(a, p)
                        /\ loop' = [loop EXCEPT !.pc = "handshake", !.conn = a]
  BY DEF Accept
<1>2. PICK fd \in FreeFds :
        /\ heap' = [heap EXCEPT ![a] = [mSocket |-> fd, mIdentifier |-> <<>>,
                                        mOutgoingBytes |-> <<>>]]
        /\ fdTable' = [fdTable EXCEPT ![fd] = p]
  BY <1>1 DEF AcceptInto, SocketGone
<1>3. /\ a \notin live /\ live' = live \cup {a} /\ loop.pc = "scan"
      /\ loop'.pc = "handshake" /\ loop'.conn = a
      /\ backlog # <<>> /\ backlog' = Tail(backlog)
      /\ UNCHANGED <<peer, inbox, dest, app, copy>>
  BY <1>1 DEF AcceptInto, Accept, Reading, LoopAt, LoopKeeps, LoopState
<1>4. /\ p \in Peer /\ p # NoPeer /\ InBacklog(p)
      /\ fd \in ConnFd /\ fdTable[fd] = NoPeer
  BY <1>2, <1>3, RegistryAssumption DEF FreeFds, InBacklog
<1>5. peer[p] # "new" /\ got[p] = <<>> /\ inbox[p] = <<>> /\ ~Linked(p)
  BY <1>4 DEF Sessions, BacklogIsFresh
<1>6. got' = IF peer[p] = "closed" THEN got ELSE [got EXCEPT ![p] = <<Ack>>]
  BY <1>4, <1>5 DEF Accept, Greet
<1>7. \A q \in Peer : InBacklog(q)' => InBacklog(q) /\ q # p
  <2>1. p = backlog[1] /\ 1 \in 1..Len(backlog)
    BY <1>3
  <2>2. \A k \in 1..Len(backlog') : /\ k + 1 \in 2..Len(backlog)
                                    /\ backlog'[k] = backlog[k + 1]
    BY <1>3, TailShifts
  <2>3. \A k \in 2..Len(backlog) : k \in 1..Len(backlog) /\ backlog[k] # p
    BY <2>1 DEF Sessions, BacklogIsFresh
  <2> QED BY <2>2, <2>3 DEF InBacklog
<1>8. \A q \in Peer : Linked(q)' => q = p \/ Linked(q)
  BY <1>2, <1>4 DEF Linked, RegistryTypeOK
<1>9. BacklogIsFresh'
  <2>1. \A j, k \in 1..Len(backlog') : backlog'[j] = backlog'[k] => j = k
    BY <1>3 DEF Sessions, BacklogIsFresh
  <2>2. \A q \in Peer : q # p => got'[q] = got[q]
    BY <1>6
  <2> QED BY <1>3, <1>7, <1>8, <2>1, <2>2 DEF Sessions, BacklogIsFresh
<1>10. PeersInOrder'
  <2>1. \A f \in ConnFd : f # fd => fdTable[f] # p
    BY <1>5 DEF Linked
  <2>2. \A f, g \in ConnFd :
          fdTable'[f] = fdTable'[g] /\ fdTable'[f] # NoPeer => f = g
    BY <1>2, <1>4, <2>1 DEF Sessions, PeersInOrder, RegistryTypeOK
  <2>3. \A q \in Peer : Linked(q)' => peer[q] # "new"
    BY <1>5, <1>8 DEF Sessions, PeersInOrder
  <2>4. \A q \in Peer : peer[q] = "new" => got'[q] = <<>>
    BY <1>5, <1>6 DEF Sessions, PeersInOrder
  <2> QED BY <1>3, <2>2, <2>3, <2>4 DEF Sessions, PeersInOrder
<1>11. QueuesHoldMessages'
  BY <1>2, <1>3 DEF Sessions, QueuesHoldMessages, RegistryTypeOK
<1>12. LiveIsGreeted'
  <2>1. got'[p] # <<>> \/ peer[p] = "closed"
    BY <1>4, <1>6
  <2>2. Far(a)' = p
    BY <1>2, <1>4 DEF Far, RegistryTypeOK
  <2>3. \A b \in live : /\ b # a /\ Far(b)' = Far(b) /\ Far(b) # p
                         /\ Far(b) \in Peer
    BY <1>2, <1>3, <1>4, <1>5, LiveTypes
    DEF Far, RegistryTypeOK, RegistrySound, LiveConnectionOwnsFd
  <2>4. \A b \in live : got'[Far(b)] = got[Far(b)]
    BY <1>6, <2>3
  <2> QED BY <1>3, <2>1, <2>2, <2>3, <2>4
          DEF Sessions, LiveIsGreeted, Underway
<1>13. AckFirst'
  BY <1>3, <1>4, <1>6 DEF Sessions, AckFirst
<1> QED BY <1>9, <1>10, <1>11, <1>12, <1>13 DEF Sessions

\* What a client said is received by a descriptor that leads to it: it is past
\* its greeting.
LEMMA HeardIsPast ==
  ASSUME IInv, Sessions, NEW p \in Peer, inbox[p] # <<>>
  PROVE  peer[p] \in {"talking", "closed"}
  BY DEF IInv, ServerTypeOK, PeersTypeOK, PeerPc, Sessions, PeersInOrder

LEMMA IdentifiedSessions == IInv /\ Sessions /\ Identified => Sessions'
<1> SUFFICES ASSUME IInv, Sessions, Identified PROVE Sessions'
  OBVIOUS
<1>1. /\ Joining \in Peer /\ loop.conn \in live /\ loop.pc = "handshake"
      /\ loop'.pc = "register" /\ inbox[Joining] # <<>>
  BY JoiningType, LoopTypes
  DEF Identified, LoopAt, IInv, Construction, LoopState
<1>2. heap' = [heap EXCEPT ![loop.conn].mIdentifier = Received(Joining)]
  BY DEF Identified
<1>3. UNCHANGED <<live, fdTable, backlog, peer, got, dest, app, copy>>
  BY DEF Identified, objects, LoopKeeps
<1>4. inbox' = [inbox EXCEPT ![Joining] = Unread(Joining)]
  BY DEF Identified
<1>5. /\ inbox \in [Peer -> Seq(Token)] /\ RegistryTypeOK
  BY LoopTypes
<1>6. peer[Joining] \in {"talking", "closed"}
  BY <1>1, HeardIsPast
<1>7. \A p \in Peer : /\ inbox[p] = <<>> => inbox'[p] = <<>>
                      /\ Linked(p)' = Linked(p) /\ InBacklog(p)' = InBacklog(p)
  BY <1>1, <1>3, <1>4, <1>5 DEF Linked, InBacklog
<1>8. BacklogIsFresh' /\ PeersInOrder'
  BY <1>3, <1>7 DEF Sessions, BacklogIsFresh, PeersInOrder
<1>9. \A a \in Addr : /\ heap'[a].mOutgoingBytes = heap[a].mOutgoingBytes
                      /\ heap'[a].mSocket = heap[a].mSocket
  BY <1>2, <1>5 DEF RegistryTypeOK, ServerConnection
<1>10. QueuesHoldMessages' /\ AckFirst'
  BY <1>3, <1>9 DEF Sessions, QueuesHoldMessages, AckFirst
<1>11. LiveIsGreeted'
  <2>1. \A a \in live : Far(a)' = Far(a)
    BY <1>3, <1>5, <1>9 DEF Far, RegistryTypeOK
  <2>2. \A a \in live : Underway(a) => Far(a) = Joining
    BY DEF Underway, Far, Joining
  <2> QED BY <1>1, <1>3, <1>6, <2>1, <2>2 DEF Sessions, LiveIsGreeted, Underway
<1> QED BY <1>8, <1>10, <1>11 DEF Sessions

LEMMA HandshakeFailsSessions == IInv /\ Sessions /\ HandshakeFails => Sessions'
<1> SUFFICES ASSUME IInv, Sessions, HandshakeFails PROVE Sessions'
  OBVIOUS
<1>1. /\ live' = live \ {loop.conn} /\ loop.pc = "handshake"
      /\ loop'.pc = "scan"
      /\ UNCHANGED <<heap, fdTable, backlog, peer, inbox, got, dest, app, copy>>
  BY LoopTypes
  DEF HandshakeFails, ConstructorThrows, LoopAt, LoopKeeps, ReadDone, LoopState
<1>2. BacklogIsFresh' /\ PeersInOrder'
  BY <1>1 DEF Sessions, BacklogIsFresh, PeersInOrder, InBacklog, Linked
<1>3. QueuesHoldMessages' /\ AckFirst'
  BY <1>1 DEF Sessions, QueuesHoldMessages, AckFirst
<1>4. LiveIsGreeted'
  BY <1>1 DEF Sessions, LiveIsGreeted, Far, Underway
<1> QED BY <1>2, <1>3, <1>4 DEF Sessions

LEMMA ReceiveSessions ==
  ASSUME IInv, Sessions, NEW i \in ConnFd, Receive(i)
  PROVE  Sessions'
<1>1. /\ loop.pc = "scan" /\ inbox[fdTable[i]] # <<>>
      /\ inbox' = [inbox EXCEPT ![fdTable[i]] = Unread(fdTable[i])]
      /\ UNCHANGED <<heap, live, fdTable, backlog, peer, got, dest, app, copy>>
  BY DEF Receive, Reading, LoopAt, LoopKeeps, registry
<1>2. \A p \in Peer : inbox[p] = <<>> => inbox'[p] = <<>>
  BY <1>1, LoopTypes
<1>3. BacklogIsFresh' /\ PeersInOrder'
  BY <1>1, <1>2 DEF Sessions, BacklogIsFresh, PeersInOrder, InBacklog, Linked
<1>4. QueuesHoldMessages' /\ LiveIsGreeted' /\ AckFirst'
  BY <1>1
  DEF Sessions, QueuesHoldMessages, LiveIsGreeted, Far, Underway, AckFirst
<1> QED BY <1>3, <1>4 DEF Sessions

\* Objects are deleted with their descriptors: what is left keeps its own.
LEMMA DeletionSessions ==
  ASSUME IInv, Sessions, live' \subseteq live, loop.pc # "handshake",
         \A a \in live' : heap'[a].mSocket = heap[a].mSocket /\ Far(a)' = Far(a),
         \A a \in Addr : heap'[a].mOutgoingBytes = heap[a].mOutgoingBytes,
         \A f \in ConnFd : fdTable'[f] \in {fdTable[f], NoPeer},
         UNCHANGED <<backlog, peer, inbox, got, dest, copy>>,
         app'.pc \in Calling =>
           app.pc \in Calling
  PROVE  Sessions'
<1>1. \A p \in Peer : Linked(p)' => Linked(p)
  BY RegistryAssumption DEF Linked
<1>2. BacklogIsFresh'
  BY <1>1 DEF Sessions, BacklogIsFresh, InBacklog
<1>3. PeersInOrder'
  <2>1. \A f, g \in ConnFd :
          fdTable'[f] = fdTable'[g] /\ fdTable'[f] # NoPeer => f = g
    BY DEF Sessions, PeersInOrder
  <2> QED BY <1>1, <2>1 DEF Sessions, PeersInOrder
<1>4. QueuesHoldMessages' /\ AckFirst'
  BY DEF Sessions, QueuesHoldMessages, AckFirst
<1>5. LiveIsGreeted'
  BY DEF Sessions, LiveIsGreeted, Underway
<1> QED BY <1>2, <1>3, <1>4, <1>5 DEF Sessions

LEMMA RemoveSessions ==
  ASSUME IInv, Sessions, NEW i \in ConnFd, Remove(i)
  PROVE  Sessions'
<1>1. /\ loop.pc = "remove" /\ Victim(i) \in live /\ RegistrySound
      /\ UNCHANGED <<backlog, peer, inbox, got, dest, app, copy>>
  BY LoopTypes DEF Remove, LoopAt, LoopKeeps
<1>2. CASE ~Found(i)
  <2>1. UNCHANGED <<heap, live, fdTable>>
    BY <1>2 DEF Remove, RemoveServerConnection
  <2> QED BY <1>1, <2>1, SessionsUnchanged
<1>3. CASE Found(i)
  <2> DEFINE v == Victim(i)
  <2>1. PICK left : heap' = [heap EXCEPT ![v].mSocket = left]
    BY <1>3 DEF Remove, RemoveServerConnection, Delete
  <2>2. /\ live' = live \ {v}
        /\ fdTable' = [fdTable EXCEPT ![heap[v].mSocket] = NoPeer]
    BY <1>3 DEF Remove, RemoveServerConnection, Delete
  <2>3. /\ \A a \in Addr : heap'[a].mOutgoingBytes = heap[a].mOutgoingBytes
        /\ \A a \in live' : heap'[a].mSocket = heap[a].mSocket
    BY <1>1, <2>1, <2>2 DEF RegistrySound, RegistryTypeOK, ServerConnection
  <2>4. \A a \in live' : Far(a)' = Far(a)
    BY <1>1, <2>2, <2>3
    DEF RegistrySound, RegistryTypeOK, LiveConnectionOwnsFd, Far
  <2>5. \A f \in ConnFd : fdTable'[f] \in {fdTable[f], NoPeer}
    BY <1>1, <2>2 DEF RegistrySound, RegistryTypeOK
  <2> QED BY <1>1, <2>2, <2>3, <2>4, <2>5, DeletionSessions
<1> QED BY <1>2, <1>3

\* A write empties the queue of the connection that owns the descriptor, and hands
\* its client some of the first messages in it.
LEMMA FlushFacts ==
  ASSUME IInv, NEW i \in ConnFd, Flush(i)
  PROVE  /\ loop.pc = "scan" /\ loop'.pc = "load"
         /\ UNCHANGED <<live, fdTable, backlog, peer, inbox, dest, app, copy, mContainer>>
         /\ torn' = (torn \/ (Installing(Lookup(i)) /\ copy # <<>>))
         /\ Lookup(i) \in live /\ Lookup(i) \in Addr
         /\ heap' = [heap EXCEPT ![Lookup(i)].mOutgoingBytes = <<>>]
         /\ heap[Lookup(i)].mOutgoingBytes \in Seq(Nat)
         /\ Far(Lookup(i)) = fdTable[i] /\ fdTable[i] \in Peer /\ Linked(fdTable[i])
         /\ \E n \in 0..Len(heap[Lookup(i)].mOutgoingBytes) :
              got' = IF peer[fdTable[i]] = "closed" THEN got
                       ELSE [got EXCEPT ![fdTable[i]] = @ \o
                               SubSeq(heap[Lookup(i)].mOutgoingBytes, 1, n)]
<1> DEFINE a == Lookup(i)
           p == fdTable[i]
           bytes == heap[a].mOutgoingBytes
<1>1. /\ loop.pc = "scan" /\ loop'.pc = "load" /\ a \in live
      /\ heap' = [heap EXCEPT ![a].mOutgoingBytes = <<>>]
      /\ UNCHANGED <<live, fdTable, backlog, peer, inbox, dest, app, copy, mContainer>>
  BY LoopTypes
  DEF Flush, Writing, LoopAt, QueueSwapped, objects, LoopKeeps, LoopState
<1>2. heap[a].mSocket = i /\ a \in Addr /\ Far(a) = p
  BY LoopTypes, FoundShowsSocket DEF Flush, Far
<1>3. p \in Peer /\ Linked(p)
  BY <1>1, <1>2, LiveTypes
<1>4. bytes \in Seq(Nat)
  BY <1>2, LoopTypes DEF RegistryTypeOK, ServerConnection
<1>5. PICK n \in Accepted(p, Len(bytes)) :
        got' = IF peer[p] = "closed" THEN got
                 ELSE [got EXCEPT ![p] = @ \o SubSeq(bytes, 1, n)]
  BY DEF Flush
<1>6. n \in 0..Len(bytes)
  <2>1. Len(bytes) \in Nat
    BY <1>4
  <2> QED BY <1>5, <2>1 DEF Accepted
<1>7. torn' = (torn \/ (Installing(a) /\ copy # <<>>))
  BY DEF Flush
<1> QED BY <1>1, <1>2, <1>3, <1>4, <1>5, <1>6, <1>7

\* What a write hands over came out of the queue of a connection that is greeted
\* and identified.
LEMMA FlushSessions ==
  ASSUME IInv, Sessions, NEW i \in ConnFd, Flush(i)
  PROVE  Sessions'
<1> DEFINE a == Lookup(i)
           p == fdTable[i]
           bytes == heap[a].mOutgoingBytes
<1>1. /\ loop.pc = "scan" /\ loop'.pc = "load" /\ a \in live
      /\ heap' = [heap EXCEPT ![a].mOutgoingBytes = <<>>]
      /\ UNCHANGED <<live, fdTable, backlog, peer, inbox, dest, app, copy>>
  BY FlushFacts
<1>2. RegistryTypeOK /\ got \in [Peer -> Seq(Nat)]
  BY LoopTypes
<1>3. a \in Addr /\ Far(a) = p
  BY FlushFacts
<1>4. p \in Peer /\ Linked(p)
  BY FlushFacts
<1>5. PICK n \in 0..Len(bytes) :
        got' = IF peer[p] = "closed" THEN got
                 ELSE [got EXCEPT ![p] = @ \o SubSeq(bytes, 1, n)]
  BY FlushFacts
<1>6. bytes \in Seq(Nat) /\ \A k \in 1..Len(bytes) : bytes[k] # Ack
  BY <1>2, <1>3
  DEF RegistryTypeOK, ServerConnection, Sessions, QueuesHoldMessages
<1>7. \/ got[p] # <<>> /\ peer[p] = "talking"
      \/ peer[p] = "closed"
  <2>1. ~Underway(a)
    BY <1>1 DEF Underway
  <2> QED BY <1>1, <1>3, <2>1 DEF Sessions, LiveIsGreeted
<1>8. \A q \in Peer : q # p \/ peer[p] = "closed" => got'[q] = got[q]
  BY <1>2, <1>5
<1>9. peer[p] # "closed" =>
        /\ got'[p] # <<>> /\ got'[p][1] = got[p][1]
        /\ \A k \in 2..Len(got'[p]) :
             \/ k \in 2..Len(got[p]) /\ got'[p][k] = got[p][k]
             \/ got'[p][k] # Ack
  <2> DEFINE more == SubSeq(bytes, 1, n)
  <2>1. more \in Seq(Nat) /\ \A k \in 1..Len(more) : more[k] # Ack
    <3> HIDE DEF bytes
    <3>1. n \in Nat /\ n <= Len(bytes) /\ Len(bytes) \in Nat
      BY <1>5, <1>6
    <3>2. \A k \in 1..n : k \in 1..Len(bytes)
      BY <3>1
    <3>3. more \in Seq(Nat) /\ Len(more) = n /\ \A k \in 1..n : more[k] = bytes[k]
      BY <3>1, <3>2, <1>6, SubSeqProperties
    <3> QED BY <3>2, <3>3, <1>6
  <2>2. peer[p] # "closed" => got'[p] = got[p] \o more
    BY <1>2, <1>4, <1>5
  <2> HIDE DEF more, p
  <2>3. got[p] \in Seq(Nat)
    BY <1>2, <1>4
  <2>4. ASSUME peer[p] # "closed"
        PROVE  /\ got'[p] # <<>> /\ got'[p][1] = got[p][1]
               /\ \A k \in 2..Len(got'[p]) :
                    \/ k \in 2..Len(got[p]) /\ got'[p][k] = got[p][k]
                    \/ \E j \in 1..Len(more) : got'[p][k] = more[j]
    <3> DEFINE before == got[p]
    <3>1. before \in Seq(Nat) /\ before # <<>> /\ got'[p] = before \o more
      BY <1>7, <2>2, <2>3, <2>4
    <3>2. more \in Seq(Nat)
      BY <2>1
    <3> HIDE DEF before
    <3>3. /\ before \o more # <<>> /\ (before \o more)[1] = before[1]
          /\ \A k \in 2..Len(before \o more) :
               \/ k \in 2..Len(before) /\ (before \o more)[k] = before[k]
               \/ \E j \in 1..Len(more) : (before \o more)[k] = more[j]
      BY <3>1, <3>2, JoinedTail
    <3>4. before = got[p]
      BY DEF before
    <3> QED BY <3>1, <3>3, <3>4, Zenon
  <2> QED BY <2>1, <2>4
<1>10. BacklogIsFresh'
  <2>1. \A q \in Peer : InBacklog(q) => q # p
    BY <1>4 DEF Sessions, BacklogIsFresh
  <2> QED BY <1>1, <1>8, <2>1 DEF Sessions, BacklogIsFresh, InBacklog, Linked
<1>11. PeersInOrder'
  <2>1. \A q \in Peer : peer[q] = "new" => q # p
    BY <1>4 DEF Sessions, PeersInOrder
  <2> QED BY <1>1, <1>8, <2>1 DEF Sessions, PeersInOrder, Linked
<1>12. QueuesHoldMessages'
  BY <1>1, <1>2, <1>3
  DEF Sessions, QueuesHoldMessages, RegistryTypeOK, ServerConnection
<1>13. LiveIsGreeted'
  <2>1. \A b \in live : Far(b)' = Far(b) /\ Far(b) \in Peer
    BY <1>1, <1>2, <1>3, LiveTypes DEF Far, RegistryTypeOK, ServerConnection
  <2> QED BY <1>1, <1>8, <1>9, <2>1 DEF Sessions, LiveIsGreeted, Underway
<1>14. AckFirst'
  <2> SUFFICES ASSUME NEW q \in Peer, got'[q] # <<>>
               PROVE  /\ got'[q][1] = Ack
                      /\ \A k \in 2..Len(got'[q]) : got'[q][k] # Ack
                      /\ Len(got'[q]) > 1 => peer[q] \in {"talking", "closed"}
    BY <1>1 DEF AckFirst
  <2>1. CASE q # p \/ peer[p] = "closed"
    BY <1>8, <2>1 DEF Sessions, AckFirst
  <2>2. CASE q = p /\ peer[p] # "closed"
    BY <1>4, <1>7, <1>9, <2>2 DEF Sessions, AckFirst
  <2> QED BY <2>1, <2>2
<1> QED BY <1>10, <1>11, <1>12, <1>13, <1>14 DEF Sessions

\* No step of waitForEvents breaks the order of a session.
LEMMA LoopSessions == IInv /\ Sessions /\ LoopStep => Sessions'
<1> SUFFICES ASSUME IInv, Sessions, LoopStep PROVE Sessions'
  OBVIOUS
<1>1. ASSUME \/ LoopStart \/ LoopTop \/ SelectEnter \/ SelectReturn \/ ScanDone
             \/ DrainWakeup \/ AcceptFails \/ Register \/ ClearLoad \/ ClearStore
             \/ \E i \in ConnFd : \/ ReadNobody(i) \/ ReceiveFails(i)
                                  \/ FlushNobody(i)
      PROVE  Sessions'
  <2>1. UNCHANGED <<heap, live, fdTable, backlog, peer, inbox, got, dest, app, copy>>
    BY <1>1
    DEF LoopStart, LoopTop, SelectEnter, SelectReturn, ScanDone, DrainWakeup,
        AcceptFails, Register, ClearLoad, ClearStore, ReadNobody, ReceiveFails,
        FlushNobody, LoopOnly, LoopKeeps, registry, AddServerConnection
  <2>2. loop.pc # "handshake"
    BY <1>1
    DEF LoopStart, LoopTop, SelectEnter, SelectReturn, ScanDone, DrainWakeup,
        AcceptFails, Register, ClearLoad, ClearStore, ReadNobody, ReceiveFails,
        FlushNobody, LoopAt, Reading, Writing
  <2> QED BY <2>1, <2>2, SessionsUnchanged
<1> QED BY <1>1, AcceptSessions, IdentifiedSessions, HandshakeFailsSessions,
           ReceiveSessions, RemoveSessions, FlushSessions
        DEF LoopStep

\* Nor does a step of the application.
LEMMA QueueSessions ==
  IInv /\ Sessions /\ (Install \/ Insert \/ InsertLost) => Sessions'
<1> SUFFICES ASSUME IInv, Sessions, Install \/ Insert \/ InsertLost PROVE Sessions'
  OBVIOUS
<1> DEFINE old == heap[app.conn].mOutgoingBytes
           new == heap'[app.conn].mOutgoingBytes
<1>1. /\ UNCHANGED <<live, fdTable, backlog, peer, inbox, got, dest, loop>>
      /\ app.conn \in Addr /\ RegistryTypeOK /\ old \in Seq(Nat)
      /\ \A a \in Addr : heap'[a].mSocket = heap[a].mSocket
  BY QueueWritten, AppTypes DEF RegistryTypeOK, ServerConnection
<1>2. /\ app.pc \in Calling
      /\ \A k \in 1..Len(copy') : copy'[k] # Ack
  BY DEF Install, Insert, InsertLost, AppAt, AppKeeps, Sessions, QueuesHoldMessages
<1>3. Len(dest) \in Nat /\ Len(dest) # Ack
  BY <1>2, AppTypes DEF Sessions, QueuesHoldMessages, Ack
<1>4. \A k \in 1..Len(old) : old[k] # Ack
  BY <1>1 DEF Sessions, QueuesHoldMessages
<1>5. new \in {copy, <<Len(dest)>> \o old, old, Shifted(old)}
  <2>1. PICK q : /\ heap' = [heap EXCEPT ![app.conn].mOutgoingBytes = q]
                 /\ q \in {copy, <<Len(dest)>> \o old, old, Shifted(old)}
    BY DEF Install, Insert, InsertLost, AddQueuedMessage
  <2>2. heap'[app.conn].mOutgoingBytes = q
    BY <1>1, <2>1 DEF RegistryTypeOK, ServerConnection
  <2> QED BY <2>1, <2>2
<1>6. \A a \in Addr : a # app.conn => heap'[a] = heap[a]
  BY <1>1, QueueWritten DEF RegistryTypeOK
<1> HIDE DEF old, new
<1>7. \A k \in 1..Len(new) : new[k] # Ack
  <2>1. \A k \in 1..Len(<<Len(dest)>> \o old) : (<<Len(dest)>> \o old)[k] # Ack
    BY <1>1, <1>3, <1>4
  <2>2. \A k \in 1..Len(Shifted(old)) : Shifted(old)[k] # Ack
    <3>1. CASE old = <<>>
      BY <3>1 DEF Shifted
    <3>2. CASE old # <<>>
      <4>1. old[1] \in Nat /\ old[1] # Ack
        BY <1>1, <1>4, <3>2
      <4> QED BY <1>1, <1>4, <3>2, <4>1 DEF Shifted
    <3> QED BY <3>1, <3>2
  <2>3. \A k \in 1..Len(copy) : copy[k] # Ack
    BY DEF Sessions, QueuesHoldMessages
  <2> QED BY <1>4, <1>5, <2>1, <2>2, <2>3
<1>8. \A a \in Addr : \A k \in 1..Len(heap'[a].mOutgoingBytes) :
        heap'[a].mOutgoingBytes[k] # Ack
  BY <1>6, <1>7 DEF new, Sessions, QueuesHoldMessages
<1>9. BacklogIsFresh' /\ PeersInOrder'
  BY <1>1 DEF Sessions, BacklogIsFresh, PeersInOrder, InBacklog, Linked
<1>10. LiveIsGreeted'
  <2>1. \A a \in live : Far(a)' = Far(a)
    BY <1>1 DEF Far, RegistryTypeOK
  <2> QED BY <1>1, <2>1 DEF Sessions, LiveIsGreeted, Underway
<1>11. QueuesHoldMessages' /\ AckFirst'
  BY <1>1, <1>2, <1>8 DEF Sessions, QueuesHoldMessages, AckFirst
<1> QED BY <1>9, <1>10, <1>11 DEF Sessions

LEMMA DestroySessions == IInv /\ Sessions /\ Destroy => Sessions'
<1> SUFFICES ASSUME IInv, Sessions, Destroy PROVE Sessions'
  OBVIOUS
<1>1. /\ Clear /\ loop.pc # "handshake" /\ app'.pc = "gone"
      /\ \A k \in 1..Len(mContainer) : mContainer[k] \in live
      /\ UNCHANGED <<backlog, peer, inbox, got, dest, copy>>
  BY AppTypes DEF Destroy, server, remote, AppState
<1>2. UNCHANGED heap /\ live' \subseteq live
  BY <1>1 DEF Clear
<1>3. \A f \in ConnFd : fdTable'[f] \in {fdTable[f], NoPeer}
  BY <1>1 DEF Clear
<1>4. \A a \in live' : Far(a)' = Far(a)
  BY <1>1, AppTypes
  DEF Clear, RegistrySound, RegistryTypeOK, LiveConnectionOwnsFd, Far
<1> QED BY <1>1, <1>2, <1>3, <1>4, DeletionSessions

LEMMA AppSessions == IInv /\ Sessions /\ (AppCall \/ AppStep) => Sessions'
<1> SUFFICES ASSUME IInv, Sessions, AppCall \/ AppStep PROVE Sessions'
  OBVIOUS
<1>1. ASSUME \/ Broadcast \/ Shutdown \/ (\E p \in Peer : Send(p))
             \/ Find \/ NextConnection \/ SetLoad \/ SetStore \/ Reserve
             \/ CloseListen \/ Wakeup
      PROVE  Sessions'
  <2>1. UNCHANGED <<heap, live, fdTable, peer, inbox, got, loop>>
    BY <1>1
    DEF Broadcast, Shutdown, Send, Find, NextConnection, SetLoad, SetStore,
        Reserve, CloseListen, Wakeup, AppOnly, AppKeeps, objects, remote
  <2>2. UNCHANGED backlog \/ backlog' = <<>>
    BY <1>1
    DEF Broadcast, Shutdown, Send, Find, NextConnection, SetLoad, SetStore,
        Reserve, CloseListen, Wakeup, AppOnly, closing
  <2>3. BacklogIsFresh' /\ PeersInOrder' /\ LiveIsGreeted' /\ AckFirst'
    BY <2>1, <2>2
    DEF Sessions, BacklogIsFresh, PeersInOrder, InBacklog, Linked,
        LiveIsGreeted, Far, Underway, AckFirst
  <2>4. app'.pc \in Calling => Len(dest') > 0
    <3>1. CASE Broadcast \/ \E p \in Peer : Send(p)
      <4>1. PICK to : dest' = Append(dest, to)
        BY <3>1 DEF Broadcast, Send
      <4> QED BY <4>1, AppTypes
    <3>2. CASE Shutdown \/ CloseListen \/ Wakeup
      BY <3>2, AppStates, AppTypes DEF Shutdown, CloseListen, Wakeup, AppState
    <3>3. CASE Find \/ NextConnection \/ SetLoad \/ SetStore \/ Reserve
      <4>1. app.pc \in Calling /\ dest' = dest
        BY <3>3
        DEF Find, NextConnection, SetLoad, SetStore, Reserve,
            AppAt, AppOnly
      <4> QED BY <4>1 DEF Sessions, QueuesHoldMessages
    <3> QED BY <1>1, <3>1, <3>2, <3>3
  <2>5. \A k \in 1..Len(copy') : copy'[k] # Ack
    <3>1. CASE Reserve
      <4>1. app.conn \in Addr /\ copy' = heap[app.conn].mOutgoingBytes
        BY <3>1, AppTypes DEF Reserve, AppAt
      <4> QED BY <4>1 DEF Sessions, QueuesHoldMessages
    <3>2. CASE ~Reserve
      <4>1. copy' = copy
        BY <1>1, <3>2
        DEF Broadcast, Shutdown, Send, Find, NextConnection, SetLoad, SetStore,
            CloseListen, Wakeup, AppOnly, AppKeeps
      <4> QED BY <4>1 DEF Sessions, QueuesHoldMessages
    <3> QED BY <3>1, <3>2
  <2>6. QueuesHoldMessages'
    BY <2>1, <2>4, <2>5 DEF Sessions, QueuesHoldMessages
  <2> QED BY <2>3, <2>6 DEF Sessions
<1> QED BY <1>1, QueueSessions, DestroySessions DEF AppCall, AppStep

\* Nor does a client.
LEMMA PeerSessions == IInv /\ Sessions /\ PeerStep => Sessions'
<1> SUFFICES ASSUME IInv, Sessions, NEW p \in Peer,
                    Connect(p) \/ Identify(p) \/ Talk(p) \/ Close(p)
             PROVE  Sessions'
  BY DEF PeerStep
<1>1. UNCHANGED <<heap, live, fdTable, loop, app, dest, copy, got>>
  BY DEF Connect, Identify, Talk, Close, registry
<1>2. /\ peer \in [Peer -> PeerPc] /\ inbox \in [Peer -> Seq(Token)]
      /\ backlog \in Seq(Peer)
  BY DEF IInv, ServerTypeOK, PeersTypeOK
<1>3. QueuesHoldMessages'
  BY <1>1 DEF Sessions, QueuesHoldMessages
<1>4. \A q \in Peer : peer[q] \in {"talking", "closed"} =>
                        peer'[q] \in {"talking", "closed"}
  BY <1>2 DEF Connect, Identify, Talk, Close
<1>5. \A q \in Peer : peer[q] = "closed" => peer'[q] = "closed"
  BY <1>2 DEF Connect, Identify, Talk, Close
<1>6. AckFirst'
  BY <1>1, <1>4 DEF Sessions, AckFirst
<1>7. LiveIsGreeted'
  <2>1. \A a \in live : Far(a)' = Far(a) /\ Far(a) \in Peer
    BY <1>1, LiveTypes DEF Far
  <2> QED BY <1>1, <1>4, <1>5, <2>1 DEF Sessions, LiveIsGreeted, Underway
<1>8. CASE Connect(p)
  <2>1. /\ peer[p] = "new" /\ peer' = [peer EXCEPT ![p] = "greeting"]
        /\ backlog' = Append(backlog, p) /\ inbox' = inbox
    BY <1>8 DEF Connect
  <2>2. ~InBacklog(p) /\ ~Linked(p) /\ got[p] = <<>> /\ inbox[p] = <<>>
    BY <2>1 DEF Sessions, BacklogIsFresh, PeersInOrder
  <2>3. /\ Len(backlog) \in Nat /\ Len(backlog') = Len(backlog) + 1
        /\ \A k \in 1..Len(backlog') :
             backlog'[k] = IF k \in 1..Len(backlog) THEN backlog[k] ELSE p
    BY <1>2, <2>1
  <2>4. \A j, k \in 1..Len(backlog') : backlog'[j] = backlog'[k] => j = k
    BY <2>2, <2>3 DEF InBacklog, Sessions, BacklogIsFresh
  <2>5. \A q \in Peer : InBacklog(q)' => q = p \/ InBacklog(q)
    BY <2>3 DEF InBacklog
  <2>6. BacklogIsFresh'
    BY <1>1, <1>2, <2>1, <2>2, <2>4, <2>5
    DEF Sessions, BacklogIsFresh, Linked
  <2>7. PeersInOrder'
    BY <1>1, <1>2, <2>1, <2>2 DEF Sessions, PeersInOrder, Linked
  <2> QED BY <1>3, <1>6, <1>7, <2>6, <2>7 DEF Sessions
<1>9. CASE Identify(p) \/ Talk(p) \/ Close(p)
  <2>1. /\ backlog' = backlog /\ peer[p] # "new"
        /\ \/ peer' = peer /\ peer[p] = "talking"
           \/ Linked(p) /\ peer' = [peer EXCEPT ![p] = "talking"]
           \/ peer' = [peer EXCEPT ![p] = "closed"]
        /\ \/ inbox' = inbox
           \/ /\ Linked(p) /\ peer'[p] = "talking"
              /\ \E t : inbox' = [inbox EXCEPT ![p] = Append(@, t)]
    <3>1. CASE Identify(p)
      BY <1>2, <3>1 DEF Identify, server
    <3>2. CASE Talk(p)
      BY <1>2, <3>2 DEF Talk, server
    <3>3. CASE Close(p)
      BY <1>2, <3>3 DEF Close, server
    <3> QED BY <1>9, <3>1, <3>2, <3>3
  <2>2. /\ \A q \in Peer : peer'[q] = "new" => peer[q] = "new"
        /\ \A q \in Peer : peer[q] # "new" => peer'[q] # "new"
        /\ \A q \in Peer : peer'[q] = "greeting" => peer[q] = "greeting"
    BY <1>2, <2>1
  <2>3. \A q \in Peer : \/ inbox'[q] = inbox[q]
                        \/ Linked(q) /\ peer'[q] = "talking"
    BY <1>2, <2>1
  <2>4. BacklogIsFresh'
    <3>1. \A q \in Peer : InBacklog(q) => peer'[q] \in {"greeting", "closed"}
      BY <1>2, <2>1 DEF Sessions, BacklogIsFresh
    <3> QED BY <1>1, <2>1, <2>3, <3>1
            DEF Sessions, BacklogIsFresh, InBacklog, Linked
  <2>5. PeersInOrder'
    BY <1>1, <2>2, <2>3 DEF Sessions, PeersInOrder, Linked
  <2> QED BY <1>3, <1>6, <1>7, <2>4, <2>5 DEF Sessions
<1> QED BY <1>8, <1>9

\* A client reads the acknowledgement first and once, before any message, however
\* often descriptors and addresses were used by others before.
THEOREM AcknowledgedFirst == Spec => []AckFirst
<1>1. IInv /\ Sessions /\ [Next]_vars => Sessions'
  <2> SUFFICES ASSUME IInv, Sessions, [Next]_vars PROVE Sessions'
    OBVIOUS
  <2>1. CASE Crash \/ Over \/ UNCHANGED vars
    <3>1. UNCHANGED <<heap, live, fdTable, backlog, peer, inbox, got, dest, app,
                      copy, loop>>
      BY <2>1 DEF Crash, Over, vars, registry, server, remote
    <3> QED BY <3>1
        DEF Sessions, BacklogIsFresh, PeersInOrder, InBacklog, Linked,
            QueuesHoldMessages, LiveIsGreeted, Far, Underway, AckFirst
  <2> QED BY <2>1, LoopSessions, AppSessions, PeerSessions DEF Next
<1>2. Sessions => AckFirst
  BY DEF Sessions
<1> QED BY Inductive, InitSessions, <1>1, <1>2, PTL DEF Spec

-----------------------------------------------------------------------------
(* The identity of a connection *)

\* While a client is being greeted, what it says starts with its name; past the
\* constructor, its connection carries the name.
FirstWordIsName ==
  loop.pc = "handshake" =>
    /\ peer[Joining] = "talking" => inbox[Joining] # <<>>
    /\ inbox[Joining] # <<>> => inbox[Joining][1] = Name[Joining]

CarriesName ==
  \A a \in live : ~Underway(a) =>
    /\ heap[a].mIdentifier # <<>>
    /\ heap[a].mIdentifier[1] = Name[Far(a)]

Identities == FirstWordIsName /\ CarriesName

-----------------------------------------------------------------------------
(* The records of who is connected *)

Ids(S)     == {heap[a].mIdentifier : a \in S}
Sockets(S) == {heap[a].mSocket : a \in S}

\* The vector holds pointers to live objects, each once, and none to the object
\* under construction.
VectorSound ==
  /\ Connected \subseteq live /\ Connected \cap UnderConstruction = {}
  /\ \A j, k \in 1..Len(mContainer) : mContainer[j] = mContainer[k] => j = k

\* select is given every connection, and a bound none exceeds.
ReadSetSound ==
  /\ mRead = BaseRead \cup Sockets(Connected)
  /\ \A f \in Sockets(Connected) : f <= mFdMax
  /\ loop.pc \in {"select", "waiting"} => \A f \in mRead : f <= loop.fdmax

\* The map has every connection's identifier.  The application has been told of
\* the one about to be registered, and no longer knows the one about to be
\* removed.
NamesSound ==
  /\ DOMAIN mMapping = Ids(Connected)
  /\ loop.pc = "register" => up = Ids(Connected) \cup Ids({loop.conn})
  /\ loop.pc = "remove"   => up = Ids(Connected) \ Ids({loop.conn})
  /\ loop.pc \notin {"register", "remove"} => up = Ids(Connected)
  /\ loop.pc = "remove" => /\ loop.conn \in Connected
                           /\ heap[loop.conn].mSocket = Current

\* What makes ConsistentWhileWaiting inductive.
Records ==
  /\ loop.pc = "init" => /\ live = {} /\ mContainer = <<>>
                         /\ DOMAIN mMapping = {} /\ up = {}
  /\ loop.pc \notin {"init", "returned", "threw"} /\ Whole =>
       VectorSound /\ ReadSetSound /\ NamesSound

-----------------------------------------------------------------------------
(* Identities are kept *)

\* The object under construction leads to the client that is joining.
LEMMA JoiningFar ==
  ASSUME IInv, loop.pc = "handshake"
  PROVE  loop.conn \in live /\ Joining = Far(loop.conn) /\ Joining \in Peer
  BY JoiningType DEF IInv, Construction, Joining, Far

\* Steps that leave the objects that stay, and a handshake under way, as they are.
LEMMA IdentitiesKept ==
  ASSUME IInv, Identities, live' \subseteq live,
         \A a \in live' : /\ heap'[a].mIdentifier = heap[a].mIdentifier
                          /\ Far(a)' = Far(a),
         \/ loop' = loop /\ live' = live /\ UNCHANGED <<peer, inbox>>
         \/ loop.pc # "handshake" /\ loop'.pc # "handshake"
  PROVE  Identities'
<1>1. CarriesName'
  BY DEF Identities, CarriesName, Underway
<1>2. FirstWordIsName'
  <2> SUFFICES ASSUME loop' = loop, live' = live, UNCHANGED <<peer, inbox>>,
                      loop.pc = "handshake"
               PROVE  FirstWordIsName'
    BY DEF FirstWordIsName
  <2>1. Joining' = Joining
    BY JoiningFar DEF Joining, Far
  <2> QED BY <2>1 DEF Identities, FirstWordIsName
<1> QED BY <1>1, <1>2 DEF Identities

LEMMA AcceptIdentities == IInv /\ Sessions /\ Identities /\ Accept => Identities'
<1> SUFFICES ASSUME IInv, Sessions, Identities, Accept PROVE Identities'
  OBVIOUS
<1> DEFINE p == Head(backlog)
<1>1. PICK a \in Addr : /\ AcceptInto(a, p)
                        /\ loop' = [loop EXCEPT !.pc = "handshake", !.conn = a]
  BY DEF Accept
<1>2. PICK fd \in FreeFds :
        /\ heap' = [heap EXCEPT ![a] = [mSocket |-> fd, mIdentifier |-> <<>>,
                                        mOutgoingBytes |-> <<>>]]
        /\ fdTable' = [fdTable EXCEPT ![fd] = p]
  BY <1>1 DEF AcceptInto, SocketGone
<1>3. /\ a \notin live /\ live' = live \cup {a} /\ loop.pc = "scan"
      /\ loop'.pc = "handshake" /\ loop'.conn = a
      /\ UNCHANGED <<peer, inbox>>
  BY <1>1, LoopTypes
  DEF AcceptInto, Accept, Reading, LoopAt, LoopKeeps, LoopState
<1>4. /\ p \in Peer /\ InBacklog(p) /\ RegistryTypeOK
      /\ fd \in ConnFd /\ fdTable[fd] = NoPeer
  <2>1. backlog \in Seq(Peer) /\ backlog # <<>> /\ RegistryTypeOK
    BY LoopTypes DEF Accept
  <2>2. p \in Peer /\ 1 \in 1..Len(backlog) /\ p = backlog[1]
    BY <2>1
  <2> QED BY <1>2, <2>1, <2>2 DEF FreeFds, InBacklog
<1>5. inbox[p] = <<>> /\ peer[p] # "talking"
  BY <1>4 DEF Sessions, BacklogIsFresh
<1>6. Joining' = p
  BY <1>2, <1>3, <1>4 DEF Joining, RegistryTypeOK
<1>7. FirstWordIsName'
  BY <1>3, <1>5, <1>6 DEF FirstWordIsName
<1>8. CarriesName'
  <2>1. \A b \in live : /\ b # a /\ heap'[b] = heap[b]
                        /\ Far(b)' = Far(b)
    BY <1>2, <1>3, <1>4, LiveTypes, LoopTypes
    DEF Far, RegistryTypeOK, RegistrySound, LiveConnectionOwnsFd
  <2> QED BY <1>3, <2>1 DEF Identities, CarriesName, Underway
<1> QED BY <1>7, <1>8 DEF Identities

\* However what a client said is cut, its first word comes first.
LEMMA FirstWords ==
  ASSUME IInv, NEW p \in Peer, inbox[p] # <<>>
  PROVE  Received(p) # <<>> /\ Received(p)[1] = inbox[p][1]
<1> DEFINE s == inbox[p]
           m == Min({RecvMax, Len(s)})
<1>1. s \in Seq(Token) /\ s # <<>>
  BY LoopTypes
<1>2. Len(s) \in Nat /\ Len(s) > 0 /\ RecvMax \in Nat /\ RecvMax > 0
  BY <1>1, ServerAssumption
<1>3. m \in Nat /\ m > 0 /\ m <= Len(s)
  <2> DEFINE S == {RecvMax, Len(s)}
  <2> HIDE DEF s
  <2>1. S \subseteq Nat /\ S # {}
    BY <1>2
  <2>2. Min(S) \in S /\ \A x \in S : Min(S) <= x
    BY <2>1, MinIsLeast, Zenon
  <2> QED BY <1>2, <2>2
<1>4. Received(p) = SubSeq(s, 1, m)
  BY DEF Received
<1>5. SubSeq(s, 1, m) # <<>> /\ SubSeq(s, 1, m)[1] = s[1]
  <2> HIDE DEF s, m
  <2> QED BY <1>1, <1>2, <1>3, SubSeqProperties
<1> QED BY <1>4, <1>5

\* The constructor stores what the client said first, and that starts with its
\* name however it is cut.
LEMMA IdentifiedIdentities ==
  IInv /\ Sessions /\ Identities /\ Identified => Identities'
<1> SUFFICES ASSUME IInv, Sessions, Identities, Identified PROVE Identities'
  OBVIOUS
<1> DEFINE first == Received(Joining)
<1>1. /\ loop.pc = "handshake" /\ loop'.pc = "register" /\ inbox[Joining] # <<>>
      /\ heap' = [heap EXCEPT ![loop.conn].mIdentifier = first]
      /\ UNCHANGED <<live, fdTable>> /\ loop'.conn = loop.conn
  BY LoopTypes DEF Identified, LoopAt, objects, LoopState
<1>2. /\ loop.conn \in live /\ loop.conn \in Addr /\ Joining = Far(loop.conn)
      /\ Joining \in Peer
  BY <1>1, JoiningFar, LiveTypes
<1>3. first # <<>> /\ first[1] = Name[Joining]
  BY <1>1, <1>2, FirstWords DEF Identities, FirstWordIsName
<1>4. \A a \in live : Far(a)' = Far(a)
  BY <1>1, LiveTypes, LoopTypes DEF Far, RegistryTypeOK, ServerConnection
<1>5. /\ heap'[loop.conn].mIdentifier = first
      /\ \A a \in live : a # loop.conn =>
                          heap'[a].mIdentifier = heap[a].mIdentifier
  BY <1>1, <1>2, LiveTypes, LoopTypes DEF RegistryTypeOK, ServerConnection
<1>6. CarriesName'
  <2> SUFFICES ASSUME NEW a \in live
               PROVE  /\ heap'[a].mIdentifier # <<>>
                      /\ heap'[a].mIdentifier[1] = Name[Far(a)']
    BY <1>1 DEF CarriesName
  <2>1. CASE a = loop.conn
    BY <1>2, <1>3, <1>4, <1>5, <2>1
  <2>2. CASE a # loop.conn
    BY <1>4, <1>5, <2>2 DEF Identities, CarriesName, Underway
  <2> QED BY <2>1, <2>2
<1>7. FirstWordIsName'
  BY <1>1 DEF FirstWordIsName
<1> QED BY <1>6, <1>7 DEF Identities

\* Nothing the loop does otherwise changes who a connection belongs to.
LEMMA LoopIdentities == IInv /\ Sessions /\ Identities /\ LoopStep => Identities'
<1> SUFFICES ASSUME IInv, Sessions, Identities, LoopStep PROVE Identities'
  OBVIOUS
<1>1. CASE HandshakeFails
  <2>1. /\ live' = live \ {loop.conn} /\ loop.pc = "handshake"
        /\ loop'.pc = "scan" /\ UNCHANGED <<heap, fdTable>>
    BY <1>1, LoopTypes
    DEF HandshakeFails, ConstructorThrows, LoopAt, ReadDone, LoopState
  <2>2. CarriesName'
    BY <2>1 DEF Identities, CarriesName, Underway, Far
  <2>3. FirstWordIsName'
    BY <2>1 DEF FirstWordIsName
  <2> QED BY <2>2, <2>3 DEF Identities
<1>2. ASSUME NEW i \in ConnFd, Remove(i)
      PROVE  Identities'
  <2>1. loop.pc = "remove" /\ loop'.pc = "scan" /\ Victim(i) \in live
    BY <1>2, LoopTypes DEF Remove, LoopAt, ReadDone, LoopState
  <2>2. CASE ~Found(i)
    <3>1. UNCHANGED <<heap, live, fdTable>>
      BY <1>2, <2>2 DEF Remove, RemoveServerConnection
    <3> QED BY <2>1, <3>1, IdentitiesKept DEF Far
  <2>3. CASE Found(i)
    <3> DEFINE v == Victim(i)
    <3>1. PICK left : heap' = [heap EXCEPT ![v].mSocket = left]
      BY <1>2, <2>3 DEF Remove, RemoveServerConnection, Delete
    <3>2. /\ live' = live \ {v}
          /\ fdTable' = [fdTable EXCEPT ![heap[v].mSocket] = NoPeer]
      BY <1>2, <2>3 DEF Remove, RemoveServerConnection, Delete
    <3>3. \A a \in live' : heap'[a] = heap[a]
      BY <3>1, <3>2, LoopTypes DEF RegistrySound, RegistryTypeOK
    <3>4. \A a \in live' : Far(a)' = Far(a)
      BY <2>1, <3>2, <3>3, LoopTypes
      DEF RegistrySound, RegistryTypeOK, LiveConnectionOwnsFd, Far
    <3> QED BY <2>1, <3>2, <3>3, <3>4, IdentitiesKept
  <2> QED BY <2>2, <2>3
<1>3. ASSUME NEW i \in ConnFd, Flush(i)
      PROVE  Identities'
  <2>1. /\ loop.pc = "scan" /\ loop'.pc = "load" /\ UNCHANGED <<live, fdTable>>
        /\ heap' = [heap EXCEPT ![Lookup(i)].mOutgoingBytes = <<>>]
    BY <1>3, LoopTypes
    DEF Flush, Writing, LoopAt, QueueSwapped, objects, LoopState
  <2>2. \A a \in live : /\ heap'[a].mIdentifier = heap[a].mIdentifier
                         /\ Far(a)' = Far(a)
    BY <2>1, LiveTypes, LoopTypes DEF RegistryTypeOK, ServerConnection, Far
  <2> QED BY <2>1, <2>2, IdentitiesKept
<1>4. ASSUME \/ LoopStart \/ LoopTop \/ SelectEnter \/ SelectReturn \/ ScanDone
             \/ DrainWakeup \/ AcceptFails \/ Register \/ ClearLoad \/ ClearStore
             \/ \E i \in ConnFd : \/ ReadNobody(i) \/ ReceiveFails(i)
                                  \/ FlushNobody(i) \/ Receive(i)
      PROVE  Identities'
  <2>1. UNCHANGED <<heap, live, fdTable>>
    BY <1>4
    DEF LoopStart, LoopTop, SelectEnter, SelectReturn, ScanDone, DrainWakeup,
        AcceptFails, Register, ClearLoad, ClearStore, ReadNobody, ReceiveFails,
        FlushNobody, Receive, LoopOnly, registry, AddServerConnection
  <2>2. loop.pc # "handshake" /\ loop'.pc # "handshake"
    BY <1>4, LoopTypes
    DEF LoopStart, LoopTop, SelectEnter, SelectReturn, ScanDone, DrainWakeup,
        AcceptFails, Register, ClearLoad, ClearStore, ReadNobody, ReceiveFails,
        FlushNobody, Receive, LoopAt, Reading, Writing, ReadDone, RemovalNext,
        LoopState
  <2> QED BY <2>1, <2>2, IdentitiesKept DEF Far
<1> QED BY <1>1, <1>2, <1>3, <1>4, AcceptIdentities, IdentifiedIdentities
        DEF LoopStep

LEMMA AppIdentities == IInv /\ Identities /\ (AppCall \/ AppStep) => Identities'
<1> SUFFICES ASSUME IInv, Identities, AppCall \/ AppStep PROVE Identities'
  OBVIOUS
<1>1. CASE Destroy
  <2>1. /\ Clear /\ loop' = loop /\ loop.pc # "handshake"
    BY <1>1 DEF Destroy
  <2>2. UNCHANGED heap /\ live' \subseteq live
    BY <2>1 DEF Clear
  <2>3. \A a \in live' : Far(a)' = Far(a)
    BY <1>1, <2>1, AppTypes
    DEF Destroy, Clear, RegistrySound, RegistryTypeOK, LiveConnectionOwnsFd, Far
  <2> QED BY <2>1, <2>2, <2>3, IdentitiesKept
<1>2. CASE Install \/ Insert \/ InsertLost
  <2>1. /\ UNCHANGED <<live, fdTable, peer, inbox, loop>>
        /\ \A a \in Addr : /\ heap'[a].mIdentifier = heap[a].mIdentifier
                           /\ heap'[a].mSocket = heap[a].mSocket
    BY <1>2, QueueWritten
  <2>2. \A a \in live : /\ heap'[a].mIdentifier = heap[a].mIdentifier
                         /\ Far(a)' = Far(a)
    BY <2>1, LiveTypes DEF Far
  <2> QED BY <2>1, <2>2, IdentitiesKept
<1>3. ASSUME \/ Broadcast \/ Shutdown \/ (\E p \in Peer : Send(p))
             \/ Find \/ NextConnection \/ SetLoad \/ SetStore \/ Reserve
             \/ CloseListen \/ Wakeup
      PROVE  Identities'
  <2>1. UNCHANGED <<heap, live, fdTable, peer, inbox, loop>>
    BY <1>3
    DEF Broadcast, Shutdown, Send, Find, NextConnection, SetLoad, SetStore,
        Reserve, CloseListen, Wakeup, AppOnly, AppKeeps, objects, remote
  <2> QED BY <2>1, IdentitiesKept DEF Far
<1> QED BY <1>1, <1>2, <1>3 DEF AppCall, AppStep

LEMMA PeerIdentities == IInv /\ Sessions /\ Identities /\ PeerStep => Identities'
<1> SUFFICES ASSUME IInv, Sessions, Identities, NEW p \in Peer,
                    Connect(p) \/ Identify(p) \/ Talk(p) \/ Close(p)
             PROVE  Identities'
  BY DEF PeerStep
<1>1. UNCHANGED <<heap, live, fdTable, loop>>
  BY DEF Connect, Identify, Talk, Close, registry
<1>2. CarriesName'
  BY <1>1 DEF Identities, CarriesName, Underway, Far
<1>3. FirstWordIsName'
  <2> SUFFICES ASSUME loop.pc = "handshake"
               PROVE  /\ peer'[Joining] = "talking" => inbox'[Joining] # <<>>
                      /\ inbox'[Joining] # <<>> =>
                           inbox'[Joining][1] = Name[Joining]
    BY <1>1 DEF FirstWordIsName, Joining
  <2>1. /\ Joining \in Peer
        /\ peer \in [Peer -> PeerPc] /\ inbox \in [Peer -> Seq(Token)]
    BY JoiningFar DEF IInv, ServerTypeOK, PeersTypeOK
  <2>2. /\ peer[Joining] = "talking" => inbox[Joining] # <<>>
        /\ inbox[Joining] # <<>> => inbox[Joining][1] = Name[Joining]
    BY DEF Identities, FirstWordIsName
  <2>3. CASE p # Joining
    BY <2>1, <2>2, <2>3 DEF Connect, Identify, Talk, Close
  <2>4. CASE p = Joining /\ (Connect(p) \/ Close(p))
    BY <2>1, <2>2, <2>4 DEF Connect, Close
  <2>5. CASE p = Joining /\ Identify(p)
    <3>1. inbox[p] = <<>>
      BY <2>5 DEF Identify, Sessions, PeersInOrder
    <3>2. inbox'[p] = <<Name[p]>>
      BY <2>1, <2>5, <3>1 DEF Identify
    <3> QED BY <2>5, <3>2
  <2>6. CASE p = Joining /\ Talk(p)
    <3>1. inbox[p] # <<>> /\ peer' = peer
      BY <2>2, <2>6 DEF Talk
    <3>2. inbox'[p] = Append(inbox[p], Data)
      BY <2>1, <2>6 DEF Talk
    <3>3. inbox'[p] # <<>> /\ inbox'[p][1] = inbox[p][1]
      BY <2>1, <2>6, <3>1, <3>2
    <3> QED BY <2>2, <2>6, <3>1, <3>3
  <2> QED BY <2>3, <2>4, <2>5, <2>6
<1> QED BY <1>2, <1>3 DEF Identities

-----------------------------------------------------------------------------
(* The records are kept *)

\* Every client has a name of its own: what a deployment has to see to, the
\* server does not ask.
DistinctNames == \A p, q \in Peer : Name[p] = Name[q] => p = q

\* Then two connections past their constructors have different identifiers.
LEMMA OneIdentity ==
  ASSUME DistinctNames, IInv, Sessions, Identities,
         NEW a \in live, NEW b \in live, ~Underway(a), ~Underway(b),
         heap[a].mIdentifier = heap[b].mIdentifier
  PROVE  a = b
<1>1. Far(a) = Far(b)
  <2>1. Name[Far(a)] = Name[Far(b)]
    BY DEF Identities, CarriesName
  <2> QED BY <2>1, LiveTypes DEF DistinctNames
<1>2. heap[a].mSocket = heap[b].mSocket
  <2>1. fdTable[heap[a].mSocket] # NoPeer
    BY LiveTypes, RegistryAssumption DEF Far
  <2> QED BY <1>1, <2>1, LiveTypes DEF Sessions, PeersInOrder, Far
<1> QED BY <1>2 DEF IInv, RegistrySound, LiveConnectionOwnsFd

LEMMA ConnectedTypes ==
  ASSUME IInv
  PROVE  /\ Connected \subseteq Addr /\ mContainer \in Seq(Addr)
         /\ mContainer \in Seq(Connected)
<1>1. mContainer \in Seq(Addr)
  BY LoopTypes DEF RegistryTypeOK
<1>2. \A k \in 1..Len(mContainer) : mContainer[k] \in Connected
  BY DEF Connected
<1>3. mContainer \in [1..Len(mContainer) -> Connected] /\ Len(mContainer) \in Nat
  BY <1>1, <1>2, LenProperties
<1>4. mContainer \in Seq(Connected)
  BY <1>3, FunctionIsVector
<1> QED BY <1>1, <1>4 DEF Connected

\* What the vector lists looks the same when no member it shows has changed.
LEMMA SameObjects ==
  ASSUME mContainer' = mContainer,
         \A a \in Connected : /\ heap'[a].mIdentifier = heap[a].mIdentifier
                              /\ heap'[a].mSocket = heap[a].mSocket
  PROVE  /\ Connected' = Connected
         /\ Ids(Connected)' = Ids(Connected)
         /\ Sockets(Connected)' = Sockets(Connected)
<1>1. Connected' = Connected
  BY DEF Connected
<1>2. /\ Ids(Connected)' = {heap'[a].mIdentifier : a \in Connected}
      /\ Sockets(Connected)' = {heap'[a].mSocket : a \in Connected}
  BY <1>1 DEF Ids, Sockets
<1>3. {heap'[a].mIdentifier : a \in Connected} = Ids(Connected)
  BY DEF Ids
<1>4. {heap'[a].mSocket : a \in Connected} = Sockets(Connected)
  BY DEF Sockets
<1> QED BY <1>1, <1>2, <1>3, <1>4

\* Steps of the application and of the clients that leave the registry alone.
LEMMA RecordsKept ==
  ASSUME IInv, Records, loop' = loop,
         UNCHANGED <<live, mContainer, mMapping, mFdMax, mRead, up>>,
         \A a \in Addr : /\ heap'[a].mIdentifier = heap[a].mIdentifier
                         /\ heap'[a].mSocket = heap[a].mSocket
  PROVE  Records'
<1>1. /\ Connected' = Connected /\ UnderConstruction' = UnderConstruction
      /\ Ids(Connected)' = Ids(Connected)
      /\ Sockets(Connected)' = Sockets(Connected)
      /\ Current' = Current
  BY SameObjects, ConnectedTypes DEF UnderConstruction, Current
<1>2. Whole' = Whole
  BY <1>1 DEF Whole
<1>3. VectorSound => VectorSound'
  BY <1>1 DEF VectorSound
<1>4. ReadSetSound => ReadSetSound'
  BY <1>1 DEF ReadSetSound
<1>5. NamesSound => NamesSound'
  <2> SUFFICES ASSUME NamesSound PROVE NamesSound'
    OBVIOUS
  <2>1. loop.pc \in {"register", "remove"} => loop.conn \in Addr
    BY ConnectedTypes, JoiningType DEF NamesSound
  <2>2. loop.pc \in {"register", "remove"} =>
          /\ Ids({loop.conn})' = Ids({loop.conn})
          /\ heap'[loop.conn].mSocket = heap[loop.conn].mSocket
    BY <2>1 DEF Ids
  <2> QED BY <1>1, <2>2 DEF NamesSound
<1> QED BY <1>2, <1>3, <1>4, <1>5 DEF Records

\* Steps of the loop that leave the registry alone.
LEMMA RecordsMove ==
  ASSUME IInv, Records,
         loop.pc \notin {"init", "handshake", "register", "remove", "returned",
                         "threw"},
         loop'.pc \notin {"init", "handshake", "register", "remove"},
         UNCHANGED <<live, mContainer, mMapping, mFdMax, mRead, up>>,
         \A a \in Addr : /\ heap'[a].mIdentifier = heap[a].mIdentifier
                         /\ heap'[a].mSocket = heap[a].mSocket,
         loop'.pc \in {"select", "waiting"} /\ ReadSetSound =>
           \A f \in mRead : f <= loop'.fdmax
  PROVE  Records'
<1>1. /\ Connected' = Connected /\ UnderConstruction' = {}
      /\ UnderConstruction = {}
      /\ Ids(Connected)' = Ids(Connected)
      /\ Sockets(Connected)' = Sockets(Connected)
  BY SameObjects, ConnectedTypes DEF UnderConstruction
<1>2. Whole' = Whole
  BY <1>1 DEF Whole
<1>3. VectorSound => VectorSound'
  BY <1>1 DEF VectorSound
<1>4. ReadSetSound => ReadSetSound'
  BY <1>1 DEF ReadSetSound
<1>5. NamesSound => NamesSound'
  BY <1>1 DEF NamesSound
<1> QED BY <1>2, <1>3, <1>4, <1>5 DEF Records

\* Whatever is in the read set is within the bound the loop computes for select.
LEMMA FdmaxCovers ==
  ASSUME IInv, ReadSetSound
  PROVE  \A f \in mRead : f <= Max({ListenFd, WakeFd, mFdMax})
<1> DEFINE S == {ListenFd, WakeFd, mFdMax}
<1>1. mFdMax \in Int /\ ListenFd \in Int /\ WakeFd \in Int
  BY LoopTypes, ServerAssumption DEF RegistryTypeOK
<1>2. \E x \in S : \A y \in S : x >= y
  BY <1>1
<1>3. Max(S) \in S /\ \A y \in S : Max(S) >= y
  BY <1>2 DEF Max
<1>4. \A f \in mRead : f \in Int /\ \E y \in S : f <= y
  <2>1. \A f \in mRead : f = ListenFd \/ f = WakeFd \/ f \in Sockets(Connected)
    BY DEF ReadSetSound, BaseRead
  <2>2. mRead \subseteq Int
    BY LoopTypes DEF RegistryTypeOK
  <2>3. \A f \in Sockets(Connected) : f <= mFdMax
    BY DEF ReadSetSound
  <2>4. ListenFd <= ListenFd /\ WakeFd <= WakeFd
    BY <1>1
  <2> QED BY <2>1, <2>2, <2>3, <2>4
<1> HIDE DEF S
<1>5. Max(S) \in Int
  BY <1>1, <1>3 DEF S
<1>6. \A y \in S : y \in Int
  BY <1>1 DEF S
<1>7. \A f \in mRead : f <= Max(S)
  BY <1>3, <1>4, <1>5, <1>6
<1> QED BY <1>7 DEF S

\* The registry an event loop starts with is empty.
LEMMA LoopStartRecords == IInv /\ Records /\ LoopStart => Records'
<1> SUFFICES ASSUME IInv, Records, LoopStart PROVE Records'
  OBVIOUS
<1>1. /\ live = {} /\ mContainer = <<>> /\ DOMAIN mMapping = {} /\ up = {}
      /\ UNCHANGED <<live, mContainer, mMapping, mFdMax, up>>
      /\ mRead' = BaseRead /\ loop'.pc = "top"
  BY LoopTypes DEF LoopStart, LoopAt, Records, Quiet, LoopState
<1>2. Connected' = {}
  BY <1>1 DEF Connected
<1>3. Ids(Connected)' = {} /\ Sockets(Connected)' = {}
  BY <1>2 DEF Ids, Sockets
<1>4. VectorSound' /\ ReadSetSound' /\ NamesSound'
  BY <1>1, <1>2, <1>3 DEF VectorSound, ReadSetSound, NamesSound
<1> QED BY <1>1, <1>4 DEF Records

\* The new object is at an address the vector does not list.
LEMMA AcceptRecords == IInv /\ Records /\ Accept => Records'
<1> SUFFICES ASSUME IInv, Records, Accept PROVE Records'
  OBVIOUS
<1>1. PICK a \in Addr : /\ AcceptInto(a, Head(backlog))
                        /\ loop' = [loop EXCEPT !.pc = "handshake", !.conn = a]
  BY DEF Accept
<1>2. PICK new : heap' = [heap EXCEPT ![a] = new]
  BY <1>1 DEF AcceptInto
<1>3. /\ a \notin live /\ live' = live \cup {a}
      /\ UNCHANGED <<mContainer, mMapping, mFdMax, mRead, up>>
      /\ loop.pc = "scan" /\ loop'.pc = "handshake" /\ loop'.conn = a
  BY <1>1, LoopTypes
  DEF AcceptInto, Accept, Reading, LoopAt, Quiet, LoopState
<1>4. UnderConstruction = {} /\ UnderConstruction' = {a}
  BY <1>3 DEF UnderConstruction
<1>5. Connected' = Connected
  BY <1>3 DEF Connected
<1>6. Whole' => Whole
  BY <1>3, <1>4, <1>5 DEF Whole
<1>7. ASSUME VectorSound, ReadSetSound, NamesSound
      PROVE  VectorSound' /\ ReadSetSound' /\ NamesSound'
  <2>1. a \notin Connected
    BY <1>3, <1>7 DEF VectorSound
  <2>2. \A b \in Connected : heap'[b] = heap[b]
    BY <1>2, <2>1, ConnectedTypes, LoopTypes DEF RegistryTypeOK
  <2>3. /\ Ids(Connected)' = Ids(Connected)
        /\ Sockets(Connected)' = Sockets(Connected)
    BY <1>3, <2>2, SameObjects
  <2> QED BY <1>3, <1>4, <1>5, <1>7, <2>1, <2>3
          DEF VectorSound, ReadSetSound, NamesSound
<1> QED BY <1>3, <1>6, <1>7 DEF Records

\* The identifier is stored in an object the vector does not list, and the
\* application is told of it before the map is.
LEMMA IdentifiedRecords == IInv /\ Records /\ Identified => Records'
<1> SUFFICES ASSUME IInv, Records, Identified PROVE Records'
  OBVIOUS
<1> DEFINE c == loop.conn
           id == Received(Joining)
<1>1. /\ loop.pc = "handshake" /\ loop'.pc = "register" /\ loop'.conn = c
      /\ heap' = [heap EXCEPT ![c].mIdentifier = id] /\ up' = up \cup {id}
      /\ UNCHANGED <<live, mContainer, mMapping, mFdMax, mRead>>
  BY LoopTypes DEF Identified, LoopAt, objects, LoopState, TellConnected
<1>2. UnderConstruction = {c} /\ UnderConstruction' = {c}
  BY <1>1 DEF UnderConstruction
<1>3. Connected' = Connected
  BY <1>1 DEF Connected
<1>4. Whole' = Whole
  BY <1>1, <1>2, <1>3 DEF Whole
<1>5. ASSUME VectorSound, ReadSetSound, NamesSound
      PROVE  VectorSound' /\ ReadSetSound' /\ NamesSound'
  <2>1. c \notin Connected
    BY <1>2, <1>5 DEF VectorSound
  <2>2. \A b \in Connected : heap'[b] = heap[b]
    BY <1>1, <2>1, ConnectedTypes, LoopTypes DEF RegistryTypeOK
  <2>3. /\ Ids(Connected)' = Ids(Connected)
        /\ Sockets(Connected)' = Sockets(Connected)
    BY <1>1, <2>2, SameObjects
  <2>4. heap'[c].mIdentifier = id
    BY <1>1, JoiningType, LoopTypes DEF RegistryTypeOK, ServerConnection
  <2>5. Ids({loop.conn})' = {id}
    BY <1>1, <2>4 DEF Ids
  <2>6. up' = Ids(Connected) \cup {id}
    BY <1>1, <1>5 DEF NamesSound
  <2> HIDE DEF id
  <2>7. NamesSound'
    BY <1>1, <1>5, <2>3, <2>5, <2>6 DEF NamesSound
  <2> QED BY <1>1, <1>2, <1>3, <1>5, <2>3, <2>7 DEF VectorSound, ReadSetSound
<1> QED BY <1>1, <1>4, <1>5 DEF Records

\* A constructor that throws leaves what the vector lists as it was.
LEMMA HandshakeFailsRecords == IInv /\ Records /\ HandshakeFails => Records'
<1> SUFFICES ASSUME IInv, Records, HandshakeFails PROVE Records'
  OBVIOUS
<1> DEFINE c == loop.conn
<1>1. /\ loop.pc = "handshake" /\ loop'.pc = "scan" /\ live' = live \ {c}
      /\ UNCHANGED <<heap, mContainer, mMapping, mFdMax, mRead, up>>
  BY LoopTypes
  DEF HandshakeFails, ConstructorThrows, LoopAt, ReadDone, LoopState, Quiet
<1>2. UnderConstruction = {c} /\ UnderConstruction' = {}
  BY <1>1 DEF UnderConstruction
<1>3. /\ Connected' = Connected /\ Ids(Connected)' = Ids(Connected)
      /\ Sockets(Connected)' = Sockets(Connected)
  BY <1>1, SameObjects
<1>4. Whole' => Whole
  BY <1>1, <1>2, <1>3 DEF Whole
<1>5. VectorSound => VectorSound'
  BY <1>1, <1>2, <1>3 DEF VectorSound
<1>6. ReadSetSound => ReadSetSound'
  BY <1>1, <1>3 DEF ReadSetSound
<1>7. NamesSound => NamesSound'
  BY <1>1, <1>3 DEF NamesSound
<1> QED BY <1>1, <1>4, <1>5, <1>6, <1>7 DEF Records

\* The connection is added to every record at once.
LEMMA RegisterRecords == IInv /\ Records /\ Register => Records'
<1> SUFFICES ASSUME IInv, Records, Register PROVE Records'
  OBVIOUS
<1> DEFINE c == loop.conn
           fd == heap[c].mSocket
<1>1. /\ loop.pc = "register" /\ loop'.pc = "scan" /\ UNCHANGED <<heap, live, up>>
      /\ mContainer' = Append(mContainer, c)
      /\ DOMAIN mMapping' = DOMAIN mMapping \cup {heap[c].mIdentifier}
      /\ mFdMax' = (IF mFdMax < fd THEN fd ELSE mFdMax)
      /\ mRead' = mRead \cup {fd}
  BY LoopTypes
  DEF Register, AddServerConnection, LoopAt, ReadDone, LoopState, Quiet
<1>2. c \in live /\ c \in Addr /\ fd \in Int /\ mFdMax \in Int
  BY <1>1, JoiningType, LoopTypes
  DEF IInv, Construction, RegistryTypeOK, ServerConnection
<1>3. UnderConstruction = {c} /\ UnderConstruction' = {}
  BY <1>1 DEF UnderConstruction
<1>4. /\ Len(mContainer) \in Nat /\ Len(mContainer') = Len(mContainer) + 1
      /\ \A k \in 1..Len(mContainer') :
           mContainer'[k] = IF k \in 1..Len(mContainer) THEN mContainer[k] ELSE c
  BY <1>1, ConnectedTypes
<1>5. Connected' = Connected \cup {c}
  <2>1. \A k \in 1..Len(mContainer') : mContainer'[k] \in Connected \cup {c}
    BY <1>4 DEF Connected
  <2>2. \A k \in 1..Len(mContainer) : /\ k \in 1..Len(mContainer')
                                      /\ mContainer'[k] = mContainer[k]
    BY <1>4
  <2>3. /\ Len(mContainer) + 1 \in 1..Len(mContainer')
        /\ mContainer'[Len(mContainer) + 1] = c
    BY <1>4
  <2>4. Connected' = {mContainer'[k] : k \in 1..Len(mContainer')}
    BY DEF Connected
  <2> QED BY <2>1, <2>2, <2>3, <2>4 DEF Connected
<1>6. /\ Ids(Connected)' = Ids(Connected) \cup {heap[c].mIdentifier}
      /\ Sockets(Connected)' = Sockets(Connected) \cup {fd}
  BY <1>1, <1>5 DEF Ids, Sockets
<1>7. Whole' => Whole
  BY <1>1, <1>3, <1>5 DEF Whole
<1>8. VectorSound => VectorSound'
  <2> SUFFICES ASSUME VectorSound PROVE VectorSound'
    OBVIOUS
  <2>1. c \notin Connected
    BY <1>3 DEF VectorSound
  <2>2. \A j, k \in 1..Len(mContainer') :
          mContainer'[j] = mContainer'[k] => j = k
    <3>1. \A k \in 1..Len(mContainer) : mContainer[k] # c
      BY <2>1 DEF Connected
    <3> QED BY <1>4, <3>1 DEF VectorSound
  <2> QED BY <1>1, <1>2, <1>3, <1>5, <2>2 DEF VectorSound
<1>9. ReadSetSound => ReadSetSound'
  <2> SUFFICES ASSUME ReadSetSound PROVE ReadSetSound'
    OBVIOUS
  <2>1. \A f \in Sockets(Connected) : f \in Int
    BY ConnectedTypes, LoopTypes DEF Sockets, RegistryTypeOK, ServerConnection
  <2>2. \A f \in Sockets(Connected) \cup {fd} : f <= mFdMax'
    <3> HIDE DEF fd, c
    <3> QED BY <1>1, <1>2, <2>1 DEF ReadSetSound
  <2>3. mRead' = BaseRead \cup Sockets(Connected)'
    BY <1>1, <1>6 DEF ReadSetSound
  <2> QED BY <1>1, <1>6, <2>2, <2>3 DEF ReadSetSound
<1>10. NamesSound => NamesSound'
  <2>1. Ids({loop.conn}) = {heap[c].mIdentifier}
    BY DEF Ids
  <2> QED BY <1>1, <1>6, <2>1 DEF NamesSound
<1> QED BY <1>1, <1>7, <1>8, <1>9, <1>10 DEF Records

\* The application hears of a failure before the registry does: the records are
\* one identifier apart.
LEMMA ReceiveFailsRecords ==
  ASSUME IInv, Records, NEW i \in ConnFd, ReceiveFails(i)
  PROVE  Records'
<1> DEFINE c == Lookup(i)
<1>1. /\ loop.pc = "scan" /\ loop'.pc = "remove" /\ loop'.conn = c
      /\ UNCHANGED <<heap, live, mContainer, mMapping, mFdMax, mRead>>
      /\ up' = up \ {heap[c].mIdentifier} /\ i = Current /\ Current' = Current
  BY LoopTypes
  DEF ReceiveFails, RemovalNext, Reading, LoopAt, LoopState, registry,
      TellDisconnected, Current
<1>2. heap[c].mSocket = i /\ c \in Connected
  BY LoopTypes, FoundShowsSocket DEF ReceiveFails, Lookup, Connected
<1>3. UnderConstruction = {} /\ UnderConstruction' = {}
  BY <1>1 DEF UnderConstruction
<1>4. /\ Connected' = Connected /\ Ids(Connected)' = Ids(Connected)
      /\ Sockets(Connected)' = Sockets(Connected)
  BY <1>1, SameObjects
<1>5. Whole' => Whole
  BY <1>1, <1>3, <1>4 DEF Whole
<1>6. VectorSound => VectorSound'
  BY <1>1, <1>3, <1>4 DEF VectorSound
<1>7. ReadSetSound => ReadSetSound'
  BY <1>1, <1>4 DEF ReadSetSound
<1>8. NamesSound => NamesSound'
  <2>1. Ids({loop.conn})' = {heap[c].mIdentifier}
    BY <1>1 DEF Ids
  <2> QED BY <1>1, <1>2, <1>4, <2>1 DEF NamesSound
<1> QED BY <1>1, <1>5, <1>6, <1>7, <1>8 DEF Records

\* A removal deletes somebody else unless the connection that failed is the last
\* one listed, and somebody else's loss leaves the failed object to nobody.
LEMMA WrongRemovalLoses ==
  ASSUME DistinctNames, IInv, Sessions, Identities, Records,
         NEW i \in ConnFd, Remove(i), Whole'
  PROVE  /\ VectorSound /\ ReadSetSound /\ NamesSound
         /\ Connected' = Connected \ {loop.conn}
         /\ Victim(i) = loop.conn /\ Found(i)
         /\ \A j, k \in 1..Len(mContainer') : mContainer'[j] = mContainer'[k] => j = k
<1> DEFINE c == loop.conn
           v == Victim(i)
<1>1. /\ loop.pc = "remove" /\ loop'.pc = "scan" /\ i = Current /\ v \in live
      /\ RegistryTypeOK /\ i \in Int
  BY LoopTypes, RegistryAssumption DEF Remove, LoopAt, ReadDone, LoopState
<1>2. UnderConstruction = {} /\ UnderConstruction' = {}
  BY <1>1 DEF UnderConstruction
<1>3. ASSUME Whole
      PROVE  /\ VectorSound /\ ReadSetSound /\ NamesSound
             /\ c \in Connected /\ heap[c].mSocket = i /\ Found(i)
  <2>1. VectorSound /\ ReadSetSound /\ NamesSound
    BY <1>1, <1>3 DEF Records
  <2>2. c \in Connected /\ heap[c].mSocket = i
    BY <1>1, <2>1 DEF NamesSound
  <2> QED BY <2>1, <2>2 DEF Found, Matching, Connected
<1>4. CASE ~Found(i)
  <2>1. UNCHANGED <<live, mContainer>>
    BY <1>4 DEF Remove, RemoveServerConnection
  <2>2. Whole
    BY <1>2, <2>1 DEF Whole, Connected
  <2> QED BY <1>3, <1>4, <2>2
<1>5. CASE Found(i)
  <2> DEFINE n == Len(mContainer)
  <2>1. PICK pos \in Listings((1..n) \ Matching(i)) :
          mContainer' = [k \in DOMAIN pos |-> mContainer[pos[k]]]
                          \o SubSeq(mContainer, RemovedAt(i) + 1, n)
    BY <1>5 DEF Remove, RemoveServerConnection
  <2>2. live' = live \ {v}
    BY <1>5 DEF Remove, RemoveServerConnection, Delete
  <2>3. mContainer' \in Seq(Connected) /\ RemovedAt(i) \in 1..n
    BY <1>1, <1>5, <2>1, ConnectedTypes, RemovalKeepsVector
  <2>4. Connected' \subseteq Connected
    <3>1. \A k \in 1..Len(mContainer') : mContainer'[k] \in Connected
      BY <2>3, ElementOfSeq
    <3>2. Connected' = {mContainer'[k] : k \in 1..Len(mContainer')}
      BY DEF Connected
    <3> QED BY <3>1, <3>2
  <2>5. v \in Connected
    BY <2>3 DEF Victim, Connected
  <2>6. Whole
    <3>1. live' \subseteq Connected'
      BY <1>2 DEF Whole
    <3> QED BY <2>2, <2>4, <2>5, <3>1 DEF Whole
  <2>7. /\ VectorSound /\ ReadSetSound /\ NamesSound
        /\ c \in Connected /\ heap[c].mSocket = i
    BY <1>3, <2>6
  <2>8. PICK m \in 1..n : mContainer[m] = c
    BY <2>7 DEF Connected
  <2>9. Matching(i) = {m}
    <3>1. \A k \in 1..n : mContainer[k] \in live
      BY <2>7 DEF VectorSound, Connected
    <3>2. ASSUME NEW k \in 1..n, heap[mContainer[k]].mSocket = i
          PROVE  k = m
      <4>1. mContainer[k] = c
        BY <2>7, <2>8, <3>1, <3>2, LoopTypes
        DEF RegistrySound, LiveConnectionOwnsFd
      <4> QED BY <2>7, <2>8, <4>1 DEF VectorSound
    <3> QED BY <2>7, <2>8, <3>2 DEF Matching
  <2>10. PICK kept \in [1..Len(mContainer') -> (1..n) \ {m}] :
           /\ \A k \in 1..Len(mContainer') : mContainer'[k] = mContainer[kept[k]]
           /\ \A j \in (1..n) \ {m} :
                \E k \in 1..Len(mContainer') : kept[k] = j
           /\ \A j, k \in 1..Len(mContainer') : kept[j] = kept[k] => j = k
    <3>1. m \in 1..Len(mContainer) /\ RemoveServerConnection(i)
      BY <2>8 DEF Remove
    <3> QED BY <1>1, <2>9, <3>1, SingleRemoval
  <2> HIDE DEF n
  <2>11. Connected' = Connected \ {c}
    <3>1. \A k \in 1..n : mContainer[k] \in Connected /\ (mContainer[k] = c => k = m)
      BY <2>7, <2>8 DEF VectorSound, Connected, n
    <3>2. \A k \in 1..Len(mContainer') : mContainer'[k] \in Connected \ {c}
      BY <2>10, <3>1
    <3>3. ASSUME NEW a \in Connected \ {c}
          PROVE  \E k \in 1..Len(mContainer') : mContainer'[k] = a
      <4>1. PICK j \in 1..n : mContainer[j] = a
        BY DEF Connected, n
      <4>2. j \in (1..n) \ {m}
        BY <2>8, <4>1
      <4>3. PICK k \in 1..Len(mContainer') : kept[k] = j
        BY <2>10, <4>2
      <4> QED BY <2>10, <4>1, <4>3
    <3>4. Connected' = {mContainer'[k] : k \in 1..Len(mContainer')}
      BY DEF Connected
    <3> QED BY <3>2, <3>3, <3>4
  <2>12. v = c
    <3>1. c \in live /\ c \notin Connected'
      BY <2>7, <2>11 DEF VectorSound
    <3>2. c \notin live'
      BY <1>2, <3>1 DEF Whole
    <3> QED BY <2>2, <3>1, <3>2
  <2>13. \A j, k \in 1..Len(mContainer') : mContainer'[j] = mContainer'[k] => j = k
    <3>1. \A k \in 1..Len(mContainer') : kept[k] \in 1..n
      BY <2>10
    <3>2. \A j, k \in 1..n : mContainer[j] = mContainer[k] => j = k
      BY <2>7 DEF VectorSound, n
    <3> QED BY <2>10, <3>1, <3>2
  <2> QED BY <1>5, <2>7, <2>11, <2>12, <2>13
<1> QED BY <1>4, <1>5

\* A removal that loses nobody takes the connection that failed out of every
\* record.
LEMMA RemoveRecords ==
  ASSUME DistinctNames, IInv, Sessions, Identities, Records,
         NEW i \in ConnFd, Remove(i)
  PROVE  Records'
<1> DEFINE c == loop.conn
<1>1. /\ loop.pc = "remove" /\ loop'.pc = "scan" /\ i = Current
      /\ RegistryTypeOK /\ up' = up /\ mRead' = mRead \ {i}
  BY LoopTypes
  DEF Remove, LoopAt, ReadDone, LoopState, Quiet, RemoveServerConnection
<1> SUFFICES ASSUME Whole' PROVE VectorSound' /\ ReadSetSound' /\ NamesSound'
  BY <1>1 DEF Records
<1>2. /\ VectorSound /\ ReadSetSound /\ NamesSound /\ Found(i)
      /\ Victim(i) = c /\ Connected' = Connected \ {c}
      /\ \A j, k \in 1..Len(mContainer') : mContainer'[j] = mContainer'[k] => j = k
  BY WrongRemovalLoses
<1>3. c \in Connected /\ c \in live /\ c \in Addr /\ heap[c].mSocket = i
  BY <1>1, <1>2, ConnectedTypes DEF NamesSound, VectorSound
<1>4. PICK left : heap' = [heap EXCEPT ![c].mSocket = left]
  BY <1>2 DEF Remove, RemoveServerConnection, Delete
<1>5. /\ live' = live \ {c} /\ mFdMax' = LargestSocket(heap', mContainer')
      /\ DOMAIN mMapping' = DOMAIN mMapping \ {heap[c].mIdentifier}
  BY <1>2 DEF Remove, RemoveServerConnection, Delete, Unmapped
<1>6. \A a \in Connected \ {c} : heap'[a] = heap[a]
  BY <1>1, <1>4, ConnectedTypes DEF RegistryTypeOK
<1>7. VectorSound'
  <2>1. UnderConstruction' = {}
    BY <1>1 DEF UnderConstruction
  <2> QED BY <1>2, <1>5, <2>1 DEF VectorSound
<1>8. Ids(Connected)' = Ids(Connected) \ {heap[c].mIdentifier}
  <2>1. Ids(Connected)' = {heap'[a].mIdentifier : a \in Connected \ {c}}
    BY <1>2 DEF Ids
  <2>2. {heap'[a].mIdentifier : a \in Connected \ {c}}
          = {heap[a].mIdentifier : a \in Connected \ {c}}
    BY <1>6
  <2>3. \A a \in Connected \ {c} : heap[a].mIdentifier # heap[c].mIdentifier
    <3>1. \A a \in Connected : a \in live /\ ~Underway(a)
      BY <1>1, <1>2 DEF VectorSound, Underway
    <3> QED BY <1>3, <3>1, OneIdentity
  <2> QED BY <2>1, <2>2, <2>3 DEF Ids
<1>9. Sockets(Connected)' = Sockets(Connected) \ {i}
  <2>1. Sockets(Connected)' = {heap'[a].mSocket : a \in Connected \ {c}}
    BY <1>2 DEF Sockets
  <2>2. {heap'[a].mSocket : a \in Connected \ {c}}
          = {heap[a].mSocket : a \in Connected \ {c}}
    BY <1>6
  <2>3. \A a \in Connected \ {c} : heap[a].mSocket # i
    BY <1>2, <1>3, LoopTypes
    DEF VectorSound, RegistrySound, LiveConnectionOwnsFd
  <2> QED BY <1>3, <2>1, <2>2, <2>3 DEF Sockets
<1>10. NamesSound'
  <2>1. up = Ids(Connected) \ {heap[c].mIdentifier}
    BY <1>1, <1>2 DEF NamesSound, Ids
  <2>2. DOMAIN mMapping' = Ids(Connected)'
    BY <1>2, <1>5, <1>8 DEF NamesSound
  <2> QED BY <1>1, <1>8, <2>1, <2>2 DEF NamesSound
<1>11. mRead' = BaseRead \cup Sockets(Connected)'
  <2>1. i \notin BaseRead
    BY ServerAssumption DEF BaseRead
  <2> QED BY <1>1, <1>2, <1>9, <2>1 DEF ReadSetSound
<1>12. \A f \in Sockets(Connected)' : f <= mFdMax'
  <2> DEFINE S == {(heap')[mContainer'[k]].mSocket : k \in 1..Len(mContainer')}
  <2>1. S = Sockets(Connected)'
    BY DEF Sockets, Connected
  <2>2. S \subseteq Nat
    <3>1. Sockets(Connected) \subseteq ConnFd
      BY <1>2, LoopTypes
      DEF Sockets, VectorSound, RegistrySound, LiveConnectionOwnsFd
    <3> QED BY <1>9, <2>1, <3>1, RegistryAssumption
  <2>3. \A f \in S : f <= mFdMax
    BY <1>2, <1>9, <2>1 DEF ReadSetSound
  <2>4. mFdMax' = IF \E m \in S : \A x \in S : x <= m
                    THEN CHOOSE m \in S : \A x \in S : x <= m
                    ELSE NoFd
    BY <1>5 DEF LargestSocket
  <2>5. mFdMax \in Int
    BY <1>1 DEF RegistryTypeOK
  <2> HIDE DEF S
  <2>6. CASE S # {}
    <3>1. \E m \in S : \A x \in S : x <= m
      BY <2>2, <2>3, <2>5, <2>6, LargestExists
    <3> QED BY <2>1, <2>4, <3>1
  <2>7. CASE S = {}
    BY <2>1, <2>7
  <2> QED BY <2>6, <2>7
<1>13. ReadSetSound'
  BY <1>1, <1>11, <1>12 DEF ReadSetSound
<1> QED BY <1>7, <1>10, <1>13

\* No step of waitForEvents sets the records apart.
LEMMA LoopRecords ==
  ASSUME DistinctNames, IInv, Sessions, Identities, Records, LoopStep
  PROVE  Records'
<1>1. ASSUME \/ LoopTop \/ SelectEnter \/ SelectReturn \/ ScanDone \/ DrainWakeup
             \/ AcceptFails \/ ClearLoad \/ ClearStore
             \/ \E i \in ConnFd : \/ ReadNobody(i) \/ Receive(i) \/ FlushNobody(i)
      PROVE  Records'
  <2>1. UNCHANGED <<heap, live, mContainer, mMapping, mFdMax, mRead, up>>
    BY <1>1
    DEF LoopTop, SelectEnter, SelectReturn, ScanDone, DrainWakeup, AcceptFails,
        ClearLoad, ClearStore, ReadNobody, Receive, FlushNobody, LoopOnly,
        Quiet, Tell, registry
  <2>2. /\ loop.pc \notin {"init", "handshake", "register", "remove",
                           "returned", "threw"}
        /\ loop'.pc \notin {"init", "handshake", "register", "remove"}
    BY <1>1, LoopTypes
    DEF LoopTop, SelectEnter, SelectReturn, ScanDone, DrainWakeup, AcceptFails,
        ClearLoad, ClearStore, ReadNobody, Receive, FlushNobody, LoopAt,
        Reading, Writing, ReadDone, LoopState
  <2>3. loop'.pc \in {"select", "waiting"} /\ ReadSetSound =>
          \A f \in mRead : f <= loop'.fdmax
    <3>1. CASE LoopTop
      <4>1. loop'.pc = "select" =>
              loop'.fdmax = Max({ListenFd, WakeFd, mFdMax})
        BY <3>1, LoopTypes DEF LoopTop, LoopState
      <4>2. loop'.pc # "waiting"
        BY <3>1, LoopTypes DEF LoopTop, LoopAt, LoopState
      <4> QED BY <4>1, <4>2, FdmaxCovers
    <3>2. CASE SelectEnter
      <4>1. loop.pc = "select" /\ loop'.fdmax = loop.fdmax
        BY <3>2, LoopTypes DEF SelectEnter, LoopAt, LoopState
      <4> QED BY <4>1 DEF ReadSetSound
    <3>3. CASE ~(LoopTop \/ SelectEnter)
      <4>1. loop'.pc \notin {"select", "waiting"}
        BY <1>1, <3>3, LoopTypes
        DEF SelectReturn, ScanDone, DrainWakeup, AcceptFails, ClearLoad,
            ClearStore, ReadNobody, Receive, FlushNobody, ReadDone, LoopState
      <4> QED BY <4>1
    <3> QED BY <3>1, <3>2, <3>3
  <2> QED BY <2>1, <2>2, <2>3, RecordsMove
<1>2. ASSUME NEW i \in ConnFd, Flush(i)
      PROVE  Records'
  <2>1. /\ UNCHANGED <<live, mContainer, mMapping, mFdMax, mRead>> /\ up' = up
        /\ loop.pc = "scan" /\ loop'.pc = "load"
        /\ heap' = [heap EXCEPT ![Lookup(i)].mOutgoingBytes = <<>>]
    BY <1>2, LoopTypes
    DEF Flush, Writing, LoopAt, QueueSwapped, objects, LoopState, Tell, Quiet
  <2>2. \A a \in Addr : /\ heap'[a].mIdentifier = heap[a].mIdentifier
                        /\ heap'[a].mSocket = heap[a].mSocket
    BY <2>1, LoopTypes DEF RegistryTypeOK, ServerConnection
  <2> QED BY <2>1, <2>2, RecordsMove
<1> QED BY <1>1, <1>2, LoopStartRecords, AcceptRecords, IdentifiedRecords,
           HandshakeFailsRecords, RegisterRecords, ReceiveFailsRecords,
           RemoveRecords
        DEF LoopStep

\* No step of the application does, nor of a client.
LEMMA OtherRecords ==
  ASSUME IInv, Records, AppCall \/ AppStep \/ PeerStep \/ Crash
  PROVE  Records'
<1>1. CASE Destroy
  BY <1>1 DEF Destroy, Records
<1>2. CASE Install \/ Insert \/ InsertLost
  <2>1. /\ UNCHANGED <<live, mContainer, mMapping, mFdMax, mRead, up, loop>>
        /\ \A a \in Addr : /\ heap'[a].mIdentifier = heap[a].mIdentifier
                           /\ heap'[a].mSocket = heap[a].mSocket
    BY <1>2, QueueWritten
  <2> QED BY <2>1, RecordsKept
<1>3. ASSUME \/ Broadcast \/ Shutdown \/ (\E p \in Peer : Send(p))
             \/ Find \/ NextConnection \/ SetLoad \/ SetStore \/ Reserve
             \/ CloseListen \/ Wakeup \/ PeerStep \/ Crash
      PROVE  Records'
  <2>1. UNCHANGED <<heap, live, mContainer, mMapping, mFdMax, mRead, up, loop>>
    BY <1>3
    DEF Broadcast, Shutdown, Send, Find, NextConnection, SetLoad, SetStore,
        Reserve, CloseListen, Wakeup, PeerStep, Connect, Identify, Talk,
        Close, Crash, AppOnly, AppKeeps, objects, told, registry
  <2> QED BY <2>1, RecordsKept
<1> QED BY <1>1, <1>2, <1>3 DEF AppCall, AppStep

\* What the three invariants say together.
SessionInv == IInv /\ Sessions /\ Identities /\ Records

LEMMA InitSessionInv == Init => SessionInv
<1> SUFFICES ASSUME Init PROVE SessionInv
  OBVIOUS
<1>1. Identities
  BY DEF Init, RegistryInit, Identities, FirstWordIsName, CarriesName
<1>2. Records
  BY DEF Init, RegistryInit, Records
<1> QED BY <1>1, <1>2, InitIInv, InitSessions DEF SessionInv

LEMMA SessionInvStep ==
  ASSUME DistinctNames, SessionInv, [Next]_vars
  PROVE  SessionInv'
<1> USE DEF SessionInv
<1>1. IInv'
  BY LoopPreserves, AppCallPreserves, AppStepPreserves, DestroyPreserves,
     OutsidePreserves
  DEF Next, AppCall, Over
<1>2. CASE Crash
  <2>1. UNCHANGED <<heap, live, fdTable, backlog, peer, inbox, got, dest, app,
                    copy, loop>>
    BY <1>2 DEF Crash, registry, remote
  <2>2. Sessions'
    BY <2>1
    DEF Sessions, BacklogIsFresh, PeersInOrder, InBacklog, Linked,
        QueuesHoldMessages, LiveIsGreeted, Far, Underway, AckFirst
  <2>3. Identities'
    BY <2>1, IdentitiesKept DEF Far
  <2> QED BY <1>1, <1>2, <2>2, <2>3, OtherRecords
<1>3. CASE Over \/ UNCHANGED vars
  <2>1. UNCHANGED <<heap, live, fdTable, backlog, peer, inbox, got, dest, app,
                    copy, loop, mContainer, mMapping, mFdMax, mRead, up>>
    BY <1>3 DEF Over, vars, registry, server, remote, told
  <2>2. Sessions'
    BY <2>1
    DEF Sessions, BacklogIsFresh, PeersInOrder, InBacklog, Linked,
        QueuesHoldMessages, LiveIsGreeted, Far, Underway, AckFirst
  <2>3. Identities'
    BY <2>1, IdentitiesKept DEF Far
  <2>4. Records'
    BY <2>1, RecordsKept
  <2> QED BY <1>1, <2>2, <2>3, <2>4
<1>4. CASE LoopStep \/ AppCall \/ AppStep \/ PeerStep
  BY <1>1, <1>4, LoopSessions, AppSessions, PeerSessions, LoopIdentities,
     AppIdentities, PeerIdentities, LoopRecords, OtherRecords
<1> QED BY <1>2, <1>3, <1>4 DEF Next

\* When every client has a name of its own and no object has been lost, the five
\* records of who is connected agree whenever the loop sleeps: the vector, the map,
\* the read set, the largest descriptor and what the application was told.
THEOREM RecordsAgree ==
  ASSUME DistinctNames
  PROVE  Spec => []ConsistentWhileWaiting
<1>1. SessionInv => ConsistentWhileWaiting
  <2> SUFFICES ASSUME SessionInv, loop.pc = "waiting", Whole
               PROVE  /\ Connected \subseteq live
                      /\ Cardinality(Connected) = Len(mContainer)
                      /\ mRead = {ListenFd, WakeFd} \cup
                                   {heap[a].mSocket : a \in Connected}
                      /\ \A f \in mRead : f <= loop.fdmax
                      /\ DOMAIN mMapping = up
                      /\ {heap[a].mIdentifier : a \in Connected} = up
    BY DEF ConsistentWhileWaiting
  <2>1. VectorSound /\ ReadSetSound /\ NamesSound
    BY DEF SessionInv, Records
  <2>2. Cardinality(Connected) = Len(mContainer)
    <3> DEFINE n == Len(mContainer)
    <3>1. n \in Nat /\ mContainer \in [1..n -> Connected]
      BY ConnectedTypes DEF SessionInv
    <3>2. mContainer \in Surjection(1..n, Connected)
      <4>1. \A a \in Connected : \E k \in 1..n : mContainer[k] = a
        BY DEF Connected
      <4> QED BY <3>1, <4>1 DEF Surjection
    <3>3. mContainer \in Injection(1..n, Connected)
      BY <2>1, <3>1 DEF VectorSound, Injection, IsInjective
    <3>4. IsFiniteSet(1..n) /\ Cardinality(1..n) = n
      <4> HIDE DEF n
      <4> QED BY <3>1, IntervalSize
    <3> HIDE DEF n
    <3>5. Cardinality(Connected) = Cardinality(1..n)
      BY <3>2, <3>3, <3>4, FS_Surjection
    <3> QED BY <3>4, <3>5 DEF n
  <2> QED BY <2>1, <2>2
          DEF VectorSound, ReadSetSound, NamesSound, BaseRead, Ids, Sockets
<1>2. SessionInv /\ [Next]_vars => SessionInv'
  BY SessionInvStep
<1> QED BY InitSessionInv, <1>1, <1>2, PTL DEF Spec

-----------------------------------------------------------------------------
(* The callbacks *)

\* A client that joins brings an identifier that no connection has.
LEMMA JoinsWithNewName ==
  ASSUME DistinctNames, SessionInv, Whole, Identified
  PROVE  Received(Joining) \notin up
<1> USE DEF SessionInv
<1>1. /\ loop.pc = "handshake" /\ inbox[Joining] # <<>> /\ loop.conn \in live
      /\ Joining = Far(loop.conn) /\ Joining \in Peer
  BY JoiningFar DEF Identified, LoopAt
<1>2. Received(Joining)[1] = Name[Joining]
  BY <1>1, FirstWords DEF Identities, FirstWordIsName
<1>3. VectorSound /\ up = Ids(Connected)
  BY <1>1 DEF Records, NamesSound
<1>4. ASSUME NEW a \in Connected, heap[a].mIdentifier = Received(Joining)
      PROVE  FALSE
  <2>1. a \in live /\ a # loop.conn
    BY <1>1, <1>3 DEF VectorSound, UnderConstruction
  <2>2. Name[Far(a)] = Name[Joining]
    BY <1>2, <1>4, <2>1 DEF Identities, CarriesName, Underway
  <2>3. Far(a) = Far(loop.conn)
    BY <1>1, <2>1, <2>2, LiveTypes DEF DistinctNames
  <2>4. heap[a].mSocket = heap[loop.conn].mSocket
    <3>1. Far(a) # NoPeer
      BY <2>1, LiveTypes, RegistryAssumption
    <3> QED BY <1>1, <2>1, <2>3, <3>1, LiveTypes DEF Sessions, PeersInOrder, Far
  <2> QED BY <1>1, <2>1, <2>4 DEF IInv, RegistrySound, LiveConnectionOwnsFd
<1> QED BY <1>3, <1>4 DEF Ids

\* While no object is lost, every callback follows the protocol.
LEMMA CallbackStep ==
  ASSUME DistinctNames, SessionInv, Whole, [Next]_vars
  PROVE  [Contract!Next]_told
<1> USE DEF SessionInv
<1>1. ASSUME NEW i \in ConnFd, Receive(i) \/ ReceiveFails(i) \/ Flush(i)
      PROVE  Contract!Next
  <2> DEFINE id == heap[Lookup(i)].mIdentifier
  <2>1. loop.pc = "scan" /\ Found(i)
    BY <1>1 DEF Receive, ReceiveFails, Flush, Reading, Writing, LoopAt
  <2>2. id \in up
    <3>1. up = Ids(Connected)
      BY <2>1 DEF Records, NamesSound
    <3>2. Lookup(i) \in Connected
      BY <2>1, LoopTypes, FoundShowsSocket DEF Lookup, Connected
    <3> QED BY <3>1, <3>2 DEF Ids
  <2>3. \/ up' = up /\ event' = NoEvent
        \/ up' = up /\ event' = Event("receive", id)
        \/ up' = up /\ event' = Event("sent", id)
        \/ up' = up \ {id} /\ event' = Event("disconnected", id)
    BY <1>1
    DEF Receive, ReceiveFails, Flush, Tell, Quiet, TellDisconnected
  <2> HIDE DEF id
  <2> QED BY <2>2, <2>3
          DEF Contract!Next, Contract!Silence, Contract!Reported,
              Contract!Disconnected, Event, NoEvent
<1>2. CASE Identified
  <2>1. /\ Received(Joining) \notin up
        /\ TellConnected(Received(Joining))
    BY <1>2, JoinsWithNewName DEF Identified
  <2> QED BY <2>1
          DEF TellConnected, Event, Contract!Next, Contract!Connected
<1>3. ASSUME \/ LoopStart \/ LoopTop \/ SelectEnter \/ SelectReturn \/ ScanDone
             \/ DrainWakeup \/ Accept \/ AcceptFails \/ HandshakeFails
             \/ Register \/ ClearLoad \/ ClearStore
             \/ \E i \in ConnFd : ReadNobody(i) \/ Remove(i) \/ FlushNobody(i)
      PROVE  Contract!Next
  <2>1. Quiet
    BY <1>3
    DEF LoopStart, LoopTop, SelectEnter, SelectReturn, ScanDone, DrainWakeup,
        Accept, AcceptFails, HandshakeFails, Register, ClearLoad, ClearStore,
        ReadNobody, Remove, FlushNobody, LoopOnly
  <2> QED BY <2>1 DEF Quiet, NoEvent, Contract!Next, Contract!Silence
<1>4. ASSUME AppCall \/ AppStep \/ PeerStep \/ Crash \/ Over \/ UNCHANGED vars
      PROVE  UNCHANGED told
  BY <1>4
  DEF AppCall, AppStep, Broadcast, Shutdown, Destroy, Send, Find,
      NextConnection, SetLoad, SetStore, Reserve, Install, Insert, InsertLost,
      CloseListen, Wakeup, AppOnly, AppKeeps, PeerStep, Connect, Identify, Talk, Close,
      Crash, Over, vars
<1> QED BY <1>1, <1>2, <1>3, <1>4 DEF Next, LoopStep

\* When every client has a name of its own, the callbacks follow the protocol for
\* as long as no object has been lost: nobody is announced twice, and nothing is
\* reported of a connection that was never announced or is gone.
THEOREM ProtocolUntilLoss ==
  ASSUME DistinctNames
  PROVE  Spec => ProtocolWhileWhole
<1>1. SessionInv /\ [Next]_vars => [Whole => Contract!Next]_told
  BY CallbackStep
<1>2. SessionInv /\ [Next]_vars => SessionInv'
  BY SessionInvStep
<1> QED BY InitSessionInv, <1>1, <1>2, PTL DEF Spec, ProtocolWhileWhole

-----------------------------------------------------------------------------
(* As long as no client closes its connection *)

\* What select returned as readable leads to a client that has said something the
\* loop has not received yet, and never to the client under construction.
Heard(F) ==
  \A f \in F \cap ConnFd : fdTable[f] \in Peer /\ inbox[fdTable[f]] # <<>>

AllStay ==
  /\ \A p \in Peer : peer[p] # "closed"
  /\ loop.pc # "remove"
  /\ loop.pc = "waiting" =>
       \A f \in Watched \cap ConnFd : fdTable[f] \in Peer
  /\ loop.pc \in {"scan", "load", "store", "handshake", "register"} =>
       Heard(loop.readFds)
  /\ loop.pc = "handshake" => heap[loop.conn].mSocket \notin loop.readFds
  /\ Whole

LEMMA HeardKept ==
  ASSUME NEW F, NEW G, G \subseteq F, Heard(F),
         \A f \in G \cap ConnFd : /\ fdTable'[f] = fdTable[f]
                                  /\ \/ inbox'[fdTable[f]] = inbox[fdTable[f]]
                                     \/ inbox'[fdTable[f]] # <<>>
  PROVE  Heard(G)'
  BY DEF Heard

\* Another descriptor leads to another client.
LEMMA OtherFd ==
  ASSUME Sessions, NEW f \in ConnFd, NEW g \in ConnFd, f # g,
         fdTable[f] \in Peer
  PROVE  fdTable[f] # fdTable[g]
  BY RegistryAssumption DEF Sessions, PeersInOrder

LEMMA AcceptStays == IInv /\ AllStay /\ Accept => AllStay'
<1> SUFFICES ASSUME IInv, AllStay, Accept PROVE AllStay'
  OBVIOUS
<1>1. PICK a \in Addr : /\ AcceptInto(a, Head(backlog))
                        /\ loop' = [loop EXCEPT !.pc = "handshake", !.conn = a]
  BY DEF Accept
<1>2. PICK fd \in FreeFds :
        /\ heap' = [heap EXCEPT ![a] = [mSocket |-> fd, mIdentifier |-> <<>>,
                                        mOutgoingBytes |-> <<>>]]
        /\ fdTable' = [fdTable EXCEPT ![fd] = Head(backlog)]
  BY <1>1 DEF AcceptInto, SocketGone
<1>3. /\ live' = live \cup {a} /\ loop.pc = "scan"
      /\ loop'.pc = "handshake" /\ loop'.conn = a
      /\ loop'.readFds = loop.readFds
      /\ UNCHANGED <<peer, inbox, mContainer>>
  BY <1>1, LoopTypes
  DEF AcceptInto, Accept, Reading, LoopAt, LoopKeeps, LoopState
<1>4. fd \in ConnFd /\ fdTable[fd] = NoPeer /\ RegistryTypeOK
  BY LoopTypes DEF FreeFds
<1>5. fd \notin loop.readFds
  BY <1>3, <1>4, RegistryAssumption DEF AllStay, Heard
<1>6. Heard(loop.readFds)'
  BY <1>2, <1>3, <1>4, <1>5 DEF AllStay, Heard, RegistryTypeOK
<1>7. heap'[loop'.conn].mSocket = fd
  BY <1>2, <1>3, <1>4 DEF RegistryTypeOK
<1>8. Whole'
  <2>1. Connected' = Connected /\ UnderConstruction' = {a}
    BY <1>3 DEF Connected, UnderConstruction
  <2>2. live \subseteq Connected
    BY <1>3 DEF AllStay, Whole, UnderConstruction
  <2> QED BY <1>3, <2>1, <2>2 DEF Whole
<1> QED BY <1>3, <1>5, <1>6, <1>7, <1>8 DEF AllStay

LEMMA IdentifiedStays == IInv /\ Sessions /\ AllStay /\ Identified => AllStay'
<1> SUFFICES ASSUME IInv, Sessions, AllStay, Identified PROVE AllStay'
  OBVIOUS
<1> DEFINE g == heap[loop.conn].mSocket
<1>1. /\ loop.pc = "handshake" /\ loop'.pc = "register"
      /\ loop'.conn = loop.conn /\ loop'.readFds = loop.readFds
      /\ inbox' = [inbox EXCEPT ![Joining] = Unread(Joining)]
      /\ UNCHANGED <<peer, live, fdTable, mContainer>>
  BY LoopTypes DEF Identified, LoopAt, LoopKeeps, objects, LoopState
<1>2. g \in ConnFd /\ g \notin loop.readFds /\ Joining = fdTable[g]
  BY <1>1, JoiningFar, LiveTypes DEF AllStay, Joining
<1>3. \A f \in loop.readFds \cap ConnFd :
        fdTable[f] \in Peer /\ fdTable[f] # Joining
  BY <1>1, <1>2, OtherFd DEF AllStay, Heard
<1>4. Heard(loop.readFds)'
  BY <1>1, <1>3, LoopTypes DEF AllStay, Heard
<1>5. Whole'
  BY <1>1 DEF AllStay, Whole, UnderConstruction, Connected
<1> QED BY <1>1, <1>4, <1>5 DEF AllStay

LEMMA RegisterStays == IInv /\ AllStay /\ Register => AllStay'
<1> SUFFICES ASSUME IInv, AllStay, Register PROVE AllStay'
  OBVIOUS
<1>1. /\ loop.pc = "register" /\ loop'.pc = "scan"
      /\ loop'.readFds = loop.readFds \ {ListenFd}
      /\ UNCHANGED <<peer, inbox, live, fdTable>>
      /\ mContainer' = Append(mContainer, loop.conn)
  BY LoopTypes
  DEF Register, LoopAt, LoopKeeps, ReadDone, LoopState, AddServerConnection
<1>2. Heard(loop.readFds)'
  BY <1>1 DEF AllStay, Heard
<1>3. Whole'
  <2>1. UnderConstruction = {loop.conn} /\ UnderConstruction' = {}
    BY <1>1 DEF UnderConstruction
  <2>2. \A k \in 1..Len(mContainer) : /\ k \in 1..Len(mContainer')
                                      /\ mContainer'[k] = mContainer[k]
    BY <1>1, ConnectedTypes
  <2>3. /\ Len(mContainer) + 1 \in 1..Len(mContainer')
        /\ mContainer'[Len(mContainer) + 1] = loop.conn
    BY <1>1, ConnectedTypes
  <2>4. Connected \cup {loop.conn} \subseteq Connected'
    <3>1. Connected' = {mContainer'[k] : k \in 1..Len(mContainer')}
      BY DEF Connected
    <3> QED BY <2>2, <2>3, <3>1 DEF Connected
  <2> QED BY <1>1, <2>1, <2>4 DEF AllStay, Whole
<1> QED BY <1>1, <1>2, <1>3 DEF AllStay

LEMMA ReceiveStays ==
  ASSUME IInv, Sessions, AllStay, NEW i \in ConnFd, Receive(i)
  PROVE  AllStay'
<1>1. /\ loop.pc = "scan" /\ loop'.pc = "scan" /\ i \in loop.readFds
      /\ loop'.readFds = loop.readFds \ {i}
      /\ inbox' = [inbox EXCEPT ![fdTable[i]] = Unread(fdTable[i])]
      /\ UNCHANGED <<peer, heap, live, fdTable, mContainer>>
  BY LoopTypes
  DEF Receive, Reading, LoopAt, LoopKeeps, ReadDone, LoopState, registry
<1>2. \A f \in loop'.readFds \cap ConnFd : fdTable[f] # fdTable[i]
  BY <1>1, OtherFd DEF AllStay, Heard
<1>3. Heard(loop.readFds)'
  BY <1>1, <1>2, LoopTypes DEF AllStay, Heard
<1>4. Whole'
  BY <1>1 DEF AllStay, Whole, UnderConstruction, Connected
<1> QED BY <1>1, <1>3, <1>4 DEF AllStay

\* select watches open descriptors only, and reports those that have something.
LEMMA SelectStays == IInv /\ AllStay /\ (SelectEnter \/ SelectReturn) => AllStay'
<1> SUFFICES ASSUME IInv, AllStay, SelectEnter \/ SelectReturn PROVE AllStay'
  OBVIOUS
<1>1. UNCHANGED <<peer, inbox, heap, live, fdTable, mContainer>>
  BY DEF SelectEnter, SelectReturn, LoopOnly, LoopKeeps, registry
<1>2. loop.pc \in {"select", "waiting"}
  BY DEF SelectEnter, SelectReturn, LoopAt
<1>3. CASE SelectEnter
  <2>1. \/ loop'.pc = "threw"
        \/ /\ loop'.pc = "waiting" /\ \A f \in Watched : Open(f)
           /\ Watched' = Watched
    BY <1>3, LoopTypes DEF SelectEnter, LoopState, Watched
  <2>2. loop'.pc = "waiting" =>
          \A f \in Watched' \cap ConnFd : fdTable'[f] \in Peer
    <3>1. ListenFd \notin ConnFd /\ WakeFd \notin ConnFd
      BY ServerAssumption
    <3>2. \A f \in Watched \cap ConnFd : Open(f) => fdTable[f] \in Peer
      BY <3>1, LoopTypes DEF Open, RegistryTypeOK
    <3> QED BY <1>1, <2>1, <3>2
  <2>3. Whole'
    BY <1>1, <1>2, <2>1 DEF AllStay, Whole, UnderConstruction, Connected
  <2> QED BY <1>1, <2>1, <2>2, <2>3 DEF AllStay
<1>4. CASE SelectReturn
  <2>1. loop.pc = "waiting"
    BY <1>4 DEF SelectReturn, LoopAt
  <2>2. \/ loop'.pc = "returned"
        \/ /\ loop'.pc = "scan"
           /\ loop'.readFds = {f \in loop.readFds \cap Watched : Readable(f)}
    BY <1>4, LoopTypes DEF SelectReturn, LoopState
  <2>3. \A f \in ConnFd : f \in Watched /\ Readable(f) =>
          fdTable[f] \in Peer /\ inbox[fdTable[f]] # <<>>
    BY <2>1, ServerAssumption DEF AllStay, Readable
  <2>4. loop'.pc = "scan" => Heard(loop.readFds)'
    BY <1>1, <2>2, <2>3 DEF Heard
  <2>5. Whole'
    BY <1>1, <2>1, <2>2 DEF AllStay, Whole, UnderConstruction, Connected
  <2> QED BY <1>1, <2>2, <2>4, <2>5 DEF AllStay
<1> QED BY <1>3, <1>4

\* Nobody leaves, so no connection fails and none is removed.
LEMMA LoopStays == IInv /\ Sessions /\ AllStay /\ LoopStep => AllStay'
<1> SUFFICES ASSUME IInv, Sessions, AllStay, LoopStep PROVE AllStay'
  OBVIOUS
<1>1. ~HandshakeFails
  <2>1. HandshakeFails => Joining \in Peer
    BY JoiningType DEF HandshakeFails, LoopAt
  <2> QED BY <2>1 DEF HandshakeFails, Hangup, AllStay
<1>2. \A i \in ConnFd : ~Remove(i) /\ ~ReceiveFails(i)
  BY RegistryAssumption DEF Remove, ReceiveFails, Reading, LoopAt, AllStay, Heard
<1>3. ASSUME \/ LoopStart \/ LoopTop \/ ScanDone \/ DrainWakeup \/ AcceptFails
             \/ ClearLoad \/ ClearStore
             \/ \E i \in ConnFd : ReadNobody(i) \/ Flush(i) \/ FlushNobody(i)
      PROVE  AllStay'
  <2>1. UNCHANGED <<peer, inbox, live, fdTable, mContainer>>
    BY <1>3
    DEF LoopStart, LoopTop, ScanDone, DrainWakeup, AcceptFails, ClearLoad,
        ClearStore, ReadNobody, Flush, FlushNobody, LoopOnly, LoopKeeps, registry,
        objects
  <2>2. /\ loop.pc \notin {"handshake", "register"}
        /\ loop'.pc \notin {"handshake", "register", "waiting", "remove"}
        /\ loop'.pc \in {"scan", "load", "store"} =>
             /\ loop.pc \in {"scan", "load", "store"}
             /\ loop'.readFds \subseteq loop.readFds
    <3>1. CASE LoopStart \/ LoopTop \/ ScanDone
      BY <3>1, LoopTypes DEF LoopStart, LoopTop, ScanDone, LoopAt, LoopState
    <3>2. CASE DrainWakeup \/ AcceptFails \/ \E i \in ConnFd : ReadNobody(i)
      <4>1. loop.pc = "scan" /\ \E i : loop' = ReadDone(i)
        BY <3>2 DEF DrainWakeup, AcceptFails, ReadNobody, Reading, LoopAt
      <4>2. loop'.pc = "scan" /\ loop'.readFds \subseteq loop.readFds
        BY <4>1, LoopTypes DEF ReadDone, LoopState
      <4> QED BY <4>1, <4>2
    <3>3. CASE \E i \in ConnFd : Flush(i) \/ FlushNobody(i)
      BY <3>3, LoopTypes DEF Flush, FlushNobody, Writing, LoopAt, LoopState
    <3>4. CASE ClearLoad \/ ClearStore
      BY <3>4, LoopTypes DEF ClearLoad, ClearStore, LoopAt, LoopState
    <3> QED BY <1>3, <3>1, <3>2, <3>3, <3>4
  <2>3. Whole'
    BY <2>1, <2>2 DEF AllStay, Whole, UnderConstruction, Connected
  <2>4. loop'.pc \in {"scan", "load", "store"} => Heard(loop.readFds)'
    BY <2>1, <2>2 DEF AllStay, Heard
  <2> QED BY <2>1, <2>2, <2>3, <2>4 DEF AllStay
<1> QED BY <1>1, <1>2, <1>3, AcceptStays, IdentifiedStays, RegisterStays,
           ReceiveStays, SelectStays
        DEF LoopStep

LEMMA OtherStays ==
  ASSUME Closers = {}, IInv, AllStay,
         AppCall \/ AppStep \/ PeerStep \/ Crash \/ Over \/ UNCHANGED vars
  PROVE  AllStay'
<1>1. CASE Destroy
  <2>1. /\ Clear /\ UNCHANGED <<loop, peer>>
        /\ loop.pc \in {"returned", "threw"}
    BY <1>1 DEF Destroy, remote
  <2>2. live \subseteq Connected
    BY <2>1 DEF AllStay, Whole, UnderConstruction
  <2>3. live' = {}
    BY <2>1, <2>2 DEF Clear, Connected
  <2> QED BY <2>1, <2>3 DEF AllStay, Whole
<1>2. ASSUME ~Destroy
      PROVE  AllStay'
  <2>1. UNCHANGED <<live, fdTable, mContainer, loop>>
    BY <1>2
    DEF AppCall, AppStep, Broadcast, Shutdown, Send, Find, NextConnection,
        SetLoad, SetStore, Reserve, Install, Insert, InsertLost, CloseListen,
        Wakeup, AppOnly, AppKeeps, objects, PeerStep, Connect, Identify, Talk, Close, Crash, Over,
        vars, registry
  <2>2. \A a \in Addr : heap'[a].mSocket = heap[a].mSocket
    <3>1. CASE Install \/ Insert \/ InsertLost
      BY <3>1, QueueWritten
    <3>2. CASE ~(Install \/ Insert \/ InsertLost)
      <4>1. heap' = heap
        BY <1>2, <3>2
        DEF AppCall, AppStep, Broadcast, Shutdown, Send, Find, NextConnection,
            SetLoad, SetStore, Reserve, CloseListen, Wakeup, AppOnly,
            PeerStep, Connect, Identify, Talk, Close, Crash, Over, vars, registry
      <4> QED BY <4>1
    <3> QED BY <3>1, <3>2
  <2>3. /\ \A p \in Peer : peer'[p] # "closed"
        /\ \A p \in Peer : inbox[p] # <<>> => inbox'[p] # <<>>
    <3>1. CASE PeerStep
      <4>1. /\ peer \in [Peer -> PeerPc] /\ inbox \in [Peer -> Seq(Token)]
        BY DEF IInv, ServerTypeOK, PeersTypeOK
      <4>2. PICK p \in Peer : Connect(p) \/ Identify(p) \/ Talk(p)
        BY <3>1 DEF PeerStep, Close
      <4>3. \A q \in Peer : peer'[q] # "closed"
        BY <4>1, <4>2 DEF AllStay, Connect, Identify, Talk
      <4>4. inbox' = inbox \/ \E t : inbox' = [inbox EXCEPT ![p] = Append(@, t)]
        BY <4>2 DEF Connect, Identify, Talk
      <4>5. \A q \in Peer : \A t : Append(inbox[q], t) # <<>>
        BY <4>1
      <4> QED BY <4>1, <4>3, <4>4, <4>5
    <3>2. CASE ~PeerStep
      <4>1. UNCHANGED <<peer, inbox>>
        BY <1>2, <3>2
        DEF AppCall, AppStep, Broadcast, Shutdown, Send, Find, NextConnection,
            SetLoad, SetStore, Reserve, Install, Insert, InsertLost,
            CloseListen, Wakeup, AppOnly, AppKeeps, remote, Crash, Over, vars
      <4> QED BY <4>1 DEF AllStay
    <3> QED BY <3>1, <3>2
  <2>4. Whole'
    BY <2>1 DEF AllStay, Whole, UnderConstruction, Connected
  <2>5. Heard(loop.readFds) => Heard(loop.readFds)'
    BY <2>1, <2>3 DEF Heard
  <2>6. Watched' = Watched
    BY <2>1 DEF Watched
  <2>7. loop.pc = "handshake" => loop.conn \in Addr
    BY JoiningType
  <2> QED BY <2>1, <2>2, <2>3, <2>4, <2>5, <2>6, <2>7 DEF AllStay
<1> QED BY <1>1, <1>2

LEMMA InitStays == Init => AllStay
  BY DEF Init, RegistryInit, AllStay, Whole

\* When every client has a name of its own and stays, the callbacks follow the
\* protocol of the interface without exception.
THEOREM ProtocolWhenAllStay ==
  ASSUME DistinctNames, Closers = {}
  PROVE  Spec => CallbackProtocol
<1>1. Init => Contract!Init
  BY DEF Init, NoEvent, Contract!Init
<1>2. SessionInv /\ AllStay /\ [Next]_vars => AllStay'
  BY LoopStays, OtherStays DEF SessionInv, Next
<1>3. SessionInv /\ AllStay /\ [Next]_vars => [Contract!Next]_<<up, event>>
  BY CallbackStep DEF AllStay, told
<1>4. SessionInv /\ [Next]_vars => SessionInv'
  BY SessionInvStep
<1> QED BY InitSessionInv, InitStays, <1>1, <1>2, <1>3, <1>4, PTL
        DEF Spec, CallbackProtocol, Contract!Spec

-----------------------------------------------------------------------------
(* Messages, as long as no client closes its connection *)

Queue(a) == heap[a].mOutgoingBytes
In(s, m) == \E k \in 1..Len(s) : s[k] = m
Once(s)  == \A j, k \in 1..Len(s) : s[j] = s[k] => j = k

\* The m-th call was made, for p or for everyone.
MeantFor(m, p) == m \in 1..Len(dest) /\ dest[m] \in {All, <<Name[p]>>}

\* What is queued for a client and what has reached it was meant for it ...
Addressed ==
  /\ \A a \in live : \A k \in 1..Len(Queue(a)) : MeantFor(Queue(a)[k], Far(a))
  /\ \A p \in Peer : \A k \in 1..Len(got[p]) :
       got[p][k] # Ack => MeantFor(got[p][k], p)

\* ... and is in one place only, unless a swap fell into a reserve or an insertion.
PlacedOnce ==
  /\ \A a \in live : /\ Once(Queue(a))
                     /\ \A k \in 1..Len(Queue(a)) : ~In(got[Far(a)], Queue(a)[k])
  /\ \A p \in Peer : Once(got[p])

InOnePlace == torn \/ PlacedOnce

\* What reserve has copied was queued for the same client before this call, and is
\* what is still queued.
CopyFits ==
  app.pc = "install" =>
    /\ \A k \in 1..Len(copy) : MeantFor(copy[k], Far(app.conn)) /\ copy[k] # Len(dest)
    /\ torn \/ copy = Queue(app.conn)

\* The current call has put nothing in the way of p yet.
Fresh(p) == /\ ~In(got[p], Len(dest))
            /\ \A a \in live : Far(a) = p => ~In(Queue(a), Len(dest))

\* A call under way is the last one made.  A broadcast has passed the clients
\* before its position and no other; a send has reached nobody, and has found the
\* connection of the client it names.
InCall == app.pc \in Calling
Passed(p) == \E k \in 1..Len(mContainer) : k < app.pos /\ p = Far(mContainer[k])

CallInOrder ==
  /\ InCall => /\ Len(dest) > 0 /\ dest[Len(dest)] = app.to
               /\ \A p \in Peer : Fresh(p) \/ (app.to = All /\ Passed(p))
               /\ app.to = All => app.pos \in 1..Len(mContainer) + 1
  /\ app.pc = "find" => \E p \in Peer : app.to = <<Name[p]>>
  /\ app.pc \in {"idle", "next"} => app.to = All
  /\ app.pc \in Sending =>
       /\ app.conn \in live
       /\ IF app.to = All
            THEN app.pos <= Len(mContainer) /\ app.conn = mContainer[app.pos]
            ELSE app.to = <<Name[Far(app.conn)]>>

Deliveries == VectorSound /\ Addressed /\ InOnePlace /\ CopyFits /\ CallInOrder

\* Two connections never lead to one client.
LEMMA OneConnection ==
  ASSUME IInv, Sessions, NEW a \in live, NEW b \in live, Far(a) = Far(b)
  PROVE  a = b
<1>1. Far(a) # NoPeer
  BY LiveTypes, RegistryAssumption
<1>2. heap[a].mSocket = heap[b].mSocket
  BY <1>1, LiveTypes DEF Sessions, PeersInOrder, Far
<1> QED BY <1>2 DEF IInv, RegistrySound, LiveConnectionOwnsFd

\* The objects and what has arrived stay as they are.
LEMMA TrafficKept ==
  ASSUME IInv, Addressed, InOnePlace, UNCHANGED <<live, fdTable, got, torn>>,
         \A a \in Addr : /\ heap'[a].mSocket = heap[a].mSocket
                         /\ heap'[a].mOutgoingBytes = heap[a].mOutgoingBytes,
         \A m, p : MeantFor(m, p) => MeantFor(m, p)'
  PROVE  /\ Addressed' /\ InOnePlace'
         /\ \A a \in live : Far(a)' = Far(a) /\ Queue(a)' = Queue(a)
         /\ dest' = dest => \A p \in Peer : Fresh(p) => Fresh(p)'
<1>1. live \subseteq Addr
  BY LoopTypes DEF RegistryTypeOK
<1>2. \A a \in live : Far(a)' = Far(a) /\ Queue(a)' = Queue(a)
  BY <1>1 DEF Far, Queue
<1>3. Addressed'
  BY <1>2 DEF Addressed
<1>4. InOnePlace'
  BY <1>2 DEF InOnePlace, PlacedOnce, Once, In
<1>5. ASSUME dest' = dest, NEW p \in Peer, Fresh(p)
      PROVE  Fresh(p)'
  BY <1>2, <1>5 DEF Fresh, In
<1> QED BY <1>2, <1>3, <1>4, <1>5

\* What reserve has copied fits for as long as the queues stay as they are.
LEMMA CopyKept ==
  ASSUME CopyFits, CallInOrder, UNCHANGED <<app, copy, dest, torn>>,
         \A a \in live : Far(a)' = Far(a) /\ Queue(a)' = Queue(a)
  PROVE  CopyFits'
<1>1. CASE app.pc = "install"
  <2>1. Far(app.conn)' = Far(app.conn) /\ Queue(app.conn)' = Queue(app.conn)
    BY <1>1 DEF CallInOrder
  <2>2. \A m : MeantFor(m, Far(app.conn)) => MeantFor(m, Far(app.conn))'
    BY <2>1 DEF MeantFor
  <2> QED BY <1>1, <2>1, <2>2 DEF CopyFits
<1>2. CASE app.pc # "install"
  BY <1>2 DEF CopyFits
<1> QED BY <1>1, <1>2

\* Steps of the loop and of the clients that leave queues and arrivals alone.
LEMMA DeliveriesKept ==
  ASSUME IInv, Deliveries,
         UNCHANGED <<live, fdTable, got, dest, mContainer, app, copy, torn>>,
         UnderConstruction' = UnderConstruction,
         \A a \in Addr : /\ heap'[a].mSocket = heap[a].mSocket
                         /\ heap'[a].mOutgoingBytes = heap[a].mOutgoingBytes
  PROVE  Deliveries'
<1>1. \A m, p : MeantFor(m, p) => MeantFor(m, p)'
  BY DEF MeantFor
<1>2. /\ Addressed' /\ InOnePlace'
      /\ \A a \in live : Far(a)' = Far(a) /\ Queue(a)' = Queue(a)
      /\ \A p \in Peer : Fresh(p) => Fresh(p)'
  BY <1>1, TrafficKept DEF Deliveries
<1>3. VectorSound'
  BY DEF Deliveries, VectorSound, Connected
<1>4. \A k \in 1..Len(mContainer) : mContainer[k] \in live
  BY DEF Deliveries, VectorSound, Connected
<1>5. \A p \in Peer : Passed(p) => Passed(p)'
  BY <1>2, <1>4 DEF Passed
<1>6. CallInOrder'
  BY <1>2, <1>5 DEF Deliveries, CallInOrder, InCall
<1>7. CopyFits'
  BY <1>2, CopyKept DEF Deliveries
<1> QED BY <1>2, <1>3, <1>6, <1>7 DEF Deliveries

\* The first elements of a sequence.
LEMMA PrefixFacts ==
  ASSUME NEW s \in Seq(Nat), NEW n \in 0..Len(s)
  PROVE  /\ SubSeq(s, 1, n) \in Seq(Nat) /\ Len(SubSeq(s, 1, n)) = n
         /\ \A k \in 1..n : k \in 1..Len(s) /\ SubSeq(s, 1, n)[k] = s[k]
<1>1. n \in Nat /\ n <= Len(s) /\ Len(s) \in Nat
  OBVIOUS
<1>2. \A k \in 1..n : k \in 1..Len(s)
  BY <1>1
<1> QED BY <1>1, <1>2, SubSeqProperties

\* Two sequences that have nothing in common.
LEMMA JoinedOnce ==
  ASSUME NEW s \in Seq(Nat), NEW t \in Seq(Nat)
  PROVE  /\ \A m : In(s \o t, m) => In(s, m) \/ In(t, m)
         /\ Once(s) /\ Once(t) /\ (\A k \in 1..Len(t) : ~In(s, t[k])) =>
              Once(s \o t)
<1> DEFINE u == s \o t
<1>1. /\ Len(s) \in Nat /\ Len(t) \in Nat /\ Len(u) = Len(s) + Len(t)
      /\ \A k \in 1..Len(s) + Len(t) :
           u[k] = IF k <= Len(s) THEN s[k] ELSE t[k - Len(s)]
  OBVIOUS
<1> HIDE DEF u
<1>2. ASSUME NEW k \in 1..Len(u)
      PROVE  \/ k \in 1..Len(s) /\ u[k] = s[k]
             \/ k - Len(s) \in 1..Len(t) /\ u[k] = t[k - Len(s)]
  BY <1>1
<1>3. \A m : In(u, m) => In(s, m) \/ In(t, m)
  BY <1>2 DEF In
<1>4. ASSUME Once(s), Once(t), \A k \in 1..Len(t) : ~In(s, t[k]),
             NEW j \in 1..Len(u), NEW k \in 1..Len(u), u[j] = u[k]
      PROVE  j = k
  <2>1. CASE j \in 1..Len(s) /\ k \in 1..Len(s)
    BY <1>1, <1>4, <2>1 DEF Once
  <2>2. CASE j \notin 1..Len(s) /\ k \notin 1..Len(s)
    <3>1. j - Len(s) = k - Len(s)
      BY <1>2, <1>4, <2>2 DEF Once
    <3> QED BY <1>1, <3>1
  <2>3. CASE j \in 1..Len(s) /\ k \notin 1..Len(s)
    <3>1. u[j] = s[j] /\ k - Len(s) \in 1..Len(t) /\ u[k] = t[k - Len(s)]
      BY <1>1, <1>2, <2>3
    <3> QED BY <1>4, <2>3, <3>1 DEF In
  <2>4. CASE j \notin 1..Len(s) /\ k \in 1..Len(s)
    <3>1. u[k] = s[k] /\ j - Len(s) \in 1..Len(t) /\ u[j] = t[j - Len(s)]
      BY <1>1, <1>2, <2>4
    <3> QED BY <1>4, <2>4, <3>1 DEF In
  <2> QED BY <2>1, <2>2, <2>3, <2>4
<1> QED BY <1>3, <1>4 DEF Once, u

\* A connection that is accepted brings an empty queue and a client whom nothing
\* has reached.
LEMMA AcceptDelivers ==
  IInv /\ Sessions /\ Deliveries /\ Accept => Deliveries'
<1> SUFFICES ASSUME IInv, Sessions, Deliveries, Accept PROVE Deliveries'
  OBVIOUS
<1> USE LoopTypes
<1> DEFINE p == Head(backlog)
<1>1. PICK a \in Addr : /\ AcceptInto(a, p)
                        /\ loop' = [loop EXCEPT !.pc = "handshake", !.conn = a]
  BY DEF Accept
<1>2. PICK fd \in FreeFds :
        /\ heap' = [heap EXCEPT ![a] = [mSocket |-> fd, mIdentifier |-> <<>>,
                                        mOutgoingBytes |-> <<>>]]
        /\ fdTable' = [fdTable EXCEPT ![fd] = p]
  BY <1>1 DEF AcceptInto, SocketGone
<1>3. /\ a \notin live /\ live' = live \cup {a} /\ loop.pc = "scan"
      /\ loop'.pc = "handshake" /\ loop'.conn = a
      /\ backlog # <<>>
      /\ UNCHANGED <<mContainer, dest, app, copy, torn>>
  BY <1>1 DEF AcceptInto, Accept, Reading, LoopAt, LoopKeeps, LoopState
<1>4. /\ p \in Peer /\ p # NoPeer /\ InBacklog(p)
      /\ fd \in ConnFd /\ fdTable[fd] = NoPeer
  BY <1>2, <1>3, RegistryAssumption DEF FreeFds, InBacklog
<1>5. got[p] = <<>> /\ ~Linked(p)
  BY <1>4 DEF Sessions, BacklogIsFresh
<1>6. got' = got \/ got' = [got EXCEPT ![p] = <<Ack>>]
  BY <1>4, <1>5 DEF Accept, Greet
<1>7. Far(a)' = p /\ Queue(a)' = <<>>
  BY <1>2, <1>4 DEF Far, Queue, RegistryTypeOK
<1>8. \A b \in live : /\ Far(b)' = Far(b) /\ Far(b) \in Peer /\ Far(b) # p
                       /\ Queue(b)' = Queue(b) /\ got'[Far(b)] = got[Far(b)]
  <2> TAKE b \in live
  <2>1. /\ b # a /\ b \in Addr /\ heap[b].mSocket # fd /\ Far(b) \in Peer
        /\ heap[b].mSocket \in ConnFd /\ Far(b) # p
    BY <1>3, <1>4, <1>5, LiveTypes
    DEF RegistrySound, LiveConnectionOwnsFd
  <2>2. heap'[b] = heap[b]
    BY <1>2, <2>1 DEF RegistryTypeOK
  <2>3. Far(b)' = Far(b) /\ Queue(b)' = Queue(b)
    BY <1>2, <2>1, <2>2 DEF Far, Queue, RegistryTypeOK
  <2> QED BY <1>6, <2>1, <2>3
<1>9. \A q \in Peer : \/ got'[q] = got[q]
                      \/ Len(got'[q]) = 1 /\ got'[q][1] = Ack
  <2>1. Len(<<Ack>>) = 1 /\ <<Ack>>[1] = Ack
    OBVIOUS
  <2>2. \A q \in Peer : got'[q] = got[q] \/ got'[q] = <<Ack>>
    BY <1>4, <1>6
  <2> QED BY <2>1, <2>2
<1>10. Addressed'
  <2>1. \A b \in live' : \A k \in 1..Len(Queue(b)') :
          MeantFor(Queue(b)'[k], Far(b)')
    BY <1>3, <1>7, <1>8 DEF Deliveries, Addressed
  <2>2. \A q \in Peer : \A k \in 1..Len(got'[q]) :
          got'[q][k] # Ack => MeantFor(got'[q][k], q)
    <3>1. \A q \in Peer : \/ got'[q] = got[q]
                          \/ \A k \in 1..Len(got'[q]) : got'[q][k] = Ack
      BY <1>9
    <3> QED BY <3>1 DEF Deliveries, Addressed
  <2> QED BY <1>3, <2>1, <2>2 DEF Addressed, MeantFor
<1>11. InOnePlace'
  <2>1. CASE torn
    BY <1>3, <2>1 DEF InOnePlace
  <2>2. CASE PlacedOnce
    <3>1. \A b \in live' : /\ Once(Queue(b)')
                           /\ \A k \in 1..Len(Queue(b)') :
                                ~In(got'[Far(b)'], Queue(b)'[k])
      BY <1>3, <1>7, <1>8, <2>2 DEF PlacedOnce, Once
    <3>2. \A q \in Peer : Once(got'[q])
      <4> TAKE q \in Peer
      <4>1. CASE got'[q] = got[q]
        BY <2>2, <4>1 DEF PlacedOnce, Once
      <4>2. CASE Len(got'[q]) = 1
        <5>1. \A j \in 1..Len(got'[q]) : j = 1
          BY <4>2
        <5> QED BY <5>1 DEF Once
      <4> QED BY <1>9, <4>1, <4>2
    <3> QED BY <3>1, <3>2 DEF InOnePlace, PlacedOnce, Once, In
  <2> QED BY <2>1, <2>2 DEF Deliveries, InOnePlace
<1>12. CallInOrder'
  <2>1. \A k \in 1..Len(mContainer) : mContainer[k] \in live
    BY DEF Deliveries, VectorSound, Connected
  <2>2. \A q \in Peer : Passed(q) => Passed(q)'
    BY <1>3, <1>8, <2>1 DEF Passed
  <2>3. ASSUME Len(dest) > 0, NEW q \in Peer, Fresh(q)
        PROVE  Fresh(q)'
    <3>1. ~In(got'[q], Len(dest))
      <4>1. ~In(got[q], Len(dest)) /\ Len(dest) # Ack
        BY <2>3 DEF Fresh, Ack
      <4>2. CASE got'[q] = got[q]
        BY <4>1, <4>2
      <4>3. CASE Len(got'[q]) = 1 /\ got'[q][1] = Ack
        <5>1. \A k \in 1..Len(got'[q]) : got'[q][k] = Ack
          BY <4>3
        <5> QED BY <4>1, <5>1 DEF In
      <4> QED BY <1>9, <4>2, <4>3
    <3>2. \A b \in live' : Far(b)' = q => ~In(Queue(b)', Len(dest))
      BY <1>3, <1>7, <1>8, <2>3 DEF Fresh, In
    <3> QED BY <1>3, <3>1, <3>2 DEF Fresh, In
  <2>4. app.pc \in Sending =>
          app.conn \in live' /\ Far(app.conn)' = Far(app.conn)
    BY <1>3, <1>8 DEF Deliveries, CallInOrder
  <2> QED BY <1>3, <2>2, <2>3, <2>4 DEF Deliveries, CallInOrder, InCall
<1>13. VectorSound'
  BY <1>3 DEF Deliveries, VectorSound, Connected, UnderConstruction
<1>14. CopyFits'
  BY <1>3, <1>8, CopyKept DEF Deliveries
<1> QED BY <1>10, <1>11, <1>12, <1>13, <1>14 DEF Deliveries

LEMMA RegisterDelivers == IInv /\ Deliveries /\ Register => Deliveries'
<1> SUFFICES ASSUME IInv, Deliveries, Register PROVE Deliveries'
  OBVIOUS
<1>1. /\ loop.pc = "register" /\ loop'.pc = "scan" /\ loop.conn \in live
      /\ UNCHANGED <<heap, live, fdTable, got, dest, app, copy, torn>>
      /\ mContainer' = Append(mContainer, loop.conn)
      /\ mContainer \in Seq(Addr) /\ loop.conn \in Addr
  BY LoopTypes
  DEF Register, LoopAt, LoopKeeps, ReadDone, LoopState, AddServerConnection,
      IInv, Construction, RegistryTypeOK
<1>2. Addressed' /\ InOnePlace' /\ \A p \in Peer : Fresh(p) => Fresh(p)'
  <2>1. \A m, p : MeantFor(m, p) => MeantFor(m, p)'
    BY <1>1 DEF MeantFor
  <2> QED BY <1>1, <2>1, TrafficKept DEF Deliveries
<1>3. /\ Len(mContainer) \in Nat /\ Len(mContainer') = Len(mContainer) + 1
      /\ \A k \in 1..Len(mContainer) : mContainer'[k] = mContainer[k]
      /\ mContainer'[Len(mContainer')] = loop.conn
  BY <1>1
<1>4. VectorSound'
  <2>1. loop.conn \notin Connected
    BY <1>1 DEF Deliveries, VectorSound, UnderConstruction
  <2>2. \A k \in 1..Len(mContainer') :
          \/ k \in 1..Len(mContainer) /\ mContainer'[k] = mContainer[k]
          \/ k = Len(mContainer') /\ mContainer'[k] = loop.conn
    BY <1>3
  <2>3. \A k \in 1..Len(mContainer) : mContainer[k] \in live /\ mContainer[k] # loop.conn
    BY <2>1 DEF Deliveries, VectorSound, Connected
  <2>4. Connected' \subseteq live
    BY <1>1, <2>2, <2>3 DEF Connected
  <2>5. \A j, k \in 1..Len(mContainer') : mContainer'[j] = mContainer'[k] => j = k
    BY <2>2, <2>3 DEF Deliveries, VectorSound
  <2>6. UnderConstruction' = {}
    BY <1>1 DEF UnderConstruction
  <2> QED BY <1>1, <2>4, <2>5, <2>6 DEF VectorSound
<1>5. \A p \in Peer : Passed(p) => Passed(p)'
  BY <1>1, <1>3 DEF Passed, Far
<1>6. CallInOrder'
  <2>1. \A a \in live : Far(a)' = Far(a)
    BY <1>1 DEF Far
  <2>2. app.pos \in 1..Len(mContainer) + 1 => app.pos \in 1..Len(mContainer') + 1
    BY <1>3
  <2>3. app.pos \in 1..Len(mContainer) + 1 /\ app.pos <= Len(mContainer) =>
          app.pos <= Len(mContainer') /\ mContainer'[app.pos] = mContainer[app.pos]
    BY <1>3
  <2> QED BY <1>1, <1>2, <1>5, <2>1, <2>2, <2>3
          DEF Deliveries, CallInOrder, InCall
<1>7. CopyFits'
  <2>1. \A a \in live : Far(a)' = Far(a) /\ Queue(a)' = Queue(a)
    BY <1>1 DEF Far, Queue
  <2> QED BY <1>1, <2>1, CopyKept DEF Deliveries
<1> QED BY <1>2, <1>4, <1>6, <1>7 DEF Deliveries

\* A write moves messages from a queue to the client they are meant for.
LEMMA FlushDelivers ==
  ASSUME IInv, Sessions, Deliveries, NEW i \in ConnFd, Flush(i)
  PROVE  Deliveries'
<1>0. PICK a \in live, p \in Peer : a = Lookup(i) /\ p = fdTable[i]
  BY FlushFacts
<1> DEFINE bytes == Queue(a)
<1>1. /\ loop.pc = "scan" /\ loop'.pc = "load" /\ a \in live /\ a \in Addr
      /\ UNCHANGED <<live, fdTable, dest, app, copy, mContainer>>
      /\ torn' = (torn \/ (Installing(a) /\ copy # <<>>))
      /\ heap' = [heap EXCEPT ![a].mOutgoingBytes = <<>>]
      /\ Far(a) = p /\ p \in Peer /\ bytes \in Seq(Nat)
      /\ RegistryTypeOK /\ got \in [Peer -> Seq(Nat)]
  BY <1>0, FlushFacts, LoopTypes DEF Queue
<1>2. PICK n \in 0..Len(bytes) :
        got' = IF peer[p] = "closed" THEN got
                 ELSE [got EXCEPT ![p] = @ \o SubSeq(bytes, 1, n)]
  BY <1>0, FlushFacts DEF Queue
<1>3. /\ \A b \in live : Far(b)' = Far(b) /\ Far(b) \in Peer
      /\ \A b \in live : \/ Queue(b)' = Queue(b) /\ Far(b) # p
                         \/ \A k : k \notin 1..Len(Queue(b)')
      /\ Queue(a)' = <<>>
      /\ \A b \in live : b # a => Queue(b)' = Queue(b)
  <2>1. live \subseteq Addr
    BY <1>1 DEF RegistryTypeOK
  <2>2. \A b \in Addr : heap'[b].mSocket = heap[b].mSocket
    BY <1>1 DEF RegistryTypeOK, ServerConnection
  <2>3. \A b \in Addr : b # a => heap'[b] = heap[b]
    BY <1>1 DEF RegistryTypeOK
  <2>4. Queue(a)' = <<>>
    BY <1>1 DEF Queue, RegistryTypeOK, ServerConnection
  <2>5. \A b \in live : b # a => Far(b) # p
    BY <1>1, OneConnection
  <2>6. \A b \in live : Far(b)' = Far(b) /\ Far(b) \in Peer
    BY <1>1, <2>1, <2>2, LiveTypes DEF Far
  <2>7. \A b \in live : b # a => Queue(b)' = Queue(b)
    BY <2>1, <2>3 DEF Queue
  <2>8. \A k : k \notin 1..Len(Queue(a)')
    BY <2>4
  <2> QED BY <2>4, <2>5, <2>6, <2>7, <2>8
<1>4. \A q \in Peer : q # p => got'[q] = got[q]
  BY <1>1, <1>2
<1>5. /\ \A m : In(got'[p], m) => In(got[p], m) \/ In(bytes, m)
      /\ PlacedOnce => Once(got'[p])
  <2> DEFINE more == SubSeq(bytes, 1, n)
             before == got[p]
  <2>1. /\ before \in Seq(Nat)
        /\ PlacedOnce => /\ Once(before) /\ Once(bytes)
                         /\ \A k \in 1..Len(bytes) : ~In(before, bytes[k])
    BY <1>1 DEF PlacedOnce
  <2>2. /\ more \in Seq(Nat) /\ Len(more) = n
        /\ \A k \in 1..n : k \in 1..Len(bytes) /\ more[k] = bytes[k]
    <3> HIDE DEF bytes
    <3> QED BY <1>1, <1>2, PrefixFacts
  <2>3. got'[p] = before \/ got'[p] = before \o more
    BY <1>1, <1>2
  <2> HIDE DEF more, before, bytes
  <2>4. /\ PlacedOnce => Once(more)
        /\ \A m : In(more, m) => In(bytes, m)
    BY <2>1, <2>2 DEF Once, In
  <2>5. PlacedOnce => \A k \in 1..Len(more) : ~In(before, more[k])
    BY <2>1, <2>2
  <2>6. /\ PlacedOnce => Once(before \o more)
        /\ \A m : In(before \o more, m) => In(before, m) \/ In(more, m)
    BY <2>1, <2>2, <2>4, <2>5, JoinedOnce
  <2>7. CASE got'[p] = before
    BY <2>1, <2>7 DEF before
  <2>8. CASE got'[p] = before \o more
    <3>1. PlacedOnce => Once(got'[p])
      BY <2>6, <2>8
    <3>2. \A m : In(got'[p], m) => In(before, m) \/ In(bytes, m)
      BY <2>4, <2>6, <2>8
    <3> QED BY <3>1, <3>2 DEF before
  <2> QED BY <2>3, <2>7, <2>8
<1> HIDE DEF bytes
<1>6. Addressed'
  <2>1. \A b \in live : \A k \in 1..Len(Queue(b)') :
          MeantFor(Queue(b)'[k], Far(b))
    BY <1>3 DEF Deliveries, Addressed
  <2>2. \A k \in 1..Len(got'[p]) : got'[p][k] # Ack => MeantFor(got'[p][k], p)
    <3> TAKE k \in 1..Len(got'[p])
    <3>1. In(got'[p], got'[p][k])
      BY DEF In
    <3>2. In(got[p], got'[p][k]) \/ In(bytes, got'[p][k])
      BY <1>5, <3>1
    <3>3. In(bytes, got'[p][k]) => MeantFor(got'[p][k], p)
      BY <1>1 DEF Deliveries, Addressed, In, bytes
    <3> QED BY <1>1, <3>2, <3>3 DEF Deliveries, Addressed, In
  <2>3. \A q \in Peer : \A k \in 1..Len(got'[q]) :
          got'[q][k] # Ack => MeantFor(got'[q][k], q)
    BY <1>4, <2>2 DEF Deliveries, Addressed
  <2> QED BY <1>1, <1>3, <2>1, <2>3 DEF Addressed, MeantFor
<1>7. InOnePlace'
  <2>1. CASE torn
    BY <1>1, <2>1 DEF InOnePlace
  <2>2. CASE PlacedOnce
    <3>1. \A q \in Peer : Once(got'[q])
      BY <1>4, <1>5, <2>2 DEF PlacedOnce
    <3>2. \A b \in live :
            /\ Once(Queue(b)')
            /\ \A k \in 1..Len(Queue(b)') : ~In(got'[Far(b)], Queue(b)'[k])
      <4> TAKE b \in live
      <4>1. CASE Queue(b)' = Queue(b) /\ Far(b) # p
        BY <1>3, <1>4, <2>2, <4>1 DEF PlacedOnce
      <4>2. CASE \A k : k \notin 1..Len(Queue(b)')
        BY <4>2 DEF Once
      <4> QED BY <1>3, <4>1, <4>2
    <3> QED BY <1>1, <1>3, <3>1, <3>2 DEF InOnePlace, PlacedOnce, Once, In
  <2> QED BY <2>1, <2>2 DEF Deliveries, InOnePlace
<1>8. CallInOrder'
  <2>1. ASSUME NEW q \in Peer, Fresh(q)
        PROVE  Fresh(q)'
    <3>1. ~In(got'[q], Len(dest))
      BY <1>1, <1>4, <1>5, <2>1 DEF Fresh, bytes
    <3>2. \A b \in live : Far(b) = q => ~In(Queue(b)', Len(dest))
      BY <1>3, <2>1 DEF Fresh, In
    <3> QED BY <1>1, <1>3, <3>1, <3>2 DEF Fresh, In
  <2>2. \A k \in 1..Len(mContainer) : mContainer[k] \in live
    BY DEF Deliveries, VectorSound, Connected
  <2>3. \A q \in Peer : Passed(q) => Passed(q)'
    BY <1>1, <1>3, <2>2 DEF Passed
  <2> QED BY <1>1, <1>3, <2>1, <2>3 DEF Deliveries, CallInOrder, InCall
<1>9. VectorSound'
  BY <1>1 DEF Deliveries, VectorSound, Connected, UnderConstruction
<1>10. CopyFits'
  <2>1. CASE app.pc = "install"
    <3>1. app.conn \in live /\ Far(app.conn)' = Far(app.conn)
      BY <1>1, <1>3, <2>1 DEF Deliveries, CallInOrder
    <3>2. torn' \/ copy = Queue(app.conn)'
      BY <1>1, <1>3, <2>1, <3>1 DEF Deliveries, CopyFits, Installing
    <3>3. \A m : MeantFor(m, Far(app.conn)) => MeantFor(m, Far(app.conn))'
      BY <1>1, <3>1 DEF MeantFor
    <3> QED BY <1>1, <2>1, <3>2, <3>3 DEF Deliveries, CopyFits
  <2>2. CASE app.pc # "install"
    BY <1>1, <2>2 DEF CopyFits
  <2> QED BY <2>1, <2>2
<1> QED BY <1>6, <1>7, <1>8, <1>9, <1>10 DEF Deliveries

LEMMA LoopDelivers ==
  IInv /\ Sessions /\ AllStay /\ Deliveries /\ LoopStep => Deliveries'
<1> SUFFICES ASSUME IInv, Sessions, AllStay, Deliveries, LoopStep
             PROVE  Deliveries'
  OBVIOUS
<1>1. ~HandshakeFails
  <2>1. HandshakeFails => Joining \in Peer
    BY JoiningType DEF HandshakeFails, LoopAt
  <2> QED BY <2>1 DEF HandshakeFails, Hangup, AllStay
<1>2. \A i \in ConnFd : ~Remove(i)
  BY DEF Remove, LoopAt, AllStay
<1>3. CASE Identified
  <2>1. /\ UNCHANGED <<live, fdTable, got, dest, mContainer, app, copy, torn>>
        /\ loop.pc = "handshake" /\ loop'.pc = "register" /\ loop'.conn = loop.conn
        /\ heap' = [heap EXCEPT ![loop.conn].mIdentifier = Received(Joining)]
    BY <1>3, LoopTypes DEF Identified, LoopAt, LoopKeeps, objects, LoopState
  <2>2. \A a \in Addr : /\ heap'[a].mSocket = heap[a].mSocket
                        /\ heap'[a].mOutgoingBytes = heap[a].mOutgoingBytes
    BY <2>1, LoopTypes DEF RegistryTypeOK, ServerConnection
  <2>3. UnderConstruction' = UnderConstruction
    BY <2>1 DEF UnderConstruction
  <2> QED BY <2>1, <2>2, <2>3, DeliveriesKept
<1>4. ASSUME \/ LoopStart \/ LoopTop \/ SelectEnter \/ SelectReturn \/ ScanDone
             \/ DrainWakeup \/ AcceptFails \/ ClearLoad \/ ClearStore
             \/ \E i \in ConnFd : \/ ReadNobody(i) \/ Receive(i)
                                  \/ ReceiveFails(i) \/ FlushNobody(i)
      PROVE  Deliveries'
  <2>1. UNCHANGED <<heap, live, fdTable, got, dest, mContainer, app, copy, torn>>
    BY <1>4
    DEF LoopStart, LoopTop, SelectEnter, SelectReturn, ScanDone, DrainWakeup,
        AcceptFails, ReadNobody, Receive, ReceiveFails, FlushNobody, ClearLoad,
        ClearStore, LoopOnly, LoopKeeps, registry
  <2>2. loop.pc \notin {"handshake", "register"}
    BY <1>4
    DEF LoopStart, LoopTop, SelectEnter, SelectReturn, ScanDone, DrainWakeup,
        AcceptFails, ReadNobody, Receive, ReceiveFails, FlushNobody, ClearLoad,
        ClearStore, LoopAt, Reading, Writing
  <2>3. loop'.pc \notin {"handshake", "register"}
    <3>1. CASE LoopStart \/ LoopTop \/ SelectEnter \/ SelectReturn \/ ScanDone
      BY <3>1, LoopTypes
      DEF LoopStart, LoopTop, SelectEnter, SelectReturn, ScanDone, LoopState
    <3>2. CASE \/ DrainWakeup \/ AcceptFails
               \/ \E i \in ConnFd : ReadNobody(i) \/ Receive(i)
      BY <3>2, LoopTypes
      DEF DrainWakeup, AcceptFails, ReadNobody, Receive, ReadDone, LoopState
    <3>3. CASE ClearLoad \/ ClearStore \/ \E i \in ConnFd : FlushNobody(i)
      BY <3>3, LoopTypes DEF ClearLoad, ClearStore, FlushNobody, LoopState
    <3>4. CASE \E i \in ConnFd : ReceiveFails(i)
      BY <3>4, LoopTypes DEF ReceiveFails, RemovalNext, LoopState
    <3> QED BY <1>4, <3>1, <3>2, <3>3, <3>4
  <2>4. UnderConstruction' = UnderConstruction
    BY <2>2, <2>3 DEF UnderConstruction
  <2> QED BY <2>1, <2>4, DeliveriesKept
<1> QED BY <1>1, <1>2, <1>3, <1>4, AcceptDelivers, RegisterDelivers, FlushDelivers
        DEF LoopStep

\* Steps of a call that do not reach anybody.
LEMMA CallKept ==
  ASSUME IInv, Deliveries, CallInOrder', app'.pc = "install" => CopyFits',
         UNCHANGED <<heap, live, fdTable, got, dest, mContainer, loop, torn>>
  PROVE  Deliveries'
<1>1. \A m, p : MeantFor(m, p) => MeantFor(m, p)'
  BY DEF MeantFor
<1>2. Addressed' /\ InOnePlace'
  BY <1>1, TrafficKept DEF Deliveries
<1>3. VectorSound'
  BY DEF Deliveries, VectorSound, Connected, UnderConstruction
<1>4. CopyFits'
  BY DEF CopyFits
<1> QED BY <1>2, <1>3, <1>4 DEF Deliveries

\* A call begins with a number nothing carries.
LEMMA CallBegins ==
  ASSUME IInv, Deliveries, NEW to \in Identifier, dest' = Append(dest, to),
         UNCHANGED <<heap, live, fdTable, got, mContainer, loop, torn>>,
         app'.to = to,
         \/ app'.pc = "find" /\ \E p \in Peer : to = <<Name[p]>>
         \/ app'.pc = "next" /\ to = All /\ app'.pos = 1
  PROVE  Deliveries'
<1>1. /\ dest \in Seq(Identifier) /\ Len(dest) \in Nat
      /\ Len(dest') = Len(dest) + 1 /\ dest'[Len(dest')] = to
      /\ \A m \in 1..Len(dest) : dest'[m] = dest[m] /\ m \in 1..Len(dest')
  BY AppTypes
<1>2. \A m, p : MeantFor(m, p) => MeantFor(m, p)'
  BY <1>1 DEF MeantFor
<1>3. Addressed' /\ InOnePlace'
  BY <1>2, TrafficKept DEF Deliveries
<1>4. ASSUME NEW p \in Peer
      PROVE  Fresh(p)'
  <2>1. \A k \in 1..Len(got[p]) : got[p][k] # Len(dest')
    BY <1>1 DEF Deliveries, Addressed, MeantFor, Ack
  <2>2. \A a \in live : \A k \in 1..Len(Queue(a)) : Queue(a)[k] # Len(dest')
    BY <1>1 DEF Deliveries, Addressed, MeantFor
  <2> QED BY <2>1, <2>2 DEF Fresh, In, Queue, Far
<1>5. VectorSound'
  BY DEF Deliveries, VectorSound, Connected, UnderConstruction
<1>6. 1 \in 1..Len(mContainer') + 1
  BY AppTypes DEF RegistryTypeOK
<1>7. \A p \in Peer : <<Name[p]>> # All
  BY DEF All
<1>8. CallInOrder'
  BY <1>1, <1>4, <1>6, <1>7 DEF CallInOrder, InCall
<1>9. CopyFits'
  BY DEF CopyFits
<1> QED BY <1>3, <1>5, <1>8, <1>9 DEF Deliveries

\* What the map says of a name leads to the client that has it.
LEMMA ResolvedIsNamed ==
  ASSUME IInv, Identities, NEW p \in Peer, <<Name[p]>> \in DOMAIN mMapping
  PROVE  LET a == mMapping[<<Name[p]>>]
         IN  a \in live /\ Name[Far(a)] = Name[p]
<1> DEFINE id == <<Name[p]>>
           a == mMapping[id]
<1>1. a \in live /\ heap[a].mIdentifier = id
  BY DEF IInv, RegistrySound, MappingSound
<1>2. ~Underway(a)
  BY DEF IInv, Construction, Mapped, Underway
<1>3. heap[a].mIdentifier[1] = Name[Far(a)]
  BY <1>1, <1>2 DEF Identities, CarriesName
<1> QED BY <1>1, <1>3

LEMMA FindDelivers == IInv /\ Identities /\ Deliveries /\ Find => Deliveries'
<1> SUFFICES ASSUME IInv, Identities, Deliveries, Find PROVE Deliveries'
  OBVIOUS
<1>1. /\ app.pc = "find"
      /\ UNCHANGED <<heap, live, fdTable, got, dest, mContainer, loop, torn>>
  BY DEF Find, AppAt, AppOnly, AppKeeps, objects, remote
<1>2. PICK p \in Peer : app.to = <<Name[p]>>
  BY <1>1 DEF Deliveries, CallInOrder
<1>3. app.to # All
  BY <1>2 DEF All
<1>4. CASE app.to \in DOMAIN mMapping
  <2> DEFINE a == mMapping[app.to]
  <2>1. a \in live /\ Name[Far(a)] = Name[p]
    BY <1>2, <1>4, ResolvedIsNamed
  <2>2. /\ app'.pc = "load" /\ app'.to = app.to /\ app'.conn = a
        /\ app'.pos = app.pos
    BY <1>4, AppTypes DEF Find, Resolve, AppState
  <2>3. \A q \in Peer : Fresh(q)'
    BY <1>1, <1>3 DEF Deliveries, CallInOrder, InCall, Fresh, In, Queue, Far
  <2>4. CallInOrder'
    BY <1>1, <1>2, <1>3, <2>1, <2>2, <2>3
    DEF Deliveries, CallInOrder, InCall, Far
  <2> QED BY <1>1, <2>2, <2>4, CallKept
<1>5. CASE app.to \notin DOMAIN mMapping
  <2>1. app'.pc = "idle" /\ app'.to = All
    BY <1>5, AppTypes DEF Find, Idle, AppState
  <2>2. CallInOrder'
    BY <2>1 DEF CallInOrder, InCall
  <2> QED BY <1>1, <2>1, <2>2, CallKept
<1> QED BY <1>4, <1>5

\* The steps of a call between two insertions.
LEMMA StepDelivers ==
  IInv /\ Deliveries /\ (NextConnection \/ SetLoad \/ SetStore) => Deliveries'
<1> SUFFICES ASSUME IInv, Deliveries, NextConnection \/ SetLoad \/ SetStore
             PROVE  Deliveries'
  OBVIOUS
<1>1. UNCHANGED <<heap, live, fdTable, got, dest, mContainer, loop, torn>>
  BY DEF NextConnection, SetLoad, SetStore, AppOnly, AppKeeps, objects, remote
<1>2. \A p \in Peer : Fresh(p) => Fresh(p)'
  BY <1>1 DEF Fresh, In, Queue, Far
<1>3. app'.pos = app.pos /\ app'.to = app.to
  BY AppTypes DEF NextConnection, SetLoad, SetStore, AppState
<1>4. \A p \in Peer : Passed(p) => Passed(p)'
  BY <1>1, <1>3 DEF Passed, Far
<1>5. CASE NextConnection
  <2>1. /\ app.pc = "next" /\ app.to = All
        /\ \/ /\ app'.pc = "load" /\ app.pos <= Len(mContainer)
              /\ app'.conn = mContainer[app.pos]
           \/ app'.pc = "wake"
    BY <1>5, AppTypes
    DEF NextConnection, AppAt, AppState, Deliveries, CallInOrder
  <2>2. CASE app'.pc = "load" /\ app.pos <= Len(mContainer)
              /\ app'.conn = mContainer[app.pos]
    <3>1. app.pos \in 1..Len(mContainer) + 1
      BY <2>1 DEF Deliveries, CallInOrder, InCall
    <3>2. app'.conn \in live
      BY <2>2, <3>1 DEF Deliveries, VectorSound, Connected
    <3>3. CallInOrder'
      BY <1>1, <1>2, <1>3, <1>4, <2>1, <2>2, <3>2
      DEF Deliveries, CallInOrder, InCall
    <3> QED BY <1>1, <2>2, <3>3, CallKept
  <2>3. CASE app'.pc = "wake"
    <3>1. CallInOrder'
      BY <2>3 DEF CallInOrder, InCall
    <3> QED BY <1>1, <2>3, <3>1, CallKept
  <2> QED BY <2>1, <2>2, <2>3
<1>6. CASE SetLoad \/ SetStore
  <2>1. /\ app.pc \in {"load", "store"} /\ app'.pc \in {"store", "reserve"}
        /\ app'.conn = app.conn
    BY <1>6, AppTypes DEF SetLoad, SetStore, AppAt, AppState
  <2>2. CallInOrder'
    BY <1>1, <1>2, <1>3, <1>4, <2>1 DEF Deliveries, CallInOrder, InCall, Far
  <2> QED BY <1>1, <2>1, <2>2, CallKept
<1> QED BY <1>5, <1>6

\* After an insertion a broadcast has passed the client it was for, a send is over.
LEMMA CallGoesOn ==
  ASSUME IInv, Deliveries, app.pc = "insert", app' = AfterInsert,
         UNCHANGED <<live, fdTable, got, dest, mContainer, loop>>,
         \A a \in live : Far(a)' = Far(a),
         \A p \in Peer : p # Far(app.conn) /\ Fresh(p) => Fresh(p)'
  PROVE  CallInOrder'
<1>1. CASE app.to = All
  <2>1. /\ app'.pc = "next" /\ app'.to = All /\ app'.pos = app.pos + 1
        /\ app.pos \in Nat
    BY <1>1, AppTypes DEF AfterInsert, ToNext, AppState
  <2>2. /\ app.pos \in 1..Len(mContainer) /\ app.conn = mContainer[app.pos]
        /\ Len(mContainer) \in Nat /\ app.conn \in live
    <3>1. Len(mContainer) \in Nat
      BY AppTypes DEF RegistryTypeOK
    <3> QED BY <1>1, <2>1, <3>1 DEF Deliveries, CallInOrder, InCall
  <2>3. \A k \in 1..Len(mContainer) : mContainer[k] \in live
    BY DEF Deliveries, VectorSound, Connected
  <2>4. \A p \in Peer : Passed(p) \/ p = Far(app.conn) => Passed(p)'
    <3> SUFFICES ASSUME NEW p \in Peer, Passed(p) \/ p = Far(app.conn)
                 PROVE  Passed(p)'
      OBVIOUS
    <3>1. PICK k \in 1..Len(mContainer) : k <= app.pos /\ p = Far(mContainer[k])
      BY <2>1, <2>2 DEF Passed
    <3>2. k < app'.pos /\ p = Far(mContainer[k])'
      BY <2>1, <2>3, <3>1
    <3> QED BY <3>2 DEF Passed
  <2>5. \A p \in Peer : Fresh(p)' \/ Passed(p)'
    BY <1>1, <2>4 DEF Deliveries, CallInOrder, InCall
  <2>6. app'.pos \in 1..Len(mContainer) + 1
    BY <2>1, <2>2
  <2>7. Len(dest) > 0 /\ dest[Len(dest)] = All
    BY <1>1 DEF Deliveries, CallInOrder, InCall
  <2> QED BY <2>1, <2>5, <2>6, <2>7 DEF CallInOrder, InCall
<1>2. CASE app.to # All
  <2>1. app'.pc = "wake"
    BY <1>2, AppTypes DEF AfterInsert, AppState
  <2> QED BY <2>1 DEF CallInOrder, InCall
<1> QED BY <1>1, <1>2

\* What a call inserts has not been on the way to that client before.
LEMMA TargetIsFresh ==
  ASSUME IInv, Sessions, Deliveries, app.pc \in Sending
  PROVE  /\ app.conn \in live /\ Far(app.conn) \in Peer
         /\ Fresh(Far(app.conn)) /\ MeantFor(Len(dest), Far(app.conn))
<1>0. /\ Len(dest) > 0 /\ dest[Len(dest)] = app.to
      /\ \A p \in Peer : Fresh(p) \/ (app.to = All /\ Passed(p))
      /\ app.to # All => app.to = <<Name[Far(app.conn)]>>
  BY DEF Deliveries, CallInOrder, InCall
<1>1. app.conn \in live
  BY DEF Deliveries, CallInOrder
<1>2. Far(app.conn) \in Peer
  BY <1>1, LiveTypes
<1>3. MeantFor(Len(dest), Far(app.conn))
  <2>1. Len(dest) \in 1..Len(dest)
    BY <1>0, AppTypes
  <2> QED BY <1>0, <2>1 DEF MeantFor
<1>4. CASE app.to # All
  BY <1>0, <1>1, <1>2, <1>3, <1>4
<1>5. CASE app.to = All
  <2>1. /\ app.pos \in Nat /\ app.pos <= Len(mContainer)
        /\ app.pos > 0 /\ Len(mContainer) \in Nat
        /\ app.conn = mContainer[app.pos]
    <3>1. Len(mContainer) \in Nat /\ app.pos \in Nat
      BY AppTypes DEF RegistryTypeOK, AppState
    <3> QED BY <1>5, <3>1 DEF Deliveries, CallInOrder, InCall
  <2>2. ASSUME NEW k \in 1..Len(mContainer), k < app.pos,
               Far(app.conn) = Far(mContainer[k])
        PROVE  FALSE
    <3>1. mContainer[k] \in live
      BY DEF Deliveries, VectorSound, Connected
    <3>2. mContainer[k] = mContainer[app.pos]
      BY <1>1, <2>1, <2>2, <3>1, OneConnection
    <3>3. k = app.pos
      BY <2>1, <3>2 DEF Deliveries, VectorSound
    <3> QED BY <2>1, <2>2, <3>3
  <2>3. ~Passed(Far(app.conn))
    BY <2>2 DEF Passed
  <2> QED BY <1>0, <1>1, <1>2, <1>3, <2>3
<1> QED BY <1>1, <1>2, <1>3, <1>4, <1>5

LEMMA InsertDelivers == IInv /\ Sessions /\ Deliveries /\ Insert => Deliveries'
<1> SUFFICES ASSUME IInv, Sessions, Deliveries, Insert PROVE Deliveries'
  OBVIOUS
<1>0. /\ app.pc = "insert" /\ app' = AfterInsert
      /\ UNCHANGED <<live, fdTable, got, dest, mContainer, loop, torn>>
      /\ heap' = [heap EXCEPT ![app.conn].mOutgoingBytes = <<Len(dest)>> \o @]
  BY DEF Insert, AppAt, AppKeeps, objects, remote, AddQueuedMessage
<1>1. PICK a \in live, p \in Peer : /\ a = app.conn /\ p = Far(a)
                                    /\ Fresh(p) /\ MeantFor(Len(dest), p)
  BY <1>0, TargetIsFresh
<1> DEFINE m == Len(dest)
           q == Queue(a)
<1>2. /\ RegistryTypeOK /\ live \subseteq Addr /\ m \in Nat /\ q \in Seq(Nat)
      /\ got \in [Peer -> Seq(Nat)]
  BY AppTypes, LoopTypes DEF RegistryTypeOK, ServerConnection, Queue
<1>3. /\ \A b \in live : Far(b)' = Far(b) /\ Far(b) \in Peer
      /\ \A b \in live : b # a => Queue(b)' = Queue(b) /\ Far(b) # p
      /\ Queue(a)' = <<m>> \o q
  <2>1. \A b \in Addr : heap'[b].mSocket = heap[b].mSocket
    BY <1>0, <1>2 DEF RegistryTypeOK, ServerConnection
  <2>2. \A b \in Addr : b # a => heap'[b] = heap[b]
    BY <1>0, <1>1, <1>2 DEF RegistryTypeOK
  <2>3. heap'[a].mOutgoingBytes = <<m>> \o q
    BY <1>0, <1>1, <1>2 DEF RegistryTypeOK, ServerConnection, Queue
  <2>4. \A b \in live : b # a => Far(b) # p
    BY <1>1, OneConnection
  <2>5. \A b \in live : Far(b)' = Far(b) /\ Far(b) \in Peer
    BY <1>0, <1>2, <2>1, LiveTypes DEF Far
  <2>6. \A b \in live : b # a => Queue(b)' = Queue(b)
    BY <1>2, <2>2 DEF Queue
  <2> QED BY <2>3, <2>4, <2>5, <2>6 DEF Queue
<1>4. /\ ~In(q, m) /\ ~In(got[p], m)
      /\ PlacedOnce => Once(q) /\ \A k \in 1..Len(q) : ~In(got[p], q[k])
  BY <1>1 DEF Fresh, PlacedOnce
<1> HIDE DEF m, q
<1>5. /\ PlacedOnce => Once(<<m>> \o q)
      /\ \A x : In(<<m>> \o q, x) => x = m \/ In(q, x)
  <2>1. <<m>> \in Seq(Nat) /\ Len(<<m>>) = 1 /\ <<m>>[1] = m
    BY <1>2
  <2>2. Once(<<m>>)
    BY <2>1 DEF Once
  <2>3. \A x : In(<<m>>, x) => x = m
    BY <2>1 DEF In
  <2>4. \A k \in 1..Len(q) : ~In(<<m>>, q[k])
    BY <1>4, <2>3 DEF In
  <2> QED BY <1>2, <1>4, <2>1, <2>2, <2>3, <2>4, JoinedOnce
<1>6. \A x, c : MeantFor(x, c) => MeantFor(x, c)'
  BY <1>0 DEF MeantFor
<1>7. Addressed'
  <2>1. ASSUME NEW k \in 1..Len(Queue(a)')
        PROVE  MeantFor(Queue(a)'[k], p)
    <3>1. In(<<m>> \o q, Queue(a)'[k])
      BY <1>3 DEF In
    <3>2. Queue(a)'[k] = m \/ In(q, Queue(a)'[k])
      BY <1>5, <3>1
    <3> QED BY <1>1, <3>2 DEF m, q, Deliveries, Addressed, In
  <2>2. \A b \in live : \A k \in 1..Len(Queue(b)') : MeantFor(Queue(b)'[k], Far(b))
    BY <1>1, <1>3, <2>1 DEF Deliveries, Addressed
  <2> QED BY <1>0, <1>3, <1>6, <2>2 DEF Deliveries, Addressed
<1>8. InOnePlace'
  <2>1. CASE torn
    BY <1>0, <2>1 DEF InOnePlace
  <2>2. CASE PlacedOnce
    <3>1. ASSUME NEW k \in 1..Len(Queue(a)')
          PROVE  ~In(got[p], Queue(a)'[k])
      <4>1. In(<<m>> \o q, Queue(a)'[k])
        BY <1>3 DEF In
      <4>2. Queue(a)'[k] = m \/ In(q, Queue(a)'[k])
        BY <1>5, <4>1
      <4> QED BY <1>4, <2>2, <4>2 DEF In
    <3>2. \A b \in live :
            /\ Once(Queue(b)')
            /\ \A k \in 1..Len(Queue(b)') : ~In(got[Far(b)], Queue(b)'[k])
      BY <1>1, <1>3, <1>5, <2>2, <3>1 DEF PlacedOnce
    <3> QED BY <1>0, <1>3, <2>2, <3>2 DEF InOnePlace, PlacedOnce, Once, In
  <2> QED BY <2>1, <2>2 DEF Deliveries, InOnePlace
<1>9. \A c \in Peer : c # p /\ Fresh(c) => Fresh(c)'
  <2> SUFFICES ASSUME NEW c \in Peer, c # p, Fresh(c) PROVE Fresh(c)'
    OBVIOUS
  <2>1. \A b \in live : Far(b) = c => Queue(b)' = Queue(b)
    BY <1>1, <1>3
  <2> QED BY <1>0, <1>3, <2>1 DEF Fresh, In
<1>10. CallInOrder'
  BY <1>0, <1>1, <1>3, <1>9, CallGoesOn
<1>11. VectorSound'
  BY <1>0 DEF Deliveries, VectorSound, Connected, UnderConstruction
<1>12. CopyFits'
  <2>1. app'.pc # "install"
    BY <1>0, AppTypes DEF AfterInsert, ToNext, AppState
  <2> QED BY <2>1 DEF CopyFits
<1> QED BY <1>7, <1>8, <1>10, <1>11, <1>12 DEF Deliveries

\* A queue is replaced by one of the same client, or by what it is already.
LEMMA QueueReplaced ==
  ASSUME IInv, Deliveries, NEW c \in live, NEW q \in Seq(Nat),
         UNCHANGED <<live, fdTable, got, dest, mContainer, loop>>,
         heap' = [heap EXCEPT ![c].mOutgoingBytes = q],
         \A k \in 1..Len(q) : MeantFor(q[k], Far(c)),
         In(q, Len(dest)) => In(Queue(c), Len(dest)),
         torn => torn', torn' \/ q = Queue(c)
  PROVE  /\ VectorSound' /\ Addressed' /\ InOnePlace'
         /\ \A a \in live : Far(a)' = Far(a)
         /\ \A p \in Peer : Fresh(p) => Fresh(p)'
<1>1. /\ RegistryTypeOK /\ live \subseteq Addr /\ c \in Addr
  BY LoopTypes DEF RegistryTypeOK
<1>2. \A a \in live : Far(a)' = Far(a)
  <2>1. \A a \in Addr : heap'[a].mSocket = heap[a].mSocket
    BY <1>1 DEF RegistryTypeOK, ServerConnection
  <2> QED BY <1>1, <2>1 DEF Far
<1>3. /\ Queue(c)' = q
      /\ \A a \in live : a # c => Queue(a)' = Queue(a)
  <2>1. \A a \in Addr : a # c => heap'[a] = heap[a]
    BY <1>1 DEF RegistryTypeOK
  <2>2. heap'[c].mOutgoingBytes = q
    BY <1>1 DEF RegistryTypeOK, ServerConnection
  <2> QED BY <1>1, <2>1, <2>2 DEF Queue
<1>4. Addressed'
  <2>1. \A m, p : MeantFor(m, p) => MeantFor(m, p)'
    BY DEF MeantFor
  <2>2. \A a \in live : \A k \in 1..Len(Queue(a)') : MeantFor(Queue(a)'[k], Far(a))
    BY <1>3 DEF Deliveries, Addressed
  <2> QED BY <1>2, <2>1, <2>2 DEF Deliveries, Addressed
<1>5. InOnePlace'
  <2>1. CASE torn'
    BY <2>1 DEF InOnePlace
  <2>2. CASE ~torn'
    <3>1. PlacedOnce /\ \A a \in live : Queue(a)' = Queue(a)
      BY <1>3, <2>2 DEF Deliveries, InOnePlace
    <3> QED BY <1>2, <3>1 DEF InOnePlace, PlacedOnce, Once, In
  <2> QED BY <2>1, <2>2
<1>6. ASSUME NEW p \in Peer, Fresh(p)
      PROVE  Fresh(p)'
  <2>1. \A a \in live : Far(a) = p => ~In(Queue(a)', Len(dest))
    BY <1>3, <1>6 DEF Fresh, In
  <2> QED BY <1>2, <1>6, <2>1 DEF Fresh, In
<1>7. VectorSound'
  BY DEF Deliveries, VectorSound, Connected, UnderConstruction
<1> QED BY <1>2, <1>4, <1>5, <1>6, <1>7

\* reserve copies what is queued for the client; ...
LEMMA ReserveDelivers == IInv /\ Sessions /\ Deliveries /\ Reserve => Deliveries'
<1> SUFFICES ASSUME IInv, Sessions, Deliveries, Reserve PROVE Deliveries'
  OBVIOUS
<1>1. /\ app.pc = "reserve" /\ app'.pc = "install" /\ copy' = Queue(app.conn)
      /\ app'.conn = app.conn /\ app'.to = app.to /\ app'.pos = app.pos
      /\ UNCHANGED <<heap, live, fdTable, got, dest, mContainer, loop, torn>>
  BY AppTypes DEF Reserve, AppAt, objects, remote, AppState, Queue
<1>2. /\ app.conn \in live /\ Far(app.conn) \in Peer /\ Fresh(Far(app.conn))
  BY <1>1, TargetIsFresh
<1>3. CopyFits'
  <2>1. \A k \in 1..Len(Queue(app.conn)) :
          /\ MeantFor(Queue(app.conn)[k], Far(app.conn))
          /\ Queue(app.conn)[k] # Len(dest)
    BY <1>2 DEF Deliveries, Addressed, Fresh, In
  <2> QED BY <1>1, <2>1 DEF CopyFits, MeantFor, Queue, Far
<1>4. \A p \in Peer : (Fresh(p) => Fresh(p)') /\ (Passed(p) => Passed(p)')
  BY <1>1 DEF Fresh, In, Passed, Queue, Far
<1>5. CallInOrder'
  BY <1>1, <1>4 DEF Deliveries, CallInOrder, InCall, Far
<1> QED BY <1>1, <1>3, <1>5, CallKept

\* ... installs it in the queue's place; ...
LEMMA InstallDelivers == IInv /\ Deliveries /\ Install => Deliveries'
<1> SUFFICES ASSUME IInv, Deliveries, Install PROVE Deliveries'
  OBVIOUS
<1>1. /\ app.pc = "install" /\ app'.pc = "insert"
      /\ heap' = [heap EXCEPT ![app.conn].mOutgoingBytes = copy]
      /\ app'.conn = app.conn /\ app'.to = app.to /\ app'.pos = app.pos
      /\ UNCHANGED <<live, fdTable, got, dest, mContainer, loop, torn>>
      /\ copy \in Seq(Nat)
  BY AppTypes DEF Install, AppAt, objects, remote, AppState, IInv, ServerTypeOK
<1>2. /\ app.conn \in live
      /\ \A k \in 1..Len(copy) : MeantFor(copy[k], Far(app.conn))
      /\ ~In(copy, Len(dest))
      /\ torn \/ copy = Queue(app.conn)
  BY <1>1 DEF Deliveries, CallInOrder, CopyFits, In
<1>3. /\ VectorSound' /\ Addressed' /\ InOnePlace'
      /\ \A a \in live : Far(a)' = Far(a)
      /\ \A p \in Peer : Fresh(p) => Fresh(p)'
  BY <1>1, <1>2, QueueReplaced
<1>4. \A k \in 1..Len(mContainer) : mContainer[k] \in live
  BY DEF Deliveries, VectorSound, Connected
<1>5. \A p \in Peer : Passed(p) => Passed(p)'
  BY <1>1, <1>3, <1>4 DEF Passed
<1>6. CallInOrder'
  BY <1>1, <1>2, <1>3, <1>5 DEF Deliveries, CallInOrder, InCall
<1>7. CopyFits'
  BY <1>1 DEF CopyFits
<1> QED BY <1>3, <1>6, <1>7 DEF Deliveries

\* Only what is queued is shifted.
LEMMA ShiftedIsQueued ==
  ASSUME NEW q \in Seq(Nat), NEW k \in 1..Len(Shifted(q))
  PROVE  In(q, Shifted(q)[k])
<1>1. CASE q = <<>>
  BY <1>1 DEF Shifted, In
<1>2. CASE q # <<>>
  <2>1. /\ Len(q) \in Nat /\ 1 \in 1..Len(q) /\ q[1] \in Nat
        /\ Shifted(q) = <<q[1]>> \o q
    BY <1>2 DEF Shifted
  <2>2. <<q[1]>> \in Seq(Nat) /\ Len(<<q[1]>>) = 1 /\ <<q[1]>>[1] = q[1]
    BY <2>1
  <2>3. /\ Len(Shifted(q)) = 1 + Len(q)
        /\ Shifted(q)[k] = IF k = 1 THEN q[1] ELSE q[k - 1]
    BY <2>1, <2>2
  <2>4. k = 1 \/ k - 1 \in 1..Len(q)
    BY <2>1, <2>3
  <2> QED BY <2>1, <2>3, <2>4 DEF In
<1> QED BY <1>1, <1>2

\* ... and an insertion that the swap meets leaves what was queued, or the first of
\* it twice.
LEMMA LostDelivers == IInv /\ Deliveries /\ InsertLost => Deliveries'
<1> SUFFICES ASSUME IInv, Deliveries, InsertLost PROVE Deliveries'
  OBVIOUS
<1> DEFINE queue == Queue(app.conn)
<1>1. /\ app.pc = "insert" /\ app' = AfterInsert /\ app'.pc # "install"
      /\ UNCHANGED <<live, fdTable, got, dest, mContainer, loop>>
  BY AppTypes
  DEF InsertLost, AppAt, objects, remote, AfterInsert, ToNext, AppState
<1>2. PICK left \in {queue, Shifted(queue)} :
        /\ heap' = [heap EXCEPT ![app.conn].mOutgoingBytes = left]
        /\ torn' = (torn \/ left # queue)
  BY DEF InsertLost, Queue
<1>3. app.conn \in live /\ app.conn \in Addr /\ queue \in Seq(Nat)
  BY <1>1, AppTypes
  DEF Deliveries, CallInOrder, RegistryTypeOK, ServerConnection, Queue
<1>4. /\ left \in Seq(Nat)
      /\ \A k \in 1..Len(left) : In(queue, left[k])
  BY <1>2, <1>3, ShiftedType, ShiftedIsQueued DEF In
<1>5. \A k \in 1..Len(left) : MeantFor(left[k], Far(app.conn))
  BY <1>3, <1>4 DEF Deliveries, Addressed, In
<1>6. In(left, Len(dest)) => In(queue, Len(dest))
  BY <1>4 DEF In
<1>7. /\ VectorSound' /\ Addressed' /\ InOnePlace'
      /\ \A a \in live : Far(a)' = Far(a)
      /\ \A p \in Peer : Fresh(p) => Fresh(p)'
  BY <1>1, <1>2, <1>3, <1>4, <1>5, <1>6, QueueReplaced
<1>8. CallInOrder'
  BY <1>1, <1>7, CallGoesOn
<1>9. CopyFits'
  BY <1>1 DEF CopyFits
<1> QED BY <1>7, <1>8, <1>9 DEF Deliveries

LEMMA AppDelivers ==
  IInv /\ Sessions /\ Identities /\ Deliveries /\ (AppCall \/ AppStep)
    => Deliveries'
<1> SUFFICES ASSUME IInv, Sessions, Identities, Deliveries, AppCall \/ AppStep
             PROVE  Deliveries'
  OBVIOUS
<1>1. ASSUME NEW p \in Peer, Send(p)
      PROVE  Deliveries'
  <2>1. /\ UNCHANGED <<heap, live, fdTable, got, mContainer, loop, torn>>
        /\ app'.pc = "find" /\ app'.to = <<Name[p]>>
        /\ dest' = Append(dest, <<Name[p]>>)
    BY <1>1, AppTypes DEF Send, AppKeeps, objects, remote, AppState
  <2>2. <<Name[p]>> \in Identifier
    BY ServerAssumption DEF Identifier
  <2> QED BY <2>1, <2>2, CallBegins
<1>2. CASE Broadcast
  <2>1. app.to = All
    BY <1>2 DEF Broadcast, AppAt, Deliveries, CallInOrder
  <2>2. /\ UNCHANGED <<heap, live, fdTable, got, mContainer, loop, torn>>
        /\ app'.pc = "next" /\ app'.to = All /\ app'.pos = 1
        /\ dest' = Append(dest, All)
    BY <1>2, <2>1, AppTypes DEF Broadcast, AppKeeps, objects, remote, AppState
  <2>3. All \in Identifier
    BY DEF All, Identifier
  <2> QED BY <2>2, <2>3, CallBegins
<1>3. CASE Shutdown \/ CloseListen \/ Wakeup
  <2>1. /\ UNCHANGED <<heap, live, fdTable, got, dest, mContainer, loop, torn>>
        /\ \/ app'.pc \in {"close", "wake"}
           \/ app'.pc = "idle" /\ app'.to = All
    BY <1>3, AppTypes
    DEF Shutdown, CloseListen, Wakeup, Idle, AppKeeps, objects, remote, AppState
  <2>2. CallInOrder'
    BY <2>1 DEF CallInOrder, InCall
  <2> QED BY <2>1, <2>2, CallKept
<1>4. CASE Destroy
  <2>1. /\ Clear /\ loop.pc \in {"returned", "threw"} /\ app'.pc = "gone"
        /\ \A k \in 1..Len(mContainer) : mContainer[k] \in live
        /\ UNCHANGED <<loop, got, dest, torn>>
    BY <1>4, AppTypes DEF Destroy, remote, AppState
  <2>2. /\ live' \subseteq live /\ heap' = heap /\ mContainer' = <<>>
        /\ \A a \in live' : Far(a)' = Far(a) /\ Queue(a)' = Queue(a)
    BY <2>1, AppTypes
    DEF Clear, RegistrySound, RegistryTypeOK, LiveConnectionOwnsFd, Far, Queue
  <2>3. \A m, p : MeantFor(m, p) => MeantFor(m, p)'
    BY <2>1 DEF MeantFor
  <2>4. Addressed'
    BY <2>1, <2>2, <2>3 DEF Deliveries, Addressed
  <2>5. InOnePlace'
    BY <2>1, <2>2 DEF Deliveries, InOnePlace, PlacedOnce, Once, In
  <2>6. VectorSound' /\ CallInOrder' /\ CopyFits'
    BY <2>1, <2>2 DEF VectorSound, Connected, CallInOrder, InCall, CopyFits
  <2> QED BY <2>4, <2>5, <2>6 DEF Deliveries
<1> QED BY <1>1, <1>2, <1>3, <1>4, FindDelivers, StepDelivers, ReserveDelivers,
           InstallDelivers, InsertDelivers, LostDelivers
        DEF AppCall, AppStep

LEMMA OutsideDelivers ==
  IInv /\ Deliveries /\ (PeerStep \/ Crash \/ Over \/ UNCHANGED vars)
    => Deliveries'
<1> SUFFICES ASSUME IInv, Deliveries, PeerStep \/ Crash \/ Over \/ UNCHANGED vars
             PROVE  Deliveries'
  OBVIOUS
<1>1. UNCHANGED <<heap, live, fdTable, got, dest, mContainer, app, copy, torn, loop>>
  BY DEF PeerStep, Connect, Identify, Talk, Close, Crash, Over, vars, registry,
         server, remote
<1>2. UnderConstruction' = UnderConstruction
  BY <1>1 DEF UnderConstruction
<1> QED BY <1>1, <1>2, DeliveriesKept

LEMMA InitDelivers == Init => Deliveries
<1> SUFFICES ASSUME Init PROVE Deliveries
  OBVIOUS
<1>1. VectorSound
  BY DEF Init, RegistryInit, VectorSound, Connected
<1>2. Addressed /\ InOnePlace
  BY DEF Init, RegistryInit, Addressed, InOnePlace, PlacedOnce, Once
<1>3. CallInOrder /\ CopyFits
  BY DEF Init, CallInOrder, InCall, CopyFits
<1> QED BY <1>1, <1>2, <1>3 DEF Deliveries

\* Everything the proofs about clients that stay rest on.
StayInv == SessionInv /\ AllStay /\ Deliveries

LEMMA StayInvariant ==
  ASSUME DistinctNames, Closers = {}
  PROVE  Spec => []StayInv
<1>1. StayInv /\ [Next]_vars => StayInv'
  <2>1. StayInv /\ [Next]_vars => SessionInv'
    BY SessionInvStep DEF StayInv
  <2>2. StayInv /\ [Next]_vars => AllStay'
    BY LoopStays, OtherStays DEF StayInv, SessionInv, Next
  <2>3. StayInv /\ [Next]_vars => Deliveries'
    BY LoopDelivers, AppDelivers, OutsideDelivers DEF StayInv, SessionInv, Next
  <2> QED BY <2>1, <2>2, <2>3 DEF StayInv
<1>2. Init => StayInv
  BY InitSessionInv, InitStays, InitDelivers DEF StayInv
<1> QED BY <1>1, <1>2, PTL DEF Spec

\* When every client has a name of its own and stays, a message reaches only a
\* client it was addressed to.
THEOREM NobodyElseHears ==
  ASSUME DistinctNames, Closers = {}
  PROVE  Spec => []NoCrossTalk
<1>1. StayInv => NoCrossTalk
  BY DEF StayInv, Deliveries, Addressed, MeantFor, NoCrossTalk
<1> QED BY StayInvariant, <1>1, PTL

\* ... and a message reaches a client twice only if a swap fell between the copy of a
\* reserve and its installation, or into the shift of an insertion: no other meeting of
\* the loop with any number of calls repeats one.
THEOREM NobodyHearsTwice ==
  ASSUME DistinctNames, Closers = {}
  PROVE  Spec => []RepeatsOnlyTorn
<1>1. StayInv => RepeatsOnlyTorn
  BY DEF StayInv, Deliveries, InOnePlace, PlacedOnce, Once, RepeatsOnlyTorn, NoRepeats
<1> QED BY StayInvariant, <1>1, PTL

=============================================================================
