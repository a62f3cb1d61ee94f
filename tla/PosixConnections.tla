-------------------------- MODULE PosixConnections --------------------------
(***************************************************************************)
(* The connection registry of the POSIX server: class Connections and the  *)
(* ServerConnection objects it owns, down to heap addresses and kernel     *)
(* descriptors, because what can go wrong here is a pointer or a           *)
(* descriptor that outlives what it named.                                 *)
(*                                                                         *)
(* A ServerConnection* is an address.  heap keeps what was last stored at  *)
(* an address, also after delete: memory is not wiped, and a stale pointer *)
(* reads what is left until the address is allocated again.                *)
(***************************************************************************)
EXTENDS Integers, Sequences, FiniteSets, FiniteSetsExt

CONSTANTS Addr,     \* heap addresses a ServerConnection can live at
          NoAddr,   \* the null pointer
          ConnFd,   \* descriptors the kernel can give an accepted connection
          Peer,     \* remote endpoints
          NoPeer,   \* what a closed descriptor leads to
          Token     \* units of bytes a peer can send

NoFd == -1

ASSUME RegistryAssumption == /\ ConnFd \subseteq Nat
                             /\ NoPeer \notin Peer
                             /\ NoAddr \notin Addr

VARIABLES heap,        \* the members of the object at an address
          live,        \* addresses allocated and not deleted
          fdTable,     \* the peer an open connection descriptor leads to
          mContainer,  \* Connections::mContainer
          mMapping,    \* Connections::mMapping, identifier to connection
          mFdMax,      \* Connections::mFdMax
          mRead        \* the loop's masterRead set, by reference

registry == <<heap, live, fdTable, mContainer, mMapping, mFdMax, mRead>>

Identifier == Seq(Token)

ServerConnection == [mSocket : Int, mIdentifier : Identifier,
                     mOutgoingBytes : Seq(Nat)]

RegistryTypeOK ==
  /\ heap \in [Addr -> ServerConnection]
  /\ live \subseteq Addr
  /\ fdTable \in [ConnFd -> Peer \cup {NoPeer}]
  /\ mContainer \in Seq(Addr)
  /\ DOMAIN mMapping \subseteq Identifier
  /\ mMapping \in [DOMAIN mMapping -> Addr]
  /\ mFdMax \in Int
  /\ mRead \subseteq Int

RegistryInit ==
  /\ heap = [a \in Addr |-> [mSocket |-> NoFd, mIdentifier |-> <<>>,
                             mOutgoingBytes |-> <<>>]]
  /\ live = {}
  /\ fdTable = [f \in ConnFd |-> NoPeer]
  /\ mContainer = <<>>
  /\ mMapping = [i \in {} |-> <<>>]
  /\ mFdMax = NoFd
  /\ mRead = {}

-----------------------------------------------------------------------------
(* The ServerConnection object *)

FreeFds == {f \in ConnFd : fdTable[f] = NoPeer}

\* ~Socket does nothing: a local Socket leaves its descriptor open.
SocketClosing(table, fd) == [table EXCEPT ![fd] = NoPeer]
SocketGone(table, fd) == table

\* operator new, accept and the member initialisation of the constructor:
\* accept returns the lowest free descriptor, new any free address.
AcceptInto(a, p) ==
  /\ a \notin live
  /\ \E fd \in FreeFds :
       /\ \A f \in FreeFds : fd <= f
       /\ heap' = [heap EXCEPT ![a] = [mSocket |-> fd, mIdentifier |-> <<>>,
                                       mOutgoingBytes |-> <<>>]]
       /\ fdTable' = SocketGone([fdTable EXCEPT ![fd] = p], fd)
  /\ live' = live \cup {a}
  /\ UNCHANGED <<mContainer, mMapping, mFdMax, mRead>>

\* A constructor that throws: the memory is released, the destructor does not
\* run, and nobody closes the accepted descriptor.
ConstructorThrows(a) ==
  /\ live' = live \ {a}
  /\ UNCHANGED <<heap, fdTable, mContainer, mMapping, mFdMax, mRead>>

\* delete: the destructor closes the socket.  The freed chunk keeps its bytes
\* or is written over by the allocator before the address is used again.
Delete(a) ==
  /\ live' = live \ {a}
  /\ fdTable' = [fdTable EXCEPT ![heap[a].mSocket] = NoPeer]
  /\ \E left \in {heap[a].mSocket, NoFd} :
        heap' = [heap EXCEPT ![a].mSocket = left]

\* addQueuedMessage inserts at the front of the outgoing bytes.
AddQueuedMessage(a, msg) ==
  heap' = [heap EXCEPT ![a].mOutgoingBytes = <<msg>> \o @]

-----------------------------------------------------------------------------
(* The registry *)

AddServerConnection(a) ==
  LET id == heap[a].mIdentifier
      fd == heap[a].mSocket
  IN  /\ mContainer' = Append(mContainer, a)
      /\ mMapping' = [i \in DOMAIN mMapping \cup {id} |->
                        IF i = id THEN a ELSE mMapping[i]]
      /\ mFdMax' = IF mFdMax < fd THEN fd ELSE mFdMax
      /\ mRead' = mRead \cup {fd}
      /\ UNCHANGED <<heap, live, fdTable>>

\* Positions of the elements whose stored socket is fd, read through pointers
\* that may be stale.
Matching(fd) == {k \in 1..Len(mContainer) : heap[mContainer[k]].mSocket = fd}

\* getServerConnection(sckt): the first match.
Found(fd)  == Matching(fd) # {}
Lookup(fd) == mContainer[Min(Matching(fd))]

\* A set of positions in increasing order.
Listings(K) == {pos \in [1..Cardinality(K) -> K] :
                  \A i, j \in DOMAIN pos : i < j => pos[i] < pos[j]}

\* The position remove_if returns: the elements it keeps are moved before it,
\* the tail from it on still holds what it held.
RemovedAt(fd) == Len(mContainer) - Cardinality(Matching(fd)) + 1

\* The object removeServerConnection deletes is the one *iter names.
Victim(fd) == mContainer[RemovedAt(fd)]

\* The largest socket the elements left in s show, -1 when there is none; mem is
\* what the memory holds after the delete, so a stale element shows what is left.
LargestForgotten(mem, s) == NoFd
LargestSocket(mem, s) ==
  LET S == {mem[s[k]].mSocket : k \in 1..Len(s)}
  IN  IF \E m \in S : \A x \in S : x <= m
        THEN CHOOSE m \in S : \A x \in S : x <= m
        ELSE NoFd

\* mMapping.erase.
StillMapped(id) == mMapping
Unmapped(id) == [i \in DOMAIN mMapping \ {id} |-> mMapping[i]]

RemoveServerConnection(fd) ==
  /\ mRead' = mRead \ {fd}
  /\ IF Found(fd)
       THEN /\ mMapping' = Unmapped(heap[Victim(fd)].mIdentifier)
            /\ Delete(Victim(fd))
            /\ \E pos \in Listings((1..Len(mContainer)) \ Matching(fd)) :
                 mContainer' = [k \in DOMAIN pos |-> mContainer[pos[k]]]
                                 \o SubSeq(mContainer, RemovedAt(fd) + 1,
                                           Len(mContainer))
            /\ mFdMax' = LargestSocket(heap', mContainer')
       ELSE UNCHANGED <<heap, live, fdTable, mContainer, mMapping, mFdMax>>

\* ~Connections: every element is deleted; the map goes with the object.
Clear ==
  LET doomed == {mContainer[k] : k \in 1..Len(mContainer)}
      freed  == {heap[a].mSocket : a \in doomed}
  IN  /\ live' = live \ doomed
      /\ fdTable' = [f \in ConnFd |->
                       IF f \in freed THEN NoPeer ELSE fdTable[f]]
      /\ mContainer' = <<>>
      /\ mMapping' = [i \in {} |-> <<>>]
      /\ UNCHANGED <<heap, mFdMax, mRead>>

-----------------------------------------------------------------------------
(* What the registry promises whatever its caller does *)

\* An identifier never resolves to a deleted or re-identified object: the map
\* that send(identifier) trusts has no dangling pointer, although mContainer
\* can have one (removeServerConnection, Connections.cpp:39-42).
MappingSound ==
  \A id \in DOMAIN mMapping : /\ mMapping[id] \in live
                              /\ heap[mMapping[id]].mIdentifier = id

\* A live object owns an open descriptor, and no two share one, so deleting an
\* object closes nobody else's connection (ServerConnection.cpp:91-94).
LiveConnectionOwnsFd ==
  /\ \A a \in live : /\ heap[a].mSocket \in ConnFd
                     /\ fdTable[heap[a].mSocket] # NoPeer
  /\ \A a, b \in live : heap[a].mSocket = heap[b].mSocket => a = b

\* What every operation of the registry preserves.
RegistrySound == RegistryTypeOK /\ MappingSound /\ LiveConnectionOwnsFd

\* Some identifier resolves to a.
Mapped(a) == \E id \in DOMAIN mMapping : mMapping[id] = a

=============================================================================
