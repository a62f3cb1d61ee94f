----------------------- MODULE PosixConnectionsProofs -----------------------
(***************************************************************************)
(* What each operation of the connection registry preserves, for every     *)
(* number of peers, descriptors and addresses.                             *)
(***************************************************************************)
EXTENDS PosixConnections, FiniteSetTheorems, SequenceTheorems, TLAPS

\* A set of numbers that is not empty has a least one, and Min names it.
LEMMA MinIsLeast ==
  ASSUME NEW S, S \subseteq Nat, S # {}
  PROVE  Min(S) \in S /\ \A x \in S : Min(S) <= x
<1>1. \E x \in S : \A y \in S : <<y, x>> \notin OpToRel(<, Nat)
  BY WFMin, NatLessThanWellFounded, Zenon
<1>2. PICK x \in S : \A y \in S : <<y, x>> \notin OpToRel(<, Nat)
  BY <1>1
<1>3. \A y \in S : ~(y < x)
  BY <1>2 DEF OpToRel
<1>4. \A y \in S : x <= y
  BY <1>3
<1> QED BY <1>4 DEF Min

\* A set of numbers below a bound has a largest one, when it has any.
LEMMA LargestExists ==
  ASSUME NEW S, S \subseteq Nat, S # {}, NEW b \in Int, \A x \in S : x <= b
  PROVE  \E m \in S : \A x \in S : x <= m
<1> DEFINE T == {b - x : x \in S}
<1>1. T \subseteq Nat /\ T # {}
  <2>1. \A x \in S : b - x \in Nat
    OBVIOUS
  <2> QED BY <2>1
<1>2. Min(T) \in T /\ \A t \in T : Min(T) <= t
  <2> HIDE DEF T
  <2> QED BY <1>1, MinIsLeast
<1>3. PICK m \in S : Min(T) = b - m
  BY <1>2
<1>4. \A x \in S : b - m <= b - x
  BY <1>2, <1>3
<1> QED BY <1>4

\* What getServerConnection(sckt) returns shows that socket.
LEMMA FoundShowsSocket ==
  ASSUME RegistryTypeOK, NEW fd, Found(fd)
  PROVE  /\ Min(Matching(fd)) \in 1..Len(mContainer)
         /\ Lookup(fd) \in Addr /\ heap[Lookup(fd)].mSocket = fd
<1>1. Matching(fd) \subseteq Nat /\ Matching(fd) # {}
  BY DEF Matching, Found, RegistryTypeOK
<1>2. Min(Matching(fd)) \in Matching(fd)
  BY <1>1, MinIsLeast
<1> QED BY <1>2 DEF Matching, Lookup, RegistryTypeOK

\* A function on the first numbers is a vector.
LEMMA FunctionIsVector ==
  ASSUME NEW S, NEW m \in Nat, NEW f \in [1..m -> S]
  PROVE  f \in Seq(S) /\ Len(f) = m
<1>1. f \in Seq(S)
  BY SeqDef
<1>2. DOMAIN f = 1..m /\ DOMAIN f = 1..Len(f) /\ Len(f) \in Nat
  BY <1>1, LenProperties
<1> QED BY <1>1, <1>2

\* How many positions a vector has.
LEMMA IntervalSize ==
  ASSUME NEW n \in Nat
  PROVE  IsFiniteSet(1..n) /\ Cardinality(1..n) = n
<1>1. IsFiniteSet(1..n) /\ Cardinality(1..n) = IF 1 > n THEN 0 ELSE n - 1 + 1
  BY FS_Interval
<1> QED BY <1>1

\* The registry's removal keeps mContainer a vector of what it held, whatever
\* positions it removes, and leaves a position to delete.
LEMMA RemovalKeepsVector ==
  ASSUME RegistryTypeOK, NEW A, mContainer \in Seq(A), NEW fd \in Int, Found(fd),
         NEW pos \in Listings((1..Len(mContainer)) \ Matching(fd))
  PROVE  /\ [k \in DOMAIN pos |-> mContainer[pos[k]]]
              \o SubSeq(mContainer, RemovedAt(fd) + 1, Len(mContainer)) \in Seq(A)
         /\ RemovedAt(fd) \in 1..Len(mContainer)
<1> DEFINE n == Len(mContainer)
           K == (1..n) \ Matching(fd)
<1>1. mContainer \in Seq(A) /\ n \in Nat
  OBVIOUS
<1>2. IsFiniteSet(1..n) /\ Cardinality(1..n) = n
  <2> HIDE DEF n
  <2> QED BY <1>1, IntervalSize
<1>3. /\ IsFiniteSet(Matching(fd)) /\ Cardinality(Matching(fd)) \in 1..n
  <2>1. Matching(fd) \subseteq 1..n
    BY DEF Matching
  <2>2. /\ IsFiniteSet(Matching(fd)) /\ Cardinality(Matching(fd)) <= n
    BY <1>2, <2>1, FS_Subset
  <2>3. Cardinality(Matching(fd)) \in Nat /\ Cardinality(Matching(fd)) # 0
    BY <2>2, FS_CardinalityType, FS_EmptySet DEF Found
  <2> QED BY <1>1, <2>2, <2>3
<1>4. Cardinality(K) \in Nat
  <2>1. IsFiniteSet(K)
    BY <1>2, FS_Subset
  <2> QED BY <2>1, FS_CardinalityType
<1>5. [k \in DOMAIN pos |-> mContainer[pos[k]]] \in Seq(A)
  <2>1. pos \in [1..Cardinality(K) -> K] /\ K \subseteq 1..n
    BY DEF Listings
  <2>2. DOMAIN pos = 1..Cardinality(K) /\ \A k \in DOMAIN pos : pos[k] \in 1..n
    <3> HIDE DEF K, n
    <3> QED BY <2>1
  <2>3. \A k \in DOMAIN pos : mContainer[pos[k]] \in A
    <3>1. \A j \in 1..n : mContainer[j] \in A
      BY <1>1
    <3> HIDE DEF n, K
    <3> QED BY <2>2, <3>1
  <2>4. [k \in DOMAIN pos |-> mContainer[pos[k]]] \in [1..Cardinality(K) -> A]
    <3> HIDE DEF K
    <3> QED BY <2>2, <2>3
  <2> HIDE DEF K
  <2> QED BY <1>4, <2>4, SeqDef
<1>6. RemovedAt(fd) \in 1..n /\ RemovedAt(fd) + 1 \in 1..(n + 1)
  BY <1>1, <1>3 DEF RemovedAt
<1>7. SubSeq(mContainer, RemovedAt(fd) + 1, n) \in Seq(A)
  BY <1>1, <1>6, SubSeqProperties
<1> QED BY <1>5, <1>6, <1>7, ConcatProperties

\* When one element has the socket, the last position is the one to delete, and
\* what stays is every other element once.
LEMMA SingleRemoval ==
  ASSUME RegistryTypeOK, NEW fd \in Int, NEW m \in 1..Len(mContainer),
         Matching(fd) = {m}, RemoveServerConnection(fd)
  PROVE  /\ RemovedAt(fd) = Len(mContainer)
         /\ Len(mContainer') = Len(mContainer) - 1
         /\ \E pos \in [1..Len(mContainer') -> (1..Len(mContainer)) \ {m}] :
              /\ \A k \in 1..Len(mContainer') : mContainer'[k] = mContainer[pos[k]]
              /\ \A j \in (1..Len(mContainer)) \ {m} :
                   \E k \in 1..Len(mContainer') : pos[k] = j
              /\ \A j, k \in 1..Len(mContainer') : pos[j] = pos[k] => j = k
<1> DEFINE n == Len(mContainer)
           K == (1..n) \ {m}
           rest == mContainer'
<1>1. mContainer \in Seq(Addr) /\ n \in Nat /\ n > 0
  BY DEF RegistryTypeOK
<1> PICK pos \in Listings(K) :
      rest = [k \in DOMAIN pos |-> mContainer[pos[k]]]
               \o SubSeq(mContainer, RemovedAt(fd) + 1, n)
  BY DEF RemoveServerConnection, Found
<1>2. RemovedAt(fd) = n
  <2>1. Cardinality(Matching(fd)) = 1
    BY FS_Singleton
  <2> QED BY <1>1, <2>1 DEF RemovedAt
<1>3. IsFiniteSet(K) /\ Cardinality(K) = n - 1
  <2>1. IsFiniteSet(1..n) /\ Cardinality(1..n) = n
    <3> HIDE DEF n
    <3> QED BY <1>1, IntervalSize
  <2>2. /\ IsFiniteSet((1..n) \ {m})
        /\ Cardinality((1..n) \ {m}) = IF m \in 1..n THEN Cardinality(1..n) - 1
                                                    ELSE Cardinality(1..n)
    <3> HIDE DEF n
    <3> QED BY <2>1, FS_RemoveElement
  <2> QED BY <1>1, <2>1, <2>2
<1>4. /\ pos \in [1..(n - 1) -> K]
      /\ \A i, j \in 1..(n - 1) : i < j => pos[i] < pos[j]
  BY <1>3 DEF Listings
<1>5. \A i, j \in 1..(n - 1) : pos[i] = pos[j] => i = j
  <2>1. \A j \in 1..(n - 1) : pos[j] \in Int
    <3>1. K \subseteq Int
      BY <1>1
    <3> HIDE DEF n, K
    <3> QED BY <1>4, <3>1
  <2>2. ASSUME NEW i \in 1..(n - 1), NEW j \in 1..(n - 1), pos[i] = pos[j], i # j
        PROVE  FALSE
    <3>1. i < j \/ j < i
      BY <1>1, <2>2
    <3>2. pos[i] < pos[j] \/ pos[j] < pos[i]
      BY <1>4, <3>1
    <3> QED BY <2>1, <2>2, <3>2
  <2> QED BY <2>2
<1>6. pos \in Injection(1..(n - 1), K)
  <2> HIDE DEF n, K
  <2> QED BY <1>4, <1>5 DEF Injection, IsInjective
<1>7. IsFiniteSet(1..(n - 1)) /\ Cardinality(1..(n - 1)) = n - 1
  <2>1. n - 1 \in Nat
    BY <1>1
  <2> HIDE DEF n
  <2> QED BY <2>1, IntervalSize
<1>8. pos \in Surjection(1..(n - 1), K)
  <2> HIDE DEF n, K
  <2> QED BY <1>3, <1>6, <1>7, FS_Injection
<1>9. \A j \in K : \E k \in 1..(n - 1) : pos[k] = j
  <2> HIDE DEF n, K
  <2> QED BY <1>8 DEF Surjection
<1>10. Len(rest) = n - 1 /\ \A k \in 1..(n - 1) : rest[k] = mContainer[pos[k]]
  <2> DEFINE kept == [k \in 1..(n - 1) |-> mContainer[pos[k]]]
             tail == SubSeq(mContainer, n + 1, n)
  <2>1. DOMAIN pos = 1..(n - 1)
    <3> HIDE DEF K, n
    <3> QED BY <1>4
  <2>2. rest = kept \o tail
    BY <1>2, <2>1
  <2>3. kept \in Seq(Addr) /\ Len(kept) = n - 1
    <3>1. \A j \in 1..n : mContainer[j] \in Addr
      BY <1>1
    <3>2. \A k \in 1..(n - 1) : pos[k] \in 1..n
      BY <1>4
    <3> HIDE DEF n
    <3>3. kept \in [1..(n - 1) -> Addr]
      BY <3>1, <3>2
    <3>4. n - 1 \in Nat
      BY <1>1
    <3> HIDE DEF kept
    <3> QED BY <3>3, <3>4, FunctionIsVector
  <2>4. tail \in Seq(Addr) /\ Len(tail) = 0
    BY <1>1, SubSeqProperties
  <2>5. \A k \in 1..(n - 1) : kept[k] = mContainer[pos[k]]
    OBVIOUS
  <2> HIDE DEF kept, tail, n
  <2>6. /\ Len(kept \o tail) = n - 1 + 0
        /\ \A k \in 1..(n - 1) : (kept \o tail)[k] = kept[k]
    BY <1>1, <2>3, <2>4, ConcatProperties
  <2>7. n - 1 + 0 = n - 1
    BY <1>1
  <2> QED BY <2>2, <2>5, <2>6, <2>7
<1>11. \E p \in [1..Len(rest) -> K] :
         /\ \A k \in 1..Len(rest) : rest[k] = mContainer[p[k]]
         /\ \A j \in K : \E k \in 1..Len(rest) : p[k] = j
         /\ \A j, k \in 1..Len(rest) : p[j] = p[k] => j = k
  <2> HIDE DEF K, n, rest
  <2>1. Len(rest) = n - 1
    BY <1>10
  <2>2. pos \in [1..Len(rest) -> K]
    BY <1>4, <2>1
  <2> WITNESS pos \in [1..Len(rest) -> K]
  <2> QED BY <1>5, <1>9, <1>10, <2>1
<1> QED BY <1>2, <1>10, <1>11

\* The empty registry is sound.
LEMMA InitSound == RegistryInit => RegistrySound
  BY RegistryAssumption
  DEF RegistryInit, RegistrySound, RegistryTypeOK, MappingSound,
      LiveConnectionOwnsFd, ServerConnection, Identifier, NoFd

\* A constructor that has accepted a connection owns a descriptor nobody else
\* has, and no identifier leads to the new object yet.
LEMMA AcceptSound ==
  ASSUME RegistrySound, NEW a \in Addr, NEW p \in Peer, AcceptInto(a, p)
  PROVE  RegistrySound' /\ a \in live' /\ ~Mapped(a)'
<1>1. PICK fd \in FreeFds :
        /\ heap' = [heap EXCEPT ![a] = [mSocket |-> fd, mIdentifier |-> <<>>,
                                        mOutgoingBytes |-> <<>>]]
        /\ fdTable' = [fdTable EXCEPT ![fd] = p]
  BY DEF AcceptInto, SocketGone
<1>2. /\ a \notin live /\ live' = live \cup {a}
      /\ UNCHANGED <<mContainer, mMapping, mFdMax, mRead>>
  BY DEF AcceptInto
<1>3. fd \in ConnFd /\ fd \in Int /\ fdTable[fd] = NoPeer /\ p # NoPeer
  BY <1>1, RegistryAssumption DEF FreeFds
<1>4. RegistryTypeOK'
  BY <1>1, <1>2, <1>3
  DEF RegistrySound, RegistryTypeOK, ServerConnection, Identifier
<1>5. ~Mapped(a)'
  BY <1>2 DEF Mapped, RegistrySound, MappingSound
<1>6. MappingSound'
  BY <1>1, <1>2 DEF RegistrySound, MappingSound, RegistryTypeOK
<1>7. LiveConnectionOwnsFd'
  BY <1>1, <1>2, <1>3
  DEF RegistrySound, LiveConnectionOwnsFd, RegistryTypeOK
<1> QED BY <1>2, <1>4, <1>5, <1>6, <1>7 DEF RegistrySound

\* A constructor that throws leaves the registry as it was.
LEMMA ThrowSound ==
  ASSUME RegistrySound, NEW a \in Addr, ~Mapped(a), ConstructorThrows(a)
  PROVE  RegistrySound'
  BY DEF RegistrySound, RegistryTypeOK, MappingSound, LiveConnectionOwnsFd,
         ConstructorThrows, Mapped

\* Adding a live connection makes its identifier lead to it.
LEMMA AddSound ==
  ASSUME RegistrySound, NEW a \in live, AddServerConnection(a)
  PROVE  RegistrySound'
<1>1. RegistryTypeOK'
  BY DEF AddServerConnection, RegistrySound, RegistryTypeOK, ServerConnection
<1>2. MappingSound'
  BY DEF AddServerConnection, RegistrySound, RegistryTypeOK, MappingSound
<1>3. LiveConnectionOwnsFd'
  BY DEF AddServerConnection, RegistrySound, LiveConnectionOwnsFd
<1> QED BY <1>1, <1>2, <1>3 DEF RegistrySound

\* Removing deletes the wrong object when the vector has more than one, but the
\* identifier it forgets is the one of the object it deletes.
LEMMA RemoveSound ==
  ASSUME RegistrySound, NEW fd \in Int, Found(fd), Victim(fd) \in live,
         RemoveServerConnection(fd)
  PROVE  RegistrySound'
<1> DEFINE v == Victim(fd)
<1>1. PICK left \in {heap[v].mSocket, NoFd} :
        heap' = [heap EXCEPT ![v].mSocket = left]
  BY DEF RemoveServerConnection, Delete
<1>2. /\ live' = live \ {v}
      /\ fdTable' = [fdTable EXCEPT ![heap[v].mSocket] = NoPeer]
      /\ mMapping' = [i \in DOMAIN mMapping \ {heap[v].mIdentifier} |-> mMapping[i]]
      /\ mRead' = mRead \ {fd}
      /\ mFdMax' = LargestSocket(heap', mContainer')
  BY DEF RemoveServerConnection, Delete, Unmapped
<1>3. v \in Addr /\ left \in Int
  BY <1>1 DEF RegistrySound, RegistryTypeOK, ServerConnection, NoFd
<1>4. mContainer' \in Seq(Addr)
  <2>1. mContainer \in Seq(Addr) /\ RegistryTypeOK
    BY DEF RegistrySound, RegistryTypeOK
  <2> QED BY <2>1, RemovalKeepsVector DEF RemoveServerConnection
<1>5. mFdMax' \in Int
  <2> DEFINE S == {(heap')[mContainer'[k]].mSocket : k \in 1..Len(mContainer')}
  <2>1. \A k \in 1..Len(mContainer') : mContainer'[k] \in Addr
    BY <1>4
  <2>2. \A a \in Addr : (heap')[a].mSocket \in Int
    BY <1>1, <1>3 DEF RegistrySound, RegistryTypeOK, ServerConnection
  <2>3. S \subseteq Int
    BY <2>1, <2>2
  <2>4. mFdMax' = IF \E m \in S : \A x \in S : x <= m
                    THEN CHOOSE m \in S : \A x \in S : x <= m
                    ELSE NoFd
    BY <1>2 DEF LargestSocket
  <2> HIDE DEF S
  <2>5. CASE \E m \in S : \A x \in S : x <= m
    BY <2>3, <2>4, <2>5
  <2>6. CASE ~\E m \in S : \A x \in S : x <= m
    BY <2>4, <2>6 DEF NoFd
  <2> QED BY <2>5, <2>6
<1>6. RegistryTypeOK'
  BY <1>1, <1>2, <1>3, <1>4, <1>5
  DEF RegistrySound, RegistryTypeOK, ServerConnection
<1>7. MappingSound'
  BY <1>1, <1>2, <1>3 DEF RegistrySound, RegistryTypeOK, MappingSound
<1>8. LiveConnectionOwnsFd'
  BY <1>1, <1>2, <1>3
  DEF RegistrySound, RegistryTypeOK, LiveConnectionOwnsFd
<1> QED BY <1>6, <1>7, <1>8 DEF RegistrySound

\* The destructor of a registry without stale pointers closes what it owns.
LEMMA ClearSound ==
  ASSUME RegistrySound, Clear,
         \A k \in 1..Len(mContainer) : mContainer[k] \in live
  PROVE  RegistrySound'
<1>1. RegistryTypeOK'
  BY DEF Clear, RegistrySound, RegistryTypeOK
<1>2. MappingSound'
  BY DEF Clear, MappingSound
<1>3. LiveConnectionOwnsFd'
  BY DEF Clear, RegistrySound, LiveConnectionOwnsFd
<1> QED BY <1>1, <1>2, <1>3 DEF RegistrySound

\* What happens to an outgoing queue concerns nobody else.
LEMMA QueueSound ==
  ASSUME RegistrySound, NEW a \in Addr, NEW q \in Seq(Nat),
         heap' = [heap EXCEPT ![a].mOutgoingBytes = q],
         UNCHANGED <<live, fdTable, mContainer, mMapping, mFdMax, mRead>>
  PROVE  RegistrySound'
<1>1. RegistryTypeOK'
  BY DEF RegistrySound, RegistryTypeOK, ServerConnection
<1>2. MappingSound'
  BY DEF RegistrySound, RegistryTypeOK, MappingSound
<1>3. LiveConnectionOwnsFd'
  BY DEF RegistrySound, RegistryTypeOK, LiveConnectionOwnsFd
<1> QED BY <1>1, <1>2, <1>3 DEF RegistrySound

\* An object that no identifier leads to can be given one.
LEMMA IdentifySound ==
  ASSUME RegistrySound, NEW a \in Addr, ~Mapped(a), NEW id \in Identifier,
         heap' = [heap EXCEPT ![a].mIdentifier = id],
         UNCHANGED <<live, fdTable, mContainer, mMapping, mFdMax, mRead>>
  PROVE  RegistrySound'
<1>1. RegistryTypeOK'
  BY DEF RegistrySound, RegistryTypeOK, ServerConnection
<1>2. MappingSound'
  BY DEF RegistrySound, RegistryTypeOK, MappingSound, Mapped
<1>3. LiveConnectionOwnsFd'
  BY DEF RegistrySound, RegistryTypeOK, LiveConnectionOwnsFd
<1> QED BY <1>1, <1>2, <1>3 DEF RegistrySound
=============================================================================
