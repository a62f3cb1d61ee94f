-------------------------- MODULE WinServerProofs --------------------------
(***************************************************************************)
(* The safety properties of WinServer, for every set of peers and every    *)
(* number of calls.                                                        *)
(***************************************************************************)
EXTENDS WinServer, TLAPS

ConnState == {"away", "queued", "arrived", "joining", "listed", "deleted"}
RecvState == {"none", "pending", "data", "end", "failed"}
LoopState == [pc : LoopPc, handles : Seq(Handle), handle : Handle,
              routine : {"none", "joined", "sent"}]
AppState == [pc : AppPc, todo : Seq(Peers), named : BOOLEAN]
Removal == [step : {"none", "delete", "erase"}, at : Nat]
Routine == [kind : {"joined", "sent"}, peer : Peers]

\* The states of the loop in the middle of a rotation or an addition.
Busy == {"rotating", "adding"}

LEMMA TypeParts ==
  TypeOK => /\ loop \in LoopState /\ app \in AppState /\ conn \in [Peers -> ConnState]
            /\ recv \in [Peers -> RecvState] /\ removing \in [Thread -> Removal]
            /\ mContainer \in Seq(Peers) /\ mMapping \in SUBSET Peers
            /\ signalled \in SUBSET Handle /\ routines \in Seq(Routine)
            /\ sending \in [Peers -> Seq(Thread)] /\ torn \in BOOLEAN
BY DEF TypeOK, LoopState, AppState, ConnState, RecvState, Removal, Routine

LEMMA InitIInv == Init => IInv
<1> SUFFICES ASSUME Init PROVE IInv
  OBVIOUS
<1>1. TypeOK
  <2>1. <<>> \in Seq(Peers) /\ <<>> \in Seq(Handle) /\ <<>> \in Seq(Thread)
        /\ <<>> \in Seq([kind : {"joined", "sent"}, peer : Peers])
    OBVIOUS
  <2>2. loop \in [pc : LoopPc, handles : Seq(Handle), handle : Handle,
                  routine : {"none", "joined", "sent"}]
    BY <2>1 DEF Init, LoopPc, Handle
  <2>3. app \in [pc : AppPc, todo : Seq(Peers), named : BOOLEAN]
    BY <2>1 DEF Init, AppPc
  <2>4. calls \in 0..MaxCalls /\ replies \in 0..MaxReplies
    BY WinAssumption DEF Init
  <2>5. removing \in [Thread -> [step : {"none", "delete", "erase"}, at : Nat]]
    BY DEF Init
  <2> QED BY <2>1, <2>2, <2>3, <2>4, <2>5 DEF Init, TypeOK
<1>2. \A t \in Thread : ~Iterating(t) /\ removing[t].step = "none"
  BY DEF Init, Iterating
<1>3. Tracked /\ Placed /\ NoneGoesDeaf
  BY <1>2 DEF Init, Tracked, Placed, Held, Adding, Members, Distinct, NoneGoesDeaf,
              Registered, Thread
<1>4. Joins /\ AtHandle /\ InCall
  BY DEF Init, Joins, AtHandle, InCall, InHand
<1>5. Intact /\ Sources
  BY <1>2 DEF Init, Intact, Sources, InHand, Thread
<1> QED BY <1>1, <1>3, <1>4, <1>5 DEF IInv

-----------------------------------------------------------------------------
(* Sequences *)

\* The front of a queue, and what is behind it.
LEMMA FrontFacts ==
  ASSUME NEW S, NEW s \in Seq(S), s # <<>>
  PROVE  /\ 1 \in 1..Len(s) /\ Head(s) = s[1] /\ Head(s) \in S
         /\ Tail(s) \in Seq(S)
         /\ \A i \in 1..Len(Tail(s)) : /\ i + 1 \in 1..Len(s) /\ i + 1 # 1
                                       /\ Tail(s)[i] = s[i + 1]
OBVIOUS

\* What appending adds.
LEMMA AppendFacts ==
  ASSUME NEW S, NEW s \in Seq(S), NEW e \in S
  PROVE  /\ Append(s, e) \in Seq(S) /\ Len(Append(s, e)) = Len(s) + 1
         /\ Append(s, e)[Len(s) + 1] = e
         /\ \A i \in 1..Len(s) + 1 : i \in 1..Len(s) \/ i = Len(s) + 1
         /\ \A i \in 1..Len(s) : Append(s, e)[i] = s[i]
OBVIOUS

\* A connection pushed back is held with the others, and none of them moves.
LEMMA PushedFacts ==
  ASSUME NEW s \in Seq(Peers), NEW p \in Peers
  PROVE  /\ Members(Append(s, p)) = Members(s) \union {p}
         /\ Distinct(s) /\ p \notin Members(s) => Distinct(Append(s, p))
<1> DEFINE u == Append(s, p)
           n == Len(s)
<1>1. /\ n \in Nat /\ Len(u) = n + 1 /\ u[n + 1] = p
      /\ \A i \in 1..n + 1 : i \in 1..n \/ i = n + 1
      /\ \A i \in 1..n : u[i] = s[i] /\ i \in 1..n + 1
  BY AppendFacts
<1> HIDE DEF u
<1>2. Members(u) = Members(s) \union {p}
  <2>1. Members(u) \subseteq Members(s) \union {p}
    BY <1>1 DEF Members
  <2>2. Members(s) \union {p} \subseteq Members(u)
    BY <1>1 DEF Members
  <2> QED BY <2>1, <2>2
<1>3. ASSUME Distinct(s), p \notin Members(s) PROVE Distinct(u)
  BY <1>1, <1>3 DEF Distinct, Members
<1> QED BY <1>2, <1>3 DEF u

\* The front of the container is taken out of it.
LEMMA PoppedFacts ==
  ASSUME NEW s \in Seq(Peers), s # <<>>
  PROVE  /\ Members(s) = Members(Tail(s)) \union {Head(s)}
         /\ Distinct(s) => Distinct(Tail(s)) /\ Head(s) \notin Members(Tail(s))
<1> DEFINE u == Tail(s)
           n == Len(s)
<1>1. /\ n \in Nat /\ n > 0 /\ Len(u) = n - 1 /\ Head(s) = s[1]
      /\ \A i \in 1..n - 1 : u[i] = s[i + 1] /\ i + 1 \in 1..n
      /\ \A k \in 1..n : k = 1 \/ (k - 1 \in 1..n - 1 /\ u[k - 1] = s[k])
  OBVIOUS
<1> HIDE DEF u
<1>2. Members(s) = Members(u) \union {Head(s)}
  <2>1. Members(s) \subseteq Members(u) \union {Head(s)}
    BY <1>1 DEF Members
  <2>2. Members(u) \union {Head(s)} \subseteq Members(s)
    BY <1>1 DEF Members
  <2> QED BY <2>1, <2>2
<1>3. ASSUME Distinct(s) PROVE Distinct(u) /\ Head(s) \notin Members(u)
  BY <1>1, <1>3 DEF Distinct, Members
<1> QED BY <1>2, <1>3 DEF u

\* What an erasure leaves of the container.
LEMMA WithoutFacts ==
  ASSUME TypeOK, NEW f \in 1..Len(mContainer)
  PROVE  /\ Without(f) \in Seq(Peers) /\ Members(Without(f)) \subseteq Members(mContainer)
         /\ Distinct(mContainer) =>
              /\ Distinct(Without(f))
              /\ Members(Without(f)) = Members(mContainer) \ {mContainer[f]}
<1> DEFINE s == mContainer
           u == Without(f)
<1>1. s \in Seq(Peers) /\ Len(s) \in Nat /\ Len(s) # 0
  BY TypeParts
<1>2. \A i \in 1..Len(s) - 1 : s[i] \in Peers /\ s[i + 1] \in Peers
  BY <1>1
<1>3. /\ u \in Seq(Peers) /\ Len(u) = Len(s) - 1
      /\ \A i \in 1..Len(s) - 1 : u[i] = IF i < f THEN s[i] ELSE s[i + 1]
  BY <1>1, <1>2 DEF Without
<1> HIDE DEF s, u
<1>4. ASSUME NEW i \in 1..Len(u)
      PROVE  \E k \in 1..Len(s) : u[i] = s[k] /\ k # f
  <2>1. i \in 1..Len(s) /\ i + 1 \in 1..Len(s) /\ i \in Int
    BY <1>1, <1>3
  <2>2. i < f => u[i] = s[i] /\ i # f
    BY <1>1, <1>3, <2>1 DEF s
  <2>3. ~(i < f) => u[i] = s[i + 1] /\ i + 1 # f
    BY <1>1, <1>3, <2>1 DEF s
  <2> QED BY <2>1, <2>2, <2>3
<1>5. ASSUME NEW k \in 1..Len(s), k # f PROVE s[k] \in Members(u)
  <2>1. CASE k < f
    <3>1. k \in 1..Len(u) /\ u[k] = s[k]
      BY <1>1, <1>3, <2>1 DEF s
    <3> QED BY <3>1 DEF Members
  <2>2. CASE k > f
    <3>1. k - 1 \in 1..Len(u) /\ u[k - 1] = s[k]
      BY <1>1, <1>3, <2>2 DEF s
    <3> QED BY <3>1 DEF Members
  <2> QED BY <1>1, <1>5, <2>1, <2>2 DEF s
<1>6. Members(u) \subseteq Members(s)
  BY <1>4 DEF Members
<1>7. ASSUME Distinct(s) PROVE Distinct(u) /\ Members(u) = Members(s) \ {s[f]}
  <2>1. \A i \in 1..Len(u) : u[i] \in Members(s) \ {s[f]}
    BY <1>4, <1>7 DEF Members, Distinct, s
  <2>2. Members(u) \subseteq Members(s) \ {s[f]}
    BY <2>1 DEF Members
  <2>3. Members(s) \ {s[f]} \subseteq Members(u)
    BY <1>5 DEF Members
  <2>4. ASSUME NEW i \in 1..Len(u), NEW j \in 1..Len(u), u[i] = u[j] PROVE i = j
    BY <1>1, <1>3, <1>7, <2>4 DEF Distinct, s
  <2> QED BY <2>2, <2>3, <2>4 DEF Distinct
<1> QED BY <1>3, <1>6, <1>7 DEF s, u

\* The iterator that find_if returns.
LEMMA FirstOfFacts ==
  ASSUME NEW s \in Seq(Peers), Distinct(s), NEW p \in Members(s)
  PROVE  FirstOf(s, p) \in 1..Len(s) /\ s[FirstOf(s, p)] = p
<1>1. PICK i \in 1..Len(s) : s[i] = p
  BY DEF Members
<1>2. Len(s) \in Nat /\ \A j \in 1..i - 1 : j \in 1..Len(s) /\ j # i
  OBVIOUS
<1>3. \A j \in 1..i - 1 : s[j] # p
  BY <1>1, <1>2 DEF Distinct
<1> QED BY <1>1, <1>3 DEF FirstOf

-----------------------------------------------------------------------------
(* The registry *)

\* A step outside Connections, which registers and deletes nothing.
LEMMA RegistryFrame ==
  ASSUME IInv, UNCHANGED registry,
         \A q \in Peers : conn[q] \in {"listed", "deleted"} => conn'[q] = conn[q],
         \A q \in Peers : conn'[q] \in {"listed", "deleted"} => conn'[q] = conn[q],
         \/ loop' = loop
         \/ loop.pc \notin Busy /\ loop'.pc \notin Busy /\ ~Iterating("loop")
  PROVE  Tracked' /\ Placed'
<1>0. /\ TypeOK /\ Tracked /\ Placed /\ mContainer \in Seq(Peers)
      /\ UNCHANGED <<mContainer, mMapping, removing, torn>>
  BY TypeParts DEF IInv, registry
<1>1. \A q \in Peers : /\ conn'[q] = "listed" <=> conn[q] = "listed"
                       /\ conn'[q] = "deleted" <=> conn[q] = "deleted"
  OBVIOUS
<1>2. \A q \in Peers : (Held(q) <=> Held(q)') /\ (Adding(q) <=> Adding(q)')
  BY <1>0 DEF Held, Adding, Members, Busy
<1>3. \A q \in Peers : Leaving(q) <=> Leaving(q)'
  BY <1>0 DEF Leaving, Iterating, Victim, Iterator
<1>4. Tracked'
  <2> SUFFICES ASSUME ~torn PROVE Tracked'
    BY <1>0 DEF Tracked
  <2>1. \A t \in Thread : Iterating(t)' => Iterator(t)' <= Len(mContainer')
    BY <1>0 DEF Tracked, Iterating, Iterator
  <2>2. \A t \in Thread : removing'[t].step = "erase" => Dead(Victim(t))'
    <3> SUFFICES ASSUME NEW t \in Thread, removing'[t].step = "erase" PROVE Dead(Victim(t))'
      OBVIOUS
    <3>1. Iterating(t) /\ Iterator(t) <= Len(mContainer) /\ Dead(Victim(t))
      BY <1>0 DEF Tracked, Iterating
    <3>2. Iterator(t) \in 1..Len(mContainer)
      BY <1>0, <3>1, TypeParts DEF Placed, Removal, Iterator
    <3>3. Victim(t) \in Peers /\ Victim(t)' = Victim(t)
      BY <1>0, <3>2 DEF Victim, Iterator
    <3> QED BY <1>1, <3>1, <3>3 DEF Dead
  <2>3. \A q \in Peers : /\ q \in mMapping' <=> (Held(q)' /\ ~Leaving(q)') \/ Adding(q)'
                         /\ Held(q)' => conn'[q] = "listed" \/ Leaving(q)'
                         /\ conn'[q] = "listed" => Held(q)'
    BY <1>0, <1>1, <1>2, <1>3 DEF Tracked
  <2> QED BY <2>1, <2>2, <2>3 DEF Tracked
<1>5. Placed'
  <2>1. \A q \in Members(mContainer') : Added(q)'
    BY <1>0, <1>1 DEF Placed, Added, Members
  <2>2. loop'.pc = "rotating" => loop'.handle \notin Members(mContainer')
    BY <1>0 DEF Placed, Members, Busy
  <2>3. Iterating("loop")' => loop'.pc \in {"top", "rearm"}
    BY <1>0 DEF Placed, Iterating
  <2> QED BY <1>0, <2>1, <2>2, <2>3 DEF Placed, Distinct, Iterating, Iterator
<1> QED BY <1>4, <1>5

\* removeServerConnection begins.
LEMMA BeginFacts ==
  ASSUME IInv, NEW t \in Thread, NEW p \in Peers, ~Iterating(t), BeginRemoval(t, p),
         conn' = conn,
         \/ t = "app" /\ loop' = loop
         \/ /\ t = "loop" /\ loop.pc \notin Busy /\ loop'.pc \in {"top", "rearm"}
  PROVE  /\ mMapping' \in SUBSET mMapping /\ removing' \in [Thread -> Removal]
         /\ UNCHANGED <<mContainer, torn>>
         /\ \A u \in Thread : u # t => (Iterating(u) <=> Iterating(u)')
         /\ p \in mMapping' => p \notin Members(mContainer)
         /\ Tracked' /\ Placed'
<1>0. /\ TypeOK /\ Tracked /\ Placed /\ Joins /\ mContainer \in Seq(Peers)
      /\ removing \in [Thread -> Removal] /\ UNCHANGED <<mContainer, torn>>
  BY TypeParts DEF IInv, BeginRemoval
<1>1. CASE p \notin Members(mContainer)
  <2>1. UNCHANGED registry
    BY <1>0, <1>1 DEF BeginRemoval, registry
  <2>2. \/ loop' = loop
        \/ loop.pc \notin Busy /\ loop'.pc \notin Busy /\ ~Iterating("loop")
    BY DEF Busy
  <2>3. Tracked' /\ Placed'
    BY <2>1, <2>2, RegistryFrame
  <2> QED BY <1>0, <1>1, <2>1, <2>3 DEF registry, Iterating
<1>2. CASE p \in Members(mContainer)
  <2> DEFINE f == FirstOf(mContainer, p)
  <2>1. f \in 1..Len(mContainer) /\ mContainer[f] = p
    BY <1>0, <1>2, FirstOfFacts DEF Placed
  <2>2. /\ mMapping' = mMapping \ {p}
        /\ removing' = [removing EXCEPT ![t] = [step |-> "delete", at |-> f]]
    BY <1>2 DEF BeginRemoval, Unmapped
  <2> HIDE DEF f
  <2>3. /\ removing' \in [Thread -> Removal]
        /\ removing'[t].step = "delete" /\ removing'[t].at = f
        /\ \A u \in Thread : u # t => removing'[u] = removing[u]
    BY <1>0, <2>1, <2>2 DEF Removal
  <2>4. /\ Iterating(t)' /\ Iterator(t)' = f /\ Victim(t)' = p
        /\ \A u \in Thread : u # t => /\ Iterating(u) <=> Iterating(u)'
                                      /\ Iterator(u)' = Iterator(u)
                                      /\ Victim(u)' = Victim(u)
    BY <1>0, <2>1, <2>3 DEF Iterating, Iterator, Victim
  <2>5. \A q \in Peers : Leaving(q)' <=> Leaving(q) \/ q = p
    BY <2>4 DEF Leaving
  <2>6. \A q \in Peers : (Held(q) <=> Held(q)') /\ (Adding(q) <=> Adding(q)')
    BY <1>0 DEF Held, Adding, Members, Busy
  <2>7. ~Adding(p)
    BY <1>0, <1>2 DEF Placed, Added, Joins, Joining, Adding
  <2>8. Tracked'
    <3> SUFFICES ASSUME ~torn PROVE Tracked'
      BY <1>0 DEF Tracked
    <3>1. \A u \in Thread : Iterating(u)' => Iterator(u)' <= Len(mContainer')
      BY <1>0, <2>1, <2>4 DEF Tracked
    <3>2. \A u \in Thread : removing'[u].step = "erase" => Dead(Victim(u))'
      BY <1>0, <2>3, <2>4 DEF Tracked, Dead
    <3>3. \A q \in Peers : /\ q \in mMapping' <=> (Held(q)' /\ ~Leaving(q)') \/ Adding(q)'
                           /\ Held(q)' => conn'[q] = "listed" \/ Leaving(q)'
                           /\ conn'[q] = "listed" => Held(q)'
      BY <1>0, <2>2, <2>5, <2>6, <2>7 DEF Tracked
    <3> QED BY <3>1, <3>2, <3>3 DEF Tracked
  <2>9. Placed'
    <3>1. \A q \in Members(mContainer') : Added(q)'
      BY <1>0 DEF Placed, Added, Members
    <3>2. loop'.pc = "rotating" => loop'.handle \notin Members(mContainer')
      BY <1>0 DEF Placed, Members
    <3>3. \A u \in Thread : Iterating(u)' => Iterator(u)' >= 1
      BY <1>0, <2>1, <2>4 DEF Placed
    <3>4. Iterating("loop")' => loop'.pc \in {"top", "rearm"}
      BY <1>0, <2>4 DEF Placed, Thread
    <3>5. Distinct(mContainer')
      BY <1>0 DEF Placed, Distinct
    <3> QED BY <3>1, <3>2, <3>3, <3>4, <3>5 DEF Placed
  <2> QED BY <1>0, <2>2, <2>3, <2>4, <2>8, <2>9
<1> QED BY <1>1, <1>2

\* A deletion.
LEMMA DeleteFacts ==
  ASSUME IInv, NEW t \in Thread, Delete(t)
  PROVE  \E v \in Members(mContainer) :
           /\ v \in Peers /\ conn[v] = "listed" /\ conn'[v] = "deleted"
           /\ conn' \in [Peers -> ConnState] /\ \A q \in Peers \ {v} : conn'[q] = conn[q]
           /\ signalled' = signalled \ {v}
           /\ removing' \in [Thread -> Removal]
           /\ Iterating(t) /\ \A u \in Thread : Iterating(u) <=> Iterating(u)'
           /\ Tracked' /\ Placed'
<1> DEFINE v == mContainer[Iterator(t)]
<1>0. /\ TypeOK /\ Tracked /\ Placed /\ mContainer \in Seq(Peers)
      /\ removing \in [Thread -> Removal] /\ UNCHANGED <<mContainer, mMapping, torn, loop>>
      /\ removing[t].step = "delete"
  BY TypeParts DEF IInv, Delete
<1>1. Iterating(t) /\ Iterator(t) \in 1..Len(mContainer) /\ v \in Members(mContainer)
  <2>1. Iterating(t) /\ Iterator(t) <= Len(mContainer)
    BY DEF Delete, Iterating
  <2>2. Iterator(t) \in 1..Len(mContainer)
    BY <1>0, <2>1 DEF Placed, Removal, Iterator
  <2> QED BY <2>1, <2>2 DEF Members
<1>2. v \in Peers /\ conn[v] = "listed"
  BY <1>0, <1>1 DEF Placed, Added, Delete, Dead
<1>3. /\ conn' = [conn EXCEPT ![v] = "deleted"] /\ signalled' = signalled \ {v}
      /\ removing' = [removing EXCEPT ![t].step = "erase"]
  BY DEF Delete, Cleared
<1> HIDE DEF v
<1>4. /\ conn' \in [Peers -> ConnState] /\ conn'[v] = "deleted"
      /\ \A q \in Peers \ {v} : conn'[q] = conn[q]
  BY <1>0, <1>2, <1>3 DEF TypeOK, ConnState
<1>5. /\ removing' \in [Thread -> Removal]
      /\ \A u \in Thread : /\ removing'[u].at = removing[u].at
                           /\ u # t => removing'[u] = removing[u]
      /\ removing'[t].step = "erase"
  BY <1>0, <1>3 DEF Removal
<1>6. \A u \in Thread : /\ Iterating(u) <=> Iterating(u)'
                        /\ Iterator(u)' = Iterator(u) /\ Victim(u)' = Victim(u)
  BY <1>0, <1>5 DEF Iterating, Iterator, Victim
<1>7. Victim(t) = v
  BY DEF Victim, v
<1>8. \A q \in Peers : /\ Leaving(q)' <=> Leaving(q)
                       /\ Held(q) <=> Held(q)'
                       /\ Adding(q) <=> Adding(q)'
  BY <1>0, <1>6 DEF Leaving, Held, Adding, Members
<1>9. Tracked'
  <2> SUFFICES ASSUME ~torn PROVE Tracked'
    BY <1>0 DEF Tracked
  <2>1. \A u \in Thread : Iterating(u)' => Iterator(u)' <= Len(mContainer')
    BY <1>0, <1>6 DEF Tracked
  <2>2. \A u \in Thread : removing'[u].step = "erase" => Dead(Victim(u))'
    <3> SUFFICES ASSUME NEW u \in Thread, removing'[u].step = "erase" PROVE Dead(Victim(u))'
      OBVIOUS
    <3>1. CASE u = t
      BY <1>4, <1>6, <1>7, <3>1 DEF Dead
    <3>2. CASE u # t
      <4>1. Iterating(u) /\ Iterator(u) <= Len(mContainer) /\ Dead(Victim(u))
        BY <1>0, <1>5, <3>2 DEF Tracked, Iterating
      <4>2. Iterator(u) \in 1..Len(mContainer)
        BY <1>0, <4>1 DEF Placed, Removal, Iterator
      <4>3. Victim(u) \in Peers
        BY <1>0, <4>2 DEF Victim
      <4> QED BY <1>2, <1>4, <1>6, <4>1, <4>3 DEF Dead
    <3> QED BY <3>1, <3>2
  <2>3. Leaving(v)
    BY <1>1, <1>7 DEF Leaving
  <2>4. \A q \in Peers : /\ q \in mMapping' <=> (Held(q)' /\ ~Leaving(q)') \/ Adding(q)'
                         /\ Held(q)' => conn'[q] = "listed" \/ Leaving(q)'
                         /\ conn'[q] = "listed" => Held(q)'
    BY <1>0, <1>2, <1>4, <1>8, <2>3 DEF Tracked
  <2> QED BY <2>1, <2>2, <2>4 DEF Tracked
<1>10. Placed'
  <2>1. \A q \in Members(mContainer') : Added(q)'
    BY <1>0, <1>2, <1>4 DEF Placed, Added, Members
  <2>2. loop'.pc = "rotating" => loop'.handle \notin Members(mContainer')
    BY <1>0 DEF Placed, Members
  <2>3. Iterating("loop")' => loop'.pc \in {"top", "rearm"}
    BY <1>0, <1>6 DEF Placed, Thread
  <2>4. \A u \in Thread : Iterating(u)' => Iterator(u)' >= 1
    BY <1>0, <1>6 DEF Placed
  <2> QED BY <1>0, <2>1, <2>2, <2>3, <2>4 DEF Placed, Distinct
<1> QED BY <1>1, <1>2, <1>3, <1>4, <1>5, <1>6, <1>9, <1>10

\* An erasure.
LEMMA EraseFacts ==
  ASSUME IInv, NEW t \in Thread, Erase(t)
  PROVE  /\ mContainer' \in Seq(Peers) /\ removing' \in [Thread -> Removal]
         /\ Iterating(t) /\ ~Iterating(t)'
         /\ \A u \in Thread : u # t => (Iterating(u) <=> Iterating(u)')
         /\ torn' \in BOOLEAN
         /\ torn' => torn \/ Iterating("app")
         /\ Tracked' /\ Placed'
<1> DEFINE v == mContainer[Iterator(t)]
<1>0. /\ TypeOK /\ Tracked /\ Placed /\ mContainer \in Seq(Peers)
      /\ removing \in [Thread -> Removal] /\ UNCHANGED <<conn, mMapping, loop>>
      /\ removing[t].step = "erase" /\ torn' = (torn \/ Iterating(OtherThan(t)))
  BY TypeParts DEF IInv, Erase
<1>1. Iterating(t) /\ Iterator(t) \in 1..Len(mContainer)
  <2>1. Iterating(t) /\ Iterator(t) <= Len(mContainer)
    BY DEF Erase, Iterating
  <2> QED BY <1>0, <2>1 DEF Placed, Removal, Iterator
<1>2. /\ mContainer' \in Seq(Peers) /\ Distinct(mContainer')
      /\ Members(mContainer') = Members(mContainer) \ {v}
  BY <1>0, <1>1, WithoutFacts DEF Erase, Placed
<1>3. v \in Members(mContainer)
  BY <1>1 DEF Members
<1> HIDE DEF v
<1>4. /\ removing' \in [Thread -> Removal]
      /\ removing'[t].step = "none"
      /\ \A u \in Thread : u # t => removing'[u] = removing[u]
  BY <1>0 DEF Erase, Removal
<1>5. ~Iterating(t)' /\ \A u \in Thread : u # t => (Iterating(u) <=> Iterating(u)')
  BY <1>4 DEF Iterating
<1>6. torn' \in BOOLEAN /\ (torn' => torn \/ Iterating("app"))
  BY <1>0, <1>1, TypeParts DEF Thread, OtherThan
<1>7. Tracked'
  <2> SUFFICES ASSUME ~torn' PROVE Tracked'
    BY DEF Tracked
  <2>1. ~torn /\ \A u \in Thread : u # t => ~Iterating(u)
    BY <1>0 DEF Thread, OtherThan
  <2>2. \A u \in Thread : ~Iterating(u)' /\ removing'[u].step # "erase"
    BY <1>5, <2>1 DEF Iterating
  <2>3. Victim(t) = v /\ \A q \in Peers : (Leaving(q) <=> q = v) /\ ~Leaving(q)'
    BY <1>1, <2>1, <2>2 DEF Leaving, Victim, v
  <2>4. v \in Peers /\ conn[v] = "deleted"
    BY <1>0, <1>3, <2>1, <2>3 DEF Tracked, Placed, Added, Dead
  <2>5. \A q \in Peers : (Held(q)' <=> Held(q) /\ q # v) /\ (Adding(q) <=> Adding(q)')
    BY <1>0, <1>2, <1>3 DEF Held, Adding, Placed
  <2>6. ~Adding(v)
    BY <2>4 DEF Adding, Joins, Joining, IInv
  <2>7. \A q \in Peers : /\ q \in mMapping' <=> (Held(q)' /\ ~Leaving(q)') \/ Adding(q)'
                         /\ Held(q)' => conn'[q] = "listed" \/ Leaving(q)'
                         /\ conn'[q] = "listed" => Held(q)'
    BY <1>0, <2>1, <2>3, <2>4, <2>5, <2>6 DEF Tracked
  <2> QED BY <2>2, <2>7 DEF Tracked
<1>8. Placed'
  <2>1. \A q \in Members(mContainer') : Added(q)'
    BY <1>0, <1>2 DEF Placed, Added
  <2>2. loop'.pc = "rotating" => loop'.handle \notin Members(mContainer')
    BY <1>0, <1>2 DEF Placed
  <2>3. Iterating("loop")' => loop'.pc \in {"top", "rearm"}
    BY <1>0, <1>5 DEF Placed, Thread
  <2>4. \A u \in Thread : Iterating(u)' => Iterator(u)' >= 1
    BY <1>0, <1>4, <1>5 DEF Placed, Iterator
  <2> QED BY <1>2, <2>1, <2>2, <2>3, <2>4 DEF Placed
<1> QED BY <1>1, <1>2, <1>4, <1>5, <1>6, <1>7, <1>8

-----------------------------------------------------------------------------
(* The steps of the loop that change nothing but where it is *)

LEMMA GoesFacts ==
  ASSUME loop \in LoopState, NEW pc \in LoopPc, LoopGoes(pc)
  PROVE  /\ loop' \in LoopState /\ loop'.pc = pc /\ loop'.handle = loop.handle
         /\ loop'.handles = loop.handles /\ loop'.routine = loop.routine
BY DEF LoopGoes, LoopState

\* What is posted, and what is started.
LEMMA PostsFacts ==
  ASSUME TypeOK, NEW p \in Peers, Posts(p)
  PROVE  /\ recv' \in [Peers -> RecvState] /\ recv'[p] = "pending"
         /\ \A q \in Peers \ {p} : recv'[q] = recv[q]
         /\ overlap' \in [Peers -> {"receive", "pending", "sent", "failed"}]
         /\ \A q \in Peers : overlap'[q] = "failed" => overlap[q] = "failed"
         /\ sending' = sending
BY DEF TypeOK, Posts, RecvState

LEMMA StartsFacts ==
  ASSUME TypeOK, NEW t \in Thread, NEW p \in Peers, Starts(t, p)
  PROVE  /\ sending' \in [Peers -> Seq(Thread)]
         /\ \A q \in Peers : \A i \in 1..Len(sending'[q]) :
              \/ i \in 1..Len(sending[q]) /\ sending'[q][i] = sending[q][i]
              \/ q = p /\ sending'[q][i] = t
         /\ overlap' \in [Peers -> {"receive", "pending", "sent", "failed"}]
         /\ \A q \in Peers : overlap'[q] = "failed" => overlap[q] = "failed"
         /\ recv' = recv
<1>1. sending \in [Peers -> Seq(Thread)] /\ sending[p] \in Seq(Thread)
  BY TypeParts
<1>2. /\ Append(sending[p], t) \in Seq(Thread)
      /\ \A i \in 1..Len(Append(sending[p], t)) :
           \/ i \in 1..Len(sending[p]) /\ Append(sending[p], t)[i] = sending[p][i]
           \/ Append(sending[p], t)[i] = t
  BY <1>1, AppendFacts
<1>3. sending' = [sending EXCEPT ![p] = Append(@, t)]
  BY DEF Starts
<1>4. /\ sending' \in [Peers -> Seq(Thread)] /\ sending'[p] = Append(sending[p], t)
      /\ \A q \in Peers \ {p} : sending'[q] = sending[q]
  BY <1>1, <1>2, <1>3
<1>5. /\ overlap' \in [Peers -> {"receive", "pending", "sent", "failed"}]
      /\ \A q \in Peers : overlap'[q] = "failed" => overlap[q] = "failed"
      /\ recv' = recv
  BY DEF TypeOK, Starts
<1> QED BY <1>2, <1>4, <1>5

LEMMA LoopOnlySteps ==
  ASSUME IInv, LoopOnly,
         \/ LoopTop \/ ShutdownSeen \/ WaitEnter \/ WaitReturns \/ AfterWait
         \/ FindConnection \/ ReceiveResult \/ NoReply \/ RearmNot
  PROVE  IInv'
<1> USE DEF LoopPc
<1>0. loop \in LoopState /\ ~Iterating("loop")
  BY TypeParts DEF IInv, LoopTop, ShutdownSeen, WaitEnter, WaitReturns, AfterWait,
                   FindConnection, ReceiveResult, NoReply, RearmNot, LoopAt
<1>1. loop' \in LoopState /\ loop'.pc \notin Busy \union {"routine"} /\ loop.pc \notin Busy
  <2> USE DEF LoopAt, Busy
  <2>1. CASE LoopTop
    BY <1>0, <2>1 DEF LoopTop, LoopState, Handle
  <2>2. CASE ShutdownSeen
    BY <1>0, <2>2, GoesFacts DEF ShutdownSeen
  <2>3. CASE WaitEnter
    BY <1>0, <2>3 DEF WaitEnter, LoopGoes, LoopState
  <2>4. CASE FindConnection
    BY <1>0, <2>4 DEF FindConnection, LoopGoes, LoopState
  <2>5. CASE ReceiveResult
    <3>1. Outcome(loop.handle) \in {"top", "blocked", "remove", "called"}
      BY DEF Outcome
    <3> QED BY <1>0, <2>5, <3>1, GoesFacts DEF ReceiveResult
  <2>6. CASE WaitReturns
    <3>1. PICK i \in 1..Len(loop.handles) :
            loop' = [loop EXCEPT !.pc = "after", !.handle = loop.handles[i]]
      BY <2>6 DEF WaitReturns
    <3>2. loop.handles[i] \in Handle
      BY <1>0, <3>1 DEF LoopState
    <3>3. loop.pc = "wait"
      BY <2>6 DEF WaitReturns
    <3> QED BY <1>0, <3>1, <3>2, <3>3 DEF LoopState
  <2>7. CASE AfterWait
    <3>1. <<>> \in Seq(Handle)
      OBVIOUS
    <3> QED BY <1>0, <2>7, <3>1 DEF AfterWait, LoopState
  <2>8. CASE NoReply
    BY <1>0, <2>8, GoesFacts DEF NoReply
  <2>9. CASE RearmNot
    BY <1>0, <2>9, GoesFacts DEF RearmNot
  <2> QED BY <2>1, <2>2, <2>3, <2>4, <2>5, <2>6, <2>7, <2>8, <2>9
<1>2. TypeOK'
  BY <1>1
  DEF IInv, LoopOnly, LoopKeeps, TypeOK, LoopState, registry, network, io
<1>3. Tracked' /\ Placed' /\ InCall'
  <2>1. InCall'
    BY DEF IInv, LoopOnly, LoopKeeps, InCall
  <2> QED BY <1>0, <1>1, <2>1, RegistryFrame DEF LoopOnly
<1>4. Joins' /\ Sources'
  BY <1>1
  DEF IInv, LoopOnly, LoopKeeps, Joins, Joining, JoinedAt, Sources, Dead, network, io, Busy
<1>5. AtHandle'
  <2> USE DEF IInv, LoopOnly, AtHandle, InHand, Added
  <2>1. CASE LoopTop \/ ShutdownSeen \/ WaitEnter \/ WaitReturns \/ AfterWait
    <3>1. loop'.pc \in {"returned", "array", "after", "threw", "wait", "top", "reset"}
      BY <1>0, <2>1
      DEF LoopTop, ShutdownSeen, WaitEnter, WaitReturns, AfterWait, LoopGoes, LoopState
    <3> QED BY <3>1
  <2>2. CASE FindConnection
    <3>1. /\ loop'.handle = loop.handle
          /\ \/ loop'.pc = "threw"
             \/ loop'.pc = "result" /\ loop.handle \in Members(mContainer)
      BY <1>0, <2>2 DEF FindConnection, LoopAt, LoopGoes, LoopState
    <3> QED BY <3>1 DEF Placed
  <2>3. CASE ReceiveResult \/ NoReply \/ RearmNot
    <3>1. /\ loop'.handle = loop.handle /\ loop.pc \in InHand
          /\ loop'.pc \in {"top", "blocked", "remove", "called", "rearm"}
      BY <1>0, <2>3
      DEF ReceiveResult, NoReply, RearmNot, Outcome, LoopAt, LoopGoes, LoopState
    <3> QED BY <3>1
  <2> QED BY <2>1, <2>2, <2>3
<1>6. Intact'
  <2> USE DEF IInv, LoopOnly, LoopKeeps, network, registry, Intact, Excused, Known, InHand,
              Iterating
  <2>1. CASE Excused
    BY <2>1
  <2>2. CASE ~Excused /\ LoopTop
    BY <1>0, <2>2 DEF LoopTop, LoopState
  <2>3. CASE ~Excused /\ (ShutdownSeen \/ RearmNot)
    BY <2>3 DEF ShutdownSeen, RearmNot
  <2>4. CASE ~Excused /\ WaitEnter
    <3>1. \A i \in 1..Len(loop.handles) : Known(loop.handles[i])
      BY <2>4 DEF WaitEnter, LoopAt
    <3>2. \A h \in Members(loop.handles) : ~Closed(h)
      BY <3>1, WinAssumption DEF Closed, Members, Dead
    <3>3. loop'.handles = loop.handles /\ loop'.pc = IF TooMany THEN "threw" ELSE "wait"
      BY <1>0, <2>4, <3>2 DEF WaitEnter, LoopGoes, LoopState
    <3> QED BY <1>0, <2>4, <3>1, <3>3 DEF WaitEnter, TooMany
  <2>5. CASE ~Excused /\ WaitReturns
    <3>1. PICK i \in 1..Len(loop.handles) :
            loop' = [loop EXCEPT !.pc = "after", !.handle = loop.handles[i]]
      BY <2>5 DEF WaitReturns
    <3>2. Known(loop.handles[i])
      BY <2>5, <3>1 DEF WaitReturns, LoopAt
    <3>3. loop'.pc = "after" /\ loop'.handle = loop.handles[i]
      BY <1>0, <3>1 DEF LoopState
    <3> QED BY <1>0, <2>5, <3>2, <3>3
  <2>8. CASE ~Excused /\ AfterWait
    BY <1>0, <2>8 DEF AfterWait, LoopAt, LoopState
  <2>6. CASE ~Excused /\ FindConnection
    <3>1. conn[loop.handle] = "listed" /\ loop.handle \in Peers /\ ~torn /\ loop.pc = "find"
      BY <2>6, WinAssumption DEF FindConnection, LoopAt, AtHandle
    <3>2. loop.handle \in Members(mContainer)
      BY <3>1 DEF Tracked, Held
    <3> QED BY <1>0, <2>6, <3>2 DEF FindConnection, LoopAt, LoopGoes, LoopState
  <2>7. CASE ~Excused /\ (ReceiveResult \/ NoReply)
    BY <1>0, <2>7
    DEF ReceiveResult, NoReply, Outcome, LoopAt, LoopGoes, LoopState
  <2> QED BY <2>1, <2>2, <2>3, <2>4, <2>5, <2>6, <2>7, <2>8
<1>7. NoneGoesDeaf'
  <2> SUFFICES ASSUME ~torn, NEW p \in Peers \ Repliers, Registered(p),
                      ~Ended', ~Blocked', ~mHasBeenShutdown
               PROVE  Attended(p)'
    BY DEF LoopOnly, LoopKeeps, registry, NoneGoesDeaf, Registered
  <2>0. UNCHANGED <<conn, recv, overlap, signalled, link, mHasBeenShutdown, status,
                    mContainer>>
    BY DEF LoopOnly, LoopKeeps, registry, network, io
  <2>1. Attended(p)
    <3>1. ~Ended /\ ~Blocked
      BY <2>0 DEF Ended, LoopEnded, Blocked, LoopTop, ShutdownSeen, WaitEnter, WaitReturns,
                  AfterWait, FindConnection, ReceiveResult, NoReply, RearmNot, LoopAt
    <3> QED BY <3>1 DEF IInv, NoneGoesDeaf
  <2>2. CASE ~AtIt(p)
    BY <2>0, <2>1, <2>2 DEF Attended
  <2>3. CASE AtIt(p) /\ (LoopTop \/ ShutdownSeen \/ WaitEnter \/ WaitReturns)
    BY <2>3 DEF AtIt, LoopTop, ShutdownSeen, WaitEnter, WaitReturns, LoopAt
  <2>4. CASE AtIt(p) /\ (AfterWait \/ NoReply \/ RearmNot)
    BY <1>0, <2>0, <2>4
    DEF AtIt, Attended, AfterWait, NoReply, RearmNot, LoopAt, LoopGoes, LoopState
  <2>5. CASE AtIt(p) /\ FindConnection
    BY <1>0, <2>0, <2>5
    DEF AtIt, Attended, FindConnection, LoopAt, LoopGoes, LoopState, Ended, LoopEnded
  <2>6. CASE AtIt(p) /\ ReceiveResult
    <3>1. loop.handle = p /\ conn[p] = "listed" /\ loop'.handle = p /\ loop'.pc = Outcome(p)
      BY <1>0, <2>6 DEF AtIt, Registered, ReceiveResult, LoopAt, LoopGoes, LoopState
    <3>2. Result(p) = "failed" => link[p] = "reset"
      BY <3>1 DEF Result, Dead, IInv, Sources
    <3>3. loop'.pc \in {"remove", "called"} \/ link[p] = "reset"
      BY <3>1, <3>2 DEF Outcome, Dead, Blocked
    <3> QED BY <2>0, <3>1, <3>3 DEF AtIt, Attended
  <2> QED BY <2>2, <2>3, <2>4, <2>5, <2>6
<1> QED BY <1>2, <1>3, <1>4, <1>5, <1>6, <1>7 DEF IInv

-----------------------------------------------------------------------------
(* The other steps of the loop *)

LEMMA GetHandleArrayStep == IInv /\ GetHandleArray => IInv'
<1> SUFFICES ASSUME IInv, GetHandleArray PROVE IInv'
  OBVIOUS
<1> DEFINE h == Head(mContainer)
<1>0. /\ TypeOK /\ Tracked /\ Placed /\ loop \in LoopState /\ mContainer \in Seq(Peers)
      /\ loop.pc = "array" /\ status = "up" /\ ~Iterating("loop")
      /\ UNCHANGED <<LoopKeeps, mMapping, removing, targets, conn, io, signalled,
                     accepting, routines, replies>>
  BY TypeParts DEF IInv, GetHandleArray, LoopAt
<1>1. /\ mContainer' \in Seq(Peers) /\ torn' \in BOOLEAN /\ (torn => torn')
      /\ torn' => torn \/ Iterating("app")
      /\ loop' \in LoopState
      /\ \/ /\ UNCHANGED registry /\ mContainer = <<>>
            /\ loop'.pc = "enter" /\ loop'.handles = <<Listener>>
         \/ /\ mContainer # <<>> /\ mContainer' = Tail(mContainer) /\ h \in Peers
            /\ loop'.pc = "rotating" /\ loop'.handle = h
            /\ torn' = (torn \/ Iterating("app"))
  <2>1. CASE mContainer = <<>>
    <3>1. <<Listener>> \in Seq(Handle)
      BY DEF Handle
    <3> QED BY <1>0, <2>1, <3>1, TypeParts
      DEF GetHandleArray, LoopState, LoopPc, registry
  <2>2. CASE mContainer # <<>>
    <3>1. h \in Peers /\ Tail(mContainer) \in Seq(Peers)
      BY <1>0, <2>2, FrontFacts
    <3>2. /\ mContainer' = Tail(mContainer) /\ torn' = (torn \/ Iterating("app"))
          /\ loop' = [loop EXCEPT !.pc = "rotating", !.handle = h]
      BY <2>2 DEF GetHandleArray
    <3> HIDE DEF h
    <3> QED BY <1>0, <2>2, <3>1, <3>2, TypeParts DEF LoopState, LoopPc, Handle, Iterating
  <2> QED BY <2>1, <2>2
<1>2. ASSUME UNCHANGED registry, loop'.pc = "enter" PROVE Tracked' /\ Placed'
  BY <1>0, <1>2, RegistryFrame DEF Busy
<1>3. ASSUME mContainer # <<>>, mContainer' = Tail(mContainer), loop'.pc = "rotating",
             loop'.handle = h, h \in Peers, torn' = (torn \/ Iterating("app"))
      PROVE  Tracked' /\ Placed'
  <2> HIDE DEF h
  <2>1. /\ Members(mContainer) = Members(mContainer') \union {h}
        /\ Distinct(mContainer') /\ h \notin Members(mContainer')
    BY <1>0, <1>3, PoppedFacts DEF Placed, h
  <2>2. Tracked'
    <3> SUFFICES ASSUME ~torn' PROVE Tracked'
      BY DEF Tracked
    <3>1. ~torn /\ \A t \in Thread : ~Iterating(t)
      BY <1>0, <1>3 DEF Thread
    <3>2. \A t \in Thread : ~Iterating(t)' /\ removing'[t].step # "erase"
      BY <1>0, <3>1 DEF Iterating
    <3>3. \A q \in Peers : /\ ~Leaving(q) /\ ~Leaving(q)' /\ ~Adding(q) /\ ~Adding(q)'
                           /\ Held(q) <=> Held(q)'
      BY <1>0, <1>3, <2>1, <3>1, <3>2 DEF Leaving, Adding, Held
    <3>4. \A q \in Peers : /\ q \in mMapping' <=> (Held(q)' /\ ~Leaving(q)') \/ Adding(q)'
                           /\ Held(q)' => conn'[q] = "listed" \/ Leaving(q)'
                           /\ conn'[q] = "listed" => Held(q)'
      BY <1>0, <3>1, <3>3 DEF Tracked
    <3> QED BY <3>2, <3>4 DEF Tracked
  <2>3. Placed'
    <3>1. \A q \in Members(mContainer') : Added(q)'
      BY <1>0, <2>1 DEF Placed, Added
    <3>2. Iterating("loop")' => loop'.pc \in {"top", "rearm"}
      BY <1>0 DEF Iterating
    <3> QED BY <1>0, <1>3, <2>1, <3>1, <3>2 DEF Placed, Iterating, Iterator
  <2> QED BY <2>2, <2>3
<1>4. loop'.pc = "rotating" => Added(loop'.handle)
  <2>1. CASE mContainer # <<>>
    <3>1. h \in Members(mContainer)
      BY <1>0, <2>1, FrontFacts DEF Members
    <3> QED BY <1>0, <1>1, <3>1 DEF Placed
  <2> QED BY <1>1, <2>1
<1> HIDE DEF h
<1>5. TypeOK'
  BY <1>0, <1>1 DEF LoopKeeps, TypeOK, LoopState, network, io
<1>6. Tracked' /\ Placed'
  BY <1>1, <1>2, <1>3
<1>7. Joins' /\ Sources' /\ AtHandle' /\ InCall'
  <2>1. Joins' /\ Sources'
    BY <1>0, <1>1
    DEF LoopKeeps, network, io, IInv, Joins, Joining, JoinedAt, Sources, Dead
  <2>2. AtHandle' /\ InCall'
    BY <1>0, <1>1, <1>4 DEF LoopKeeps, IInv, AtHandle, Added, InHand, InCall
  <2> QED BY <2>1, <2>2
<1>8. Intact'
  <2>1. ~Excused => ~torn' /\ ~Iterating("app")' /\ ~Iterating("loop")'
    BY <1>0, <1>1 DEF IInv, Intact, Iterating
  <2>2. Excused <=> Excused'
    BY <1>0 DEF LoopKeeps, network, Excused
  <2>3. ASSUME loop'.pc = "enter", NEW i \in 1..Len(loop'.handles)
        PROVE  loop'.handles[i] = Listener
    BY <1>1, <2>3
  <2> QED BY <1>1, <2>1, <2>2, <2>3 DEF Intact, Known, InHand
<1>9. NoneGoesDeaf'
  BY <1>0, <1>1
  DEF LoopKeeps, network, io, IInv, NoneGoesDeaf, Registered, Attended, AtIt, Ended,
      LoopEnded, Blocked
<1> QED BY <1>5, <1>6, <1>7, <1>8, <1>9 DEF IInv

LEMMA PushBackStep == IInv /\ PushBack => IInv'
<1> SUFFICES ASSUME IInv, PushBack PROVE IInv'
  OBVIOUS
<1> DEFINE h == loop.handle
           n == Len(mContainer)
<1>0. /\ TypeOK /\ Tracked /\ Placed /\ loop \in LoopState /\ mContainer \in Seq(Peers)
      /\ n \in Nat /\ removing \in [Thread -> Removal]
      /\ loop.pc = "rotating" /\ status = "up" /\ ~Iterating("loop")
      /\ Added(h) /\ h \in Peers /\ h \notin Members(mContainer)
      /\ UNCHANGED <<LoopKeeps, mMapping, removing, torn, targets, conn, io, signalled,
                     accepting, routines, replies>>
  BY TypeParts DEF IInv, PushBack, LoopAt, AtHandle, Added, Placed
<1>1. mContainer' = Append(mContainer, h)
  BY DEF PushBack, Rotated
<1>2. /\ mContainer' \in Seq(Peers) /\ Len(mContainer') = n + 1
      /\ \A i \in 1..n : mContainer'[i] = mContainer[i]
      /\ Members(mContainer') = Members(mContainer) \union {h} /\ Distinct(mContainer')
  BY <1>0, <1>1, AppendFacts, PushedFacts DEF Placed
<1>3. /\ loop' \in LoopState /\ loop'.pc = "enter" /\ loop'.handle = Listener
      /\ loop'.handles = <<Listener>> \o mContainer'
  <2>1. <<Listener>> \o mContainer' \in Seq(Handle)
    BY <1>2 DEF Handle
  <2> QED BY <1>0, <1>1, <2>1 DEF PushBack, Rotated, LoopState, LoopPc, Handle
<1> HIDE DEF h, n
<1>4. Tracked'
  <2> SUFFICES ASSUME ~torn PROVE Tracked'
    BY <1>0 DEF Tracked
  <2>1. ASSUME NEW t \in Thread, Iterating(t)
        PROVE  Iterator(t) \in 1..n /\ Victim(t)' = Victim(t) /\ Iterator(t)' = Iterator(t)
    <3>1. Iterator(t) \in 1..n
      BY <1>0, <2>1 DEF Tracked, Placed, Removal, Iterator, n
    <3> QED BY <1>0, <1>2, <3>1 DEF Victim, Iterator
  <2>2. \A t \in Thread : Iterating(t)' => Iterator(t)' <= Len(mContainer')
    BY <1>0, <1>2, <2>1 DEF Iterating
  <2>3. \A t \in Thread : removing'[t].step = "erase" => Dead(Victim(t))'
    BY <1>0, <2>1 DEF Tracked, Iterating, Dead
  <2>4. \A q \in Peers : Leaving(q) <=> Leaving(q)'
    BY <1>0, <2>1 DEF Leaving, Iterating
  <2>5. \A q \in Peers : (Held(q) <=> Held(q)') /\ ~Adding(q) /\ ~Adding(q)'
    BY <1>0, <1>2, <1>3 DEF Held, Adding, h
  <2>6. \A q \in Peers : /\ q \in mMapping' <=> (Held(q)' /\ ~Leaving(q)') \/ Adding(q)'
                         /\ Held(q)' => conn'[q] = "listed" \/ Leaving(q)'
                         /\ conn'[q] = "listed" => Held(q)'
    BY <1>0, <2>4, <2>5 DEF Tracked
  <2> QED BY <2>2, <2>3, <2>6 DEF Tracked
<1>5. Placed'
  <2>1. \A q \in Members(mContainer') : Added(q)'
    BY <1>0, <1>2 DEF Placed, Added
  <2> QED BY <1>0, <1>2, <1>3, <2>1 DEF Placed, Iterating, Iterator
<1>6. TypeOK'
  BY <1>0, <1>2, <1>3 DEF LoopKeeps, TypeOK, LoopState, network, io
<1>7. Joins' /\ Sources' /\ AtHandle' /\ InCall'
  BY <1>0, <1>3
  DEF LoopKeeps, network, io, IInv, Joins, Joining, JoinedAt, Sources, Dead, AtHandle,
      Added, InHand, InCall
<1>8. Intact'
  <2>1. Excused <=> Excused'
    BY <1>0 DEF LoopKeeps, network, Excused
  <2>2. ASSUME ~Excused, NEW i \in 1..Len(loop'.handles)
        PROVE  Known(loop.handles[i])'
    <3>1. ~torn /\ \A t \in Thread : ~Iterating(t)
      BY <1>0, <2>2 DEF IInv, Intact, Thread
    <3>2. i = 1 => loop'.handles[i] = Listener
      BY <1>2, <1>3
    <3>3. i # 1 => loop'.handles[i] \in Members(mContainer')
      BY <1>2, <1>3, <2>2 DEF Members
    <3>4. \A q \in Members(mContainer') : q \in Peers /\ Held(q)
      BY <1>0, <1>2 DEF Held, Placed, Added, h
    <3>5. \A q \in Members(mContainer') : conn[q] = "listed"
      BY <1>0, <3>1, <3>4 DEF Tracked, Leaving
    <3> QED BY <1>0, <3>2, <3>3, <3>5 DEF Known
  <2>3. ~Excused => ~torn' /\ ~Iterating("app")' /\ ~Iterating("loop")'
    BY <1>0 DEF IInv, Intact, Iterating
  <2> QED BY <1>3, <2>1, <2>2, <2>3 DEF Intact, InHand
<1>9. NoneGoesDeaf'
  BY <1>0, <1>3
  DEF LoopKeeps, network, io, IInv, NoneGoesDeaf, Registered, Attended, AtIt, Ended,
      LoopEnded, Blocked
<1> QED BY <1>4, <1>5, <1>6, <1>7, <1>8, <1>9 DEF IInv

LEMMA WaitInterruptedStep == IInv /\ WaitInterrupted => IInv'
<1> SUFFICES ASSUME IInv, WaitInterrupted PROVE IInv'
  OBVIOUS
<1> DEFINE r == Head(routines)
<1>0. /\ TypeOK /\ loop \in LoopState /\ routines # <<>> /\ routines \in Seq(Routine)
      /\ loop.pc = "wait" /\ ~Iterating("loop")
  BY TypeParts DEF IInv, WaitInterrupted, LoopAt
<1>1. /\ r = routines[1] /\ 1 \in 1..Len(routines) /\ r.peer \in Peers
      /\ r.kind \in {"joined", "sent"}
  <2>1. r \in Routine
    BY <1>0, FrontFacts
  <2>2. r = routines[1] /\ 1 \in 1..Len(routines)
    BY <1>0, FrontFacts
  <2> HIDE DEF r
  <2> QED BY <2>1, <2>2 DEF Routine
<1>2. /\ routines' \in Seq(Routine)
      /\ \A i \in 1..Len(routines') :
           i + 1 \in 1..Len(routines) /\ i + 1 # 1 /\ routines'[i] = routines[i + 1]
  BY <1>0, FrontFacts DEF WaitInterrupted
<1>3. /\ loop' \in LoopState /\ loop'.pc = "routine" /\ loop'.handle = r.peer
      /\ loop'.routine = r.kind
  BY <1>0, <1>1 DEF WaitInterrupted, LoopState, LoopPc, Handle
<1> HIDE DEF r
<1>4. UNCHANGED <<LoopKeeps, registry, targets, conn, io, signalled, accepting, replies>>
  BY DEF WaitInterrupted
<1>5. TypeOK'
  BY <1>0, <1>2, <1>3, <1>4 DEF LoopKeeps, TypeOK, LoopState, Routine, registry, network, io
<1>6. Tracked' /\ Placed' /\ InCall' /\ AtHandle' /\ Intact'
  <2>1. Tracked' /\ Placed' /\ InCall'
    <3>1. InCall'
      BY <1>4 DEF LoopKeeps, IInv, InCall
    <3> QED BY <1>0, <1>3, <1>4, <3>1, RegistryFrame DEF Busy
  <2>2. AtHandle' /\ Intact'
    BY <1>0, <1>1, <1>3, <1>4
    DEF LoopKeeps, registry, network, IInv, AtHandle, InHand, Intact, Excused, Iterating
  <2> QED BY <2>1, <2>2
<1>7. Joins'
  <2>1. ASSUME NEW i \in 1..Len(routines'), JoinedAt(i)'
        PROVE  /\ Joining(routines'[i].peer)
               /\ r.kind = "joined" => routines'[i].peer # r.peer
    <3>1. JoinedAt(i + 1) /\ routines[i + 1] = routines'[i]
      BY <1>2, <2>1 DEF JoinedAt
    <3>2. Joining(routines[i + 1].peer)
      BY <1>2, <3>1 DEF IInv, Joins
    <3>3. ASSUME r.kind = "joined", routines[i + 1].peer = r.peer PROVE FALSE
      <4>1. JoinedAt(1)
        BY <1>1, <3>3 DEF JoinedAt
      <4>2. i + 1 = 1
        BY <1>1, <1>2, <3>1, <3>3, <4>1 DEF IInv, Joins
      <4> QED BY <1>2, <4>2
    <3> QED BY <3>1, <3>2, <3>3
  <2>2. ASSUME NEW i \in 1..Len(routines'), NEW j \in 1..Len(routines'),
               JoinedAt(i)', JoinedAt(j)', routines'[i].peer = routines'[j].peer
        PROVE  i = j
    <3>1. JoinedAt(i + 1) /\ JoinedAt(j + 1) /\ routines[i + 1].peer = routines[j + 1].peer
      BY <1>2, <2>2 DEF JoinedAt
    <3>2. i + 1 = j + 1
      BY <1>2, <3>1 DEF IInv, Joins
    <3> QED BY <3>2
  <2>3. r.kind = "joined" => Joining(r.peer)
    BY <1>1 DEF IInv, Joins, JoinedAt
  <2>4. \A i \in 1..Len(routines') : JoinedAt(i)' => Joining(routines'[i].peer)
    BY <2>1
  <2>5. \A i, j \in 1..Len(routines') :
          JoinedAt(i)' /\ JoinedAt(j)' /\ routines'[i].peer = routines'[j].peer => i = j
    BY <2>2
  <2>6. r.kind = "joined" =>
          \A i \in 1..Len(routines') : JoinedAt(i)' => routines'[i].peer # r.peer
    BY <2>1
  <2>7. \A q : Joining(q) <=> Joining(q)'
    BY <1>4 DEF Joining, io
  <2> QED BY <1>3, <2>3, <2>4, <2>5, <2>6, <2>7 DEF Joins
<1>8. Sources'
  <2>1. \A i \in 1..Len(routines') :
          routines'[i].kind = "sent" => routines'[i].peer \in Repliers
    BY <1>2 DEF IInv, Sources
  <2>2. loop'.routine = "sent" => loop'.handle \in Repliers
    BY <1>1, <1>3 DEF IInv, Sources
  <2> QED BY <1>4, <2>1, <2>2 DEF LoopKeeps, network, io, IInv, Sources, Dead
<1>9. NoneGoesDeaf'
  BY <1>0, <1>3, <1>4
  DEF LoopKeeps, registry, network, io, IInv, NoneGoesDeaf, Registered, Attended, AtIt,
      Ended, LoopEnded, Blocked
<1> QED BY <1>5, <1>6, <1>7, <1>8, <1>9 DEF IInv

LEMMA RunJoinedStep == IInv /\ RunJoined => IInv'
<1> SUFFICES ASSUME IInv, RunJoined PROVE IInv'
  OBVIOUS
<1> DEFINE h == loop.handle
<1>0. /\ TypeOK /\ Tracked /\ Placed /\ loop \in LoopState /\ loop.pc = "routine"
      /\ Joining(h) /\ h \in Peers /\ ~Iterating("loop") /\ mContainer \in Seq(Peers)
      /\ \A i \in 1..Len(routines) : JoinedAt(i) => routines[i].peer # h
      /\ removing \in [Thread -> Removal] /\ status = "up"
      /\ mMapping' = mMapping \union {h}
      /\ UNCHANGED <<LoopKeeps, mContainer, removing, torn, targets, conn, io, signalled,
                     accepting, routines, replies>>
  BY TypeParts DEF IInv, RunJoined, LoopAt, Joins, Joining
<1>1. loop' \in LoopState /\ loop'.pc = "adding" /\ loop'.handle = h
  BY <1>0 DEF RunJoined, LoopState, LoopPc
<1> HIDE DEF h
<1>2. Tracked'
  <2> SUFFICES ASSUME ~torn PROVE Tracked'
    BY <1>0 DEF Tracked
  <2>1. \A t \in Thread : Iterating(t)' => Iterator(t)' <= Len(mContainer')
    BY <1>0 DEF Tracked, Iterating, Iterator
  <2>2. \A t \in Thread : removing'[t].step = "erase" => Dead(Victim(t))'
    BY <1>0 DEF Tracked, Dead, Victim, Iterator
  <2>3. \A q \in Peers : /\ Leaving(q) <=> Leaving(q)'
                         /\ Held(q) <=> Held(q)'
                         /\ ~Adding(q) /\ (Adding(q)' <=> q = h)
    BY <1>0, <1>1 DEF Leaving, Iterating, Victim, Iterator, Held, Adding, Members
  <2>4. \A q \in Peers : /\ q \in mMapping' <=> (Held(q)' /\ ~Leaving(q)') \/ Adding(q)'
                         /\ Held(q)' => conn'[q] = "listed" \/ Leaving(q)'
                         /\ conn'[q] = "listed" => Held(q)'
    BY <1>0, <2>3 DEF Tracked
  <2> QED BY <2>1, <2>2, <2>4 DEF Tracked
<1>3. Placed'
  BY <1>0, <1>1 DEF Placed, Distinct, Members, Added, Iterating, Iterator
<1>4. TypeOK'
  BY <1>0, <1>1 DEF LoopKeeps, TypeOK, LoopState, network, io
<1>5. Joins' /\ AtHandle' /\ InCall' /\ Sources'
  BY <1>0, <1>1
  DEF LoopKeeps, network, io, IInv, Joins, Joining, JoinedAt, AtHandle, InHand, InCall,
      Sources, Dead
<1>6. Intact'
  BY <1>0, <1>1 DEF LoopKeeps, network, IInv, Intact, Excused, InHand, Iterating
<1>7. NoneGoesDeaf'
  BY <1>0, <1>1
  DEF LoopKeeps, network, io, IInv, NoneGoesDeaf, Registered, Attended, AtIt, Ended,
      LoopEnded, Blocked, Joining
<1> QED BY <1>2, <1>3, <1>4, <1>5, <1>6, <1>7 DEF IInv

LEMMA AddServerConnectionStep == IInv /\ AddServerConnection => IInv'
<1> SUFFICES ASSUME IInv, AddServerConnection PROVE IInv'
  OBVIOUS
<1> DEFINE h == loop.handle
           n == Len(mContainer)
<1>0. /\ TypeOK /\ Tracked /\ Placed /\ loop \in LoopState /\ loop.pc = "adding"
      /\ Joining(h) /\ h \in Peers /\ ~Iterating("loop") /\ mContainer \in Seq(Peers)
      /\ \A i \in 1..Len(routines) : JoinedAt(i) => routines[i].peer # h
      /\ removing \in [Thread -> Removal] /\ status = "up" /\ n \in Nat /\ Posts(h)
      /\ UNCHANGED <<LoopKeeps, mMapping, removing, torn, targets, signalled, accepting,
                     routines, replies>>
  BY TypeParts DEF IInv, AddServerConnection, LoopAt, Joins, Joining
<1>1. loop' \in LoopState /\ loop'.pc = "array"
  BY <1>0 DEF AddServerConnection, LoopState, LoopPc, Handle
<1>2. h \notin Members(mContainer)
  BY <1>0 DEF Placed, Added, Joining
<1>3. /\ mContainer' \in Seq(Peers) /\ Len(mContainer') = n + 1
      /\ \A i \in 1..n : mContainer'[i] = mContainer[i]
      /\ Members(mContainer') = Members(mContainer) \union {h} /\ Distinct(mContainer')
  BY <1>0, <1>2, AppendFacts, PushedFacts DEF Placed, AddServerConnection
<1>4. /\ conn' \in [Peers -> ConnState] /\ conn'[h] = "listed" /\ conn[h] = "joining"
      /\ \A q \in Peers \ {h} : conn'[q] = conn[q]
  BY <1>0 DEF AddServerConnection, TypeOK, ConnState, Joining
<1> HIDE DEF h, n
<1>5. /\ recv' \in [Peers -> RecvState] /\ recv'[h] = "pending"
      /\ \A q \in Peers \ {h} : recv'[q] = recv[q]
      /\ overlap' \in [Peers -> {"receive", "pending", "sent", "failed"}]
      /\ \A q \in Peers : overlap'[q] = "failed" => overlap[q] = "failed"
      /\ sending' = sending
  BY <1>0, PostsFacts
<1>6. Tracked'
  <2> SUFFICES ASSUME ~torn PROVE Tracked'
    BY <1>0 DEF Tracked
  <2>1. ASSUME NEW t \in Thread, Iterating(t)
        PROVE  /\ Iterator(t) \in 1..n /\ Victim(t)' = Victim(t) /\ Iterator(t)' = Iterator(t)
               /\ Victim(t) \in Peers /\ Victim(t) # h
    <3>1. Iterator(t) \in 1..n
      BY <1>0, <2>1 DEF Tracked, Placed, Removal, Iterator, n
    <3>2. Victim(t) \in Members(mContainer)
      BY <3>1 DEF Victim, Members, n
    <3> QED BY <1>0, <1>2, <1>3, <3>1, <3>2 DEF Victim, Iterator, Placed, Added
  <2>2. \A t \in Thread : Iterating(t)' => Iterator(t)' <= Len(mContainer')
    BY <1>0, <1>3, <2>1 DEF Iterating
  <2>3. \A t \in Thread : removing'[t].step = "erase" => Dead(Victim(t))'
    BY <1>0, <1>4, <2>1 DEF Tracked, Iterating, Dead
  <2>4. \A q \in Peers : /\ Leaving(q) <=> Leaving(q)'
                         /\ Leaving(q) => q # h
    BY <1>0, <2>1 DEF Leaving, Iterating
  <2>5. \A q \in Peers : /\ Held(q)' <=> Held(q) \/ q = h
                         /\ Adding(q) <=> q = h
                         /\ ~Adding(q)'
    BY <1>0, <1>1, <1>3 DEF Held, Adding, h
  <2>6. \A q \in Peers : /\ q \in mMapping' <=> (Held(q)' /\ ~Leaving(q)') \/ Adding(q)'
                         /\ Held(q)' => conn'[q] = "listed" \/ Leaving(q)'
                         /\ conn'[q] = "listed" => Held(q)'
    BY <1>0, <1>4, <2>4, <2>5 DEF Tracked
  <2> QED BY <2>2, <2>3, <2>6 DEF Tracked
<1>7. Placed'
  <2>1. \A q \in Members(mContainer') : Added(q)'
    BY <1>0, <1>3, <1>4 DEF Placed, Added
  <2> QED BY <1>0, <1>1, <1>3, <2>1 DEF Placed, Iterating, Iterator
<1>8. TypeOK'
  BY <1>0, <1>1, <1>3, <1>4, <1>5
  DEF LoopKeeps, TypeOK, LoopState, network, ConnState, RecvState
<1>9. Joins'
  BY <1>0, <1>1, <1>4, <1>5 DEF IInv, Joins, JoinedAt, Joining
<1>10. AtHandle' /\ InCall' /\ Intact'
  BY <1>0, <1>1
  DEF LoopKeeps, network, IInv, AtHandle, InHand, InCall, Intact, Excused, Iterating
<1>11. Sources'
  BY <1>0, <1>1, <1>4, <1>5 DEF LoopKeeps, network, IInv, Sources, Dead
<1>12. NoneGoesDeaf'
  BY <1>0, <1>1, <1>4, <1>5
  DEF LoopKeeps, network, IInv, NoneGoesDeaf, Registered, Attended, AtIt, Ended,
      LoopEnded, Blocked
<1> QED BY <1>6, <1>7, <1>8, <1>9, <1>10, <1>11, <1>12 DEF IInv

LEMMA RunSentStep == IInv /\ RunSent => IInv'
<1> SUFFICES ASSUME IInv, RunSent PROVE IInv'
  OBVIOUS
<1>0. /\ TypeOK /\ loop \in LoopState /\ loop.pc = "routine" /\ status = "up"
      /\ ~Iterating("loop") /\ loop.handle \in Repliers
      /\ UNCHANGED <<LoopKeeps, registry, conn, io, accepting, routines, replies>>
  BY TypeParts DEF IInv, RunSent, LoopAt, Sources
<1>1. loop' \in LoopState /\ loop'.pc = "array"
  BY <1>0 DEF RunSent, LoopState, LoopPc, Handle
<1>2. /\ targets' \in Nat /\ signalled' \in SUBSET signalled
      /\ \A h \in signalled : h # loop.handle => h \in signalled'
  BY <1>0 DEF RunSent, TypeOK, Popped, Cleared
<1>3. TypeOK'
  BY <1>0, <1>1, <1>2 DEF LoopKeeps, TypeOK, LoopState, registry, network, io
<1>4. Tracked' /\ Placed'
  BY <1>0, <1>1, RegistryFrame DEF Busy
<1>5. Joins' /\ AtHandle' /\ InCall' /\ Sources'
  BY <1>0, <1>1
  DEF LoopKeeps, network, io, IInv, Joins, Joining, JoinedAt, AtHandle, InHand, InCall,
      Sources, Dead
<1>6. Intact'
  BY <1>0, <1>1 DEF LoopKeeps, registry, network, IInv, Intact, Excused, InHand, Iterating
<1>7. NoneGoesDeaf'
  BY <1>0, <1>1, <1>2
  DEF LoopKeeps, registry, network, io, IInv, NoneGoesDeaf, Registered, Attended, AtIt,
      Ended, LoopEnded, Blocked
<1> QED BY <1>3, <1>4, <1>5, <1>6, <1>7 DEF IInv

LEMMA ResetHandleStep == IInv /\ ResetHandle => IInv'
<1> SUFFICES ASSUME IInv, ResetHandle PROVE IInv'
  OBVIOUS
<1>0. /\ TypeOK /\ loop \in LoopState /\ loop.pc = "reset" /\ status = "up"
      /\ ~Iterating("loop")
      /\ UNCHANGED <<LoopKeeps, registry, targets, conn, io, accepting, routines, replies>>
  BY TypeParts DEF IInv, ResetHandle, LoopAt
<1>1. /\ loop' \in LoopState /\ loop'.handle = loop.handle
      /\ loop'.pc = IF loop.handle = Listener THEN "accept" ELSE "find"
  BY <1>0 DEF ResetHandle, LoopGoes, LoopState, LoopPc
<1>2. signalled' = signalled \ {loop.handle}
  BY DEF ResetHandle, Cleared
<1>3. TypeOK'
  BY <1>0, <1>1, <1>2 DEF LoopKeeps, TypeOK, LoopState, registry, network, io
<1>4. Tracked' /\ Placed'
  BY <1>0, <1>1, RegistryFrame DEF Busy
<1>5. loop.handle # Listener => loop.handle \in Peers
  BY <1>0 DEF LoopState, Handle
<1>6. Joins' /\ AtHandle' /\ InCall' /\ Sources'
  BY <1>0, <1>1, <1>5
  DEF LoopKeeps, network, io, IInv, Joins, Joining, JoinedAt, AtHandle, InHand, InCall,
      Sources, Dead
<1>7. Intact'
  BY <1>0, <1>1
  DEF LoopKeeps, registry, network, IInv, Intact, Excused, Known, InHand, Iterating
<1>8. NoneGoesDeaf'
  BY <1>0, <1>1, <1>2, WinAssumption
  DEF LoopKeeps, registry, network, io, IInv, NoneGoesDeaf, Registered, Attended, AtIt,
      Ended, LoopEnded, Blocked
<1> QED BY <1>3, <1>4, <1>6, <1>7, <1>8 DEF IInv

LEMMA AddNewStep == IInv /\ (AddNewConnection \/ AddNewFails) => IInv'
<1> SUFFICES ASSUME IInv, AddNewConnection \/ AddNewFails PROVE IInv'
  OBVIOUS
<1>0. /\ TypeOK /\ loop \in LoopState /\ loop.pc = "accept" /\ status = "up"
      /\ ~Iterating("loop")
      /\ UNCHANGED <<LoopKeeps, registry, targets, signalled, routines, replies>>
  BY TypeParts DEF IInv, AddNewConnection, AddNewFails, LoopAt
<1>1. PICK p \in Peers :
        /\ conn[p] = "arrived" /\ conn' = [conn EXCEPT ![p] = "joining"]
        /\ \/ AddNewConnection /\ Posts(p)
           \/ AddNewFails /\ link[p] = "reset" /\ UNCHANGED io
  BY DEF AddNewConnection, AddNewFails
<1>2. /\ conn' \in [Peers -> ConnState] /\ conn'[p] = "joining"
      /\ \A q \in Peers \ {p} : conn'[q] = conn[q]
  BY <1>0, <1>1 DEF TypeOK, ConnState
<1>3. /\ recv' \in [Peers -> RecvState]
      /\ \A q \in Peers \ {p} : recv'[q] = recv[q]
      /\ recv'[p] = "failed" => recv[p] = "failed"
      /\ overlap' \in [Peers -> {"receive", "pending", "sent", "failed"}]
      /\ \A q \in Peers : overlap'[q] = "failed" => overlap[q] = "failed"
      /\ sending' = sending
  BY <1>0, <1>1, PostsFacts DEF TypeOK, io, RecvState
<1>4. /\ loop' \in LoopState /\ accepting' \in BOOLEAN
      /\ loop'.pc = "top" \/ (loop'.pc = "threw" /\ Excused')
  <2>1. CASE AddNewConnection
    BY <1>0, <2>1, GoesFacts DEF AddNewConnection, PrepareForServerConnection, LoopPc
  <2>2. CASE AddNewFails
    BY <1>0, <1>1, <2>2, GoesFacts
    DEF AddNewFails, LoopPc, TypeOK, Excused, LoopKeeps, network
  <2> QED BY <2>1, <2>2
<1>5. TypeOK'
  BY <1>0, <1>2, <1>3, <1>4
  DEF LoopKeeps, TypeOK, LoopState, ConnState, RecvState, registry, network
<1>6. Tracked' /\ Placed'
  BY <1>0, <1>1, <1>2, <1>4, RegistryFrame DEF Busy
<1>7. Joins'
  BY <1>0, <1>1, <1>2, <1>3, <1>4 DEF IInv, Joins, Joining, JoinedAt
<1>8. AtHandle' /\ InCall' /\ Sources'
  BY <1>0, <1>1, <1>2, <1>3, <1>4
  DEF LoopKeeps, network, IInv, AtHandle, InHand, InCall, Sources, Dead
<1>9. Intact'
  BY <1>0, <1>4 DEF LoopKeeps, registry, network, IInv, Intact, Excused, InHand, Iterating
<1>10. NoneGoesDeaf'
  BY <1>0, <1>1, <1>2, <1>3, <1>4
  DEF LoopKeeps, registry, network, IInv, NoneGoesDeaf, Registered, Attended, AtIt, Ended,
      LoopEnded, Blocked
<1> QED BY <1>5, <1>6, <1>7, <1>8, <1>9, <1>10 DEF IInv

LEMMA RearmStep == IInv /\ Rearm => IInv'
<1> SUFFICES ASSUME IInv, Rearm PROVE IInv'
  OBVIOUS
<1> DEFINE p == loop.handle
<1>0. /\ TypeOK /\ loop \in LoopState /\ loop.pc = "rearm" /\ status = "up"
      /\ ~Iterating("loop") /\ p \in Peers /\ conn[p] = "listed"
      /\ UNCHANGED <<LoopKeeps, registry, targets, conn, accepting, routines, replies>>
  BY TypeParts DEF IInv, Rearm, LoopAt, AtHandle, Added, InHand, Dead
<1>1. signalled' = signalled \ {p}
  BY DEF Rearm, Cleared
<1>2. /\ loop' \in LoopState
      /\ recv' \in [Peers -> RecvState]
      /\ \A q \in Peers \ {p} : recv'[q] = recv[q]
      /\ \/ loop'.pc = "threw" /\ link[p] = "reset" /\ recv' = recv
         \/ loop'.pc = "top" /\ recv'[p] = "pending"
      /\ overlap' \in [Peers -> {"receive", "pending", "sent", "failed"}]
      /\ \A q \in Peers : overlap'[q] = "failed" => overlap[q] = "failed"
      /\ sending' = sending
  <2>1. CASE link[p] = "reset"
    BY <1>0, <2>1, GoesFacts DEF Rearm, LoopPc, TypeOK, io, RecvState
  <2>2. CASE link[p] # "reset"
    BY <1>0, <2>2, GoesFacts, PostsFacts DEF Rearm, LoopPc
  <2> QED BY <2>1, <2>2
<1> HIDE DEF p
<1>3. TypeOK'
  BY <1>0, <1>1, <1>2 DEF LoopKeeps, TypeOK, LoopState, RecvState, registry, network
<1>4. Tracked' /\ Placed'
  BY <1>0, <1>2, RegistryFrame DEF Busy
<1>5. Joins' /\ InCall' /\ Sources'
  BY <1>0, <1>2 DEF LoopKeeps, network, IInv, Joins, Joining, JoinedAt, InCall, Sources, Dead
<1>6. AtHandle' /\ Intact'
  BY <1>0, <1>2
  DEF LoopKeeps, registry, network, IInv, AtHandle, InHand, Intact, Excused, Iterating
<1>7. NoneGoesDeaf'
  BY <1>0, <1>1, <1>2
  DEF LoopKeeps, registry, network, IInv, NoneGoesDeaf, Registered, Attended, AtIt, Ended,
      LoopEnded, Blocked, p
<1> QED BY <1>3, <1>4, <1>5, <1>6, <1>7 DEF IInv

LEMMA ReplyStep == IInv /\ Reply => IInv'
<1> SUFFICES ASSUME IInv, Reply PROVE IInv'
  OBVIOUS
<1> DEFINE p == loop.handle
<1>0. /\ TypeOK /\ Tracked /\ loop \in LoopState /\ loop.pc = "called"
      /\ status = "up" /\ p \in Repliers /\ p \in Peers /\ ~Iterating("loop")
      /\ conn[p] \in {"listed", "deleted"} /\ removing \in [Thread -> Removal]
      /\ replies' \in 0..MaxReplies
      /\ UNCHANGED <<LoopKeeps, conn, signalled, accepting, routines>>
  BY TypeParts, WinAssumption DEF IInv, Reply, LoopAt, AtHandle, Added, InHand, TypeOK
<1>1. /\ loop' \in LoopState /\ loop'.handle = p
      /\ \/ loop'.pc = "rearm" /\ targets' = targets + 2 /\ p \in mMapping
         \/ loop'.pc = "threw" /\ targets' = targets /\ p \notin mMapping
  BY <1>0, GoesFacts DEF Reply, LoopPc
<1>2. \/ /\ p \in mMapping /\ SendFails(p) /\ BeginRemoval("loop", p) /\ UNCHANGED io
      \/ Starts("loop", p) /\ UNCHANGED registry
      \/ p \notin mMapping /\ UNCHANGED <<registry, io>>
  BY <1>0 DEF Reply, BeginRemovalOf
<1> HIDE DEF p
<1>3. /\ mContainer' \in Seq(Peers) /\ mMapping' \in SUBSET mMapping
      /\ removing' \in [Thread -> Removal] /\ torn' = torn
      /\ (Iterating("app") <=> Iterating("app")')
      /\ Tracked' /\ Placed'
  <2>1. CASE BeginRemoval("loop", p)
    <3>1. "loop" \in Thread /\ "app" \in Thread /\ "app" # "loop"
      BY DEF Thread
    <3>2. CASE loop'.pc = "rearm"
      <4>1. loop.pc \notin Busy
        BY <1>0 DEF Busy
      <4>2. /\ mMapping' \in SUBSET mMapping /\ removing' \in [Thread -> Removal]
            /\ UNCHANGED <<mContainer, torn>> /\ Tracked' /\ Placed'
            /\ \A u \in Thread : u # "loop" => (Iterating(u) <=> Iterating(u)')
        BY <1>0, <2>1, <3>1, <3>2, <4>1, BeginFacts
      <4>3. mContainer \in Seq(Peers)
        BY <1>0, TypeParts
      <4> QED BY <3>1, <4>2, <4>3
    <3>3. CASE loop'.pc # "rearm"
      <4>1. UNCHANGED registry
        BY <1>1, <1>2, <3>3 DEF Starts
      <4>2. Tracked' /\ Placed'
        BY <1>0, <1>1, <4>1, RegistryFrame DEF Busy
      <4> QED BY <1>0, <4>1, <4>2, TypeParts DEF registry, Iterating
    <3> QED BY <3>2, <3>3
  <2>2. CASE UNCHANGED registry
    <3>1. Tracked' /\ Placed'
      BY <1>0, <1>1, <2>2, RegistryFrame DEF Busy
    <3> QED BY <1>0, <2>2, <3>1, TypeParts DEF registry, Iterating
  <2> QED BY <1>2, <2>1, <2>2
<1>4. /\ sending' \in [Peers -> Seq(Thread)]
      /\ \A q \in Peers \ Repliers : \A i \in 1..Len(sending'[q]) : sending'[q][i] = "app"
      /\ overlap' \in [Peers -> {"receive", "pending", "sent", "failed"}]
      /\ \A q \in Peers : overlap'[q] = "failed" => overlap[q] = "failed"
      /\ recv' = recv
  <2>1. CASE UNCHANGED io
    BY <1>0, <2>1 DEF io, TypeOK, IInv, Sources
  <2>2. CASE Starts("loop", p)
    <3>1. /\ sending' \in [Peers -> Seq(Thread)]
          /\ \A q \in Peers : \A i \in 1..Len(sending'[q]) :
               \/ i \in 1..Len(sending[q]) /\ sending'[q][i] = sending[q][i]
               \/ q = p /\ sending'[q][i] = "loop"
          /\ overlap' \in [Peers -> {"receive", "pending", "sent", "failed"}]
          /\ \A q \in Peers : overlap'[q] = "failed" => overlap[q] = "failed"
          /\ recv' = recv
      BY <1>0, <2>2, StartsFacts DEF Thread
    <3>2. ASSUME NEW q \in Peers \ Repliers, NEW i \in 1..Len(sending'[q])
          PROVE  sending'[q][i] = "app"
      <4>1. i \in 1..Len(sending[q]) /\ sending'[q][i] = sending[q][i]
        BY <1>0, <3>1
      <4> QED BY <4>1 DEF IInv, Sources
    <3> QED BY <3>1, <3>2
  <2> QED BY <1>2, <2>1, <2>2
<1>5. TypeOK'
  <2>1. targets' \in Nat
    BY <1>0, <1>1 DEF TypeOK
  <2>2. mMapping' \in SUBSET Peers
    BY <1>0, <1>3 DEF TypeOK
  <2> QED BY <1>0, <1>1, <1>3, <1>4, <2>1, <2>2
    DEF LoopKeeps, TypeOK, LoopState, Removal, network
<1>6. InCall' /\ AtHandle'
  BY <1>0, <1>1 DEF LoopKeeps, IInv, InCall, AtHandle, Added, InHand
<1>7. Joins'
  <2>1. UNCHANGED <<conn, recv, routines>> /\ loop'.pc \in {"rearm", "threw"}
    BY <1>0, <1>1, <1>4
  <2> QED BY <2>1 DEF IInv, Joins, Joining, JoinedAt
<1>8. Intact'
  <2>1. Excused => Excused'
    BY <1>0 DEF LoopKeeps, network, Excused
  <2>2. ASSUME ~Excused
        PROVE  /\ loop'.pc = "rearm" /\ conn[p] = "listed" /\ ~Iterating("loop")'
               /\ ~torn' /\ ~Iterating("app")'
    <3>1. conn[p] = "listed" /\ link[p] # "reset" /\ ~torn /\ ~Iterating("app")
      BY <1>0, <2>2, WinAssumption DEF IInv, Intact, Excused, Known, InHand, p
    <3>2. ~Leaving(p)
      BY <1>0, <3>1 DEF Leaving, Thread
    <3>3. p \in mMapping
      BY <1>0, <3>1, <3>2 DEF Tracked
    <3>4. ~SendFails(p)
      BY <3>1 DEF SendFails, Dead
    <3>5. UNCHANGED registry
      BY <1>2, <3>3, <3>4
    <3> QED BY <1>0, <1>1, <1>3, <3>1, <3>3, <3>5 DEF registry, Iterating
  <2>3. loop'.pc = "rearm" /\ conn[p] = "listed" => Known(loop.handle)'
    BY <1>0, <1>1 DEF Known
  <2> QED BY <1>1, <2>1, <2>2, <2>3 DEF Intact, InHand
<1>9. Sources'
  BY <1>0, <1>1, <1>4 DEF LoopKeeps, network, IInv, Sources, Dead
<1>10. NoneGoesDeaf'
  BY <1>0, <1>1, <1>3, <1>4
  DEF LoopKeeps, network, IInv, NoneGoesDeaf, Registered, Attended, AtIt, Ended,
      LoopEnded, Blocked, p
<1> QED BY <1>3, <1>5, <1>6, <1>7, <1>8, <1>9, <1>10 DEF IInv

LEMMA RemoveEndedStep == IInv /\ RemoveEnded => IInv'
<1> SUFFICES ASSUME IInv, RemoveEnded PROVE IInv'
  OBVIOUS
<1> DEFINE p == loop.handle
<1>0. /\ TypeOK /\ Tracked /\ loop \in LoopState /\ loop.pc = "remove"
      /\ status = "up" /\ p \in Peers /\ BeginRemoval("loop", p) /\ ~Iterating("loop")
      /\ mContainer \in Seq(Peers)
      /\ UNCHANGED <<LoopKeeps, targets, conn, signalled, io, accepting, routines, replies>>
  BY TypeParts DEF IInv, RemoveEnded, LoopAt, AtHandle, Added, InHand
<1>1. loop' \in LoopState /\ loop'.pc = "top"
  BY <1>0, GoesFacts DEF RemoveEnded, LoopPc
<1> HIDE DEF p
<1>2. /\ mMapping' \in SUBSET mMapping /\ removing' \in [Thread -> Removal]
      /\ UNCHANGED <<mContainer, torn>>
      /\ (Iterating("app") <=> Iterating("app")')
      /\ p \in mMapping' => p \notin Members(mContainer)
      /\ Tracked' /\ Placed'
  BY <1>0, <1>1, BeginFacts DEF Thread, Busy
<1>3. TypeOK'
  BY <1>0, <1>1, <1>2 DEF LoopKeeps, TypeOK, LoopState, Removal, network, io
<1>4. Joins' /\ InCall' /\ AtHandle' /\ Sources'
  BY <1>0, <1>1
  DEF LoopKeeps, network, io, IInv, Joins, Joining, JoinedAt, InCall, AtHandle, InHand,
      Sources, Dead
<1>5. Intact'
  BY <1>0, <1>1, <1>2 DEF LoopKeeps, network, IInv, Intact, Excused, InHand
<1>6. NoneGoesDeaf'
  <2>1. ~torn /\ conn[p] = "listed" => p \in Members(mContainer)
    BY <1>0 DEF Tracked, Held
  <2> QED BY <1>0, <1>1, <1>2, <2>1
    DEF LoopKeeps, network, io, IInv, NoneGoesDeaf, Registered, Attended, AtIt, Ended,
        LoopEnded, Blocked, p
<1> QED BY <1>2, <1>3, <1>4, <1>5, <1>6 DEF IInv

-----------------------------------------------------------------------------
(* The rest of a removal, of either thread *)

LEMMA DeleteStep == ASSUME IInv, NEW t \in Thread, Delete(t) PROVE IInv'
<1>0. /\ TypeOK /\ status = "up"
      /\ UNCHANGED <<status, mHasBeenShutdown, mContainer, mMapping, torn, targets, io,
                     accepting, network, routines, loop, app, calls, replies>>
  BY DEF IInv, Delete
<1>1. PICK v \in Members(mContainer) :
        /\ v \in Peers /\ conn[v] = "listed" /\ conn'[v] = "deleted"
        /\ conn' \in [Peers -> ConnState] /\ \A q \in Peers \ {v} : conn'[q] = conn[q]
        /\ signalled' = signalled \ {v}
        /\ removing' \in [Thread -> Removal]
        /\ Iterating(t) /\ \A u \in Thread : Iterating(u) <=> Iterating(u)'
        /\ Tracked' /\ Placed'
  BY DeleteFacts
<1>2. TypeOK'
  BY <1>0, <1>1 DEF TypeOK, ConnState, Removal, io, network
<1>3. Joins' /\ InCall' /\ AtHandle' /\ Sources'
  <2>1. Joins' /\ InCall'
    BY <1>0, <1>1 DEF io, IInv, Joins, Joining, JoinedAt, InCall
  <2>2. AtHandle' /\ Sources'
    BY <1>0, <1>1 DEF io, network, IInv, AtHandle, Added, InHand, Sources, Dead
  <2> QED BY <2>1, <2>2
<1>4. Intact'
  <2>1. Excused <=> Excused'
    BY <1>0 DEF network, Excused
  <2>2. ~Excused => t = "loop" /\ loop.pc = "top"
    BY <1>1 DEF IInv, Intact, Thread
  <2> QED BY <1>0, <1>1, <2>1, <2>2 DEF IInv, Intact, InHand, Thread
<1>5. NoneGoesDeaf'
  BY <1>0, <1>1
  DEF network, io, IInv, NoneGoesDeaf, Registered, Attended, AtIt, Ended, LoopEnded, Blocked
<1> QED BY <1>1, <1>2, <1>3, <1>4, <1>5 DEF IInv

LEMMA EraseStep == ASSUME IInv, NEW t \in Thread, Erase(t) PROVE IInv'
<1>0. /\ TypeOK /\ torn' = (torn \/ Iterating(OtherThan(t)))
      /\ UNCHANGED <<status, mHasBeenShutdown, mMapping, targets, conn, signalled, io,
                     accepting, network, routines, loop, app, calls, replies>>
  BY DEF IInv, Erase
<1>1. /\ mContainer' \in Seq(Peers) /\ removing' \in [Thread -> Removal]
      /\ Iterating(t) /\ ~Iterating(t)'
      /\ \A u \in Thread : u # t => (Iterating(u) <=> Iterating(u)')
      /\ torn' \in BOOLEAN
      /\ torn' => torn \/ Iterating("app")
      /\ Tracked' /\ Placed'
  BY EraseFacts
<1>2. TypeOK'
  BY <1>0, <1>1 DEF TypeOK, Removal, io, network
<1>3. Joins' /\ InCall' /\ AtHandle' /\ Sources'
  <2>1. Joins' /\ InCall'
    BY <1>0 DEF io, IInv, Joins, Joining, JoinedAt, InCall
  <2>2. AtHandle' /\ Sources'
    BY <1>0 DEF io, network, IInv, AtHandle, Added, InHand, Sources, Dead
  <2> QED BY <2>1, <2>2
<1>4. Intact'
  <2>1. Excused <=> Excused'
    BY <1>0 DEF network, Excused
  <2>2. ~Excused => /\ ~torn' /\ ~Iterating("app")'
                    /\ Iterating("loop")' => loop.pc = "top"
    BY <1>1 DEF IInv, Intact, Thread
  <2>3. \A h : Known(h) <=> Known(h)'
    BY <1>0 DEF Known
  <2>4. TooMany <=> TooMany'
    BY <1>0 DEF TooMany
  <2> QED BY <1>0, <2>1, <2>2, <2>3, <2>4 DEF IInv, Intact, InHand
<1>5. NoneGoesDeaf'
  BY <1>0
  DEF network, io, IInv, NoneGoesDeaf, Registered, Attended, AtIt, Ended, LoopEnded, Blocked
<1> QED BY <1>1, <1>2, <1>3, <1>4, <1>5 DEF IInv

LEMMA LoopPreserves == IInv /\ LoopStep => IInv'
<1> SUFFICES ASSUME IInv, LoopStep PROVE IInv'
  OBVIOUS
<1>1. CASE \/ LoopTop \/ ShutdownSeen \/ WaitEnter \/ WaitReturns \/ AfterWait
           \/ FindConnection \/ ReceiveResult \/ NoReply \/ RearmNot
  <2>1. LoopOnly
    BY <1>1 DEF LoopTop, ShutdownSeen, WaitEnter, WaitReturns, AfterWait,
                FindConnection, ReceiveResult, NoReply, RearmNot
  <2> QED BY <1>1, <2>1, LoopOnlySteps
<1>2. CASE Delete("loop") \/ Erase("loop")
  BY <1>2, DeleteStep, EraseStep DEF Thread
<1> QED
  BY <1>1, <1>2, GetHandleArrayStep, PushBackStep, WaitInterruptedStep, RunJoinedStep,
     AddServerConnectionStep, RunSentStep, ResetHandleStep, AddNewStep, RearmStep,
     ReplyStep, RemoveEndedStep
  DEF LoopStep

-----------------------------------------------------------------------------
(* The other thread *)

\* Calls that touch neither a connection nor what has been posted.
LEMMA CallKeeps ==
  ASSUME IInv, app' \in AppState, InCall', calls' \in 0..MaxCalls, targets' \in Nat,
         mHasBeenShutdown' \in BOOLEAN, mHasBeenShutdown => mHasBeenShutdown',
         signalled' \in SUBSET Handle, signalled \subseteq signalled',
         UNCHANGED <<AppOnly, registry, conn>>
  PROVE  IInv'
<1>0. UNCHANGED <<status, mContainer, mMapping, removing, torn, recv, sending, overlap,
                  accepting, link, inbox, routines, loop, replies, conn>>
  BY DEF AppOnly, AppKeeps, registry, network
<1>1. TypeOK'
  BY <1>0 DEF IInv, TypeOK, AppState
<1>2. Tracked' /\ Placed'
  BY <1>0, RegistryFrame
<1>3. Joins' /\ AtHandle' /\ Sources'
  BY <1>0 DEF IInv, Joins, Joining, JoinedAt, AtHandle, Added, InHand, Sources, Dead
<1>4. Intact'
  BY <1>0 DEF IInv, Intact, TooMany, Excused, Known, InHand, Iterating
<1>5. NoneGoesDeaf'
  BY <1>0
  DEF IInv, NoneGoesDeaf, Registered, Attended, AtIt, Ended, LoopEnded, Blocked
<1> QED BY <1>1, <1>2, <1>3, <1>4, <1>5 DEF IInv

\* A send that is started.
LEMMA CallStarts ==
  ASSUME IInv, app' \in AppState, InCall', NEW p \in Peers, Starts("app", p),
         UNCHANGED <<AppKeeps, mHasBeenShutdown, registry, targets, conn, signalled, calls>>
  PROVE  IInv'
<1>0. UNCHANGED <<status, mContainer, mMapping, removing, torn, recv,
                  accepting, link, inbox, routines, loop, replies, conn>>
  BY DEF AppKeeps, registry, network
<1>1. /\ sending' \in [Peers -> Seq(Thread)]
      /\ \A q \in Peers : \A i \in 1..Len(sending'[q]) :
           \/ i \in 1..Len(sending[q]) /\ sending'[q][i] = sending[q][i]
           \/ q = p /\ sending'[q][i] = "app"
      /\ overlap' \in [Peers -> {"receive", "pending", "sent", "failed"}]
      /\ \A q \in Peers : overlap'[q] = "failed" => overlap[q] = "failed"
  BY StartsFacts DEF IInv, Thread
<1>2. TypeOK'
  BY <1>0, <1>1 DEF IInv, TypeOK, AppState
<1>3. Tracked' /\ Placed'
  BY <1>0, RegistryFrame
<1>4. Joins' /\ AtHandle'
  BY <1>0 DEF IInv, Joins, Joining, JoinedAt, AtHandle, Added, InHand
<1>5. Sources'
  <2>1. ASSUME NEW q \in Peers \ Repliers, NEW i \in 1..Len(sending'[q])
        PROVE  sending'[q][i] = "app"
    BY <1>1 DEF IInv, Sources
  <2> QED BY <1>0, <1>1, <2>1 DEF IInv, Sources, Dead
<1>6. Intact'
  BY <1>0 DEF IInv, Intact, TooMany, Excused, Known, InHand, Iterating
<1>7. NoneGoesDeaf'
  BY <1>0
  DEF IInv, NoneGoesDeaf, Registered, Attended, AtIt, Ended, LoopEnded, Blocked
<1> QED BY <1>2, <1>3, <1>4, <1>5, <1>6, <1>7 DEF IInv

\* A removal by the other thread, after a reset or in a shutdown.
LEMMA CallRemoves ==
  ASSUME IInv, NEW p \in Peers, ~Iterating("app"), BeginRemoval("app", p), Excused,
         app' \in AppState, InCall',
         UNCHANGED <<AppKeeps, mHasBeenShutdown, targets, conn, signalled, sending, overlap,
                     calls>>
  PROVE  IInv'
<1>0. UNCHANGED <<status, recv, sending, overlap, accepting, link, inbox, routines, loop,
                  replies, conn>>
  BY DEF AppKeeps, network
<1>1. /\ mMapping' \in SUBSET mMapping /\ removing' \in [Thread -> Removal]
      /\ UNCHANGED <<mContainer, torn>>
      /\ Tracked' /\ Placed'
  BY <1>0, BeginFacts DEF Thread
<1>2. TypeOK'
  BY <1>0, <1>1 DEF IInv, TypeOK, AppState, Removal
<1>3. Joins' /\ AtHandle' /\ Sources'
  BY <1>0 DEF IInv, Joins, Joining, JoinedAt, AtHandle, Added, InHand, Sources, Dead
<1>4. Intact'
  BY <1>0 DEF Intact, Excused
<1>5. NoneGoesDeaf'
  BY <1>0, <1>1
  DEF IInv, NoneGoesDeaf, Registered, Attended, AtIt, Ended, LoopEnded, Blocked
<1> QED BY <1>1, <1>2, <1>3, <1>4, <1>5 DEF IInv

LEMMA BeginsPreserves ==
  ASSUME IInv, NEW todo \in Seq(Peers), todo # <<>>, NEW named \in BOOLEAN,
         Begins(todo, named)
  PROVE  IInv'
<1>1. /\ app' \in AppState /\ app'.pc = "push" /\ app'.todo = todo
      /\ calls' \in 0..MaxCalls
  BY WinAssumption DEF Begins, AppState, AppPc, IInv, TypeOK
<1> QED BY <1>1, CallKeeps DEF Begins, InCall, IInv, TypeOK

LEMMA AppPreserves == IInv /\ (AppStep \/ Send \/ Broadcast \/ Shutdown) => IInv'
<1> SUFFICES ASSUME IInv, AppStep \/ Send \/ Broadcast \/ Shutdown PROVE IInv'
  OBVIOUS
<1> USE DEF AppPc
<1>0. /\ TypeOK /\ app \in AppState /\ InCall /\ calls \in 0..MaxCalls /\ targets \in Nat
      /\ mContainer \in Seq(Peers) /\ signalled \in SUBSET Handle
      /\ mHasBeenShutdown \in BOOLEAN
  BY TypeParts DEF IInv, TypeOK
<1>1. ASSUME app.todo # <<>>
      PROVE  Head(app.todo) \in Peers /\ Tail(app.todo) \in Seq(Peers)
  BY <1>0, <1>1, FrontFacts DEF AppState
<1>2. CASE Send
  <2>1. PICK p \in mMapping : Begins(<<p>>, TRUE)
    BY <1>2 DEF Send
  <2>2. p \in Peers /\ <<p>> \in Seq(Peers) /\ <<p>> # <<>>
    BY <1>0 DEF TypeOK
  <2> QED BY <2>1, <2>2, BeginsPreserves
<1>3. CASE Broadcast
  BY <1>0, <1>3, BeginsPreserves DEF Broadcast
<1>4. CASE PushTarget
  <2>1. app' \in AppState /\ app'.pc = "send" /\ app'.todo = app.todo
    BY <1>0, <1>4 DEF PushTarget, AppState
  <2> QED BY <1>0, <1>4, <2>1, CallKeeps DEF PushTarget, AppAt, InCall, Pushed
<1>5. CASE PushAgain
  <2>1. app' \in AppState /\ app'.pc = "idle"
    BY <1>0, <1>5 DEF PushAgain, AppState
  <2> QED BY <1>0, <1>5, <2>1, CallKeeps DEF PushAgain, InCall, Pushed
<1>6. CASE Wake
  <2>1. app' \in AppState /\ app'.pc = "idle"
    BY <1>0, <1>6 DEF Wake, AppState
  <2>2. signalled' = signalled \union {Listener} /\ Listener \in Handle
    BY <1>6 DEF Wake, Woken, Handle
  <2> QED BY <1>0, <1>6, <2>1, <2>2, CallKeeps DEF Wake, InCall
<1>7. CASE Shutdown
  <2>1. /\ app' \in AppState /\ app'.todo = mContainer
        /\ app'.pc = IF mContainer = <<>> THEN "wake" ELSE "close"
    BY <1>0, <1>7 DEF Shutdown, Closing, AppState
  <2>2. InCall' /\ mHasBeenShutdown'
    BY <1>7, <2>1 DEF Shutdown, InCall
  <2> QED BY <1>0, <1>7, <2>1, <2>2, CallKeeps DEF Shutdown
<1>8. CASE SendTo
  <2> DEFINE p == Head(app.todo)
  <2>1. app.todo # <<>> /\ app.pc = "send" /\ ~Iterating("app")
    BY <1>0, <1>8 DEF SendTo, AppAt, InCall
  <2>2. /\ app' \in AppState /\ app'.pc \in {"push", "again", "idle"}
        /\ app'.todo = Tail(app.todo)
        /\ app'.pc = "push" => Tail(app.todo) # <<>>
    BY <1>0, <1>1, <1>8, <2>1 DEF SendTo, AppState
  <2>3. InCall' /\ p \in Peers
    BY <1>1, <2>1, <2>2 DEF InCall
  <2>4. UNCHANGED <<AppKeeps, mHasBeenShutdown, targets, conn, signalled, calls>>
    BY <1>8 DEF SendTo
  <2>5. \/ SendFails(p) /\ BeginRemovalOf("app", p) /\ UNCHANGED io
        \/ Starts("app", p) /\ UNCHANGED registry
    BY <1>8 DEF SendTo
  <2> HIDE DEF p
  <2>6. CASE Starts("app", p) /\ UNCHANGED registry
    BY <2>2, <2>3, <2>4, <2>6, CallStarts
  <2>7. CASE UNCHANGED <<registry, io>>
    BY <1>0, <2>2, <2>3, <2>4, <2>7, CallKeeps DEF AppOnly, io
  <2>8. CASE SendFails(p) /\ p \in mMapping /\ BeginRemoval("app", p) /\ UNCHANGED io
    <3>1. Excused
      <4>1. CASE link[p] = "reset"
        BY <2>3, <4>1 DEF Excused
      <4>2. CASE conn[p] = "deleted"
        <5>1. ~Adding(p)
          BY <4>2 DEF Adding, IInv, Joins, Joining
        <5>2. torn
          BY <2>3, <2>8, <4>2, <5>1 DEF IInv, Tracked
        <5> QED BY <5>2 DEF IInv, Intact
      <4> QED BY <2>8, <4>1, <4>2 DEF SendFails, Dead
    <3> QED BY <2>1, <2>2, <2>3, <2>4, <2>8, <3>1, CallRemoves DEF io
  <2> QED BY <2>5, <2>6, <2>7, <2>8 DEF BeginRemovalOf
<1>9. CASE CloseNext
  <2>1. app.todo # <<>> /\ mHasBeenShutdown /\ ~Iterating("app")
    BY <1>0, <1>9 DEF CloseNext, AppAt, InCall
  <2>2. /\ app' \in AppState /\ app'.todo = Tail(app.todo)
        /\ app'.pc = IF Tail(app.todo) = <<>> THEN "wake" ELSE "close"
    BY <1>0, <1>1, <1>9, <2>1 DEF CloseNext, Closing, AppState
  <2>3. InCall' /\ Excused
    BY <1>9, <2>1, <2>2 DEF CloseNext, InCall, Excused
  <2> QED BY <1>1, <1>9, <2>1, <2>2, <2>3, CallRemoves DEF CloseNext, AppOnly
<1>10. CASE Delete("app") \/ Erase("app")
  BY <1>10, DeleteStep, EraseStep DEF Thread
<1> QED BY <1>2, <1>3, <1>4, <1>5, <1>6, <1>7, <1>8, <1>9, <1>10 DEF AppStep

LEMMA DestroyPreserves == IInv /\ Destroy => IInv'
<1> SUFFICES ASSUME IInv, Destroy PROVE IInv'
  OBVIOUS
<1>0. /\ TypeOK /\ Tracked /\ Placed /\ app \in AppState /\ LoopEnded
      /\ removing \in [Thread -> Removal] /\ ~Iterating("app")
  BY TypeParts DEF IInv, Destroy, AppAt
<1>1. /\ conn' \in [Peers -> ConnState]
      /\ \A q \in Peers : conn'[q] = IF q \in Members(mContainer) THEN "deleted" ELSE conn[q]
      /\ \A q \in Peers : q \in Members(mContainer) => conn[q] \in {"listed", "deleted"}
  BY <1>0 DEF Destroy, TypeOK, ConnState, Placed, Added
<1>2. app' \in AppState /\ app'.pc = "gone" /\ mHasBeenShutdown'
      /\ mContainer' = <<>> /\ mMapping' = {} /\ mContainer' \in Seq(Peers)
      /\ UNCHANGED <<AppOnly, removing, torn, targets, signalled, calls>>
  BY <1>0 DEF Destroy, AppState, AppPc
<1>3. UNCHANGED <<status, recv, sending, overlap, accepting, link, inbox, routines, loop,
                  replies, removing, torn>>
  BY <1>2 DEF AppOnly, AppKeeps, network
<1>4. TypeOK'
  BY <1>0, <1>1, <1>2, <1>3 DEF TypeOK, AppState, ConnState
<1>5. \A t \in Thread : ~Iterating(t) /\ ~Iterating(t)' /\ removing'[t].step # "erase"
  BY <1>0, <1>3 DEF Placed, LoopEnded, Thread, Iterating
<1>6. Tracked'
  <2> SUFFICES ASSUME ~torn PROVE Tracked'
    BY <1>3 DEF Tracked
  <2>1. Members(mContainer') = {}
    BY <1>2 DEF Members
  <2>2. \A q \in Peers : ~Held(q)' /\ ~Adding(q)'
    BY <1>0, <1>3, <2>1 DEF Held, Adding, LoopEnded
  <2>3. \A q \in Peers : conn[q] = "listed" => q \in Members(mContainer)
    BY <1>0 DEF Tracked, Held, LoopEnded
  <2>4. \A q \in Peers : conn'[q] # "listed"
    BY <1>1, <2>3
  <2> QED BY <1>2, <1>5, <2>2, <2>4 DEF Tracked
<1>7. Placed'
  BY <1>0, <1>2, <1>3, <1>5 DEF Placed, Distinct, Members, LoopEnded, Thread
<1>8. NoneGoesDeaf' /\ InCall' /\ Intact'
  BY <1>2 DEF NoneGoesDeaf, InCall, Intact, Excused
<1>9. Joins'
  <2>1. \A q \in Peers : Joining(q) => conn'[q] = "joining" /\ recv'[q] = "data"
    BY <1>1, <1>3 DEF Joining
  <2> QED BY <1>3, <2>1 DEF IInv, Joins, Joining, JoinedAt
<1>10. AtHandle' /\ Sources'
  BY <1>0, <1>1, <1>3 DEF IInv, AtHandle, InHand, Sources, LoopEnded, Dead
<1> QED BY <1>4, <1>6, <1>7, <1>8, <1>9, <1>10 DEF IInv

-----------------------------------------------------------------------------
(* Peers, Winsock, and the end of the process *)

LEMMA PeerPreserves ==
  ASSUME IInv, NEW p \in Peers, Connects(p) \/ AcceptCompletes(p) \/ Sends(p) \/ Leaves(p)
  PROVE  IInv'
<1>0. TypeOK /\ UNCHANGED <<PeerKeeps, io, routines>>
  BY DEF IInv, Connects, AcceptCompletes, Sends, Leaves, network
<1>1. /\ conn' \in [Peers -> ConnState]
      /\ \A q \in Peers : conn[q] \in {"joining", "listed", "deleted"} => conn'[q] = conn[q]
      /\ \A q \in Peers : conn'[q] \in {"joining", "listed", "deleted"} => conn'[q] = conn[q]
  BY <1>0 DEF TypeOK, ConnState, Connects, AcceptCompletes, Sends, Leaves
<1>2. /\ link' \in [Peers -> {"open", "closed", "reset"}] /\ inbox' \in [Peers -> BOOLEAN]
      /\ accepting' \in BOOLEAN /\ signalled' \in SUBSET Handle
      /\ signalled \subseteq signalled'
      /\ \A q \in Peers : link[q] = "reset" => link'[q] = "reset"
  <2>1. CASE Connects(p) \/ Sends(p)
    BY <1>0, <2>1 DEF TypeOK, Connects, Sends, network
  <2>2. CASE AcceptCompletes(p)
    BY <1>0, <2>2 DEF TypeOK, AcceptCompletes, network, Handle
  <2>3. CASE Leaves(p)
    BY <1>0, <2>3 DEF TypeOK, Leaves
  <2> QED BY <2>1, <2>2, <2>3
<1>3. TypeOK'
  BY <1>0, <1>1, <1>2 DEF PeerKeeps, TypeOK, ConnState, registry, io
<1>4. Tracked' /\ Placed' /\ InCall'
  <2>1. Tracked' /\ Placed'
    BY <1>0, <1>1, RegistryFrame DEF PeerKeeps
  <2>2. InCall'
    BY <1>0 DEF PeerKeeps, IInv, InCall
  <2> QED BY <2>1, <2>2
<1>5. Joins'
  <2>1. \A q \in Peers : Joining(q) => conn'[q] = "joining" /\ recv'[q] = "data"
    BY <1>0, <1>1 DEF Joining, io
  <2> QED BY <1>0, <2>1 DEF IInv, Joins, Joining, JoinedAt, PeerKeeps
<1>6. AtHandle' /\ Sources'
  <2>1. AtHandle'
    BY <1>0, <1>1 DEF PeerKeeps, IInv, AtHandle, Added, InHand
  <2>2. Sources'
    BY <1>0, <1>1, <1>2 DEF PeerKeeps, io, IInv, Sources, Dead
  <2> QED BY <2>1, <2>2
<1>7. Intact'
  <2>1. Excused => Excused'
    BY <1>0, <1>2 DEF PeerKeeps, Excused
  <2>2. loop.handle \in Handle /\ \A i \in 1..Len(loop.handles) : loop.handles[i] \in Handle
    BY <1>0 DEF TypeOK
  <2>3. \A h \in Handle : Known(h) => Known(h)'
    BY <1>1 DEF Known, Handle
  <2> QED BY <1>0, <2>1, <2>2, <2>3
    DEF PeerKeeps, registry, IInv, Intact, TooMany, InHand, Known, Iterating
<1>8. NoneGoesDeaf'
  BY <1>0, <1>1, <1>2
  DEF PeerKeeps, registry, io, IInv, NoneGoesDeaf, Registered, Attended, AtIt, Ended,
      LoopEnded, Blocked
<1> QED BY <1>3, <1>4, <1>5, <1>6, <1>7, <1>8 DEF IInv

LEMMA IdentifiesPreserves == ASSUME IInv, NEW p \in Peers, Identifies(p) PROVE IInv'
<1> DEFINE n == Len(routines)
<1>0. /\ TypeOK /\ routines \in Seq(Routine) /\ n \in Nat
      /\ conn[p] = "joining" /\ recv[p] = "pending"
      /\ UNCHANGED <<PeerKeeps, conn, sending, overlap, signalled, accepting, network>>
  BY TypeParts DEF IInv, Identifies
<1>1. /\ recv' \in [Peers -> RecvState]
      /\ recv'[p] = "data" /\ \A q \in Peers \ {p} : recv'[q] = recv[q]
  BY <1>0 DEF Identifies, TypeOK, RecvState
<1>2. /\ routines' \in Seq(Routine) /\ Len(routines') = n + 1
      /\ routines'[n + 1].kind = "joined" /\ routines'[n + 1].peer = p
      /\ \A i \in 1..n + 1 : i \in 1..n \/ i = n + 1
      /\ \A i \in 1..n : routines'[i] = routines[i]
  <2>1. [kind |-> "joined", peer |-> p] \in Routine
    BY DEF Routine
  <2>2. routines' = Append(routines, [kind |-> "joined", peer |-> p])
    BY DEF Identifies
  <2> QED BY <1>0, <2>1, <2>2, AppendFacts
<1>3. TypeOK'
  BY <1>0, <1>1, <1>2 DEF PeerKeeps, TypeOK, RecvState, Routine, registry, network
<1>4. Tracked' /\ Placed' /\ InCall' /\ AtHandle' /\ Intact'
  <2>1. Tracked' /\ Placed'
    BY <1>0, RegistryFrame DEF PeerKeeps
  <2>2. InCall' /\ AtHandle' /\ Intact'
    BY <1>0
    DEF PeerKeeps, registry, network, IInv, InCall, AtHandle, Added, InHand, Intact,
        TooMany, Excused, Known, Iterating
  <2> QED BY <2>1, <2>2
<1>5. Joins'
  <2>1. \A i \in 1..n : JoinedAt(i) => /\ Joining(routines[i].peer)
                                       /\ routines[i].peer # p
    BY <1>0 DEF IInv, Joins, Joining
  <2>2. \A q \in Peers : Joining(q) => q # p /\ conn'[q] = "joining" /\ recv'[q] = "data"
    BY <1>0, <1>1 DEF Joining
  <2>3. \A i \in 1..n + 1 : JoinedAt(i)' => /\ routines'[i].peer \in Peers
                                             /\ conn'[routines'[i].peer] = "joining"
                                             /\ recv'[routines'[i].peer] = "data"
    BY <1>0, <1>1, <1>2, <2>1, <2>2 DEF JoinedAt, Joining
  <2>4. \A i, j \in 1..n + 1 :
          JoinedAt(i)' /\ JoinedAt(j)' /\ routines'[i].peer = routines'[j].peer => i = j
    BY <1>2, <2>1 DEF IInv, Joins, JoinedAt
  <2>5. (loop.pc = "routine" /\ loop.routine = "joined") \/ loop.pc = "adding" =>
          /\ Joining(loop.handle) /\ loop.handle # p
          /\ \A i \in 1..n : JoinedAt(i) => routines[i].peer # loop.handle
    BY <1>0 DEF IInv, Joins, Joining
  <2>6. (loop.pc = "routine" /\ loop.routine = "joined") \/ loop.pc = "adding" =>
          \A i \in 1..n + 1 : JoinedAt(i)' => routines'[i].peer # loop.handle
    BY <1>2, <2>5 DEF JoinedAt
  <2> QED BY <1>0, <1>2, <2>2, <2>3, <2>4, <2>5, <2>6
    DEF PeerKeeps, Joins, Joining, JoinedAt
<1>6. Sources'
  BY <1>0, <1>1, <1>2 DEF PeerKeeps, network, IInv, Sources, Dead
<1>7. NoneGoesDeaf'
  BY <1>0, <1>1
  DEF PeerKeeps, registry, network, IInv, NoneGoesDeaf, Registered, Attended, AtIt, Ended,
      LoopEnded, Blocked
<1> QED BY <1>3, <1>4, <1>5, <1>6, <1>7 DEF IInv

LEMMA ReceiveCompletesPreserves ==
  ASSUME IInv, NEW p \in Peers, ReceiveCompletes(p) PROVE IInv'
<1>0. /\ TypeOK /\ conn[p] = "listed" /\ signalled' = signalled \union {p}
      /\ UNCHANGED <<PeerKeeps, conn, sending, accepting, link, routines>>
  BY DEF IInv, ReceiveCompletes
<1>1. /\ recv' \in [Peers -> RecvState]
      /\ inbox' \in [Peers -> BOOLEAN] /\ signalled' \in SUBSET Handle
      /\ \A q \in Peers \ {p} : recv'[q] = recv[q]
      /\ recv'[p] = "failed" => link[p] = "reset"
      /\ overlap' \in [Peers -> {"receive", "pending", "sent", "failed"}]
      /\ \A q \in Peers : overlap'[q] = "failed" => overlap[q] = "failed"
  <2>1. PICK r \in {"data", "end", "failed"} :
          recv' = [recv EXCEPT ![p] = r] /\ (r = "failed" => link[p] = "reset")
    BY DEF ReceiveCompletes
  <2>2. inbox' \in [Peers -> BOOLEAN] /\ signalled' \in SUBSET Handle
    BY <1>0 DEF ReceiveCompletes, TypeOK, Handle
  <2>3. overlap' = [overlap EXCEPT ![p] = "receive"]
    BY DEF ReceiveCompletes
  <2> QED BY <1>0, <2>1, <2>2, <2>3 DEF TypeOK, RecvState
<1>2. TypeOK'
  BY <1>0, <1>1 DEF PeerKeeps, TypeOK, RecvState, registry
<1>3. Tracked' /\ Placed' /\ InCall' /\ AtHandle' /\ Intact'
  <2>1. Tracked' /\ Placed'
    BY <1>0, RegistryFrame DEF PeerKeeps
  <2>2. InCall' /\ AtHandle' /\ Intact'
    BY <1>0
    DEF PeerKeeps, registry, IInv, InCall, AtHandle, Added, InHand, Intact, TooMany,
        Excused, Known, Iterating
  <2> QED BY <2>1, <2>2
<1>4. Joins'
  <2>1. \A q \in Peers : Joining(q) => conn'[q] = "joining" /\ recv'[q] = "data"
    BY <1>0, <1>1 DEF Joining
  <2> QED BY <1>0, <2>1 DEF IInv, Joins, Joining, JoinedAt, PeerKeeps
<1>5. Sources' /\ NoneGoesDeaf'
  <2>1. Sources'
    BY <1>0, <1>1 DEF PeerKeeps, IInv, Sources, Dead
  <2>2. NoneGoesDeaf'
    BY <1>0, <1>1
    DEF PeerKeeps, registry, IInv, NoneGoesDeaf, Registered, Attended, AtIt, Ended,
        LoopEnded, Blocked
  <2> QED BY <2>1, <2>2
<1> QED BY <1>2, <1>3, <1>4, <1>5 DEF IInv

LEMMA SendCompletesPreserves ==
  ASSUME IInv, NEW p \in Peers, SendCompletes(p) PROVE IInv'
<1> DEFINE q0 == sending[p]
           n == Len(routines)
<1>0. /\ TypeOK /\ q0 \in Seq(Thread) /\ q0 # <<>> /\ routines \in Seq(Routine) /\ n \in Nat
      /\ sending \in [Peers -> Seq(Thread)] /\ conn \in [Peers -> ConnState]
      /\ UNCHANGED <<PeerKeeps, conn, recv, signalled, accepting, inbox>>
  BY TypeParts DEF IInv, SendCompletes
<1>1. /\ 1 \in 1..Len(q0) /\ Head(q0) = q0[1] /\ Tail(q0) \in Seq(Thread)
      /\ \A i \in 1..Len(Tail(q0)) : i + 1 \in 1..Len(q0) /\ Tail(q0)[i] = q0[i + 1]
  BY <1>0, FrontFacts
<1>2. sending' = [sending EXCEPT ![p] = Tail(q0)]
  BY DEF SendCompletes
<1>3. /\ sending' \in [Peers -> Seq(Thread)] /\ sending'[p] = Tail(q0)
      /\ \A q \in Peers \ {p} : sending'[q] = sending[q]
  BY <1>0, <1>1, <1>2
<1>4. /\ link' \in [Peers -> {"open", "closed", "reset"}]
      /\ \A q \in Peers : link[q] = "reset" => link'[q] = "reset"
      /\ overlap' \in [Peers -> {"receive", "pending", "sent", "failed"}]
      /\ \A q \in Peers : overlap'[q] = "failed" =>
           overlap[q] = "failed" \/ link'[q] = "reset" \/ Dead(q)
  <2>1. CASE ~SendFails(p) /\ overlap' = [overlap EXCEPT ![p] = "sent"] /\ link' = link
    BY <1>0, <2>1 DEF TypeOK
  <2>2. CASE /\ overlap' = [overlap EXCEPT ![p] = "failed"]
             /\ link' = IF Dead(p) THEN link ELSE [link EXCEPT ![p] = "reset"]
    BY <1>0, <2>2 DEF TypeOK
  <2> QED BY <2>1, <2>2 DEF SendCompletes
<1>5. /\ routines' \in Seq(Routine)
      /\ \A i \in 1..Len(routines') :
           \/ i \in 1..n /\ routines'[i] = routines[i]
           \/ routines'[i].kind = "sent" /\ routines'[i].peer = p /\ p \in Repliers
  <2>1. CASE Head(q0) = "app"
    <3>1. routines' = routines
      BY <2>1 DEF SendCompletes
    <3> QED BY <1>0, <3>1
  <2>2. CASE Head(q0) # "app"
    <3>1. routines' = Append(routines, [kind |-> "sent", peer |-> p])
      BY <2>2 DEF SendCompletes
    <3>2. p \in Repliers
      BY <1>1, <2>2 DEF IInv, Sources
    <3>3. [kind |-> "sent", peer |-> p] \in Routine
      BY DEF Routine
    <3> QED BY <1>0, <3>1, <3>2, <3>3, AppendFacts
  <2> QED BY <2>1, <2>2
<1> HIDE DEF q0, n
<1>6. TypeOK'
  BY <1>0, <1>3, <1>4, <1>5 DEF PeerKeeps, TypeOK, registry, Routine
<1>7. Tracked' /\ Placed' /\ InCall' /\ AtHandle'
  <2>1. Tracked' /\ Placed'
    BY <1>0, RegistryFrame DEF PeerKeeps
  <2>2. InCall' /\ AtHandle'
    BY <1>0 DEF PeerKeeps, IInv, InCall, AtHandle, Added, InHand
  <2> QED BY <2>1, <2>2
<1>8. Joins'
  <2>1. \A i \in 1..Len(routines') :
          JoinedAt(i)' => /\ i \in 1..Len(routines) /\ JoinedAt(i)
                          /\ routines'[i] = routines[i]
    BY <1>5 DEF JoinedAt, n
  <2>2. \A q : Joining(q) <=> Joining(q)'
    BY <1>0 DEF Joining
  <2>3. \A i \in 1..Len(routines') : JoinedAt(i)' => Joining(routines'[i].peer)
    BY <2>1 DEF IInv, Joins
  <2>4. \A i, j \in 1..Len(routines') :
          JoinedAt(i)' /\ JoinedAt(j)' /\ routines'[i].peer = routines'[j].peer => i = j
    BY <2>1 DEF IInv, Joins
  <2>5. (loop.pc = "routine" /\ loop.routine = "joined") \/ loop.pc = "adding" =>
          /\ Joining(loop.handle)
          /\ \A i \in 1..Len(routines') : JoinedAt(i)' => routines'[i].peer # loop.handle
    BY <2>1 DEF IInv, Joins
  <2>6. loop' = loop
    BY <1>0 DEF PeerKeeps
  <2> QED BY <2>2, <2>3, <2>4, <2>5, <2>6 DEF Joins
<1>9. Sources'
  <2>1. \A i \in 1..Len(routines') :
          routines'[i].kind = "sent" => routines'[i].peer \in Repliers
    BY <1>5 DEF IInv, Sources, n
  <2>2. ASSUME NEW q \in Peers \ Repliers, NEW i \in 1..Len(sending'[q])
        PROVE  sending'[q][i] = "app"
    <3>1. CASE q = p
      BY <1>1, <1>3, <2>2, <3>1 DEF IInv, Sources, q0
    <3>2. CASE q # p
      BY <1>3, <2>2, <3>2 DEF IInv, Sources
    <3> QED BY <3>1, <3>2
  <2> QED BY <1>0, <1>4, <2>1, <2>2 DEF PeerKeeps, IInv, Sources, Dead
<1>10. Intact'
  <2>1. Excused => Excused'
    BY <1>0, <1>4 DEF PeerKeeps, Excused
  <2> QED BY <1>0, <2>1
    DEF PeerKeeps, registry, IInv, Intact, TooMany, InHand, Known, Iterating
<1>11. NoneGoesDeaf'
  BY <1>0, <1>4
  DEF PeerKeeps, registry, IInv, NoneGoesDeaf, Registered, Attended, AtIt, Ended,
      LoopEnded, Blocked
<1> QED BY <1>6, <1>7, <1>8, <1>9, <1>10, <1>11 DEF IInv

LEMMA CrashPreserves == IInv /\ Crash => IInv'
<1> SUFFICES ASSUME IInv, Crash PROVE IInv'
  OBVIOUS
<1>1. status' = "crashed"
      /\ UNCHANGED <<mHasBeenShutdown, registry, targets, conn, io, signalled, accepting,
                     network, routines, loop, app, calls, replies>>
  BY DEF Crash
<1>2. TypeOK' /\ NoneGoesDeaf'
  BY <1>1 DEF IInv, TypeOK, registry, network, io, NoneGoesDeaf, Ended
<1>3. Tracked' /\ Placed'
  BY <1>1, RegistryFrame
<1>4. Joins' /\ AtHandle' /\ InCall'
  BY <1>1 DEF IInv, io, Joins, Joining, JoinedAt, AtHandle, Added, InHand, InCall
<1>5. Intact' /\ Sources'
  BY <1>1
  DEF IInv, registry, network, io, Intact, TooMany, Excused, Known, InHand, Iterating,
      Sources, Dead
<1> QED BY <1>2, <1>3, <1>4, <1>5 DEF IInv

LEMMA StutterPreserves == IInv /\ UNCHANGED vars => IInv'
<1> SUFFICES ASSUME IInv, UNCHANGED vars PROVE IInv'
  OBVIOUS
<1>1. TypeOK' /\ NoneGoesDeaf'
  <2>1. TypeOK'
    BY DEF IInv, vars, TypeOK, registry, network, io
  <2>2. NoneGoesDeaf'
    BY DEF IInv, vars, registry, network, io, NoneGoesDeaf, Registered, Ended, LoopEnded,
           Blocked, Attended, AtIt
  <2> QED BY <2>1, <2>2
<1>2. Tracked' /\ Placed'
  BY RegistryFrame DEF vars
<1>3. Joins' /\ AtHandle' /\ InCall'
  BY DEF IInv, vars, io, Joins, Joining, JoinedAt, AtHandle, Added, InHand, InCall
<1>4. Intact' /\ Sources'
  BY DEF IInv, vars, registry, network, io, Intact, TooMany, Excused, Known, InHand,
         Iterating, Sources, Dead
<1> QED BY <1>1, <1>2, <1>3, <1>4 DEF IInv

-----------------------------------------------------------------------------

\* The strengthened invariant holds of every state of waitForEvents and of the
\* calls of the other thread (windows/Server.cpp, windows/Connections.cpp).
THEOREM Inductive == Spec => []IInv
<1>1. IInv /\ [Next]_vars => IInv'
  BY LoopPreserves, AppPreserves, DestroyPreserves, PeerPreserves, IdentifiesPreserves,
     ReceiveCompletesPreserves, SendCompletesPreserves, CrashPreserves, StutterPreserves
  DEF Next, AppCall, PeerStep, Completion, Over
<1> QED BY <1>1, InitIInv, PTL DEF Spec

\* The state keeps its type, whatever the peers and the calls.
THEOREM TypeCorrect == Spec => []TypeOK
<1>1. IInv => TypeOK
  BY DEF IInv
<1> QED BY <1>1, Inductive, PTL

\* Vector, map and objects agree for any number of connections whenever no thread is
\* inside Connections, however the steps of rotations, additions and of the removals of
\* both threads interleave, until one erases an element under the iterator of another
\* (windows/Connections.cpp:31-44, 58-69, 94-99).
THEOREM RegistryIsSound == Spec => []RegistryAgrees
<1>1. ASSUME IInv PROVE RegistryAgrees
  <2> SUFFICES ASSUME ~torn, ~InConnections
               PROVE  /\ Members(mContainer) = mMapping
                      /\ mMapping = {p \in Peers : conn[p] = "listed"}
                      /\ Distinct(mContainer)
    BY DEF RegistryAgrees
  <2>1. \A p \in Peers : ~Leaving(p) /\ ~Adding(p) /\ (Held(p) <=> p \in Members(mContainer))
    BY DEF InConnections, Leaving, Adding, Held
  <2>2. \A p \in Peers : /\ p \in mMapping <=> p \in Members(mContainer)
                         /\ p \in mMapping <=> conn[p] = "listed"
    BY <1>1, <2>1 DEF IInv, Tracked
  <2>3. Members(mContainer) \subseteq Peers /\ mMapping \subseteq Peers
    BY <1>1, TypeParts DEF IInv, Placed, Added
  <2> QED BY <1>1, <2>2, <2>3 DEF IInv, Placed
<1> QED BY <1>1, Inductive, PTL

\* No connection that the application does not answer from the callback is ever
\* left without a receive, an event or the loop at it, unless the registry was torn or
\* the loop hangs (windows/Server.cpp:249, 267-292, 349-356).
THEOREM NobodyGoesDeaf == Spec => []NoneGoesDeaf
<1>1. IInv => NoneGoesDeaf
  BY DEF IInv
<1> QED BY <1>1, Inductive, PTL

\* The loop throws only after a shutdown or a reset, or for too many connections: the
\* handles copied before the wait are otherwise still registered after it, and nothing
\* was torn (windows/Server.cpp:218-262).
THEOREM ThrowsOnlyOnReset == Spec => []OnlyResetThrows
<1>1. IInv => OnlyResetThrows
  BY DEF IInv, Intact, Excused, OnlyResetThrows
<1> QED BY <1>1, Inductive, PTL

=============================================================================
