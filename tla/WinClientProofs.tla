-------------------------- MODULE WinClientProofs --------------------------
(***************************************************************************)
(* The invariants of WinClient for every number of calls and replies.      *)
(***************************************************************************)
EXTENDS WinClient, SequenceTheorems, TLAPS

Sent == 1..MaxSends

LEMMA SentIsNat == Sent \subseteq Nat
BY ClientAssumption DEF Sent

\* Taking the first element off a sequence.
LEMMA TailFacts ==
  ASSUME NEW s \in Seq(Sent), s # <<>>
  PROVE  /\ Tail(s) \in Seq(Sent)
         /\ Len(s) > 0 /\ Len(Tail(s)) = Len(s) - 1
         /\ \A k \in 1..Len(Tail(s)) : k + 1 \in 1..Len(s) /\ Tail(s)[k] = s[k + 1]
         /\ Increasing(s) =>
              Increasing(Tail(s)) /\ \A k \in 2..Len(s) : s[1] < s[k]
<1>1. Len(s) \in Nat /\ Len(s) > 0
  BY EmptySeq, LenProperties
<1>2. /\ Tail(s) \in Seq(Sent) /\ Len(Tail(s)) = Len(s) - 1
      /\ \A k \in 1..Len(Tail(s)) : Tail(s)[k] = s[k + 1]
  BY HeadTailProperties
<1>3. \A k \in 1..Len(Tail(s)) : k + 1 \in 1..Len(s)
  BY <1>1, <1>2
<1>4. ASSUME Increasing(s) PROVE Increasing(Tail(s))
  <2> SUFFICES ASSUME NEW j \in 1..Len(Tail(s)), NEW k \in 1..Len(Tail(s)), j < k
               PROVE  Tail(s)[j] < Tail(s)[k]
    BY DEF Increasing
  <2>1. j + 1 < k + 1
    OBVIOUS
  <2> QED BY <1>2, <1>3, <1>4, <2>1 DEF Increasing
<1>5. ASSUME Increasing(s) PROVE \A k \in 2..Len(s) : s[1] < s[k]
  BY <1>1, <1>5 DEF Increasing
<1> QED BY <1>1, <1>2, <1>3, <1>4, <1>5

\* Adding an element at the end.
LEMMA AppendFacts ==
  ASSUME NEW s \in Seq(Sent), NEW e \in Sent
  PROVE  /\ Append(s, e) \in Seq(Sent)
         /\ Len(Append(s, e)) = Len(s) + 1
         /\ \A k \in 1..Len(s) : Append(s, e)[k] = s[k]
         /\ Append(s, e)[Len(s) + 1] = e
         /\ Increasing(s) /\ (\A k \in 1..Len(s) : s[k] < e) =>
              Increasing(Append(s, e))
<1>1. /\ Len(s) \in Nat /\ Append(s, e) \in Seq(Sent)
      /\ Len(Append(s, e)) = Len(s) + 1
      /\ \A k \in 1..Len(s) : Append(s, e)[k] = s[k]
      /\ Append(s, e)[Len(s) + 1] = e
  BY AppendProperties, LenProperties
<1>2. ASSUME Increasing(s), \A k \in 1..Len(s) : s[k] < e
      PROVE  Increasing(Append(s, e))
  BY <1>1, <1>2 DEF Increasing
<1> QED BY <1>1, <1>2

LEMMA InitIInv == Init => IInv
<1> SUFFICES ASSUME Init PROVE IInv
  OBVIOUS
<1>1. TypeOK
  <2>1. <<>> \in Seq(1..MaxSends) /\ 0 \in 0..MaxSends /\ 0 \in 0..MaxReplies
    BY ClientAssumption
  <2>2. event \in [Handles -> BOOLEAN] /\ loop \in [pc : LoopPc, index : Handles]
    BY DEF Init, LoopPc, Handles
  <2> QED BY <2>1, <2>2 DEF Init, TypeOK, AppPc
<1>2. InOrder
  BY DEF Init, InOrder, Increasing
<1>3. ~ToPop
  BY DEF Init, ToPop, Handles
<1>4. BufferOutlivesSend
  BY DEF Init, BufferOutlivesSend
<1>5. AtWork
  BY DEF Init, AtWork
<1> QED BY <1>1, <1>2, <1>3, <1>4, <1>5 DEF IInv, FrontIsOver

\* Steps of the calling thread keep the types.
LEMMA AppTypes == TypeOK /\ AtWork /\ (AppCall \/ AppStep) => TypeOK' /\ AtWork'
<1> SUFFICES ASSUME TypeOK, AtWork, AppCall \/ AppStep PROVE TypeOK' /\ AtWork'
  OBVIOUS
<1> USE ClientAssumption DEF TypeOK, AtWork, AppAt, AppKeeps, buffers, winsock, AppPc
<1>1. CASE Connect
  BY <1>1 DEF Connect
<1>2. CASE ConnectFails
  BY <1>2 DEF ConnectFails
<1>3. CASE SendData
  BY <1>3 DEF SendData
<1>4. CASE Disconnect
  BY <1>4 DEF Disconnect
<1>5. CASE Destroy
  BY <1>5 DEF Destroy, Destroying
<1>6. CASE ReceivePends
  BY <1>6 DEF ReceivePends, Handles
<1>7. CASE ReceiveAtOnce
  <2>1. heard' \in 0..replies /\ inbox' = 0 /\ replies' = replies
    BY <1>7 DEF ReceiveAtOnce
  <2> QED BY <1>7, <2>1 DEF ReceiveAtOnce, Handles
<1>8. CASE PrepareThrows
  BY <1>8 DEF PrepareThrows
<1>9. CASE Push
  <2>1. sends \in Sent
    BY <1>9 DEF Push, Sent
  <2>2. mSendBuffers' \in Seq(Sent)
    BY <1>9, <2>1, AppendFacts DEF Push, Sent
  <2> QED BY <1>9, <2>2 DEF Push, Sent
<1>10. CASE PushLost
  BY <1>10 DEF PushLost, PushSpoiled
<1>11. CASE SendPends
  <2>1. sends \in Sent
    BY <1>11 DEF SendPends, Sent
  <2>2. flight' \in Seq(Sent)
    BY <1>11, <2>1, AppendFacts DEF SendPends, Sent
  <2> QED BY <1>11, <2>2 DEF SendPends, Sent, Posted, Handles
<1>12. CASE SendAtOnce
  BY <1>12 DEF SendAtOnce, Handles
<1>13. CASE SendThrows
  BY <1>13 DEF SendThrows
<1>14. CASE Signal
  BY <1>14 DEF Signal, Signalled, Handles
<1>15. CASE CloseSocket
  BY <1>15 DEF CloseSocket
<1> QED BY <1>1, <1>2, <1>3, <1>4, <1>5, <1>6, <1>7, <1>8, <1>9, <1>10, <1>11, <1>12,
           <1>13, <1>14, <1>15 DEF AppCall, AppStep

\* Steps of the loop.
LEMMA LoopTypes == TypeOK /\ AtWork /\ LoopStep => TypeOK' /\ AtWork'
<1> SUFFICES ASSUME TypeOK, AtWork, LoopStep PROVE TypeOK' /\ AtWork'
  OBVIOUS
<1> USE ClientAssumption
    DEF TypeOK, AtWork, LoopAt, LoopTo, LoopKeeps, remote, LoopPc, Handles
<1>1. CASE LoopStart
  BY <1>1 DEF LoopStart
<1>2. CASE LoopTest
  BY <1>2 DEF LoopTest
<1>3. CASE WaitReturns
  BY <1>3 DEF WaitReturns
<1>4. CASE ReceiveResult
  <2>1. Received \in 0..replies - inbox
    BY DEF Received
  <2> QED BY <1>4, <2>1 DEF ReceiveResult
<1>5. CASE SendResult
  BY <1>5 DEF SendResult
<1>6. CASE Pop
  <2>1. mSendBuffers' \in Seq(Sent)
    BY <1>6, TailFacts DEF Pop, Sent
  <2> QED BY <1>6, <2>1 DEF Pop, Sent
<1>7. CASE ResetEvent
  BY <1>7 DEF ResetEvent, Reset
<1> QED BY <1>1, <1>2, <1>3, <1>4, <1>5, <1>6, <1>7 DEF LoopStep

\* Steps of Winsock, the server and the end of the process.
LEMMA OtherTypes ==
  TypeOK /\ AtWork /\ (Completion \/ ServerReplies \/ ServerLeaves \/ Crash \/ Over)
    => TypeOK' /\ AtWork'
<1> SUFFICES ASSUME TypeOK, AtWork,
                    Completion \/ ServerReplies \/ ServerLeaves \/ Crash \/ Over
             PROVE  TypeOK' /\ AtWork'
  OBVIOUS
<1> USE ClientAssumption
    DEF TypeOK, AtWork, WinsockKeeps, ServerKeeps, buffers, winsock, remote, Handles
<1>1. CASE SendCompletes
  <2>1. flight' \in Seq(Sent)
    BY <1>1, TailFacts DEF SendCompletes, Sent
  <2> QED BY <1>1, <2>1 DEF SendCompletes, Sent
<1>2. CASE ReceiveCompletes
  <2>1. inbox' \in 0..replies /\ inbox' <= inbox
    BY <1>2 DEF ReceiveCompletes
  <2> QED BY <1>2, <2>1 DEF ReceiveCompletes
<1>3. CASE ServerReplies
  BY <1>3 DEF ServerReplies
<1>4. CASE ServerLeaves
  BY <1>4 DEF ServerLeaves
<1>5. CASE Crash
  BY <1>5 DEF Crash
<1>6. CASE Over
  BY <1>6 DEF Over, vars
<1> QED BY <1>1, <1>2, <1>3, <1>4, <1>5, <1>6 DEF Completion

-----------------------------------------------------------------------------
(* The buffers *)

Order == InOrder /\ FrontIsOver /\ BufferOutlivesSend

\* What a step has to leave alone, or may only take away, for the order to stay.
LEMMA OrderFrame ==
  ASSUME TypeOK, Order, UNCHANGED <<mSendBuffers, spoiled, flight, sends>>,
         ToPop' => ToPop,
         app' \in {"push", "post"} => app' = app
  PROVE  Order'
<1> USE DEF Order
<1>1. Waiting' = Waiting
  BY DEF Waiting
<1>2. InOrder'
  BY <1>1 DEF InOrder, Increasing
<1>3. FrontIsOver'
  BY DEF FrontIsOver
<1>4. BufferOutlivesSend'
  BY <1>1 DEF BufferOutlivesSend
<1> QED BY <1>2, <1>3, <1>4

\* Steps of the calling thread.
LEMMA AppOrder ==
  ASSUME TypeOK, AtWork, Order, ~spoiled', AppCall \/ AppStep
  PROVE  Order'
<1> USE ClientAssumption DEF AppAt, AppKeeps, buffers, winsock
<1>t. /\ mSendBuffers \in Seq(Sent) /\ flight \in Seq(Sent) /\ sends \in Nat
      /\ \A k \in 1..Len(mSendBuffers) : mSendBuffers[k] \in Sent
      /\ \A k \in 1..Len(flight) : flight[k] \in Sent
      /\ Len(mSendBuffers) \in Nat /\ Len(flight) \in Nat
  BY ElementOfSeq, LenProperties DEF TypeOK, Sent
<1>e. event \in [Handles -> BOOLEAN]
  BY DEF TypeOK
<1>1. CASE Connect
  BY <1>1, OrderFrame DEF Connect, ToPop
<1>2. CASE ConnectFails
  BY <1>2, OrderFrame DEF ConnectFails, ToPop
<1>3. CASE SendData
  <2>1. Waiting' = Waiting
    BY <1>3 DEF SendData, Waiting
  <2>2. InOrder'
    <3>1. \A k \in 1..Len(mSendBuffers) :
            mSendBuffers[k] <= sends + 1 /\ mSendBuffers[k] # sends + 1
      BY <1>t DEF Order, InOrder, Sent
    <3>2. \A k \in 1..Len(flight) : flight[k] <= sends + 1 /\ flight[k] # sends + 1
      BY <1>t DEF Order, InOrder, Sent
    <3>3. Increasing(mSendBuffers)' /\ Increasing(flight)'
      BY <1>3 DEF SendData, Order, InOrder, Increasing
    <3>4. /\ sends' = sends + 1 /\ app' = "push"
          /\ mSendBuffers' = mSendBuffers /\ flight' = flight
      BY <1>3 DEF SendData
    <3> QED BY <3>1, <3>2, <3>3, <3>4 DEF InOrder
  <2>3. FrontIsOver'
    BY <1>3 DEF SendData, Order, FrontIsOver, ToPop
  <2> QED BY <1>3, <2>1, <2>2, <2>3 DEF SendData, Order, BufferOutlivesSend
<1>4. CASE Disconnect
  BY <1>4, OrderFrame DEF Disconnect, ToPop
<1>5. CASE Destroy
  BY <1>5, OrderFrame DEF Destroy, ToPop
<1>6. CASE ReceivePends
  BY <1>6, <1>e, OrderFrame DEF ReceivePends, ToPop, Handles
<1>7. CASE ReceiveAtOnce
  BY <1>7, <1>e, OrderFrame DEF ReceiveAtOnce, ToPop, Handles
<1>8. CASE PrepareThrows
  BY <1>8, OrderFrame DEF PrepareThrows, ToPop
<1>9. CASE Push
  <2>1. sends \in Sent
    BY <1>9 DEF Push, Sent, AtWork, TypeOK
  <2>2. \A k \in 1..Len(mSendBuffers) : mSendBuffers[k] < sends
    BY <1>9, <1>t DEF Push, Order, InOrder, Sent
  <2>3. /\ Increasing(mSendBuffers')
        /\ Len(mSendBuffers') = Len(mSendBuffers) + 1
        /\ \A k \in 1..Len(mSendBuffers) : mSendBuffers'[k] = mSendBuffers[k]
        /\ mSendBuffers'[Len(mSendBuffers) + 1] = sends
    BY <1>9, <1>t, <2>1, <2>2, AppendFacts DEF Push, Order, InOrder
  <2>4. Waiting \subseteq Waiting' /\ sends \in Waiting'
    BY <1>t, <2>3 DEF Waiting
  <2>5. InOrder'
    <3>1. \A k \in 1..Len(mSendBuffers') : mSendBuffers'[k] <= sends
      <4>1. sends \in Nat /\ \A k \in 1..Len(mSendBuffers) : mSendBuffers[k] \in Nat
        BY <1>t, SentIsNat
      <4>2. TAKE k \in 1..Len(mSendBuffers')
      <4>3. CASE k = Len(mSendBuffers) + 1
        BY <2>3, <4>1, <4>3
      <4>4. CASE k \in 1..Len(mSendBuffers)
        BY <2>2, <2>3, <4>1, <4>4
      <4> QED BY <1>t, <2>3, <4>3, <4>4
    <3> QED BY <1>9, <2>3, <2>4, <3>1 DEF Push, Order, InOrder
  <2>6. FrontIsOver'
    <3>1. SUFFICES ASSUME ToPop
                   PROVE  /\ mSendBuffers' # <<>> /\ mSendBuffers'[1] # sends
                          /\ \A k \in 1..Len(flight) : flight[k] # mSendBuffers'[1]
      BY <1>9 DEF Push, FrontIsOver, ToPop
    <3>2. mSendBuffers # <<>> /\ \A k \in 1..Len(flight) : flight[k] # mSendBuffers[1]
      BY <3>1 DEF Order, FrontIsOver
    <3>3. 1 \in 1..Len(mSendBuffers)
      BY <1>t, <3>2, EmptySeq
    <3>4. mSendBuffers'[1] = mSendBuffers[1] /\ mSendBuffers'[1] < sends
      BY <2>2, <2>3, <3>3
    <3>5. mSendBuffers' # <<>>
      BY <2>3, <1>t
    <3> QED BY <1>t, <2>1, <3>2, <3>3, <3>4, <3>5 DEF Sent
  <2> QED BY <1>9, <2>4, <2>5, <2>6 DEF Push, Order, BufferOutlivesSend
<1>10. CASE PushLost
  BY <1>10 DEF PushLost
<1>11. CASE SendPends
  <2>1. sends \in Sent /\ sends \in Waiting
    BY <1>11 DEF SendPends, Sent, AtWork, TypeOK, Order, InOrder
  <2>2. \A k \in 1..Len(flight) : flight[k] < sends
    BY <1>11, <1>t DEF SendPends, Order, InOrder, Sent
  <2>3. /\ Increasing(flight')
        /\ Len(flight') = Len(flight) + 1
        /\ \A k \in 1..Len(flight) : flight'[k] = flight[k]
        /\ flight'[Len(flight) + 1] = sends
    BY <1>11, <1>t, <2>1, <2>2, AppendFacts DEF SendPends, Order, InOrder
  <2>4. Waiting' = Waiting
    BY <1>11 DEF SendPends, Waiting
  <2>5. InOrder'
    <3>1. \A k \in 1..Len(flight') : flight'[k] <= sends
      <4>1. sends \in Nat /\ \A k \in 1..Len(flight) : flight[k] \in Nat
        BY <1>t, SentIsNat
      <4>2. TAKE k \in 1..Len(flight')
      <4>3. CASE k = Len(flight) + 1
        BY <2>3, <4>1, <4>3
      <4>4. CASE k \in 1..Len(flight)
        BY <2>2, <2>3, <4>1, <4>4
      <4> QED BY <1>t, <2>3, <4>3, <4>4
    <3>2. Increasing(mSendBuffers)' /\ Increasing(flight)'
      BY <1>11, <2>3 DEF SendPends, Order, InOrder, Increasing
    <3>3. /\ sends' = sends /\ app' = "idle" /\ mSendBuffers' = mSendBuffers
          /\ \A k \in 1..Len(mSendBuffers) : mSendBuffers[k] <= sends
      BY <1>11 DEF SendPends, Order, InOrder
    <3> QED BY <3>1, <3>2, <3>3 DEF InOrder
  <2>6. FrontIsOver'
    <3>1. ToPop' => ToPop
      BY <1>11, <1>e DEF SendPends, Posted, ToPop, Handles
    <3> QED BY <1>11, <1>t, <2>3, <3>1 DEF SendPends, Order, FrontIsOver
  <2>7. BufferOutlivesSend'
    BY <1>11, <1>t, <2>1, <2>3, <2>4 DEF SendPends, Order, BufferOutlivesSend
  <2> QED BY <2>5, <2>6, <2>7 DEF Order
<1>12. CASE SendAtOnce
  <2>1. Waiting' = Waiting /\ Len(flight') = 0
    BY <1>12 DEF SendAtOnce, Waiting
  <2>2. InOrder'
    BY <1>12, <2>1 DEF SendAtOnce, Order, InOrder, Increasing
  <2>3. mSendBuffers # <<>>
    BY <1>12, <1>t DEF SendAtOnce, Order, InOrder, Waiting
  <2> QED BY <1>12, <2>1, <2>2, <2>3 DEF SendAtOnce, Order, FrontIsOver, BufferOutlivesSend
<1>13. CASE SendThrows
  BY <1>13, OrderFrame DEF SendThrows, ToPop
<1>14. CASE Signal
  BY <1>14, <1>e, OrderFrame DEF Signal, Signalled, ToPop, Handles
<1>15. CASE CloseSocket
  BY <1>15, OrderFrame DEF CloseSocket, ToPop
<1> QED BY <1>1, <1>2, <1>3, <1>4, <1>5, <1>6, <1>7, <1>8, <1>9, <1>10, <1>11, <1>12,
           <1>13, <1>14, <1>15 DEF AppCall, AppStep

\* Steps of the loop: only Pop changes the queue, and what it frees is over.
LEMMA LoopOrder == ASSUME TypeOK, AtWork, Order, LoopStep PROVE Order'
<1> USE DEF LoopAt, LoopTo, LoopKeeps, remote
<1>t. /\ mSendBuffers \in Seq(Sent)
      /\ loop \in [pc : LoopPc, index : Handles]
      /\ event \in [Handles -> BOOLEAN]
  BY DEF TypeOK, Sent
<1>1. CASE LoopStart
  BY <1>1, <1>t, OrderFrame DEF LoopStart, ToPop, LoopPc
<1>2. CASE LoopTest
  BY <1>2, <1>t, OrderFrame DEF LoopTest, ToPop, LoopPc
<1>3. CASE WaitReturns
  BY <1>3, <1>t, OrderFrame DEF WaitReturns, ToPop, LoopPc, Handles
<1>4. CASE ReceiveResult
  BY <1>4, <1>t, OrderFrame DEF ReceiveResult, ToPop, LoopPc
<1>5. CASE SendResult
  BY <1>5, <1>t, OrderFrame DEF SendResult, ToPop, LoopPc
<1>6. CASE Pop
  <2>1. ToPop /\ ~ToPop'
    BY <1>6, <1>t DEF Pop, ToPop, AtWork
  <2>2. /\ Len(mSendBuffers) > 0 /\ Len(mSendBuffers') = Len(mSendBuffers) - 1
        /\ \A k \in 1..Len(mSendBuffers') :
             k + 1 \in 1..Len(mSendBuffers) /\ mSendBuffers'[k] = mSendBuffers[k + 1]
        /\ Increasing(mSendBuffers')
    BY <1>6, <1>t, TailFacts DEF Pop, Order, InOrder
  <2>3. \A x \in Waiting : x # mSendBuffers[1] => x \in Waiting'
    <3>1. SUFFICES ASSUME NEW k \in 1..Len(mSendBuffers),
                          mSendBuffers[k] # mSendBuffers[1]
                   PROVE  mSendBuffers[k] \in Waiting'
      BY DEF Waiting
    <3>2. k - 1 \in 1..Len(mSendBuffers') /\ mSendBuffers'[k - 1] = mSendBuffers[k]
      BY <1>t, <2>2, <3>1, LenProperties
    <3> QED BY <3>2 DEF Waiting
  <2>4. InOrder'
    <3>1. /\ Increasing(flight)' /\ app' = app /\ sends' = sends /\ flight' = flight
          /\ app = "post" => sends \in Waiting'
      BY <1>6, <2>1, <2>3 DEF Pop, Order, InOrder, FrontIsOver, Increasing
    <3> QED BY <2>2, <3>1 DEF Order, InOrder
  <2>5. BufferOutlivesSend'
    BY <1>6, <2>1, <2>3 DEF Pop, Order, FrontIsOver, BufferOutlivesSend
  <2> QED BY <2>1, <2>4, <2>5 DEF Order, FrontIsOver
<1>7. CASE ResetEvent
  BY <1>7, <1>t, OrderFrame DEF ResetEvent, Reset, ToPop, LoopPc, Handles
<1> QED BY <1>1, <1>2, <1>3, <1>4, <1>5, <1>6, <1>7 DEF LoopStep

\* A send that completes was the first under way, so no later than the front of
\* the queue; all others are later.
LEMMA CompletionOrder ==
  ASSUME TypeOK, AtWork, Order, ~spoiled, SendCompletes PROVE Order'
<1> USE DEF SendCompletes, WinsockKeeps, buffers
<1>1. /\ mSendBuffers \in Seq(Sent) /\ flight \in Seq(Sent)
      /\ \A k \in 1..Len(mSendBuffers) : mSendBuffers[k] \in Nat
      /\ \A k \in 1..Len(flight) : flight[k] \in Nat
      /\ Len(mSendBuffers) \in Nat /\ Len(flight) \in Nat
  BY ElementOfSeq, LenProperties, SentIsNat DEF TypeOK, Sent
<1>2. /\ Len(flight) > 0 /\ Len(flight') = Len(flight) - 1
      /\ \A k \in 1..Len(flight') :
           k + 1 \in 1..Len(flight) /\ flight'[k] = flight[k + 1]
      /\ Increasing(flight')
      /\ \A k \in 2..Len(flight) : flight[1] < flight[k]
  BY <1>1, TailFacts DEF Order, InOrder
<1>3. Waiting' = Waiting
  BY DEF Waiting
<1>4. InOrder'
  <2>1. /\ Increasing(mSendBuffers)' /\ mSendBuffers' = mSendBuffers
        /\ sends' = sends /\ app' = app
    BY DEF Order, InOrder, Increasing
  <2> QED BY <1>2, <1>3, <2>1 DEF Order, InOrder
<1>5. BufferOutlivesSend'
  BY <1>2, <1>3 DEF Order, BufferOutlivesSend
<1>6. PICK j \in 1..Len(mSendBuffers) : mSendBuffers[j] = flight[1]
  BY <1>1, <1>2 DEF Order, BufferOutlivesSend, Waiting
<1>7. mSendBuffers[1] <= flight[1] /\ mSendBuffers # <<>>
  <2>1. 1 \in 1..Len(mSendBuffers)
    BY <1>1, <1>6
  <2>2. CASE j = 1
    BY <1>1, <1>6, <2>1, <2>2, EmptySeq
  <2>3. CASE 1 < j
    BY <1>1, <1>6, <2>1, <2>3, EmptySeq DEF Order, InOrder, Increasing
  <2> QED BY <2>2, <2>3, <1>6
<1>8. FrontIsOver'
  <2>1. \A k \in 1..Len(flight') : flight'[k] # mSendBuffers[1]
    <3>1. TAKE k \in 1..Len(flight')
    <3>2. k + 1 \in 2..Len(flight) /\ flight'[k] = flight[k + 1]
      BY <1>1, <1>2
    <3> QED BY <1>1, <1>2, <1>6, <1>7, <3>2
  <2>2. app = "post" => mSendBuffers[1] # sends
    <3>1. flight[1] <= sends /\ (app = "post" => flight[1] # sends)
      BY <1>1, <1>2 DEF Order, InOrder
    <3> QED BY <1>1, <1>2, <1>6, <1>7, <3>1 DEF TypeOK
  <2> QED BY <1>7, <2>1, <2>2 DEF FrontIsOver
<1> QED BY <1>4, <1>5, <1>8 DEF Order

LEMMA NextIInv == IInv /\ [Next]_vars => IInv'
<1> SUFFICES ASSUME IInv, [Next]_vars PROVE IInv'
  OBVIOUS
<1>1. ASSUME TypeOK', AtWork', ~spoiled /\ ~spoiled' => Order', spoiled => spoiled'
      PROVE  IInv'
  BY <1>1 DEF IInv, Order
<1>2. TypeOK /\ AtWork /\ (~spoiled => Order)
  BY DEF IInv, Order
<1>3. CASE AppCall \/ AppStep
  <2>1. spoiled => spoiled'
    BY <1>3 DEF AppCall, AppStep, Connect, ConnectFails, SendData, Disconnect, Destroy,
       ReceivePends, ReceiveAtOnce, PrepareThrows, Push, PushLost, SendPends, SendAtOnce,
       SendThrows, Signal, CloseSocket, buffers
  <2> QED BY <1>1, <1>2, <1>3, <2>1, AppTypes, AppOrder
<1>4. CASE LoopStep
  <2>1. spoiled' = spoiled
    BY <1>4 DEF LoopStep, LoopStart, LoopTest, WaitReturns, ReceiveResult, SendResult,
       Pop, ResetEvent, LoopKeeps
  <2> QED BY <1>1, <1>2, <1>4, <2>1, LoopTypes, LoopOrder
<1>5. CASE SendCompletes
  <2>1. spoiled' = spoiled
    BY <1>5 DEF SendCompletes, WinsockKeeps, buffers
  <2> QED BY <1>1, <1>2, <1>5, <2>1, OtherTypes, CompletionOrder DEF Completion
<1>6. CASE ReceiveCompletes
  <2>1. /\ UNCHANGED <<mSendBuffers, spoiled, flight, sends, app>>
        /\ ToPop' => ToPop
    BY <1>6, <1>2 DEF ReceiveCompletes, WinsockKeeps, buffers, ToPop, TypeOK, Handles
  <2> QED BY <1>1, <1>2, <1>6, <2>1, OtherTypes, OrderFrame DEF Completion
<1>7. CASE ServerReplies \/ ServerLeaves \/ Crash \/ Over
  <2>1. /\ UNCHANGED <<mSendBuffers, spoiled, flight, sends, app>>
        /\ ToPop' => ToPop
    BY <1>7 DEF ServerReplies, ServerLeaves, ServerKeeps, Crash, Over, vars, buffers,
       winsock, ToPop
  <2> QED BY <1>1, <1>2, <1>7, <2>1, OtherTypes, OrderFrame
<1>8. CASE UNCHANGED vars
  BY <1>8 DEF vars, buffers, winsock, remote, IInv, TypeOK, AtWork, InOrder, Increasing,
     Waiting, ToPop, FrontIsOver, BufferOutlivesSend
<1> QED BY <1>3, <1>4, <1>5, <1>6, <1>7, <1>8 DEF Next, Completion

-----------------------------------------------------------------------------

\* The strengthened invariant holds for any number of calls and replies: types, the
\* order of buffers and sends, and what a signal stands for (Client.cpp:162-288).
THEOREM Inductive == Spec => []IInv
<1> QED BY InitIInv, NextIInv, PTL DEF Spec

\* Every variable keeps its type; in particular no more is heard than was received
\* (Client.cpp:104-143, 208-245).
THEOREM TypeCorrect == Spec => []TypeOK
<1>1. IInv => TypeOK
  BY DEF IInv
<1> QED BY <1>1, Inductive, PTL

\* As long as no push has met a pop, the loop frees no buffer that Winsock is still
\* sending from (Client.cpp:226-245, 277-288).
THEOREM BuffersOutliveSends == Spec => []BufferOutlivesSend
<1>1. IInv => BufferOutlivesSend
  BY DEF IInv, BufferOutlivesSend
<1> QED BY <1>1, Inductive, PTL
=============================================================================
