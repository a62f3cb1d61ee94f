------------------------- MODULE PosixClientProofs -------------------------
(***************************************************************************)
(* The invariants of PosixClient for every number of calls, replies and    *)
(* bytes the pipe holds.                                                   *)
(***************************************************************************)
EXTENDS PosixClient, SequenceTheorems, TLAPS

\* ConcatAssociative, quantified.
LEMMA Associative == \A s, t, u \in Seq(Nat) : (s \o t) \o u = s \o (t \o u)
<1> SUFFICES ASSUME NEW s \in Seq(Nat), NEW t \in Seq(Nat), NEW u \in Seq(Nat)
             PROVE  (s \o t) \o u = s \o (t \o u)
  OBVIOUS
<1> QED BY ConcatAssociative

\* What recv returns and what it leaves make up what was there.
LEMMA TakenAndRest ==
  ASSUME TypeOK
  PROVE  Taken \in Seq(Nat) /\ Rest \in Seq(Nat) /\ Taken \o Rest = inbox
<1>1. inbox \in Seq(Nat) /\ Len(inbox) \in Nat
  BY DEF TypeOK
<1>2. Taking \in 0..Len(inbox)
  <2> DEFINE S == {RecvMax, Len(inbox)}
  <2>1. \E x \in S : \A y \in S : x <= y
    BY <1>1, ClientAssumption
  <2>2. Taking \in S /\ \A y \in S : Taking <= y
    BY <2>1 DEF Taking, Min
  <2> QED BY <1>1, <2>2, ClientAssumption
<1>3. Taken \in Seq(Nat) /\ Rest \in Seq(Nat)
  BY <1>1, <1>2, SubSeqProperties DEF Taken, Rest
<1>4. Taken \o Rest = SubSeq(inbox, 1, Len(inbox))
  <2>1. /\ 1 \in 1..Len(inbox) + 1 /\ Taking \in (1 - 1)..Len(inbox)
        /\ Len(inbox) \in Taking..Len(inbox)
    BY <1>1, <1>2
  <2> QED BY <1>1, <2>1, ConcatAdjacentSubSeq DEF Taken, Rest
<1> QED BY <1>1, <1>3, <1>4, SubSeqFull

\* One more reply.
LEMMA NumberedGrows ==
  ASSUME NEW n \in Nat
  PROVE  /\ Numbered(n) \in Seq(Nat)
         /\ Append(Numbered(n), n + 1) = Numbered(n + 1)
<1>1. Numbered(n) \in Seq(Nat) /\ Len(Numbered(n)) = n
  BY DEF Numbered
<1>2. Numbered(n + 1) \in Seq(Nat) /\ Len(Numbered(n + 1)) = n + 1
  BY DEF Numbered
<1>3. /\ Append(Numbered(n), n + 1) \in Seq(Nat)
      /\ Len(Append(Numbered(n), n + 1)) = n + 1
      /\ \A i \in 1..n + 1 : Append(Numbered(n), n + 1)[i] = i
  BY <1>1, AppendProperties DEF Numbered
<1>4. \A i \in 1..n + 1 : Numbered(n + 1)[i] = i
  BY DEF Numbered
<1> QED BY <1>1, <1>2, <1>3, <1>4, SeqEqual

LEMMA InitIInv == Init => IInv
<1> SUFFICES ASSUME Init PROVE IInv
  OBVIOUS
<1>1. TypeOK
  <2>1. /\ pipe \in 0..PipeCap /\ sends \in 0..MaxSends
        /\ replies \in 0..MaxReplies
    BY ClientAssumption DEF Init
  <2>2. loop \in [pc : LoopPc, reads : BOOLEAN, writes : BOOLEAN,
                  woken : BOOLEAN]
    BY DEF Init, LoopPc
  <2>3. /\ mOutgoingBytes \in Seq(Nat) /\ inbox \in Seq(Nat)
        /\ got \in Seq(Nat) /\ heard \in Seq(Nat) /\ copy \in Seq(Nat)
    BY EmptySeq DEF Init
  <2>4. /\ status \in {"up", "crashed"} /\ app \in AppPc /\ server \in ServerPc
        /\ mConnected \in BOOLEAN /\ mMasterWrite \in BOOLEAN
        /\ sock \in {"none", "open", "shut", "closed"} /\ full \in BOOLEAN
        /\ torn \in BOOLEAN
    BY DEF Init, AppPc, ServerPc
  <2> QED BY <2>1, <2>2, <2>3, <2>4 DEF TypeOK
<1>2. <<>> \o <<>> = Numbered(0)
  BY DEF Numbered
<1> QED BY <1>1, <1>2 DEF Init, IInv, Handshake, RepliesInOrder, Ack

\* The first bytes twice.
LEMMA ShiftedType ==
  ASSUME NEW q \in Seq(Nat)
  PROVE  Shifted(q) \in Seq(Nat)
<1>1. CASE q = <<>>
  BY <1>1 DEF Shifted
<1>2. CASE q # <<>>
  <2>1. q[1] \in Nat
    BY <1>2, EmptySeq
  <2>2. <<q[1]>> \in Seq(Nat)
    BY <2>1
  <2> QED BY <1>2, <2>2, ConcatProperties DEF Shifted
<1> QED BY <1>1, <1>2

\* Steps of the calling thread.
LEMMA AppPreserves == IInv /\ (AppCall \/ AppStep) => IInv'
<1> SUFFICES ASSUME IInv, AppCall \/ AppStep PROVE IInv'
  OBVIOUS
<1> USE ClientAssumption
<1>1. TypeOK /\ Handshake /\ RepliesInOrder
  BY DEF IInv
<1>2. CASE Connect \/ ConnectFails
  <2>1. TypeOK'
    BY <1>1, <1>2
    DEF TypeOK, Connect, ConnectFails, AppKeeps, AppPc, ServerPc
  <2>2. Handshake' /\ RepliesInOrder'
    BY <1>1, <1>2
    DEF Connect, ConnectFails, AppAt, AppKeeps, Handshake, RepliesInOrder
  <2> QED BY <2>1, <2>2 DEF IInv
<1>3. CASE ReadAck
  <2>1. inbox' = <<>>
    BY <1>1, <1>3 DEF ReadAck, AppAt, AckTaken, Handshake
  <2>2. TypeOK'
    BY <1>1, <1>3, <2>1 DEF TypeOK, ReadAck, AppKeeps, shared, AppPc
  <2>3. heard' = <<>> /\ replies' = 0 /\ server # "accepting"
    BY <1>1, <1>3 DEF ReadAck, AppAt, AppKeeps, Handshake, Left
  <2>4. RepliesInOrder'
    BY <2>1, <2>3 DEF RepliesInOrder, Numbered
  <2>5. Handshake'
    BY <1>1, <1>3, <2>1, <2>3 DEF Handshake, ReadAck, AppAt, AppKeeps
  <2> QED BY <2>2, <2>4, <2>5 DEF IInv
<1>4. CASE Identify
  <2>1. got' \in Seq(Nat)
    BY <1>1, <1>4, AppendProperties DEF TypeOK, Identify, Id
  <2>2. TypeOK'
    BY <1>1, <1>4, <2>1 DEF TypeOK, Identify, AppKeeps, AppPc, ServerPc
  <2>3. Handshake' /\ RepliesInOrder'
    BY <1>1, <1>4
    DEF Identify, AppAt, AppKeeps, Handshake, RepliesInOrder, Left
  <2> QED BY <2>2, <2>3 DEF IInv
<1>5. CASE SendData \/ Flag \/ Wakeup \/ Disconnect \/ PollWritable \/ Shut
           \/ CloseSocket \/ Destroy \/ Reserve \/ Install \/ InsertLost \/ Insert
  <2>1. /\ mOutgoingBytes' \in Seq(Nat) /\ copy' \in Seq(Nat)
        /\ torn' \in BOOLEAN
    <3>1. <<sends>> \in Seq(Nat) /\ mOutgoingBytes \in Seq(Nat)
          /\ copy \in Seq(Nat) /\ <<>> \in Seq(Nat)
      BY <1>1, EmptySeq DEF TypeOK
    <3>2. <<sends>> \o mOutgoingBytes \in Seq(Nat)
      BY <3>1, ConcatProperties
    <3>3. Shifted(mOutgoingBytes) \in Seq(Nat)
      BY <3>1, ShiftedType
    <3>4. CASE Reserve \/ Install \/ InsertLost \/ Insert
      BY <1>1, <3>1, <3>2, <3>3, <3>4
      DEF Reserve, Install, InsertLost, Insert, AppKeeps, shared, TypeOK
    <3>5. CASE ~(Reserve \/ Install \/ InsertLost \/ Insert)
      BY <1>1, <1>5, <3>5
      DEF SendData, Flag, Wakeup, Disconnect, PollWritable, Shut, CloseSocket,
          Destroy, AppKeeps, shared, TypeOK
    <3> QED BY <3>4, <3>5
  <2>2. TypeOK'
    <3>1. pipe' \in 0..PipeCap /\ sends' \in 0..MaxSends
      BY <1>1, <1>5
      DEF TypeOK, SendData, Flag, Wakeup, Disconnect, PollWritable, Shut,
          CloseSocket, Destroy, Reserve, Install, InsertLost, Insert, shared
    <3>2. /\ app' \in AppPc /\ mConnected' \in BOOLEAN
          /\ mMasterWrite' \in BOOLEAN
          /\ sock' \in {"none", "open", "shut", "closed"}
      BY <1>1, <1>5
      DEF TypeOK, SendData, Flag, Wakeup, Disconnect, PollWritable, Shut,
          CloseSocket, Destroy, Reserve, Install, InsertLost, Insert, shared,
          AppPc, AfterFlag
    <3>3. UNCHANGED <<status, loop, full, replies, heard, server, inbox, got>>
      BY <1>5
      DEF SendData, Flag, Wakeup, Disconnect, PollWritable, Shut, CloseSocket,
          Destroy, Reserve, Install, InsertLost, Insert, AppKeeps, shared
    <3> QED BY <1>1, <2>1, <3>1, <3>2, <3>3 DEF TypeOK
  <2>3. /\ app \notin {"new", "ack", "identify"}
        /\ app' \notin {"new", "ack", "identify"}
        /\ UNCHANGED <<loop, replies, heard, server, inbox>>
    BY <1>5
    DEF SendData, Flag, Wakeup, Disconnect, PollWritable, Shut, CloseSocket,
        Destroy, Reserve, Install, InsertLost, Insert, AppAt, AppKeeps, AfterFlag
  <2>4. Handshake' /\ RepliesInOrder'
    BY <1>1, <2>3 DEF Handshake, RepliesInOrder
  <2> QED BY <2>2, <2>4 DEF IInv
<1> QED BY <1>2, <1>3, <1>4, <1>5 DEF AppCall, AppStep

\* Steps of the loop: none of them runs before the identifier is sent.
LEMMA LoopPreserves == IInv /\ LoopStep => IInv'
<1> SUFFICES ASSUME IInv, LoopStep PROVE IInv'
  OBVIOUS
<1> USE ClientAssumption
<1>1. TypeOK /\ Handshake /\ RepliesInOrder
  BY DEF IInv
<1>2. app \notin {"new", "ack", "identify"} /\ UNCHANGED <<app, replies, server>>
  BY <1>1
  DEF LoopStep, LoopStart, LoopTop, SelectEnter, SelectReturn, NothingToRead,
      Receive, ReceiveEnds, ReceiveFails, Drain, NothingToWrite, Flush, Clear,
      LoopAt, LoopOnly, LoopKeeps, Handshake
<1>3. heard' \o inbox' = heard \o inbox /\ heard' \in Seq(Nat)
                                        /\ inbox' \in Seq(Nat)
  <2>0. heard \in Seq(Nat) /\ inbox \in Seq(Nat)
    BY <1>1 DEF TypeOK
  <2>1. CASE Receive
    <3>1. Taken \in Seq(Nat) /\ Rest \in Seq(Nat) /\ Taken \o Rest = inbox
      BY <1>1, TakenAndRest
    <3>2. heard \o Taken \in Seq(Nat)
      BY <2>0, <3>1, ConcatProperties
    <3>3. (heard \o Taken) \o Rest = heard \o inbox
      BY <2>0, <3>1, Associative
    <3> QED BY <2>1, <3>1, <3>2, <3>3 DEF Receive
  <2>2. CASE ~Receive
    BY <2>0, <2>2
    DEF LoopStep, LoopStart, LoopTop, SelectEnter, SelectReturn, NothingToRead,
        ReceiveEnds, ReceiveFails, Drain, NothingToWrite, Flush, Clear, LoopOnly
  <2> QED BY <2>1, <2>2
<1>4. inbox' = <<>> \/ server # "accepting"
  BY <1>1, <1>2 DEF Handshake
<1>5. Handshake' /\ RepliesInOrder'
  BY <1>1, <1>2, <1>3, <1>4 DEF Handshake, RepliesInOrder
<1>6. mOutgoingBytes' \in Seq(Nat) /\ got' \in Seq(Nat)
  <2>1. CASE Flush
    <3>1. mOutgoingBytes \in Seq(Nat) /\ got \in Seq(Nat)
      BY <1>1 DEF TypeOK
    <3>2. PICK n \in Accepted(Len(mOutgoingBytes)) :
            got' = got \o SubSeq(mOutgoingBytes, 1, n)
      BY <2>1 DEF Flush
    <3>3. n \in 0..Len(mOutgoingBytes)
      BY <3>1, <3>2 DEF Accepted
    <3>4. SubSeq(mOutgoingBytes, 1, n) \in Seq(Nat)
      BY <3>1, <3>3, SubSeqProperties
    <3>5. got' \in Seq(Nat)
      BY <3>1, <3>2, <3>4, ConcatProperties
    <3> QED BY <2>1, <3>5 DEF Flush, QueueSwapped
  <2>2. CASE ~Flush
    BY <1>1, <2>2
    DEF LoopStep, LoopStart, LoopTop, SelectEnter, SelectReturn, NothingToRead,
        Receive, ReceiveEnds, ReceiveFails, Drain, NothingToWrite, Clear,
        LoopOnly, TypeOK
  <2> QED BY <2>1, <2>2
<1>7. loop' \in [pc : LoopPc, reads : BOOLEAN, writes : BOOLEAN, woken : BOOLEAN]
  <2>1. loop \in [pc : LoopPc, reads : BOOLEAN, writes : BOOLEAN, woken : BOOLEAN]
    BY <1>1 DEF TypeOK
  <2>2. CASE LoopTop
    BY <1>1, <2>1, <2>2 DEF LoopTop, LoopPc, TypeOK
  <2>3. CASE SelectReturn
    <3>1. Readable \in BOOLEAN /\ (loop.writes /\ Writable) \in BOOLEAN
                               /\ (pipe > 0) \in BOOLEAN
      BY DEF Readable, Writable
    <3>2. \A r, w, k \in BOOLEAN :
            [loop EXCEPT !.pc = "read", !.reads = r, !.writes = w, !.woken = k]
              \in [pc : LoopPc, reads : BOOLEAN, writes : BOOLEAN,
                   woken : BOOLEAN]
      BY <2>1 DEF LoopPc
    <3>3. [loop EXCEPT !.pc = "returned"]
              \in [pc : LoopPc, reads : BOOLEAN, writes : BOOLEAN,
                   woken : BOOLEAN]
      BY <2>1 DEF LoopPc
    <3> QED BY <2>3, <3>1, <3>2, <3>3 DEF SelectReturn
  <2>4. CASE ~(LoopTop \/ SelectReturn)
    BY <2>1, <2>4
    DEF LoopStep, LoopStart, SelectEnter, NothingToRead, Receive, ReceiveEnds,
        ReceiveFails, Drain, NothingToWrite, Flush, Clear, ToDrain, LoopPc
  <2> QED BY <2>2, <2>3, <2>4
<1>8. /\ mConnected' \in BOOLEAN /\ mMasterWrite' \in BOOLEAN
      /\ full' \in BOOLEAN /\ pipe' \in 0..PipeCap
  BY <1>1
  DEF LoopStep, LoopStart, LoopTop, SelectEnter, SelectReturn, NothingToRead,
      Receive, ReceiveEnds, ReceiveFails, Drain, NothingToWrite, Flush, Clear,
      LoopOnly, TypeOK, EndSeen, RecvOnPipe
<1>9. UNCHANGED <<status, sock, app, copy, sends, server, replies>> /\ torn' \in BOOLEAN
  BY <1>1
  DEF TypeOK, LoopKeeps, LoopStep, LoopStart, LoopTop, SelectEnter, SelectReturn,
      NothingToRead, Receive, ReceiveEnds, ReceiveFails, Drain, NothingToWrite, Flush, Clear,
      LoopOnly
<1>10. TypeOK'
  BY <1>1, <1>3, <1>6, <1>7, <1>8, <1>9 DEF TypeOK
<1> QED BY <1>5, <1>10 DEF IInv

\* Steps of the server, and the end of the process.
LEMMA OutsidePreserves ==
  IInv /\ (ServerStep \/ Crash \/ Over \/ UNCHANGED vars) => IInv'
<1> SUFFICES ASSUME IInv, ServerStep \/ Crash \/ Over \/ UNCHANGED vars
             PROVE  IInv'
  OBVIOUS
<1> USE ClientAssumption
<1>1. TypeOK /\ Handshake /\ RepliesInOrder
  BY DEF IInv
<1>2. CASE ServerAccepts
  <2>1. app = "ack" /\ inbox' = <<Ack>> /\ server' = "greeting"
    BY <1>1, <1>2 DEF ServerAccepts, Handshake
  <2>2. TypeOK'
    BY <1>1, <1>2, <2>1
    DEF TypeOK, ServerAccepts, ServerKeeps, shared, ServerPc, Ack
  <2>3. Handshake' /\ RepliesInOrder'
    BY <1>1, <1>2, <2>1
    DEF Handshake, RepliesInOrder, ServerAccepts, ServerKeeps
  <2> QED BY <2>2, <2>3 DEF IInv
<1>3. CASE ServerReplies
  <2>1. inbox \in Seq(Nat) /\ heard \in Seq(Nat) /\ replies \in Nat
    BY <1>1 DEF TypeOK
  <2>2. replies' = replies + 1 /\ inbox' = Append(inbox, replies + 1)
                               /\ heard' = heard
    BY <1>3 DEF ServerReplies, ServerKeeps
  <2>3. inbox' \in Seq(Nat)
    BY <2>1, <2>2, AppendProperties
  <2>4. TypeOK'
    BY <1>1, <1>3, <2>3 DEF TypeOK, ServerReplies, ServerKeeps, shared
  <2>5. app \notin {"new", "ack", "identify"} /\ heard \o inbox = Numbered(replies)
    BY <1>1, <1>3 DEF ServerReplies, Handshake, RepliesInOrder
  <2>6. heard' \o inbox' = Append(heard \o inbox, replies + 1)
    <3>1. Append(inbox, replies + 1) = inbox \o <<replies + 1>>
      BY <2>1, AppendIsConcat
    <3>2. heard \o inbox \in Seq(Nat) /\ <<replies + 1>> \in Seq(Nat)
      BY <2>1, ConcatProperties
    <3>3. Append(heard \o inbox, replies + 1) = (heard \o inbox) \o <<replies + 1>>
      BY <2>1, <3>2, AppendIsConcat
    <3> QED BY <2>1, <2>2, <3>1, <3>2, <3>3, ConcatAssociative
  <2>7. RepliesInOrder'
    BY <2>1, <2>2, <2>5, <2>6, NumberedGrows DEF RepliesInOrder
  <2>8. Handshake'
    BY <1>1, <1>3, <2>5 DEF Handshake, ServerReplies, ServerKeeps
  <2> QED BY <2>4, <2>7, <2>8 DEF IInv
<1>4. CASE ServerReads \/ ServerLeaves \/ Crash \/ Over \/ UNCHANGED vars
  <2>1. TypeOK'
    <3>1. CASE ServerReads \/ ServerLeaves
      BY <1>1, <3>1
      DEF TypeOK, ServerReads, ServerLeaves, ServerKeeps, shared, ServerPc
    <3>2. CASE Crash
      BY <1>1, <3>2 DEF TypeOK, Crash, shared, remote
    <3>3. CASE Over \/ UNCHANGED vars
      BY <1>1, <3>3 DEF TypeOK, Over, vars, shared, remote
    <3> QED BY <1>4, <3>1, <3>2, <3>3
  <2>2. /\ UNCHANGED <<app, loop, replies, heard, inbox>>
        /\ server' = server \/ server' \in {"closed", "reset"}
    BY <1>4 DEF ServerReads, ServerLeaves, Crash, Over, vars, ServerKeeps, remote
  <2>3. Handshake' /\ RepliesInOrder'
    BY <1>1, <2>2 DEF Handshake, RepliesInOrder
  <2> QED BY <2>1, <2>3 DEF IInv
<1> QED BY <1>2, <1>3, <1>4 DEF ServerStep

-----------------------------------------------------------------------------
(* The theorems *)

\* The strengthened invariant holds of every state of the client's two threads and of
\* the server at the other end.
THEOREM Inductive == Spec => []IInv
<1>1. IInv /\ [Next]_vars => IInv'
  BY AppPreserves, LoopPreserves, OutsidePreserves DEF Next
<1> QED BY InitIInv, <1>1, PTL DEF Spec

\* Every variable keeps its type.
THEOREM TypeCorrect == Spec => []TypeOK
<1>1. IInv => TypeOK
  BY DEF IInv
<1> QED BY Inductive, <1>1, PTL

\* The application hears every reply once and in order, and never the
\* acknowledgement, whenever the server sends and however little recv returns.
THEOREM RepliesAreInOrder == Spec => []RepliesInOrder
<1>1. IInv => RepliesInOrder
  BY DEF IInv
<1> QED BY Inductive, <1>1, PTL

\* The client's loop never sleeps on a send or a disconnect that is over.
THEOREM NoWakeupIsLost == Spec => []WakeupNotLost
<1>1. Init => NothingLeftBehind
  BY DEF Init, NothingLeftBehind
<1>2. IInv /\ NothingLeftBehind /\ [Next]_vars => NothingLeftBehind'
  <2> SUFFICES ASSUME IInv, NothingLeftBehind, [Next]_vars
               PROVE  NothingLeftBehind'
    OBVIOUS
  <2>0. /\ pipe \in Nat
        /\ loop \in [pc : LoopPc, reads : BOOLEAN, writes : BOOLEAN,
                     woken : BOOLEAN]
    BY ClientAssumption DEF IInv, TypeOK
  <2>1. CASE LoopTop \/ SelectEnter
    BY <2>0, <2>1
    DEF LoopTop, SelectEnter, LoopAt, LoopOnly, LoopKeeps, NothingLeftBehind
  <2>2. CASE LoopStep /\ ~(LoopTop \/ SelectEnter)
    <3>1. CASE SelectReturn
      <4>1. loop'.pc \in {"read", "returned"}
        BY <2>0, <3>1 DEF SelectReturn
      <4> QED BY <4>1 DEF NothingLeftBehind
    <3>2. CASE ~SelectReturn
      <4>1. loop'.pc \notin {"select", "waiting"}
        BY <2>0, <2>2, <3>2
        DEF LoopStep, LoopStart, NothingToRead, Receive, ReceiveEnds,
            ReceiveFails, Drain, NothingToWrite, Flush, Clear, ToDrain
      <4> QED BY <4>1 DEF NothingLeftBehind
    <3> QED BY <3>1, <3>2
  <2>3. CASE Identify
    BY <2>3 DEF Identify, AppAt, AppKeeps, IInv, Handshake, NothingLeftBehind
  <2>4. CASE Wakeup
    BY <2>0, <2>4 DEF Wakeup, NothingLeftBehind
  <2>5. CASE (AppCall \/ AppStep) /\ ~(Identify \/ Wakeup)
    <3>1. app' # "idle"
      BY <2>5
      DEF AppCall, AppStep, Connect, ConnectFails, SendData, Disconnect, Destroy,
          ReadAck, Reserve, Install, Insert, InsertLost, Flag, PollWritable, Shut,
          CloseSocket, AfterFlag
    <3> QED BY <3>1 DEF NothingLeftBehind
  <2>6. CASE ServerStep \/ Crash \/ Over \/ UNCHANGED vars
    BY <2>6
    DEF ServerStep, ServerAccepts, ServerReplies, ServerReads, ServerLeaves,
        Crash, Over, vars, ServerKeeps, shared, NothingLeftBehind
  <2> QED BY <2>1, <2>2, <2>3, <2>4, <2>5, <2>6 DEF Next
<1>3. IInv /\ NothingLeftBehind => WakeupNotLost
  <2>1. IInv => pipe \in Nat
    BY ClientAssumption DEF IInv, TypeOK
  <2>2. pipe \in Nat => pipe = 0 \/ pipe > 0
    OBVIOUS
  <2> QED BY <2>1, <2>2 DEF NothingLeftBehind, WakeupNotLost
<1> QED BY Inductive, <1>1, <1>2, <1>3, PTL DEF Spec

-----------------------------------------------------------------------------
(* No message reaches the server twice *)

\* Two sequences without repetitions that have nothing in common.
LEMMA JoinedNumbers ==
  ASSUME NEW s \in Seq(Nat), NEW t \in Seq(Nat)
  PROVE  /\ Numbers(s \o t) = Numbers(s) \cup Numbers(t)
         /\ NoRepeats(s) /\ NoRepeats(t) /\ Numbers(s) \cap Numbers(t) = {}
              => NoRepeats(s \o t)
<1>1. /\ s \o t \in Seq(Nat) /\ Len(s \o t) = Len(s) + Len(t)
      /\ Len(s) \in Nat /\ Len(t) \in Nat
      /\ \A i \in 1..Len(s) + Len(t) :
           (s \o t)[i] = IF i <= Len(s) THEN s[i] ELSE t[i - Len(s)]
  BY ConcatProperties
<1>2. Numbers(s \o t) = Numbers(s) \cup Numbers(t)
  <2>1. \A i \in 1..Len(s) + Len(t) :
          (s \o t)[i] \in Numbers(s) \cup Numbers(t)
    <3> SUFFICES ASSUME NEW i \in 1..Len(s) + Len(t)
                 PROVE  (s \o t)[i] \in Numbers(s) \cup Numbers(t)
      OBVIOUS
    <3>1. CASE i <= Len(s)
      <4>1. i \in 1..Len(s) /\ (s \o t)[i] = s[i]
        BY <1>1, <3>1
      <4> QED BY <4>1 DEF Numbers
    <3>2. CASE ~(i <= Len(s))
      <4>1. i - Len(s) \in 1..Len(t) /\ (s \o t)[i] = t[i - Len(s)]
        BY <1>1, <3>2
      <4> QED BY <4>1 DEF Numbers
    <3> QED BY <3>1, <3>2
  <2>2. \A i \in 1..Len(s) : i \in 1..Len(s) + Len(t) /\ (s \o t)[i] = s[i]
    BY <1>1
  <2>3. \A i \in 1..Len(t) : /\ i + Len(s) \in 1..Len(s) + Len(t)
                            /\ (s \o t)[i + Len(s)] = t[i]
    BY <1>1
  <2>4. /\ \A x : x \in Numbers(s) <=> \E i \in 1..Len(s) : x = s[i]
        /\ \A x : x \in Numbers(t) <=> \E i \in 1..Len(t) : x = t[i]
        /\ \A x : x \in Numbers(s \o t) <=>
                 \E i \in 1..Len(s) + Len(t) : x = (s \o t)[i]
    BY <1>1 DEF Numbers
  <2>5. Numbers(s \o t) \subseteq Numbers(s) \cup Numbers(t)
    BY <2>1, <2>4
  <2>6. ASSUME NEW x \in Numbers(s)
        PROVE  x \in Numbers(s \o t)
    <3>1. PICK i \in 1..Len(s) : x = s[i]
      BY <2>4
    <3>2. i \in 1..Len(s) + Len(t) /\ x = (s \o t)[i]
      BY <2>2, <3>1
    <3> QED BY <2>4, <3>2
  <2>7. ASSUME NEW x \in Numbers(t)
        PROVE  x \in Numbers(s \o t)
    <3>1. PICK i \in 1..Len(t) : x = t[i]
      BY <2>4
    <3>2. i + Len(s) \in 1..Len(s) + Len(t) /\ x = (s \o t)[i + Len(s)]
      BY <2>3, <3>1
    <3> QED BY <2>4, <3>2
  <2> QED BY <2>5, <2>6, <2>7
<1>3. ASSUME NoRepeats(s), NoRepeats(t), Numbers(s) \cap Numbers(t) = {}
      PROVE  NoRepeats(s \o t)
  <2> SUFFICES ASSUME NEW j \in 1..Len(s) + Len(t), NEW k \in 1..Len(s) + Len(t),
                      (s \o t)[j] = (s \o t)[k]
               PROVE  j = k
    BY <1>1 DEF NoRepeats
  <2>1. CASE j <= Len(s) /\ k <= Len(s)
    BY <1>1, <1>3, <2>1 DEF NoRepeats
  <2>2. CASE j > Len(s) /\ k > Len(s)
    <3>1. /\ j - Len(s) \in 1..Len(t) /\ k - Len(s) \in 1..Len(t)
          /\ t[j - Len(s)] = t[k - Len(s)]
      BY <1>1, <2>2
    <3>2. j - Len(s) = k - Len(s)
      BY <1>3, <3>1 DEF NoRepeats
    <3> QED BY <1>1, <3>2
  <2>3. CASE \/ j <= Len(s) /\ k > Len(s)
             \/ k <= Len(s) /\ j > Len(s)
    <3>1. \A i \in 1..Len(s), l \in 1..Len(t) : s[i] # t[l]
      BY <1>3 DEF Numbers
    <3>2. CASE j <= Len(s)
      BY <1>1, <2>3, <3>1, <3>2, j \in 1..Len(s), k - Len(s) \in 1..Len(t)
    <3>3. CASE k <= Len(s)
      BY <1>1, <2>3, <3>1, <3>3, k \in 1..Len(s), j - Len(s) \in 1..Len(t)
    <3> QED BY <2>3, <3>2, <3>3
  <2> QED BY <1>1, <2>1, <2>2, <2>3
<1> QED BY <1>2, <1>3

\* What send takes of the queue is part of it.
LEMMA PrefixNumbers ==
  ASSUME NEW s \in Seq(Nat), NEW n \in 0..Len(s)
  PROVE  /\ SubSeq(s, 1, n) \in Seq(Nat)
         /\ Numbers(SubSeq(s, 1, n)) \subseteq Numbers(s)
         /\ NoRepeats(s) => NoRepeats(SubSeq(s, 1, n))
<1>1. /\ SubSeq(s, 1, n) \in Seq(Nat) /\ Len(SubSeq(s, 1, n)) = n
      /\ \A i \in 1..n : SubSeq(s, 1, n)[i] = s[i] /\ i \in 1..Len(s)
  BY SubSeqProperties
<1> QED BY <1>1 DEF Numbers, NoRepeats

\* A single message.
LEMMA OneNumber ==
  ASSUME NEW x
  PROVE  Numbers(<<x>>) = {x} /\ NoRepeats(<<x>>)
  BY DEF Numbers, NoRepeats

LEMMA NoNumber == Numbers(<<>>) = {} /\ NoRepeats(<<>>)
  BY DEF Numbers, NoRepeats

\* OnePlace, while nothing is torn.
Placed ==
  /\ app \in {"new", "ack", "identify"} => mOutgoingBytes = <<>> /\ got = <<>>
  /\ Numbers(mOutgoingBytes) \subseteq 1..sends
  /\ Numbers(got) \subseteq 0..sends
  /\ app \in {"reserve", "install", "insert"} =>
       sends > 0 /\ sends \notin Numbers(mOutgoingBytes) \cup Numbers(got)
  /\ app = "install" => mOutgoingBytes = copy
  /\ Numbers(mOutgoingBytes) \cap Numbers(got) = {}
  /\ NoRepeats(mOutgoingBytes) /\ NoRepeats(got)

LEMMA OnePlaceIsPlaced == OnePlace <=> torn \/ Placed
BY DEF OnePlace, Placed

\* Steps that touch neither the queue nor what the server has.
LEMMA PlacesKept ==
  ASSUME Placed, UNCHANGED <<mOutgoingBytes, got, sends>>,
         \/ app' = app /\ copy' = copy
         \/ app' \notin {"new", "ack", "identify", "reserve", "install", "insert"}
         \/ app \in {"new", "ack"} /\ app' \notin {"reserve", "install", "insert"}
         \/ app = "reserve" /\ app' = "install" /\ copy' = mOutgoingBytes
         \/ app = "install" /\ app' = "insert"
  PROVE  Placed'
<1>1. UNCHANGED <<Numbers(mOutgoingBytes), Numbers(got), NoRepeats(mOutgoingBytes),
                  NoRepeats(got)>>
  BY DEF Numbers, NoRepeats
<1> QED BY <1>1 DEF Placed

LEMMA TornStays == IInv /\ torn /\ [Next]_vars => torn'
BY DEF Next, LoopStep, AppCall, AppStep, ServerStep, Connect, ConnectFails, SendData,
       Disconnect, Destroy, ReadAck, Identify, Reserve, Install, Insert, InsertLost,
       Flag, Wakeup, PollWritable, Shut, CloseSocket, AppKeeps, LoopStart, LoopTop,
       SelectEnter, SelectReturn, NothingToRead, Receive, ReceiveEnds, ReceiveFails,
       Drain, NothingToWrite, Flush, Clear, LoopOnly, LoopKeeps, ServerAccepts,
       ServerReplies, ServerReads, ServerLeaves, ServerKeeps, Crash, Over, vars

LEMMA PlacesPreserved ==
  ASSUME IInv, Placed, [Next]_vars, ~torn'
  PROVE  Placed'
<1>1. /\ TypeOK /\ mOutgoingBytes \in Seq(Nat) /\ got \in Seq(Nat)
      /\ sends \in Nat
  BY ClientAssumption DEF IInv, TypeOK
<1>2. CASE LoopStep /\ ~Flush
  <2>1. UNCHANGED <<mOutgoingBytes, got, sends, app, copy>>
    BY <1>2
    DEF LoopStep, LoopStart, LoopTop, SelectEnter, SelectReturn, NothingToRead,
        Receive, ReceiveEnds, ReceiveFails, Drain, NothingToWrite, Clear,
        LoopOnly, LoopKeeps
  <2> QED BY <2>1, PlacesKept
<1>3. CASE Flush
  <2>1. PICK n \in Accepted(Len(mOutgoingBytes)) :
          got' = got \o SubSeq(mOutgoingBytes, 1, n)
    BY <1>3 DEF Flush
  <2>2. n \in 0..Len(mOutgoingBytes)
    BY <1>1, <2>1 DEF Accepted
  <2>3. mOutgoingBytes' = <<>> /\ UNCHANGED <<app, copy, sends>>
    BY <1>3 DEF Flush, QueueSwapped
  <2>4. /\ Numbers(got') \subseteq Numbers(got) \cup Numbers(mOutgoingBytes)
        /\ NoRepeats(got')
    <3> DEFINE taken == SubSeq(mOutgoingBytes, 1, n)
    <3>1. /\ taken \in Seq(Nat) /\ Numbers(taken) \subseteq Numbers(mOutgoingBytes)
          /\ NoRepeats(taken)
      BY <1>1, <2>2, PrefixNumbers DEF Placed
    <3>2. Numbers(got) \cap Numbers(taken) = {} /\ NoRepeats(got)
      BY <3>1 DEF Placed
    <3> HIDE DEF taken
    <3>3. Numbers(got \o taken) = Numbers(got) \cup Numbers(taken)
      BY <1>1, <3>1, JoinedNumbers
    <3>4. NoRepeats(got \o taken)
      BY <1>1, <3>1, <3>2, JoinedNumbers
    <3> QED BY <2>1, <3>1, <3>3, <3>4 DEF taken
  <2>5. app \notin {"new", "ack", "identify"}
    BY <1>3 DEF Flush, LoopAt, IInv, Handshake
  <2>6. app = "install" => copy = <<>>
    BY <1>3 DEF Flush
  <2> QED BY <1>1, <2>3, <2>4, <2>5, <2>6, NoNumber DEF Placed
<1>4. CASE Insert
  <2>1. /\ mOutgoingBytes' = <<sends>> \o mOutgoingBytes /\ app = "insert"
        /\ app' = "flag" /\ UNCHANGED <<sends, got>>
    BY <1>4 DEF Insert, AppAt
  <2>2. <<sends>> \in Seq(Nat)
    BY <1>1
  <2>3. /\ Numbers(mOutgoingBytes') = {sends} \cup Numbers(mOutgoingBytes)
        /\ NoRepeats(mOutgoingBytes')
    <3>1. Numbers(<<sends>>) = {sends} /\ NoRepeats(<<sends>>)
      BY OneNumber
    <3>2. {sends} \cap Numbers(mOutgoingBytes) = {} /\ NoRepeats(mOutgoingBytes)
      BY <2>1 DEF Placed
    <3> DEFINE one == <<sends>>
    <3> HIDE DEF one
    <3>3. /\ one \in Seq(Nat) /\ Numbers(one) = {sends} /\ NoRepeats(one)
      BY <2>2, <3>1 DEF one
    <3>4. /\ Numbers(one \o mOutgoingBytes) = Numbers(one) \cup Numbers(mOutgoingBytes)
          /\ NoRepeats(one \o mOutgoingBytes)
      BY <1>1, <3>2, <3>3, JoinedNumbers
    <3> QED BY <2>1, <3>3, <3>4 DEF one
  <2>4. sends \in 1..sends /\ sends \notin Numbers(got) /\ NoRepeats(got)
    BY <1>1, <2>1 DEF Placed
  <2>5. Numbers(got') = Numbers(got) /\ NoRepeats(got')
    BY <2>1, <2>4 DEF Numbers, NoRepeats
  <2> QED BY <2>1, <2>3, <2>4, <2>5 DEF Placed
<1>5. CASE Identify
  <2>1. /\ app = "identify" /\ app' = "idle"
        /\ UNCHANGED <<mOutgoingBytes, sends>>
        /\ got' = got \/ got' = Append(got, Id)
    BY <1>5 DEF Identify, AppAt
  <2>2. got' = <<>> \/ got' = <<Id>>
    BY <2>1 DEF Placed
  <2>3. Numbers(got') \subseteq {0} /\ NoRepeats(got')
    BY <2>2, NoNumber, OneNumber DEF Id
  <2> QED BY <1>1, <2>1, <2>3, NoNumber DEF Placed
<1>6. CASE SendData
  <2>1. /\ sends' = sends + 1 /\ app = "idle" /\ app' = "reserve"
        /\ UNCHANGED <<mOutgoingBytes, got>>
    BY <1>6 DEF SendData, AppAt, shared
  <2>2. UNCHANGED <<Numbers(mOutgoingBytes), Numbers(got), NoRepeats(mOutgoingBytes),
                    NoRepeats(got)>>
    BY <2>1 DEF Numbers, NoRepeats
  <2> QED BY <1>1, <2>1, <2>2 DEF Placed
<1>7. CASE Install
  <2>1. /\ app = "install" /\ app' = "insert" /\ mOutgoingBytes' = copy
        /\ UNCHANGED <<got, sends>>
    BY <1>7 DEF Install, AppAt
  <2>2. mOutgoingBytes' = mOutgoingBytes
    BY <2>1 DEF Placed
  <2> QED BY <2>1, <2>2, PlacesKept
<1>8. CASE InsertLost
  <2>1. app' = "flag" /\ UNCHANGED <<mOutgoingBytes, got, sends>>
    BY <1>8 DEF InsertLost
  <2> QED BY <2>1, PlacesKept
<1>9. CASE AppCall \/ AppStep
  <2>1. CASE Insert \/ Identify \/ SendData \/ Install \/ InsertLost
    BY <2>1, <1>4, <1>5, <1>6, <1>7, <1>8
  <2>2. CASE ~(Insert \/ Identify \/ SendData \/ Install \/ InsertLost)
    <3>1. /\ UNCHANGED <<mOutgoingBytes, got, sends>>
          /\ \/ app' \notin {"new", "ack", "identify", "reserve", "install", "insert"}
             \/ app \in {"new", "ack"} /\ app' \notin {"reserve", "install", "insert"}
             \/ app = "reserve" /\ app' = "install" /\ copy' = mOutgoingBytes
      BY <1>9, <2>2
      DEF AppCall, AppStep, Connect, ConnectFails, Disconnect, Destroy, ReadAck,
          Reserve, Flag, Wakeup, PollWritable, Shut, CloseSocket, AppAt, shared,
          AfterFlag
    <3> QED BY <3>1, PlacesKept
  <2> QED BY <2>1, <2>2
<1>10. CASE ServerStep \/ Crash \/ Over \/ UNCHANGED vars
  <2>1. UNCHANGED <<mOutgoingBytes, got, sends, app, copy>>
    BY <1>10
    DEF ServerStep, ServerAccepts, ServerReplies, ServerReads, ServerLeaves,
        Crash, Over, vars, ServerKeeps, shared, remote
  <2> QED BY <2>1, PlacesKept
<1> QED BY <1>2, <1>3, <1>9, <1>10 DEF Next

\* Only a swap that falls into a reserve, or into the shift of an insertion, makes a
\* message reach the server twice, for any number of calls and however little send
\* takes: in every other interleaving a message is in one place (Client.cpp:183,
\* 210-211).
THEOREM MessagesReachOnce == Spec => []RepeatsOnlyTorn
<1>1. Init => OnePlace
  BY NoNumber DEF Init, OnePlace
<1>2. IInv /\ OnePlace /\ [Next]_vars => OnePlace'
  <2> SUFFICES ASSUME IInv, OnePlace, [Next]_vars PROVE OnePlace'
    OBVIOUS
  <2>1. torn' \/ Placed'
    BY TornStays, PlacesPreserved, OnePlaceIsPlaced
  <2> QED BY <2>1, OnePlaceIsPlaced, PTL
<1>3. OnePlace => RepeatsOnlyTorn
  BY DEF OnePlace, RepeatsOnlyTorn
<1> QED BY Inductive, <1>1, <1>2, <1>3, PTL DEF Spec
=============================================================================
