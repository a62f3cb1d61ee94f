----------------------------- MODULE WinClient -----------------------------
(***************************************************************************)
(* windows::Client: the thread that runs waitForEvents, the thread that    *)
(* connects, calls sendDataToServer and disconnect and destroys the        *)
(* client, and Winsock, which completes what the two have started.         *)
(*                                                                         *)
(* All sends share one OVERLAPPED, so one event and one result, and the    *)
(* queue of their buffers is shared by the two threads without a lock.     *)
(***************************************************************************)
EXTENDS Integers, Sequences

CONSTANTS MaxSends,    \* bound: calls of sendDataToServer
          MaxReplies   \* bound: messages the server sends

ASSUME ClientAssumption == MaxSends \in Nat /\ MaxReplies \in Nat

VARIABLES status,        \* "up", or "crashed": the process died
          mConnected,
          mSendBuffers,  \* the queue: a buffer is named by its send
          spoiled,       \* history: a push and a pop have met
          flight,        \* sends under way, which Winsock reads from
          sendResult,    \* what mSendOverlap says of the last send
          recv,          \* what the client's own OVERLAPPED says
          event,         \* the two events, in the order of handles[]
          sock,          \* mSocket: "none" (no value was given), "open", "closed"
          loop,          \* the thread in waitForEvents
          app,           \* the calling thread: where it is
          sends,         \* calls of sendDataToServer so far
          server,        \* the other end
          replies,       \* messages it has sent
          inbox,         \* those that Winsock has not given to a receive
          heard          \* history: those given to receiveComplete

buffers == <<mSendBuffers, spoiled, sends>>
winsock == <<flight, sendResult, recv, event>>
remote == <<server, replies, inbox>>
vars == <<status, mConnected, buffers, winsock, sock, loop, app, remote, heard>>

Handles == {0, 1}        \* the receive's event, the send's event
LoopPc == {"init", "test", "wait", "result", "pop", "reset", "returned"}
AppPc == {"new", "prepare", "idle", "push", "post", "signal", "close", "failed",
          "gone"}

TypeOK ==
  /\ status \in {"up", "crashed"}
  /\ mConnected \in BOOLEAN /\ spoiled \in BOOLEAN
  /\ mSendBuffers \in Seq(1..MaxSends) /\ flight \in Seq(1..MaxSends)
  /\ sendResult \in {"none", "pending", "ok", "failed"}
  /\ recv \in {"none", "pending", "ok", "failed"}
  /\ event \in [Handles -> BOOLEAN]
  /\ sock \in {"none", "open", "closed"}
  /\ loop \in [pc : LoopPc, index : Handles]
  /\ app \in AppPc
  /\ sends \in 0..MaxSends
  /\ server \in {"serving", "closed", "reset"}
  /\ replies \in 0..MaxReplies /\ inbox \in 0..replies
  /\ heard \in 0..replies - inbox

\* mConnected is tested and cleared; no line sets it or gives it a first value.
Init ==
  /\ status = "up"
  /\ mConnected \in BOOLEAN
  /\ mSendBuffers = <<>> /\ spoiled = FALSE /\ sends = 0
  /\ flight = <<>> /\ sendResult = "none" /\ recv = "none"
  /\ event = [h \in Handles |-> FALSE]
  /\ sock = "none"
  /\ loop = [pc |-> "init", index |-> 0] /\ app = "new"
  /\ server = "serving" /\ replies = 0 /\ inbox = 0
  /\ heard = 0

Left == server \in {"closed", "reset"}
Broken == sock # "open" \/ server = "reset"

-----------------------------------------------------------------------------
(* The calling thread *)

AppAt(pc) == status = "up" /\ app = pc
AppKeeps == <<status, loop, server, replies>>

\* connect, lines 62-98: one of the addresses answers, or none.  Then line 89 tests
\* an mSocket that holds anything: connect throws, or goes on with no socket.
Connect ==
  /\ AppAt("new")
  /\ sock' = "open"
  /\ app' = "prepare"
  /\ UNCHANGED <<AppKeeps, mConnected, buffers, winsock, inbox, heard>>

ConnectFails ==
  /\ AppAt("new")
  /\ app' \in {"failed", "prepare"}
  /\ UNCHANGED <<AppKeeps, mConnected, buffers, winsock, sock, inbox, heard>>

\* prepareClientToReceiveData.  WSARecv clears the event and sets it again when it
\* is done at once; then it is called again.
ReceivePends ==
  /\ AppAt("prepare") /\ ~Broken /\ inbox = 0 /\ server = "serving"
  /\ recv' = "pending"
  /\ event' = [event EXCEPT ![0] = FALSE]
  /\ app' = "idle"
  /\ UNCHANGED <<AppKeeps, mConnected, buffers, flight, sendResult, sock, inbox,
                 heard>>

\* The data that is there, or the 0 bytes of a closed connection, for ever.
ReceiveAtOnce ==
  /\ AppAt("prepare") /\ ~Broken
  /\ inbox > 0 \/ server = "closed"
  /\ recv' = "ok"
  /\ event' = [event EXCEPT ![0] = TRUE]
  /\ heard' = heard + inbox /\ inbox' = 0
  /\ UNCHANGED <<AppKeeps, mConnected, buffers, flight, sendResult, sock, app>>

\* Line 122; the test of line 125 comes after it and deletes nothing.
PrepareThrows ==
  /\ AppAt("prepare") /\ Broken
  /\ app' = "idle"
  /\ UNCHANGED <<AppKeeps, mConnected, buffers, winsock, sock, inbox, heard>>

\* sendDataToServer, which does not ask whether the client is connected.
SendData ==
  /\ AppAt("idle") /\ sends < MaxSends
  /\ sends' = sends + 1
  /\ app' = "push"
  /\ UNCHANGED <<AppKeeps, mConnected, mSendBuffers, spoiled, winsock, sock,
                 inbox, heard>>

\* Line 277.
Push ==
  /\ AppAt("push")
  /\ mSendBuffers' = Append(mSendBuffers, sends)
  /\ app' = "post"
  /\ UNCHANGED <<AppKeeps, mConnected, spoiled, sends, winsock, sock, inbox,
                 heard>>

\* A push and a pop at once: the one change of the queue's length is lost.
PushSpoiled == AppAt("push") /\ loop.pc = "pop"
PushLost ==
  /\ PushSpoiled
  /\ spoiled' = TRUE
  /\ app' = "post"
  /\ UNCHANGED <<AppKeeps, mConnected, mSendBuffers, sends, winsock, sock, inbox,
                 heard>>

\* WSASend, line 288, takes the OVERLAPPED over from the send before.
Posted == [event EXCEPT ![1] = FALSE]
SendPends ==
  /\ AppAt("post") /\ ~Broken
  /\ flight' = Append(flight, sends)
  /\ sendResult' = "pending"
  /\ event' = Posted
  /\ app' = "idle"
  /\ UNCHANGED <<AppKeeps, mConnected, buffers, recv, sock, inbox, heard>>

\* Lines 309-318: done at once, which is reported here and signalled all the same.
SendAtOnce ==
  /\ AppAt("post") /\ ~Broken /\ flight = <<>>
  /\ sendResult' = "ok"
  /\ event' = [event EXCEPT ![1] = TRUE]
  /\ app' = "idle"
  /\ UNCHANGED <<AppKeeps, mConnected, buffers, flight, recv, sock, inbox, heard>>

\* Line 302: the buffer stays in the queue.
SendThrows ==
  /\ AppAt("post") /\ Broken
  /\ app' = "idle"
  /\ UNCHANGED <<AppKeeps, mConnected, buffers, winsock, sock, inbox, heard>>

\* disconnect, lines 252-257; one that finds mConnected false does nothing.
Disconnect ==
  /\ AppAt("idle") /\ mConnected
  /\ mConnected' = FALSE
  /\ app' = "signal"
  /\ UNCHANGED <<AppKeeps, buffers, winsock, sock, inbox, heard>>

\* Line 259.
Unsignalled == event
Signalled == [event EXCEPT ![0] = TRUE]
Signal ==
  /\ AppAt("signal")
  /\ event' = Signalled
  /\ app' = "close"
  /\ UNCHANGED <<AppKeeps, mConnected, buffers, flight, sendResult, recv, sock,
                 inbox, heard>>

\* Lines 265-269.
CloseSocket ==
  /\ AppAt("close")
  /\ sock' = "closed"
  /\ app' = "idle"
  /\ UNCHANGED <<AppKeeps, mConnected, buffers, winsock, inbox, heard>>

\* ~Client, after the loop's thread was joined.
Destroying == app \in {"idle", "failed"} /\ loop.pc \in {"init", "returned"}
Destroy ==
  /\ status = "up" /\ Destroying
  /\ sock' = IF sock = "none" THEN "none" ELSE "closed"
  /\ app' = "gone"
  /\ UNCHANGED <<AppKeeps, mConnected, buffers, winsock, inbox, heard>>

-----------------------------------------------------------------------------
(* waitForEvents *)

LoopAt(pc) == status = "up" /\ loop.pc = pc
LoopTo(pc) == loop' = [loop EXCEPT !.pc = pc]
LoopKeeps == <<status, mConnected, spoiled, sends, flight, sendResult, recv, sock,
               app, remote>>

\* Lines 158-160, once connect has returned.
LoopStart ==
  /\ LoopAt("init") /\ app \notin {"new", "prepare", "failed", "gone"}
  /\ LoopTo("test")
  /\ UNCHANGED <<LoopKeeps, mSendBuffers, event, heard>>

\* Lines 162 and 170.
LoopTest ==
  /\ LoopAt("test")
  /\ LoopTo(IF mConnected THEN "wait" ELSE "returned")
  /\ UNCHANGED <<LoopKeeps, mSendBuffers, event, heard>>

\* Lines 176-189: the first event that is set.
WaitReturns ==
  /\ LoopAt("wait") /\ \E h \in Handles : event[h]
  /\ loop' = IF mConnected
               THEN [pc |-> "result", index |-> IF event[0] THEN 0 ELSE 1]
               ELSE [loop EXCEPT !.pc = "returned"]
  /\ UNCHANGED <<LoopKeeps, mSendBuffers, event, heard>>

\* Lines 208-215.  What was received goes to the callback, which a disconnect has
\* taken away; no receive is posted again.
ReceivedAgain == heard + replies - inbox
Received == replies - inbox
ReceiveResult ==
  /\ LoopAt("result") /\ loop.index = 0
  /\ heard' = IF recv = "ok" /\ mConnected THEN Received ELSE heard
  /\ LoopTo("reset")
  /\ UNCHANGED <<LoopKeeps, mSendBuffers, event>>

\* Lines 226-227.
SendResult ==
  /\ LoopAt("result") /\ loop.index = 1
  /\ LoopTo(IF sendResult = "ok" THEN "pop" ELSE "reset")
  /\ UNCHANGED <<LoopKeeps, mSendBuffers, event, heard>>

\* Lines 229-236; an empty queue has no front.
Pop ==
  /\ LoopAt("pop") /\ mSendBuffers # <<>>
  /\ mSendBuffers' = Tail(mSendBuffers)
  /\ LoopTo("reset")
  /\ UNCHANGED <<LoopKeeps, event, heard>>

\* Line 245.
NotReset(h) == event
AllReset(h) == [k \in Handles |-> FALSE]
Reset(h) == [event EXCEPT ![h] = FALSE]
ResetEvent ==
  /\ LoopAt("reset")
  /\ event' = Reset(loop.index)
  /\ LoopTo("test")
  /\ UNCHANGED <<LoopKeeps, mSendBuffers, heard>>

-----------------------------------------------------------------------------
(* Winsock, and the server *)

WinsockKeeps == <<status, mConnected, buffers, sock, loop, app, server, replies,
                  heard>>

\* The sends of one connection are done in order.
SendCompletes ==
  /\ status = "up" /\ flight # <<>>
  /\ flight' = Tail(flight)
  /\ sendResult' = IF Broken THEN "failed" ELSE "ok"
  /\ event' = [event EXCEPT ![1] = TRUE]
  /\ UNCHANGED <<WinsockKeeps, recv, inbox>>

ReceiveCompletes ==
  /\ status = "up" /\ recv = "pending"
  /\ inbox > 0 \/ Left \/ sock = "closed"
  /\ recv' = IF Broken THEN "failed" ELSE "ok"
  /\ inbox' = IF Broken THEN inbox ELSE 0
  /\ event' = [event EXCEPT ![0] = TRUE]
  /\ UNCHANGED <<WinsockKeeps, flight, sendResult>>

ServerKeeps == <<status, mConnected, buffers, winsock, sock, loop, app, heard>>

ServerReplies ==
  /\ status = "up" /\ sock = "open" /\ server = "serving" /\ replies < MaxReplies
  /\ replies' = replies + 1 /\ inbox' = inbox + 1
  /\ UNCHANGED <<ServerKeeps, server>>

ServerLeaves ==
  /\ status = "up" /\ sock = "open" /\ server = "serving"
  /\ server' \in {"closed", "reset"}
  /\ UNCHANGED <<ServerKeeps, replies, inbox>>

-----------------------------------------------------------------------------

\* Receives of nothing that call each other without end, a push that meets a
\* pop, the front of an empty queue, and a destructor that deletes a pointer never
\* set or an OVERLAPPED that Winsock has yet to write to.
CrashCause ==
  \/ app = "prepare" /\ server = "closed"
  \/ PushSpoiled
  \/ loop.pc = "pop" /\ mSendBuffers = <<>>
  \/ Destroying /\ (app = "failed" \/ flight # <<>> \/ recv = "pending")

Crash ==
  /\ status = "up" /\ CrashCause
  /\ status' = "crashed"
  /\ UNCHANGED <<mConnected, buffers, winsock, sock, loop, app, remote, heard>>

LoopStep == \/ LoopStart \/ LoopTest \/ WaitReturns \/ ReceiveResult
            \/ SendResult \/ Pop \/ ResetEvent

\* A call begins; a call goes on.
AppCall == Connect \/ ConnectFails \/ SendData \/ Disconnect \/ Destroy
AppStep == \/ ReceivePends \/ ReceiveAtOnce \/ PrepareThrows \/ Push \/ PushLost
           \/ SendPends \/ SendAtOnce \/ SendThrows \/ Signal \/ CloseSocket

Completion == SendCompletes \/ ReceiveCompletes

Over == /\ status = "crashed" \/ app = "gone"
        /\ UNCHANGED vars

Next == \/ LoopStep \/ AppCall \/ AppStep \/ Completion
        \/ ServerReplies \/ ServerLeaves \/ Crash \/ Over

\* Both threads are scheduled and Winsock completes what it can.
Fairness == /\ WF_vars(LoopStep \/ Crash)
            /\ WF_vars(AppStep)
            /\ WF_vars(Completion)

Spec == Init /\ [][Next]_vars /\ Fairness

-----------------------------------------------------------------------------
(* Properties *)

Ended == status = "crashed" \/ loop.pc = "returned"

\* No buffer is freed while Winsock still sends from it, although buffers are
\* freed in order of the queue, one per signal, and all sends signal the same
\* event: as long as no push has met a pop (Client.cpp:226-245, 277-288).
Waiting == {mSendBuffers[k] : k \in 1..Len(mSendBuffers)}
BufferOutlivesSend ==
  ~spoiled => \A k \in 1..Len(flight) : flight[k] \in Waiting

\* A disconnect ends waitForEvents, wherever the loop is: the flag is cleared
\* before the event is set and tested after the event is reset
\* (Client.cpp:162-186, 245, 254-259).
DisconnectTerminates == app = "signal" /\ loop.pc # "init" ~> Ended

\* What a receive has taken from the network reaches the callback, whatever sends
\* and their signals do, unless the client disconnects (Client.cpp:208-245).
ReceivedIsHeard ==
  heard < Received /\ loop.pc # "init" ~>
    heard = Received \/ ~mConnected \/ Ended
-----------------------------------------------------------------------------
(* What makes BufferOutlivesSend inductive *)

Increasing(s) == \A j, k \in 1..Len(s) : j < k => s[j] < s[k]

\* Buffers are queued, and sends are under way, in the order of the calls; the
\* call at work has a buffer once it is at WSASend, and no send yet
\* (Client.cpp:277, 288).
InOrder ==
  /\ Increasing(mSendBuffers) /\ Increasing(flight)
  /\ \A k \in 1..Len(mSendBuffers) :
       mSendBuffers[k] <= sends /\ (app = "push" => mSendBuffers[k] # sends)
  /\ \A k \in 1..Len(flight) :
       flight[k] <= sends /\ (app \in {"push", "post"} => flight[k] # sends)
  /\ app = "post" => sends \in Waiting

\* A signal that the loop has yet to see, or has seen and not yet acted on, stands
\* for a buffer at the front of the queue whose send is over
\* (Client.cpp:189, 226-231, 245).
ToPop == \/ event[1] /\ ~(loop.pc = "reset" /\ loop.index = 1)
         \/ loop.pc \in {"result", "pop"} /\ loop.index = 1
FrontIsOver ==
  ToPop => /\ mSendBuffers # <<>>
           /\ \A k \in 1..Len(flight) : flight[k] # mSendBuffers[1]
           /\ app = "post" => mSendBuffers[1] # sends

\* Only after the signal of a send is a buffer popped, and only a call queues and
\* posts one (Client.cpp:219-231, 273-288).
AtWork == /\ loop.pc = "pop" => loop.index = 1
          /\ app \in {"push", "post"} => sends > 0

IInv == /\ TypeOK /\ AtWork
        /\ ~spoiled => InOrder /\ FrontIsOver /\ BufferOutlivesSend
=============================================================================
