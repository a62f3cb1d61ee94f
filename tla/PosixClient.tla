---------------------------- MODULE PosixClient ----------------------------
(***************************************************************************)
(* posix::Client: the thread that runs waitForEvents, the thread that      *)
(* constructed the client and calls sendDataToServer and disconnect, and   *)
(* the server at the other end.                                            *)
(*                                                                         *)
(* The two threads share mConnected, mMasterWrite, mOutgoingBytes and the  *)
(* socket without a lock.  Every access the other thread can come between  *)
(* is a step.  mMasterWrite holds one descriptor, so a change of it is one *)
(* store.                                                                  *)
(***************************************************************************)
EXTENDS Integers, Sequences, FiniteSetsExt

CONSTANTS MaxSends,    \* bound: calls of sendDataToServer
          MaxReplies,  \* bound: messages the server sends
          PipeCap,     \* bytes the wakeup pipe holds
          RecvMax,     \* messages one recv returns (MAX_BUFFER_SIZE)
          Narrow       \* TRUE: the send buffer may take part of a batch

ASSUME ClientAssumption ==
  /\ MaxSends \in Nat /\ MaxReplies \in Nat
  /\ PipeCap \in Nat \ {0} /\ RecvMax \in Nat \ {0}
  /\ Narrow \in BOOLEAN

VARIABLES status,          \* "up", or "crashed": the process died
          mConnected,
          mMasterWrite,    \* the socket's bit
          mOutgoingBytes,
          sock,            \* the socket: "none", "open", "shut" or "closed"
          full,            \* its send buffer is full
          pipe,            \* bytes in the wakeup pipe
          loop,            \* the thread in waitForEvents
          app,             \* the constructing thread: where it is
          copy,            \* what its reserve has copied of mOutgoingBytes
          sends,           \* calls of sendDataToServer so far
          server,          \* what the server is doing
          replies,         \* messages it has sent
          inbox,           \* bytes from the server that nobody received yet
          got,             \* what reached the server
          heard,           \* history: what receiveComplete was given
          torn             \* history: a swap fell between the copy of a reserve and
                           \* its end, or into the shift of an insertion

shared == <<mConnected, mMasterWrite, mOutgoingBytes, sock, pipe>>
remote == <<full, server, replies, inbox, got>>
vars == <<status, shared, loop, app, copy, sends, remote, heard, torn>>

Ack == 0          \* the acknowledgement; the server's messages count from 1
Id  == 0          \* the client's identifier; its messages count from 1

LoopPc == {"init", "top", "select", "waiting", "read", "drain", "write",
           "clear", "returned", "threw"}
AppPc == {"new", "ack", "identify", "idle", "reserve", "install", "insert", "flag",
          "wake", "poll", "shut", "close", "gone"}
ServerPc == {"listening", "accepting", "greeting", "serving", "closed", "reset"}

TypeOK ==
  /\ status \in {"up", "crashed"}
  /\ mConnected \in BOOLEAN /\ mMasterWrite \in BOOLEAN
  /\ mOutgoingBytes \in Seq(Nat) /\ copy \in Seq(Nat)
  /\ sock \in {"none", "open", "shut", "closed"}
  /\ full \in BOOLEAN
  /\ pipe \in 0..PipeCap
  /\ loop \in [pc : LoopPc, reads : BOOLEAN, writes : BOOLEAN, woken : BOOLEAN]
  /\ app \in AppPc
  /\ sends \in 0..MaxSends
  /\ server \in ServerPc
  /\ replies \in 0..MaxReplies
  /\ inbox \in Seq(Nat) /\ got \in Seq(Nat) /\ heard \in Seq(Nat)
  /\ torn \in BOOLEAN

Init ==
  /\ status = "up"
  /\ mConnected = FALSE
  /\ mMasterWrite \in BOOLEAN    \* not initialised
  /\ mOutgoingBytes = <<>> /\ copy = <<>>
  /\ sock = "none"
  /\ full = FALSE
  /\ pipe = 0
  /\ loop = [pc |-> "init", reads |-> FALSE, writes |-> FALSE, woken |-> FALSE]
  /\ app = "new"
  /\ sends = 0
  /\ server = "listening"
  /\ replies = 0
  /\ inbox = <<>> /\ got = <<>> /\ heard = <<>>
  /\ torn = FALSE

Left == server \in {"closed", "reset"}

-----------------------------------------------------------------------------
(* The thread that constructs the client and calls it *)

AppAt(pc) == status = "up" /\ app = pc

\* What no call changes.
AppKeeps == <<status, loop, copy, torn, full, replies, heard>>

\* The constructor, lines 24-65.
Connect ==
  /\ AppAt("new")
  /\ sock' = "open"
  /\ server' = "accepting"
  /\ app' = "ack"
  /\ UNCHANGED <<AppKeeps, mConnected, mMasterWrite, mOutgoingBytes, pipe,
                 sends, inbox, got>>

\* connect fails and the constructor throws; ~Socket does not close.
ConnectFails ==
  /\ AppAt("new")
  /\ sock' = "open"
  /\ app' = "gone"
  /\ UNCHANGED <<AppKeeps, mConnected, mMasterWrite, mOutgoingBytes, pipe,
                 sends, server, inbox, got>>

\* Lines 68-69: a blocking recv, whose result nobody looks at.
AckTaken == IF inbox = <<>> THEN inbox ELSE Tail(inbox)
ReadAck ==
  /\ AppAt("ack")
  /\ inbox # <<>> \/ Left
  /\ inbox' = AckTaken
  /\ app' = "identify"
  /\ UNCHANGED <<AppKeeps, shared, sends, server, got>>

\* Lines 71-80: the identifier, and the client is connected.
Identify ==
  /\ AppAt("identify")
  /\ got' = IF Left THEN got ELSE Append(got, Id)
  /\ server' = IF Left THEN server ELSE "serving"
  /\ mConnected' = TRUE
  /\ app' = "idle"
  /\ UNCHANGED <<AppKeeps, mMasterWrite, mOutgoingBytes, sock, pipe, sends,
                 inbox>>

\* sendDataToServer with count > 0, which does not ask whether the client is
\* connected.
SendData ==
  /\ AppAt("idle") /\ sends < MaxSends
  /\ sends' = sends + 1
  /\ app' = "reserve"
  /\ UNCHANGED <<AppKeeps, shared, server, inbox, got>>

\* Line 210: the vector is as large as its bytes, so every reserve allocates.  It
\* copies the old bytes, and then installs the copy, whatever the loop has swapped
\* out in the meantime.
Reserve ==
  /\ AppAt("reserve")
  /\ copy' = mOutgoingBytes
  /\ app' = "install"
  /\ UNCHANGED <<status, loop, torn, full, replies, heard, shared, sends, server,
                 inbox, got>>

Install ==
  /\ AppAt("install")
  /\ mOutgoingBytes' = copy
  /\ copy' = <<>>
  /\ app' = "insert"
  /\ UNCHANGED <<status, loop, torn, full, replies, heard, mConnected, mMasterWrite,
                 sock, pipe, sends, server, inbox, got>>

\* Line 211: the bytes go to the front.
Insert ==
  /\ AppAt("insert")
  /\ mOutgoingBytes' = <<sends>> \o mOutgoingBytes
  /\ app' = "flag"
  /\ UNCHANGED <<AppKeeps, mConnected, mMasterWrite, sock, pipe, sends, server,
                 inbox, got>>

\* The loop swaps the vector out of a call that is under way.  An insertion shifts the
\* old bytes first; if the swap comes then, they are where they were and where they
\* are shifted to, and the new ones are written where nobody sends them.
Shifted(q) == IF q = <<>> THEN q ELSE <<q[1]>> \o q
SwapNext == loop.pc = "write" /\ loop.writes
InsertLost ==
  /\ AppAt("insert") /\ SwapNext
  /\ mOutgoingBytes' \in {mOutgoingBytes, Shifted(mOutgoingBytes)}
  /\ torn' = (torn \/ mOutgoingBytes' # mOutgoingBytes)
  /\ app' = "flag"
  /\ UNCHANGED <<status, loop, copy, full, replies, heard, mConnected, mMasterWrite,
                 sock, pipe, sends, server, inbox, got>>

\* Line 218, and line 224.
WakeForgotten == "idle"
AfterFlag == "wake"
Flag ==
  /\ AppAt("flag")
  /\ mMasterWrite' = TRUE
  /\ app' = AfterFlag
  /\ UNCHANGED <<AppKeeps, mConnected, mOutgoingBytes, sock, pipe, sends, server,
                 inbox, got>>

\* performWakeup: the poll blocks while the pipe is full.
Wakeup ==
  /\ AppAt("wake") /\ pipe < PipeCap
  /\ pipe' = pipe + 1
  /\ app' = "idle"
  /\ UNCHANGED <<AppKeeps, mConnected, mMasterWrite, mOutgoingBytes, sock, sends,
                 server, inbox, got>>

\* disconnect, lines 241-242; one that finds mConnected false does nothing.
Disconnect ==
  /\ AppAt("idle") /\ mConnected
  /\ mConnected' = FALSE
  /\ app' = "poll"
  /\ UNCHANGED <<AppKeeps, mMasterWrite, mOutgoingBytes, sock, pipe, sends,
                 server, inbox, got>>

\* Lines 243-253: the poll for writing without a timeout, and a send of nothing.
PollIn == inbox # <<>> \/ Left
PollOut == ~full \/ Left
PollWritable ==
  /\ AppAt("poll")
  /\ PollOut
  /\ app' = "shut"
  /\ UNCHANGED <<AppKeeps, shared, sends, server, inbox, got>>

\* closeSocket: shutdown(2), which the loop notices in select, and close.
Shut ==
  /\ AppAt("shut")
  /\ sock' = "shut"
  /\ app' = "close"
  /\ UNCHANGED <<AppKeeps, mConnected, mMasterWrite, mOutgoingBytes, pipe, sends,
                 server, inbox, got>>

CloseSocket ==
  /\ AppAt("close")
  /\ sock' = "closed"
  /\ app' = "wake"
  /\ UNCHANGED <<AppKeeps, mConnected, mMasterWrite, mOutgoingBytes, pipe, sends,
                 server, inbox, got>>

\* ~Client, after the loop's thread was joined.  While mConnected holds it calls
\* disconnect first, which is the action above.
Destroy ==
  /\ AppAt("idle") /\ ~mConnected
  /\ loop.pc \in {"returned", "threw"}
  /\ app' = "gone"
  /\ UNCHANGED <<AppKeeps, shared, sends, server, inbox, got>>

-----------------------------------------------------------------------------
(* waitForEvents *)

LoopAt(pc) == status = "up" /\ loop.pc = pc

\* What no step of the loop changes.
LoopKeeps == <<status, sock, app, copy, sends, server, replies, torn>>

LoopOnly == UNCHANGED <<LoopKeeps, mConnected, mMasterWrite, mOutgoingBytes,
                        full, pipe, inbox, got, heard>>

\* Lines 117-121: the sets are emptied, mMasterWrite too, whatever was queued.
LoopStart ==
  /\ LoopAt("init")
  /\ app \notin {"new", "ack", "identify", "gone"}
  /\ loop' = [loop EXCEPT !.pc = "top"]
  /\ mMasterWrite' = FALSE
  /\ UNCHANGED <<LoopKeeps, mConnected, mOutgoingBytes, full, pipe, inbox, got,
                 heard>>

\* Lines 123-126.
LoopTop ==
  /\ LoopAt("top")
  /\ loop' = IF mConnected
               THEN [loop EXCEPT !.pc = "select", !.writes = mMasterWrite]
               ELSE [loop EXCEPT !.pc = "returned"]
  /\ LoopOnly

\* Lines 131-135: select refuses a closed descriptor.
SelectEnter ==
  /\ LoopAt("select")
  /\ loop' = [loop EXCEPT !.pc = IF sock = "closed" THEN "threw" ELSE "waiting"]
  /\ LoopOnly

Readable == inbox # <<>> \/ Left \/ sock # "open"
Writable == ~full \/ Left \/ sock # "open"

\* Lines 131-138: something is ready.
SelectReturn ==
  /\ LoopAt("waiting")
  /\ Readable \/ pipe > 0 \/ (loop.writes /\ Writable)
  /\ loop' = IF mConnected
               THEN [loop EXCEPT !.pc = "read", !.reads = Readable,
                                 !.writes = @ /\ Writable, !.woken = pipe > 0]
               ELSE [loop EXCEPT !.pc = "returned"]
  /\ LoopOnly

ToDrain == [loop EXCEPT !.pc = "drain", !.reads = FALSE]

NothingToRead ==
  /\ LoopAt("read") /\ ~loop.reads
  /\ loop' = ToDrain
  /\ LoopOnly

\* Lines 148-164; what was received before a shutdown or a reset comes first.
Taking == Min({RecvMax, Len(inbox)})
Taken == SubSeq(inbox, 1, Taking)
RestDropped == <<>>
Rest == SubSeq(inbox, Taking + 1, Len(inbox))
Receive ==
  /\ LoopAt("read") /\ loop.reads
  /\ sock # "closed" /\ inbox # <<>>
  /\ heard' = heard \o Taken
  /\ inbox' = Rest
  /\ loop' = ToDrain
  /\ UNCHANGED <<LoopKeeps, mConnected, mMasterWrite, mOutgoingBytes, full, pipe,
                 got>>

\* Lines 157-159: recv returned 0, and the round goes on.
EndIgnored == mConnected
EndSeen == FALSE
ReceiveEnds ==
  /\ LoopAt("read") /\ loop.reads
  /\ sock # "closed" /\ inbox = <<>>
  /\ sock = "shut" \/ server = "closed"
  /\ mConnected' = EndSeen
  /\ loop' = ToDrain
  /\ UNCHANGED <<LoopKeeps, mMasterWrite, mOutgoingBytes, full, pipe, inbox, got,
                 heard>>

\* Lines 151-155: recv returned -1, and the exception leaves waitForEvents.
ReceiveFails ==
  /\ LoopAt("read") /\ loop.reads
  /\ sock = "closed" \/ (inbox = <<>> /\ server = "reset")
  /\ loop' = [loop EXCEPT !.pc = "threw"]
  /\ LoopOnly

\* recv(2) on the wakeup pipe, line 174, fails with ENOTSOCK: the bytes stay.
ReadWholeBuffer(n) == n - PipeCap
RecvOnPipe(n) == n
Drain ==
  /\ LoopAt("drain")
  /\ pipe' = IF loop.woken THEN RecvOnPipe(pipe) ELSE pipe
  /\ loop' = [loop EXCEPT !.pc = "write", !.woken = FALSE]
  /\ UNCHANGED <<LoopKeeps, mConnected, mMasterWrite, mOutgoingBytes, full, inbox,
                 got, heard>>

NothingToWrite ==
  /\ LoopAt("write") /\ ~loop.writes
  /\ loop' = [loop EXCEPT !.pc = "top"]
  /\ LoopOnly

\* How many of len queued messages one send can take.
Accepted(len) == IF sock # "open" \/ Left THEN {0}
                   ELSE IF Narrow THEN 0..len ELSE {len}

\* Lines 182-196: the queue is swapped out, and sendComplete is called whatever
\* send took of it.  A batch that is not taken has filled the buffer.
QueueCopied == mOutgoingBytes
QueueSwapped == <<>>
Flush ==
  /\ LoopAt("write") /\ loop.writes
  /\ mOutgoingBytes' = QueueSwapped
  /\ \E n \in Accepted(Len(mOutgoingBytes)) :
       /\ got' = got \o SubSeq(mOutgoingBytes, 1, n)
       /\ full' = (full \/ n < Len(mOutgoingBytes))
  /\ torn' = (torn \/ (app = "install" /\ copy # <<>>))
  /\ loop' = [loop EXCEPT !.pc = "clear"]
  /\ UNCHANGED <<status, sock, app, copy, sends, server, replies, mConnected,
                 mMasterWrite, pipe, inbox, heard>>

\* Line 201.
Clear ==
  /\ LoopAt("clear")
  /\ mMasterWrite' = FALSE
  /\ loop' = [loop EXCEPT !.pc = "top", !.writes = FALSE]
  /\ UNCHANGED <<LoopKeeps, mConnected, mOutgoingBytes, full, pipe, inbox, got,
                 heard>>

-----------------------------------------------------------------------------
(* The server: it acknowledges, waits for the identifier, and then sends what *)
(* it likes; it reads what it is sent, and may go away at any time.          *)

ServerKeeps == <<status, shared, loop, app, copy, sends, heard, torn>>

ServerAccepts ==
  /\ status = "up" /\ server = "accepting"
  /\ server' = "greeting"
  /\ inbox' = Append(inbox, Ack)
  /\ UNCHANGED <<ServerKeeps, full, replies, got>>

ServerReplies ==
  /\ status = "up" /\ server = "serving" /\ replies < MaxReplies
  /\ sock = "open"
  /\ replies' = replies + 1
  /\ inbox' = Append(inbox, replies + 1)
  /\ UNCHANGED <<ServerKeeps, full, server, got>>

ServerReads ==
  /\ status = "up" /\ full
  /\ full' = FALSE
  /\ UNCHANGED <<ServerKeeps, server, replies, inbox, got>>

ServerLeaves ==
  /\ status = "up" /\ server \in {"accepting", "greeting", "serving"}
  /\ server' \in {"closed", "reset"}
  /\ UNCHANGED <<ServerKeeps, full, replies, inbox, got>>

-----------------------------------------------------------------------------

\* A broken connection is written to (SIGPIPE), or a vector is swapped while
\* another thread inserts into it.
CrashCause ==
  \/ loop.pc = "write" /\ loop.writes /\ (sock = "shut" \/ Left)
  \/ app \in {"identify", "poll"} /\ Left
  \/ SwapNext /\ app \in {"reserve", "install", "insert"}

Crash ==
  /\ status = "up" /\ CrashCause
  /\ status' = "crashed"
  /\ UNCHANGED <<shared, loop, app, copy, sends, remote, heard, torn>>

LoopStep == \/ LoopStart \/ LoopTop \/ SelectEnter \/ SelectReturn
            \/ NothingToRead \/ Receive \/ ReceiveEnds \/ ReceiveFails \/ Drain
            \/ NothingToWrite \/ Flush \/ Clear

\* A call begins; a call, or the constructor, goes on.
AppCall == Connect \/ ConnectFails \/ SendData \/ Disconnect \/ Destroy
AppStep == \/ ReadAck \/ Identify \/ Reserve \/ Install \/ Insert \/ InsertLost
           \/ Flag \/ Wakeup \/ PollWritable \/ Shut \/ CloseSocket

ServerStep == ServerAccepts \/ ServerReplies \/ ServerReads \/ ServerLeaves

Over == /\ status = "crashed" \/ app = "gone"
        /\ UNCHANGED vars

Next == LoopStep \/ AppCall \/ AppStep \/ ServerStep \/ Crash \/ Over

\* Both threads are scheduled; the server accepts and reads.  Nobody has to call
\* anything, reply or leave.
Fairness == /\ WF_vars(LoopStep \/ Crash)
            /\ WF_vars(AppStep)
            /\ WF_vars(ServerAccepts) /\ WF_vars(ServerReads)

Spec == Init /\ [][Next]_vars /\ Fairness

-----------------------------------------------------------------------------
(* Properties *)

Ended == status = "crashed" \/ loop.pc \in {"returned", "threw"}

\* What the application hears is what the server sent, in order and without a
\* gap, and never the acknowledgement, which belongs to the constructor: what is
\* heard and what is still to be read make up all replies so far
\* (Client.cpp:68-69, 148-164).
Numbered(n) == [k \in 1..n |-> k]
RepliesInOrder == app # "ack" => heard \o inbox = Numbered(replies)

\* A message reaches the server twice only if the loop's swap fell between the copy
\* and the end of a reserve, or into the shift of an insertion: every other order of
\* the two threads' accesses keeps it in one place (Client.cpp:183, 210-211).
Numbers(s) == {s[k] : k \in 1..Len(s)}
NoRepeats(s) == \A j, k \in 1..Len(s) : s[j] = s[k] => j = k
RepeatsOnlyTorn == torn \/ NoRepeats(got)

\* The loop does not sleep on work: with no call under way, a bit it does not
\* watch or a disconnect has left a byte in the pipe (Client.cpp:131, 218-224,
\* 242-256).
WakeupNotLost ==
  loop.pc = "waiting" /\ app = "idle" =>
    pipe > 0 \/ (mConnected /\ (mMasterWrite => loop.writes))

\* A disconnect ends waitForEvents, wherever the loop is when the flag is
\* cleared and the socket closed under it (Client.cpp:123, 137, 242-256).
DisconnectTerminates ==
  app = "poll" /\ loop.pc # "init" ~> Ended

\* A server that goes away ends waitForEvents too, also one that leaves in the
\* middle of the handshake (Client.cpp:69, 151-159).
ServerGoneTerminates == Left /\ loop.pc # "init" ~> Ended

\* A message in the queue whose socket's bit is set when the loop is about to copy the
\* set, or waits, is handed to send, also if the loop waits without the bit: the call
\* still has to write its byte (Client.cpp:126-131, 180-187, 218-224).
FlaggedIsSent ==
  \A n \in 1..MaxSends :
    /\ n \in Numbers(mOutgoingBytes) /\ mMasterWrite
    /\ loop.pc \in {"top", "select", "waiting"}
    ~> n \notin Numbers(mOutgoingBytes) \/ Ended

\* What makes RepliesInOrder inductive: until the identifier is sent nothing but
\* the acknowledgement is under way, and the loop has not begun
\* (Client.cpp:58-73).
Handshake ==
  /\ app \in {"new", "ack", "identify"} =>
       loop.pc = "init" /\ replies = 0 /\ heard = <<>> /\ server # "serving"
  /\ app = "new" => inbox = <<>>
  /\ app = "ack" => inbox \in {<<>>, <<Ack>>}
  /\ server = "accepting" => app = "ack" /\ inbox = <<>>

IInv == TypeOK /\ Handshake /\ RepliesInOrder

\* What makes RepeatsOnlyTorn inductive: until then a message is in the queue or with
\* the server, or in neither, the one whose call is under way among them, and what a
\* reserve has copied is still what the queue holds (Client.cpp:183-187, 205-211).
OnePlace ==
  \/ torn
  \/ /\ app \in {"new", "ack", "identify"} => mOutgoingBytes = <<>> /\ got = <<>>
     /\ Numbers(mOutgoingBytes) \subseteq 1..sends
     /\ Numbers(got) \subseteq 0..sends
     /\ app \in {"reserve", "install", "insert"} =>
          sends > 0 /\ sends \notin Numbers(mOutgoingBytes) \cup Numbers(got)
     /\ app = "install" => mOutgoingBytes = copy
     /\ Numbers(mOutgoingBytes) \cap Numbers(got) = {}
     /\ NoRepeats(mOutgoingBytes) /\ NoRepeats(got)

\* What makes WakeupNotLost inductive: it holds from before select on, because
\* a call that leaves work behind ends with a byte in the pipe
\* (Client.cpp:123-131, 218-224).
NothingLeftBehind ==
  pipe = 0 /\ app = "idle" /\ loop.pc \in {"select", "waiting"} =>
    mConnected /\ (mMasterWrite => loop.writes)
=============================================================================
