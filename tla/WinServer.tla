----------------------------- MODULE WinServer -----------------------------
(***************************************************************************)
(* windows::Server and its Connections: the thread in waitForEvents, one   *)
(* thread that calls send, broadcast, shutdown and the destructor, the     *)
(* peers, and the part of Winsock that completes what they start.          *)
(*                                                                         *)
(* A receive completes by setting its connection's event.  A send, and the *)
(* receive of the identifier, complete by a routine queued to the thread   *)
(* that started them, which runs it when it next waits: the loop does, the *)
(* other thread never.  All of them write their result to the connection's *)
(* one OVERLAPPED.  A ServerConnection, its event and its identifier are   *)
(* named by its peer, which connects once.                                 *)
(*                                                                         *)
(* The two threads use Connections without a lock, so a rotation, an       *)
(* addition and a removal are as many steps as the other thread can come   *)
(* between.                                                                *)
(***************************************************************************)
EXTENDS Integers, Sequences, FiniteSets

CONSTANTS Peers,
          Listener,    \* the server's own event
          Repliers,    \* peers whose data the application answers at once
          Leavers,     \* peers that may close or reset
          MaxReplies,  \* bound: such answers
          MaxCalls,    \* bound: calls of send and broadcast
          MaxHandles   \* events one wait takes: 64 in Winsock

ASSUME WinAssumption ==
  /\ Listener \notin Peers
  /\ Repliers \subseteq Peers /\ Leavers \subseteq Peers
  /\ MaxReplies \in Nat /\ MaxCalls \in Nat
  /\ MaxHandles \in Nat \ {0}

VARIABLES status,            \* "up", or "crashed": the process died
          mHasBeenShutdown,
          mContainer, mMapping,
          targets,           \* names in the queue of send targets
          removing,          \* a thread's call of removeServerConnection
          torn,              \* history: an element was erased from mContainer under
                             \* the iterator of the other thread's removal
          conn,              \* how far each peer's connection is
          recv,              \* the receive posted on it
          sending,           \* the threads whose sends on it are under way
          overlap,           \* what its OVERLAPPED holds
          signalled,         \* events that are set
          accepting,         \* AcceptEx is posted
          link, inbox,       \* the peer's end, and whether it sent anything
          routines,          \* completion routines queued to the loop
          loop,              \* the thread in waitForEvents
          app,               \* the other thread
          calls, replies

registry == <<mContainer, mMapping, removing, torn>>
network == <<link, inbox>>
io == <<recv, sending, overlap>>
vars == <<status, mHasBeenShutdown, registry, targets, conn, io, signalled,
          accepting, network, routines, loop, app, calls, replies>>

Thread == {"loop", "app"}

Handle == Peers \union {Listener}
Members(s) == {s[i] : i \in 1..Len(s)}

LoopPc == {"top", "array", "rotating", "enter", "wait", "routine", "adding", "after",
           "reset", "accept", "find", "result", "called", "rearm", "remove",
           "blocked", "returned", "threw"}
AppPc == {"idle", "push", "send", "again", "close", "wake", "gone"}

TypeOK ==
  /\ status \in {"up", "crashed"} /\ mHasBeenShutdown \in BOOLEAN
  /\ mContainer \in Seq(Peers) /\ mMapping \in SUBSET Peers
  /\ targets \in Nat
  /\ conn \in [Peers -> {"away", "queued", "arrived", "joining", "listed", "deleted"}]
  /\ removing \in [Thread -> [step : {"none", "delete", "erase"}, at : Nat]]
  /\ torn \in BOOLEAN
  /\ recv \in [Peers -> {"none", "pending", "data", "end", "failed"}]
  /\ sending \in [Peers -> Seq(Thread)]
  /\ overlap \in [Peers -> {"receive", "pending", "sent", "failed"}]
  /\ signalled \in SUBSET Handle /\ accepting \in BOOLEAN
  /\ link \in [Peers -> {"open", "closed", "reset"}] /\ inbox \in [Peers -> BOOLEAN]
  /\ routines \in Seq([kind : {"joined", "sent"}, peer : Peers])
  /\ loop \in [pc : LoopPc, handles : Seq(Handle), handle : Handle,
               routine : {"none", "joined", "sent"}]
  /\ app \in [pc : AppPc, todo : Seq(Peers), named : BOOLEAN]
  /\ calls \in 0..MaxCalls /\ replies \in 0..MaxReplies

Init ==
  /\ status = "up" /\ mHasBeenShutdown = FALSE
  /\ mContainer = <<>> /\ mMapping = {} /\ targets = 0
  /\ removing = [t \in Thread |-> [step |-> "none", at |-> 0]] /\ torn = FALSE
  /\ sending = [p \in Peers |-> <<>>] /\ overlap = [p \in Peers |-> "receive"]
  /\ conn = [p \in Peers |-> "away"] /\ recv = [p \in Peers |-> "none"]
  /\ signalled = {} /\ accepting = TRUE
  /\ link = [p \in Peers |-> "open"] /\ inbox = [p \in Peers |-> FALSE]
  /\ routines = <<>>
  /\ loop = [pc |-> "top", handles |-> <<>>, handle |-> Listener,
             routine |-> "none"]
  /\ app = [pc |-> "idle", todo |-> <<>>, named |-> FALSE]
  /\ calls = 0 /\ replies = 0

\* The queue of targets, of which only the length is kept; an event reset.
Popped == targets - 1
Pushed == targets + 1
AllCleared(h) == {}
Cleared(h) == signalled \ {h}

\* A receive is posted, and a send is started: each takes the OVERLAPPED.  Nothing is
\* buffered (Socket.cpp:46), so a send ends when Winsock has done it.
Posts(p) == /\ recv' = [recv EXCEPT ![p] = "pending"]
            /\ overlap' = [overlap EXCEPT ![p] = "receive"]
            /\ UNCHANGED sending
Starts(t, p) == /\ sending' = [sending EXCEPT ![p] = Append(@, t)]
                /\ overlap' = [overlap EXCEPT ![p] = "pending"]
                /\ UNCHANGED recv

Dead(p) == conn[p] = "deleted"
SendFails(p) == link[p] = "reset" \/ Dead(p)

-----------------------------------------------------------------------------
(* Connections *)

\* removeServerConnection: the first of the container with that handle, if any, is
\* taken out of the map; what the iterator then shows is deleted, and erased.
FirstOf(s, p) == CHOOSE i \in 1..Len(s) :
                   s[i] = p /\ \A j \in 1..i - 1 : s[j] # p
StillMapped(p) == mMapping
Unmapped(p) == mMapping \ {p}
BeginRemoval(t, p) ==
  /\ IF p \in Members(mContainer)
       THEN /\ mMapping' = Unmapped(p)
            /\ removing' = [removing EXCEPT ![t] = [step |-> "delete",
                                                   at |-> FirstOf(mContainer, p)]]
       ELSE UNCHANGED <<mMapping, removing>>
  /\ UNCHANGED <<mContainer, torn>>

\* By identifier, lines 48-56.
BeginRemovalOf(t, p) == IF p \in mMapping THEN BeginRemoval(t, p)
                                          ELSE UNCHANGED registry

Iterator(t) == removing[t].at
Iterating(t) == removing[t].step # "none"
OtherThan(t) == IF t = "loop" THEN "app" ELSE "loop"

Delete(t) ==
  /\ status = "up" /\ removing[t].step = "delete"
  /\ Iterator(t) <= Len(mContainer) /\ ~Dead(mContainer[Iterator(t)])
  /\ conn' = [conn EXCEPT ![mContainer[Iterator(t)]] = "deleted"]
  /\ signalled' = Cleared(mContainer[Iterator(t)])
  /\ removing' = [removing EXCEPT ![t].step = "erase"]
  /\ UNCHANGED <<status, mHasBeenShutdown, mContainer, mMapping, torn, targets, io,
                 accepting, network, routines, loop, app, calls, replies>>

Kept(i) == mContainer
Without(i) == [j \in 1..Len(mContainer) - 1 |->
                 IF j < i THEN mContainer[j] ELSE mContainer[j + 1]]
Erase(t) ==
  /\ status = "up" /\ removing[t].step = "erase"
  /\ Iterator(t) <= Len(mContainer)
  /\ mContainer' = Without(Iterator(t))
  /\ torn' = (torn \/ Iterating(OtherThan(t)))
  /\ removing' = [removing EXCEPT ![t] = [step |-> "none", at |-> 0]]
  /\ UNCHANGED <<status, mHasBeenShutdown, mMapping, targets, conn, signalled, io,
                 accepting, network, routines, loop, app, calls, replies>>

-----------------------------------------------------------------------------
(* waitForEvents *)

LoopAt(pc) == status = "up" /\ loop.pc = pc /\ ~Iterating("loop")

\* What no step of the loop changes.
LoopKeeps == <<status, mHasBeenShutdown, network, app, calls>>

LoopOnly == UNCHANGED <<LoopKeeps, registry, targets, conn, io, signalled,
                        accepting, routines, replies>>

LoopGoes(pc) == loop' = [loop EXCEPT !.pc = pc]

\* Lines 242-245, 210.
LoopTop ==
  /\ LoopAt("top")
  /\ loop' = IF mHasBeenShutdown
               THEN [loop EXCEPT !.pc = "returned"]
               ELSE [loop EXCEPT !.pc = "array", !.handle = Listener]
  /\ LoopOnly

\* getHandleArray rotates the container: it erases the front ...
GetHandleArray ==
  /\ LoopAt("array") /\ ~mHasBeenShutdown
  /\ IF mContainer = <<>>
       THEN /\ loop' = [loop EXCEPT !.pc = "enter", !.handles = <<Listener>>]
            /\ UNCHANGED <<mContainer, torn>>
       ELSE /\ loop' = [loop EXCEPT !.pc = "rotating", !.handle = Head(mContainer)]
            /\ mContainer' = Tail(mContainer)
            /\ torn' = (torn \/ Iterating("app"))
  /\ UNCHANGED <<LoopKeeps, mMapping, removing, targets, conn, io, signalled,
                 accepting, routines, replies>>

\* ... pushes it back, and copies the events; the server's own always comes first.
Unrotated == <<loop.handle>> \o mContainer
Rotated == Append(mContainer, loop.handle)
PushBack ==
  /\ LoopAt("rotating")
  /\ mContainer' = Rotated
  /\ loop' = [loop EXCEPT !.pc = "enter", !.handle = Listener,
                          !.handles = <<Listener>> \o Rotated]
  /\ UNCHANGED <<LoopKeeps, mMapping, removing, torn, targets, conn, io, signalled,
                 accepting, routines, replies>>

ShutdownSeen ==
  /\ LoopAt("array") /\ mHasBeenShutdown
  /\ LoopGoes("after")
  /\ LoopOnly

\* Lines 220-229: a wait for an event that was closed fails, and so does one for
\* too many events.
TooMany == Len(loop.handles) > MaxHandles
Closed(h) == h \in Peers /\ Dead(h)
WaitEnter ==
  /\ LoopAt("enter")
  /\ LoopGoes(IF TooMany \/ \E h \in Members(loop.handles) : Closed(h)
                THEN "threw" ELSE "wait")
  /\ LoopOnly

\* The wait returns the first event of the array that is set.
SomeSet == Members(loop.handles) \cap signalled # {}
FirstSet(i) == /\ loop.handles[i] \in signalled
               /\ \A j \in 1..i - 1 : loop.handles[j] \notin signalled
WaitReturns ==
  /\ LoopAt("wait")
  /\ \E i \in 1..Len(loop.handles) :
       /\ FirstSet(i)
       /\ loop' = [loop EXCEPT !.pc = "after", !.handle = loop.handles[i]]
  /\ LoopOnly

\* Otherwise it may be left to run a completion routine.
WaitInterrupted ==
  /\ LoopAt("wait") /\ ~SomeSet /\ routines # <<>>
  /\ loop' = [loop EXCEPT !.pc = "routine", !.routine = Head(routines).kind,
                          !.handle = Head(routines).peer]
  /\ routines' = Tail(routines)
  /\ UNCHANGED <<LoopKeeps, registry, targets, conn, io, signalled, accepting,
                 replies>>

\* ConnectionInformationReceivedFromClient, which has no definition: it adds the
\* connection, as addConnection's comment has it, to the map and then to the
\* container, and posts the first receive.
RunJoined ==
  /\ LoopAt("routine") /\ loop.routine = "joined"
  /\ mMapping' = mMapping \union {loop.handle}
  /\ loop' = [loop EXCEPT !.pc = "adding", !.routine = "none"]
  /\ UNCHANGED <<LoopKeeps, mContainer, removing, torn, targets, conn, io, signalled,
                 accepting, routines, replies>>

AddServerConnection ==
  /\ LoopAt("adding")
  /\ mContainer' = Append(mContainer, loop.handle)
  /\ conn' = [conn EXCEPT ![loop.handle] = "listed"]
  /\ Posts(loop.handle)
  /\ loop' = [loop EXCEPT !.pc = "array", !.handle = Listener]
  /\ UNCHANGED <<LoopKeeps, mMapping, removing, torn, targets, signalled, accepting,
                 routines, replies>>

\* DataSentToClient, which resets the event that the receive sets.
RunSent ==
  /\ LoopAt("routine") /\ loop.routine = "sent"
  /\ IF mHasBeenShutdown
       THEN UNCHANGED <<targets, signalled>>
       ELSE /\ targets > 0 /\ targets' = Popped
            /\ signalled' = Cleared(loop.handle)
  /\ loop' = [loop EXCEPT !.pc = "array", !.handle = Listener, !.routine = "none"]
  /\ UNCHANGED <<LoopKeeps, registry, conn, io, accepting, routines, replies>>

\* Lines 232-247; handles[0] of an empty array is in CrashCause.
AfterWait ==
  /\ LoopAt("after") /\ ~(mHasBeenShutdown /\ loop.handles = <<>>)
  /\ loop' = [loop EXCEPT !.pc = IF mHasBeenShutdown THEN "top" ELSE "reset",
                          !.handles = <<>>]
  /\ LoopOnly

\* Lines 249-256.
ResetHandle ==
  /\ LoopAt("reset")
  /\ signalled' = Cleared(loop.handle)
  /\ LoopGoes(IF loop.handle = Listener THEN "accept" ELSE "find")
  /\ UNCHANGED <<LoopKeeps, registry, targets, conn, io, accepting, routines,
                 replies>>

\* addNewConnection.
PrepareForServerConnection == accepting' = TRUE
AddNewConnection ==
  /\ LoopAt("accept")
  /\ \E p \in Peers :
       /\ conn[p] = "arrived" /\ link[p] # "reset"
       /\ conn' = [conn EXCEPT ![p] = "joining"]
       /\ Posts(p)
  /\ PrepareForServerConnection
  /\ LoopGoes("top")
  /\ UNCHANGED <<LoopKeeps, registry, targets, signalled, routines, replies>>

\* Lines 333-342: the receive fails at once, and nothing accepts any more.
AddNewFails ==
  /\ LoopAt("accept")
  /\ \E p \in Peers :
       /\ conn[p] = "arrived" /\ link[p] = "reset"
       /\ conn' = [conn EXCEPT ![p] = "joining"]
  /\ LoopGoes("threw")
  /\ UNCHANGED <<LoopKeeps, registry, targets, io, signalled, accepting, routines,
                 replies>>

\* Line 262 throws when the connection is gone.
FindConnection ==
  /\ LoopAt("find")
  /\ LoopGoes(IF loop.handle \in Members(mContainer) THEN "result" ELSE "threw")
  /\ LoopOnly

\* Lines 267-286: the result is read from the OVERLAPPED, which holds that of the
\* receive or of a send that was started or has ended since.  One that failed is
\* passed over.  If a send is under way the call waits for the event, and as no
\* receive is posted nothing sets it: the loop is "blocked".
Result(p) == CASE overlap[p] = "receive" -> recv[p]
               [] overlap[p] = "sent" -> "data"
               [] OTHER -> overlap[p]
EndUnseen(p) == IF Dead(p) \/ Result(p) = "failed" THEN "top" ELSE "called"
Outcome(p) == IF Dead(p) THEN "top"
                ELSE CASE Result(p) = "failed"  -> "top"
                       [] Result(p) = "pending" -> "blocked"
                       [] Result(p) = "end"     -> "remove"
                       [] OTHER                 -> "called"
ReceiveResult ==
  /\ LoopAt("result")
  /\ Dead(loop.handle) \/ recv[loop.handle] # "pending"
  /\ LoopGoes(Outcome(loop.handle))
  /\ LoopOnly

\* receiveComplete returns without a send.
NoReply ==
  /\ LoopAt("called")
  /\ LoopGoes("rearm")
  /\ LoopOnly

\* receiveComplete answers by send(identifier).
Reply ==
  LET p == loop.handle IN
  /\ LoopAt("called") /\ p \in Repliers /\ replies < MaxReplies
  /\ replies' = replies + 1
  /\ IF p \in mMapping
       THEN /\ targets' = targets + 2
            /\ LoopGoes("rearm")
            /\ IF SendFails(p)
                 THEN BeginRemovalOf("loop", p) /\ UNCHANGED io
                 ELSE Starts("loop", p) /\ UNCHANGED registry
       ELSE LoopGoes("threw") /\ UNCHANGED <<registry, targets, io>>
  /\ UNCHANGED <<LoopKeeps, conn, signalled, accepting, routines>>

\* Lines 289-292, queueReceiveFromConnection; of a deleted connection see
\* CrashCause.
Rearm ==
  LET p == loop.handle IN
  /\ LoopAt("rearm") /\ ~mHasBeenShutdown /\ ~Dead(p)
  /\ signalled' = Cleared(p)
  /\ IF link[p] = "reset"
       THEN LoopGoes("threw") /\ UNCHANGED io
       ELSE LoopGoes("top") /\ Posts(p)
  /\ UNCHANGED <<LoopKeeps, registry, targets, conn, accepting, routines, replies>>

RearmNot ==
  /\ LoopAt("rearm") /\ mHasBeenShutdown
  /\ LoopGoes("top")
  /\ LoopOnly

\* Lines 278-279.
RemoveEnded ==
  /\ LoopAt("remove")
  /\ BeginRemoval("loop", loop.handle)
  /\ LoopGoes("top")
  /\ UNCHANGED <<LoopKeeps, targets, conn, signalled, io, accepting, routines, replies>>

-----------------------------------------------------------------------------
(* The thread that calls the server *)

AppAt(pc) == status = "up" /\ app.pc = pc /\ ~Iterating("app")

\* What no call changes.
AppKeeps == <<status, recv, accepting, network, routines, loop, replies>>
AppOnly == <<AppKeeps, sending, overlap>>

\* send(identifier), line 138, and broadcast, line 194, which copies the
\* container.  An identifier that is not found throws.
Begins(todo, named) ==
  /\ AppAt("idle") /\ calls < MaxCalls
  /\ app' = [pc |-> "push", todo |-> todo, named |-> named]
  /\ calls' = calls + 1
  /\ UNCHANGED <<AppOnly, mHasBeenShutdown, registry, targets, conn, signalled>>

Send == \E p \in mMapping : Begins(<<p>>, TRUE)
Broadcast == mContainer # <<>> /\ Begins(mContainer, FALSE)

\* Line 155.
PushTarget ==
  /\ AppAt("push")
  /\ targets' = Pushed
  /\ app' = [app EXCEPT !.pc = "send"]
  /\ UNCHANGED <<AppOnly, mHasBeenShutdown, registry, conn, signalled, calls>>

\* Lines 161-189.
SendTo ==
  /\ AppAt("send")
  /\ IF SendFails(Head(app.todo))
       THEN BeginRemovalOf("app", Head(app.todo)) /\ UNCHANGED io
       ELSE Starts("app", Head(app.todo)) /\ UNCHANGED registry
  /\ app' = [app EXCEPT !.todo = Tail(@),
                         !.pc = IF Tail(app.todo) # <<>> THEN "push"
                                ELSE IF app.named THEN "again" ELSE "idle"]
  /\ UNCHANGED <<AppKeeps, mHasBeenShutdown, targets, conn, signalled, calls>>

\* Line 142.
PushAgain ==
  /\ AppAt("again")
  /\ targets' = Pushed
  /\ app' = [app EXCEPT !.pc = "idle"]
  /\ UNCHANGED <<AppOnly, mHasBeenShutdown, registry, conn, signalled, calls>>

\* shutdown, lines 119-120.
Closing(todo) == IF todo = <<>> THEN "wake" ELSE "close"
Shutdown ==
  /\ AppAt("idle") /\ ~mHasBeenShutdown
  /\ mHasBeenShutdown' = TRUE
  /\ app' = [app EXCEPT !.pc = Closing(mContainer), !.todo = mContainer]
  /\ UNCHANGED <<AppOnly, registry, targets, conn, signalled, calls>>

\* Lines 125-130; of a deleted connection see CrashCause.
CloseNext ==
  /\ AppAt("close") /\ ~Dead(Head(app.todo))
  /\ BeginRemoval("app", Head(app.todo))
  /\ app' = [app EXCEPT !.pc = Closing(Tail(app.todo)), !.todo = Tail(@)]
  /\ UNCHANGED <<AppOnly, mHasBeenShutdown, targets, conn, signalled, calls>>

\* Line 133.
Unwoken == signalled
Woken == signalled \union {Listener}
Wake ==
  /\ AppAt("wake")
  /\ signalled' = Woken
  /\ app' = [app EXCEPT !.pc = "idle"]
  /\ UNCHANGED <<AppOnly, mHasBeenShutdown, registry, targets, conn, calls>>

\* ~Server and ~Connections, after the loop's thread was joined.
NoIncoming == ~accepting /\ \A p \in Peers : conn[p] # "arrived"
LoopEnded == loop.pc \in {"returned", "threw"}
ListsDead == \E p \in Members(mContainer) : Dead(p)
Destroy ==
  /\ AppAt("idle") /\ LoopEnded /\ ~NoIncoming /\ ~ListsDead
  /\ mHasBeenShutdown' = TRUE
  /\ mContainer' = <<>> /\ mMapping' = {}
  /\ conn' = [p \in Peers |-> IF p \in Members(mContainer) THEN "deleted" ELSE conn[p]]
  /\ app' = [app EXCEPT !.pc = "gone"]
  /\ UNCHANGED <<AppOnly, removing, torn, targets, signalled, calls>>

-----------------------------------------------------------------------------
(* Peers and Winsock *)

PeerKeeps == <<status, mHasBeenShutdown, registry, targets, loop, app, calls, replies>>

Connects(p) ==
  /\ status = "up" /\ conn[p] = "away"
  /\ conn' = [conn EXCEPT ![p] = "queued"]
  /\ UNCHANGED <<PeerKeeps, io, signalled, accepting, network, routines>>

AcceptCompletes(p) ==
  /\ status = "up" /\ accepting /\ conn[p] = "queued" /\ app.pc # "gone"
  /\ conn' = [conn EXCEPT ![p] = "arrived"]
  /\ accepting' = FALSE
  /\ signalled' = signalled \union {Listener}
  /\ UNCHANGED <<PeerKeeps, io, network, routines>>

Identifies(p) ==
  /\ status = "up" /\ conn[p] = "joining" /\ recv[p] = "pending"
  /\ recv' = [recv EXCEPT ![p] = "data"]
  /\ routines' = Append(routines, [kind |-> "joined", peer |-> p])
  /\ UNCHANGED <<PeerKeeps, conn, sending, overlap, signalled, accepting, network>>

Sends(p) ==
  /\ status = "up" /\ conn[p] = "listed" /\ link[p] = "open" /\ ~inbox[p]
  /\ inbox' = [inbox EXCEPT ![p] = TRUE]
  /\ UNCHANGED <<PeerKeeps, conn, io, signalled, accepting, link, routines>>

Leaves(p) ==
  /\ status = "up" /\ p \in Leavers /\ link[p] = "open"
  /\ \/ conn[p] = "listed" /\ link' \in {[link EXCEPT ![p] = "closed"],
                                         [link EXCEPT ![p] = "reset"]}
     \/ conn[p] = "arrived" /\ link' = [link EXCEPT ![p] = "reset"]
  /\ UNCHANGED <<PeerKeeps, conn, io, signalled, accepting, inbox, routines>>

\* A receive ends by setting the event, and holds the OVERLAPPED ...
ReceiveCompletes(p) ==
  /\ status = "up" /\ conn[p] = "listed" /\ recv[p] = "pending"
  /\ \/ inbox[p] /\ recv' = [recv EXCEPT ![p] = "data"]
     \/ ~inbox[p] /\ link[p] = "closed" /\ recv' = [recv EXCEPT ![p] = "end"]
     \/ link[p] = "reset" /\ recv' = [recv EXCEPT ![p] = "failed"]
  /\ overlap' = [overlap EXCEPT ![p] = "receive"]
  /\ inbox' = [inbox EXCEPT ![p] = FALSE]
  /\ signalled' = signalled \union {p}
  /\ UNCHANGED <<PeerKeeps, conn, sending, accepting, link, routines>>

\* ... as does a send, whose routine only the loop's own wait runs.  What is sent to
\* a peer that has closed may draw a reset.
SendCompletes(p) ==
  /\ status = "up" /\ sending[p] # <<>>
  /\ \/ ~SendFails(p) /\ overlap' = [overlap EXCEPT ![p] = "sent"] /\ link' = link
     \/ /\ SendFails(p) \/ link[p] = "closed"
        /\ overlap' = [overlap EXCEPT ![p] = "failed"]
        /\ link' = IF Dead(p) THEN link ELSE [link EXCEPT ![p] = "reset"]
  /\ sending' = [sending EXCEPT ![p] = Tail(@)]
  /\ routines' = IF Head(sending[p]) = "app" THEN routines
                   ELSE Append(routines, [kind |-> "sent", peer |-> p])
  /\ UNCHANGED <<PeerKeeps, conn, recv, signalled, accepting, inbox>>

-----------------------------------------------------------------------------

\* One thread changes a container while the other uses it.  Every call of the
\* other thread begins by reading one.
LoopReplies == loop.pc = "called" /\ loop.handle \in Repliers
LoopChanges == \/ Iterating("loop")
               \/ loop.pc \in {"array", "rotating", "adding", "remove"}
               \/ loop.pc = "routine" /\ loop.routine = "joined"
               \/ LoopReplies /\ SendFails(loop.handle)
AppRemoves == \/ app.pc = "close"
              \/ app.pc = "send" /\ SendFails(Head(app.todo))
AppChanges == Iterating("app") \/ AppRemoves
AppReads == app.pc = "idle" /\ (calls < MaxCalls \/ ~mHasBeenShutdown)
ContainersRace == \/ AppChanges /\ (LoopChanges \/ LoopReplies \/ loop.pc = "find")
                  \/ AppReads /\ LoopChanges

\* A thread follows an iterator past the end, deletes a second time or looks at a
\* connection that is deleted and still listed.
Strays(t) == /\ Iterating(t)
             /\ Iterator(t) <= Len(mContainer) =>
                  removing[t].step = "delete" /\ Dead(mContainer[Iterator(t)])
Looks == \/ ~Iterating("loop") /\ loop.pc \in {"rotating", "find", "remove"}
         \/ ~Iterating("app") /\ AppRemoves

TargetsRace ==
  /\ app.pc \in {"push", "again"}
  /\ LoopReplies \/ (loop.pc = "routine" /\ loop.routine = "sent")

\* Memory of a deleted connection, also by the receive that was pending on it, the
\* front of an empty queue or vector, a null mIncomingSocket.
CrashCause ==
  \/ ContainersRace \/ TargetsRace
  \/ \E t \in Thread : Strays(t)
  \/ Looks /\ ListsDead
  \/ \E p \in Peers : Dead(p) /\ (recv[p] = "pending" \/ sending[p] # <<>>)
  \/ loop.pc = "after" /\ mHasBeenShutdown /\ loop.handles = <<>>
  \/ loop.pc \in {"result", "rearm"} /\ Dead(loop.handle)
  \/ loop.pc = "routine" /\ loop.routine = "sent"
       /\ (targets = 0 \/ Dead(loop.handle))
  \/ app.pc \in {"push", "send", "close"} /\ Dead(Head(app.todo))
  \/ app.pc = "idle" /\ LoopEnded /\ (NoIncoming \/ ListsDead)

Crash ==
  /\ status = "up" /\ CrashCause
  /\ status' = "crashed"
  /\ UNCHANGED <<mHasBeenShutdown, registry, targets, conn, io, signalled, accepting,
                 network, routines, loop, app, calls, replies>>

LoopStep == \/ LoopTop \/ GetHandleArray \/ PushBack \/ ShutdownSeen \/ WaitEnter
            \/ WaitReturns \/ WaitInterrupted \/ RunJoined \/ AddServerConnection
            \/ RunSent \/ AfterWait \/ ResetHandle \/ AddNewConnection \/ AddNewFails
            \/ FindConnection \/ ReceiveResult \/ NoReply \/ Reply
            \/ Rearm \/ RearmNot \/ RemoveEnded \/ Delete("loop") \/ Erase("loop")

AppCall == Send \/ Broadcast \/ Shutdown \/ Destroy
AppStep == \/ PushTarget \/ SendTo \/ PushAgain \/ CloseNext \/ Wake
           \/ Delete("app") \/ Erase("app")

PeerStep == \E p \in Peers : Connects(p) \/ Sends(p) \/ Leaves(p)
Completion(p) == AcceptCompletes(p) \/ Identifies(p) \/ ReceiveCompletes(p)

Blocked == loop.pc = "blocked"
Over == (status = "crashed" \/ app.pc = "gone" \/ Blocked) /\ UNCHANGED vars

Next == \/ LoopStep \/ AppCall \/ AppStep \/ PeerStep \/ Crash \/ Over
        \/ \E p \in Peers : Completion(p) \/ SendCompletes(p)

\* Both threads are scheduled, and what Winsock can accept or receive completes.
\* Nobody has to call anything, connect, read, send or leave.
Fairness == /\ WF_vars(LoopStep \/ Crash)
            /\ WF_vars(AppStep)
            /\ \A p \in Peers : WF_vars(Completion(p))

Spec == Init /\ [][Next]_vars /\ Fairness

-----------------------------------------------------------------------------
(* Properties *)

Ended == status = "crashed" \/ LoopEnded

\* Whenever no thread is inside Connections, the vector, the map and the objects agree:
\* no event is waited for twice, nothing deleted is found by handle or by identifier.
\* Removals by both threads, rotations and additions may overlap in any way, as long
\* as none erases an element under the iterator of another
\* (windows/Connections.cpp:31-44, 58-69, 94-99).
InConnections == \/ \E t \in Thread : Iterating(t)
                 \/ loop.pc \in {"rotating", "adding"}
Distinct(s) == \A i, j \in 1..Len(s) : s[i] = s[j] => i = j
RegistryAgrees ==
  torn \/ InConnections \/
    /\ Members(mContainer) = mMapping
    /\ mMapping = {p \in Peers : conn[p] = "listed"}
    /\ Distinct(mContainer)

\* A connection that nobody is removing has a receive posted, or its event is set, or
\* the loop is at it: it is never left without anybody who will hear of it, unless it
\* was reset, the registry was torn or the loop hangs in the wait for a result
\* (windows/Server.cpp:249, 267-292, 349-356).
AtIt(p) == /\ loop.handle = p
           /\ loop.pc \in {"after", "reset", "find", "result", "called", "rearm",
                          "remove"}
Attended(p) == recv[p] = "pending" \/ p \in signalled \/ AtIt(p) \/ link[p] = "reset"
Registered(p) == conn[p] = "listed" /\ p \in mMapping
NoneGoesDeaf ==
  torn \/ \A p \in Peers \ Repliers :
            Registered(p) /\ ~Ended /\ ~Blocked /\ ~mHasBeenShutdown => Attended(p)

\* The loop throws only for a connection that was reset, for more connections than
\* one wait takes, or when a shutdown closes events under it: a handle it was given
\* is otherwise found, although it was copied before the wait (windows/Server.cpp:218-228, 262, 333-341, 358-366).
OnlyResetThrows ==
  loop.pc = "threw" =>
    mHasBeenShutdown \/ TooMany \/ \E p \in Peers : link[p] = "reset"

\* Data that is there is handed to the application, whatever the others send and
\* whatever is sent to that client: the rotation keeps an event that is always set
\* from hiding those behind it, and the result of a send does not hide the data's.
\* Exempt are a reset, the loop that hangs (ShutdownIsNoticed), the loss of a
\* connection to the registry and a client that is answered and whose signal the end
\* of the answer takes away (windows/Connections.cpp:21-46, windows/Server.cpp:267-285).
HandsOver(p) == loop.pc = "called" /\ loop.handle = p
Deaf(p) == p \in Repliers /\ ~Attended(p)
Lost(p) == Dead(p) \/ Deaf(p) \/ link[p] = "reset" \/ torn
ReadyIsServed ==
  \A p \in Peers : p \in signalled /\ recv[p] = "data" /\ conn[p] = "listed" ~>
                     HandsOver(p) \/ Lost(p) \/ Blocked \/ Ended

\* A shutdown ends waitForEvents, wherever the loop is, unless the wait for a result
\* has hung (windows/Server.cpp:117-133, 216, 232, 242).
ShutdownTerminates == mHasBeenShutdown ~> Blocked \/ Ended

\* A peer that closes is noticed and its connection removed, also when the result of a
\* send covers that of the receive; exempt is the same (windows/Server.cpp:267-279).
EndIsNoticed ==
  \A p \in Leavers : link[p] = "closed" /\ conn[p] = "listed" ~>
                       Lost(p) \/ Blocked \/ Ended

-----------------------------------------------------------------------------
(* The inductive invariant *)

\* What a removal under way points at, what the container holds or its rotation has
\* in hand, and what is being added.
Victim(t) == mContainer[Iterator(t)]
Leaving(p) == \E t \in Thread : Iterating(t) /\ p = Victim(t)
Held(p) == p \in Members(mContainer) \/ (loop.pc = "rotating" /\ loop.handle = p)
Adding(p) == loop.pc = "adding" /\ loop.handle = p

\* Between any two steps inside Connections, until one of them is torn: what is found
\* by identifier is what is held and nobody removes.
Tracked ==
  torn \/
  /\ \A t \in Thread : Iterating(t) => Iterator(t) <= Len(mContainer)
  /\ \A t \in Thread : removing[t].step = "erase" => Dead(Victim(t))
  /\ \A p \in Peers : /\ p \in mMapping <=> (Held(p) /\ ~Leaving(p)) \/ Adding(p)
                      /\ Held(p) => conn[p] = "listed" \/ Leaving(p)
                      /\ conn[p] = "listed" => Held(p)

\* Torn or not, what is in the container was added and is there once, and the loop
\* returns from a removal before it goes on.
Added(p) == p \in Peers /\ conn[p] \in {"listed", "deleted"}
Placed ==
  /\ Distinct(mContainer)
  /\ loop.pc = "rotating" => loop.handle \notin Members(mContainer)
  /\ \A p \in Members(mContainer) : Added(p)
  /\ \A t \in Thread : Iterating(t) => Iterator(t) >= 1
  /\ Iterating("loop") => loop.pc \in {"top", "rearm"}

\* A peer whose identifier is on its way to the registry is not in it, and comes
\* once.
Joining(p) == p \in Peers /\ conn[p] = "joining" /\ recv[p] = "data"
JoinedAt(i) == routines[i].kind = "joined"
Joins ==
  /\ \A i \in 1..Len(routines) : JoinedAt(i) => Joining(routines[i].peer)
  /\ \A i, j \in 1..Len(routines) :
       JoinedAt(i) /\ JoinedAt(j) /\ routines[i].peer = routines[j].peer => i = j
  /\ (loop.pc = "routine" /\ loop.routine = "joined") \/ loop.pc = "adding" =>
       /\ Joining(loop.handle)
       /\ \A i \in 1..Len(routines) : JoinedAt(i) => routines[i].peer # loop.handle

\* What the loop handles is, or was, in the registry.
InHand == {"result", "called", "rearm", "remove"}
AtHandle ==
  /\ loop.pc \in {"routine", "find"} => loop.handle \in Peers
  /\ loop.pc \in InHand \union {"rotating"} => Added(loop.handle)

InCall ==
  /\ app.pc \in {"push", "send", "close"} => app.todo # <<>>
  /\ app.pc = "close" => mHasBeenShutdown

\* Until something excuses it, nothing is torn and every handle the loop has is in
\* the registry.
Excused == mHasBeenShutdown \/ \E p \in Peers : link[p] = "reset"
Known(h) == h = Listener \/ conn[h] = "listed"
Intact ==
  Excused \/
  /\ ~torn /\ ~Iterating("app")
  /\ Iterating("loop") => loop.pc = "top"
  /\ loop.pc = "threw" => TooMany
  /\ loop.pc \in {"enter", "wait"} => \A i \in 1..Len(loop.handles) : Known(loop.handles[i])
  /\ loop.pc \in {"after", "reset", "find"} \union InHand => Known(loop.handle)

\* The loop sends only to those it answers, and only a reset or a close of the socket
\* fails what is started on it.
Sources ==
  /\ \A i \in 1..Len(routines) : routines[i].kind = "sent" => routines[i].peer \in Repliers
  /\ loop.pc = "routine" /\ loop.routine = "sent" => loop.handle \in Repliers
  /\ \A p \in Peers \ Repliers : \A i \in 1..Len(sending[p]) : sending[p][i] = "app"
  /\ \A p \in Peers : /\ recv[p] = "failed" => link[p] = "reset"
                      /\ overlap[p] = "failed" => link[p] = "reset" \/ Dead(p)

IInv == /\ TypeOK /\ Tracked /\ Placed /\ Joins /\ AtHandle /\ InCall
        /\ Intact /\ Sources /\ NoneGoesDeaf

-----------------------------------------------------------------------------
(* What a comment says and the code does not do *)

\* "Events include connection attempts, sending/receiving data, and shutdown"
\* (windows/Server.h:41-42): a shutdown ends waitForEvents.
ShutdownIsNoticed == mHasBeenShutdown ~> Ended
=============================================================================
