-------------------------- MODULE CallbackContract --------------------------
(***************************************************************************)
(* What an implementation of tcp::posix::Callback may assume of the server *)
(* that calls it: a connection is announced once, everything reported of   *)
(* it comes between connected and disconnected, and nothing comes after.   *)
(* The interface names the callbacks; this is the protocol they follow.    *)
(***************************************************************************)

VARIABLES up,     \* identifiers announced and not yet withdrawn
          event   \* the callback just made: its kind and its identifier

Init == up = {} /\ event.kind = "none"

Silence      == event'.kind = "none" /\ up' = up
Connected    == /\ event'.kind = "connected" /\ event'.id \notin up
                /\ up' = up \cup {event'.id}
Reported     == /\ event'.kind \in {"receive", "sent"} /\ event'.id \in up
                /\ up' = up
Disconnected == /\ event'.kind = "disconnected" /\ event'.id \in up
                /\ up' = up \ {event'.id}

Next == Silence \/ Connected \/ Reported \/ Disconnected
Spec == Init /\ [][Next]_<<up, event>>
=============================================================================
