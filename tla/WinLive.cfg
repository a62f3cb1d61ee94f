\* Two clients: one that may leave and is answered once, one that stays; a shutdown.
SPECIFICATION Spec
CONSTANTS
  Peers = {p1, p2}
  Listener = Listener
  Repliers = {p1}
  Leavers = {p1}
  MaxReplies = 1
  MaxCalls = 0
  MaxHandles = 3
PROPERTIES ReadyIsServed EndIsNoticed ShutdownTerminates
