\* One client that the application sends to, and a shutdown.
SPECIFICATION Spec
CONSTANTS
  Peers = {p1}
  Listener = Listener
  Repliers = {}
  Leavers = {}
  MaxReplies = 0
  MaxCalls = 1
  MaxHandles = 2
PROPERTY ShutdownIsNoticed
