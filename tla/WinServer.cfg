\* Two clients, one of which may leave, a call and a shutdown.
SPECIFICATION Spec
CONSTANTS
  Peers = {p1, p2}
  Listener = Listener
  Repliers = {}
  Leavers = {p1}
  MaxReplies = 0
  MaxCalls = 1
  MaxHandles = 3
INVARIANTS TypeOK RegistryAgrees NoneGoesDeaf OnlyResetThrows
