\* Two clients that stay, one with a slow network: two calls against the loop.
SPECIFICATION Spec
CONSTANTS
  Addr = {a1, a2}
  NoAddr = NoAddr
  ConnFd = {3, 4}
  Peer = {p1, p2}
  NoPeer = NoPeer
  Data = "data"
  Token <- MCTokens
  ListenFd <- MCListenFd
  WakeFd <- MCWakeFd
  Name <- MCNames
  Closers = {}
  Silent = {}
  Slow = {p2}
  MaxData = 0
  MaxCalls = 2
  PipeCap = 3
  RecvMax = 2
  UnsetBits = {}
INVARIANTS RepeatsOnlyTorn NoCrossTalk WakeupNotLost
PROPERTY CallbackProtocol
