\* One call, a shutdown and a client that may close, under fairness.
SPECIFICATION Spec
CONSTANTS
  Addr = {a1, a2}
  NoAddr = NoAddr
  ConnFd = {3, 4}
  Peer = {p1, p2}
  NoPeer = NoPeer
  Data = "data"
  Token <- MCTokens
  ListenFd <- MCListenFd
  WakeFd <- MCWakeFd
  Name <- MCNames
  Closers = {p1}
  Silent = {}
  Slow = {}
  MaxData = 0
  MaxCalls = 1
  PipeCap = 2
  RecvMax = 2
  UnsetBits = {}
PROPERTIES ShutdownTerminates FlaggedIsSent ConnectIsAnnounced
