\* One client that stays and one broadcast.
SPECIFICATION Spec
CONSTANTS
  Addr = {a1}
  NoAddr = NoAddr
  ConnFd = {3}
  Peer = {p1}
  NoPeer = NoPeer
  Data = "data"
  Token <- MCTokens
  ListenFd <- MCListenFd
  WakeFd <- MCWakeFd
  Name <- MCNames
  Closers = {}
  Silent = {}
  Slow = {}
  MaxData = 0
  MaxCalls = 1
  PipeCap = 3
  RecvMax = 2
  UnsetBits = {}
PROPERTY QueuedIsSent
