\* A client leaves and another connects during one send.
SPECIFICATION Spec
CONSTANTS
  Addr = {a1, a2}
  NoAddr = NoAddr
  ConnFd = {3, 4}
  Peer = {p1, p2}
  NoPeer = NoPeer
  Data = "data"
  Token <- MCTokens
  ListenFd <- MCListenFd
  WakeFd <- MCWakeFd
  Name <- MCNames
  Closers = {p1}
  Silent = {}
  Slow = {}
  MaxData = 0
  MaxCalls = 2
  PipeCap = 3
  RecvMax = 2
  UnsetBits = {}
INVARIANT NoCrossTalk
