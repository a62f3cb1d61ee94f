\* A client that may close at any moment beside one that stays.
SPECIFICATION Spec
CONSTANTS
  Addr = {a1, a2}
  NoAddr = NoAddr
  ConnFd = {3, 4}
  Peer = {p1, p2}
  NoPeer = NoPeer
  Data = "data"
  Token <- MCTokens
  ListenFd <- MCListenFd
  WakeFd <- MCWakeFd
  Name <- MCNames
  Closers = {p1}
  Silent = {}
  Slow = {}
  MaxData = 1
  MaxCalls = 1
  PipeCap = 2
  RecvMax = 2
  UnsetBits = {3}
SYMMETRY AddrSymmetry
INVARIANTS TypeOK MappingSound LiveConnectionOwnsFd AckFirst ConsistentWhileWaiting
PROPERTY ProtocolWhileWhole
