\* A server, a client and a file; the process may run out of descriptors.
SPECIFICATION Spec
CONSTANTS
  Fd <- MCFd
  Client = {c1}
  MaxCalls = 2
  MaxFiles = 1
  MaxListed = 2
  PipeCap = 3
CHECK_DEADLOCK FALSE
INVARIANT TypeOK
INVARIANT EachOwnsItsNumber
PROPERTY TeardownEnds
