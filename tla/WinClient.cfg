\* Three sends, two replies, a disconnect, and a server that may leave.
SPECIFICATION Spec
CONSTANTS
  MaxSends = 3
  MaxReplies = 2
INVARIANTS TypeOK BufferOutlivesSend
PROPERTIES DisconnectTerminates ReceivedIsHeard
