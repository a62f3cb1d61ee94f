\* Two sends, two replies, a disconnect, and a server that may leave.
SPECIFICATION Spec
CONSTANTS
  MaxSends = 2
  MaxReplies = 2
  PipeCap = 3
  RecvMax = 1
  Narrow = TRUE
INVARIANTS TypeOK RepliesInOrder RepeatsOnlyTorn WakeupNotLost
PROPERTIES DisconnectTerminates ServerGoneTerminates FlaggedIsSent
