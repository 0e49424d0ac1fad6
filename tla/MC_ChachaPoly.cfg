\* One direction, four packets of one or two blocks, a network that may
\* drop, duplicate, reorder and flip bits.
CONSTANTS
  Payloads = {a, b}
  MaxBlocks = 2
  MaxPackets = 4
  Garbage = Garbage
  Forged = Forged
INIT Init
NEXT Next
\* The receiver closes the connection on an authentication failure and the
\* sender stops after MaxPackets: the system really stops.
CHECK_DEADLOCK FALSE
PROPERTY
  ChannelRefinement
INVARIANTS
  NoPlaintextOnAuthFailure
  KeystreamNeverReused
