\* One direction, four packets of one or two blocks, a network that may
\* drop, duplicate, reorder and flip bits; either side's set_key may fail.
CONSTANTS
  Payloads = {a, b}
  MaxBlocks = 2
  MaxPackets = 4
  Garbage = Garbage
  Forged = Forged
INIT Init
NEXT Next
\* A failed set_key, a receiver that closed the connection and a sender
\* that has sent MaxPackets packets stop: the system really stops.
CHECK_DEADLOCK FALSE
PROPERTY
  ChannelRefinement
INVARIANTS
  NoPlaintextOnAuthFailure
