\* Eight ciphertext blocks, decrypted in runs of one to three blocks: runs
\* of one block (the first block of a packet) and of several follow each
\* other in every order.  Both modes and both mbedTLS CBC behaviours.
CONSTANTS
  MaxBlocks = 8
  MaxRun = 3
  Garbage = Garbage
INIT Init
NEXT Next
\* A failed set_key or cipher_cleanup ends the session, and the sender
\* stops after MaxBlocks: the system really stops.
CHECK_DEADLOCK FALSE
INVARIANTS
  DecryptYieldsPlaintext
