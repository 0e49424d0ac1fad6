---------------------------- MODULE MC_RoundTrip ----------------------------
(* Keys whose private blob leaves the section 16-byte aligned (no padding), *)
(* one byte short of it (15 padding bytes) and 3 bytes short (3 bytes).     *)
EXTENDS RoundTrip

CONSTANTS P1, P2

MCPassphrases == {P1, P2}

MCPrivKeys == {[bloblen |-> 4], [bloblen |-> 5], [bloblen |-> 1]}

====
