----------------------------- MODULE GcmCipher -----------------------------
(***************************************************************************)
(* The aes128/256-gcm@openssh.com packet cipher of src/libmbedcrypto.c     *)
(* for one direction: the sender's cipher struct (cipher_set_key_gcm,      *)
(* cipher_encrypt_gcm), the receiver's (cipher_set_key_gcm,                *)
(* cipher_gcm_get_length, cipher_decrypt_gcm) and a network that may      *)
(* drop, duplicate, reorder and flip bits of packets; cipher_cleanup may   *)
(* end either side at any point.                                           *)
(*                                                                         *)
(* The nonce is cipher->last_iv: both structs start from the IV the key    *)
(* exchange derived, and each advances it by uint64_inc(last_iv + 4) after *)
(* a successful call.  The seq argument is not used.  last_iv is modelled  *)
(* by its invocation counter (the 8 bytes that are incremented).           *)
(*                                                                         *)
(* Abstraction of the primitive: a ciphertext is [iv, pt, blocks]; GCM     *)
(* decryption with the IV it was made under gives pt, with another IV      *)
(* "garbage".  A tag is Mac(iv, <<aad, ciphertext>>) under the session    *)
(* key: nobody without the key can make one.  The 4-byte length field is   *)
(* the associated data, sent in clear.  mbedtls_gcm_auth_decrypt() zeroes  *)
(* its output on a tag mismatch.                                           *)
(*                                                                         *)
(* mbedtls_gcm_crypt_and_tag() fails only for an empty IV, a tag size      *)
(* outside 4..16 or more than 2^36 bytes: not for the 12-byte IV, 16-byte  *)
(* tag and packet sizes the transport passes, so that error path of        *)
(* cipher_encrypt_gcm is not a state of this model.                        *)
(***************************************************************************)
EXTENDS Integers, Sequences

CONSTANTS
  Payloads,     \* payload contents (model values)
  MaxBlocks,    \* payload length in AES blocks: 1..MaxBlocks
  MaxPackets,   \* packets the sender encrypts
  Garbage,      \* what a decryption under the wrong IV yields
  Forged        \* a tag the network made up

ASSUME /\ MaxBlocks \in Nat \ {0, 1}
       /\ MaxPackets \in Nat \ {0}

\* A packet's plaintext: its length field (in blocks) and its payload.
Msgs == [len : 1..MaxBlocks, data : Payloads]

Sides == {"snd", "rcv"}

FlipData(v) == CHOOSE w \in Payloads : w # v
FlipLen(n)  == (n % MaxBlocks) + 1

Encrypt(iv, pt, blocks) == [iv |-> iv, pt |-> pt, blocks |-> blocks]
Decrypt(iv, ct) == IF ct.iv = iv THEN ct.pt ELSE Garbage
Mac(iv, data) == [iv |-> iv, data |-> data]

VARIABLES
  gcm,        \* per side: the gcm_ctx, "unset", "set" or "freed"
  last_iv,    \* per side: the invocation counter of cipher->last_iv
  net,        \* packets on the wire: [aad, ct, tag]
  sent,       \* history: the plaintexts encrypted, in order
  rstate,     \* receiver transport: "len", "body" or "closed"
  rpkt,       \* the packet whose length was read
  rlen,       \* the length field read from it
  rout,       \* the receiver's output buffer for the current packet
  delivered   \* history: payloads cipher_decrypt_gcm released, in order

vars == <<gcm, last_iv, net, sent, rstate, rpkt, rlen, rout,
          delivered>>

NoPacket == [aad |-> 0, ct |-> Encrypt(-1, Garbage, 0), tag |-> Forged]
NoOutput == "none"

-----------------------------------------------------------------------------
(* cipher_set_key_gcm(): gcm_init, gcm_setkey with the key length of the   *)
(* row; on failure gcm_free and return 1 (the transport abandons the       *)
(* connection); else copy the IV into last_iv.                             *)
cipher_set_key_gcm(side) ==
  /\ gcm[side] = "unset"
  /\ \/ /\ gcm' = [gcm EXCEPT ![side] = "set"]
        /\ last_iv' = [last_iv EXCEPT ![side] = 0]
     \/ /\ gcm' = [gcm EXCEPT ![side] = "freed"]
        /\ UNCHANGED last_iv
  /\ UNCHANGED <<net, sent, rstate, rpkt, rlen, rout, delivered>>

(* cipher_encrypt_gcm(): copy the length field to out in clear, then       *)
(* gcm_crypt_and_tag over the rest with last_iv as the IV and the length   *)
(* field as associated data, then increment last_iv.  The transport puts   *)
(* the packet and its tag on the wire.                                     *)
cipher_encrypt_gcm ==
  /\ gcm.snd = "set"
  /\ Len(sent) < MaxPackets
  /\ \E m \in Msgs :
       LET iv == last_iv.snd
           ct == Encrypt(iv, m.data, m.len)
       IN /\ net' = net \cup {[aad |-> m.len, ct |-> ct,
                               tag |-> Mac(iv, <<m.len, ct>>)]}
          /\ sent' = Append(sent, m)
  /\ last_iv' = [last_iv EXCEPT !.snd = @ + 1]
  /\ UNCHANGED <<gcm, rstate, rpkt, rlen, rout, delivered>>

\* What the network can hand the receiver: a packet it saw, or one with its
\* length, its payload or its tag changed.
Tampered(p) ==
  { p,
    [p EXCEPT !.aad = FlipLen(@)],
    [p EXCEPT !.ct.pt = FlipData(@)],
    [p EXCEPT !.tag = Forged] }

(* cipher_gcm_get_length(): the length is not encrypted; copy it.          *)
cipher_gcm_get_length ==
  /\ gcm.rcv = "set"
  /\ rstate = "len"
  /\ \E p \in UNION {Tampered(q) : q \in net} :
       /\ rlen' = p.aad
       /\ rpkt' = p
  /\ rstate' = "body"
  /\ rout' = NoOutput
  /\ UNCHANGED <<gcm, last_iv, net, sent, delivered>>

\* The bytes gcm_auth_decrypt authenticates: encrypted_size comes from the
\* length field, so a wrong length makes the tag cover other bytes.
Received(p, len) ==
  IF len = p.ct.blocks THEN <<len, p.ct>> ELSE <<len, p.ct, "misframed">>

\* Mutant of cipher_decrypt_gcm: last_iv is not incremented.
cipher_decrypt_gcm_NoIvInc ==
  LET iv == last_iv.rcv IN
  /\ gcm.rcv = "set" /\ rstate = "body"
  /\ \/ /\ Mac(iv, Received(rpkt, rlen)) # rpkt.tag
        /\ rout' = "zeroed"
        /\ rstate' = "closed"
        /\ UNCHANGED delivered
     \/ /\ Mac(iv, Received(rpkt, rlen)) = rpkt.tag
        /\ rout' = Decrypt(iv, rpkt.ct)
        /\ delivered' = Append(delivered, [len |-> rlen, data |-> rout'])
        /\ rstate' = "len"
  /\ UNCHANGED <<gcm, last_iv, net, sent, rpkt, rlen>>

\* Mutant of cipher_decrypt_gcm: decrypt with gcm_crypt_and_tag, then
\* compare the tag; the plaintext stays in out on a mismatch.
cipher_decrypt_gcm_CryptThenCompare ==
  LET iv == last_iv.rcv IN
  /\ gcm.rcv = "set" /\ rstate = "body"
  /\ rout' = Decrypt(iv, rpkt.ct)
  /\ \/ /\ Mac(iv, Received(rpkt, rlen)) # rpkt.tag
        /\ rstate' = "closed"
        /\ UNCHANGED <<last_iv, delivered>>
     \/ /\ Mac(iv, Received(rpkt, rlen)) = rpkt.tag
        /\ delivered' = Append(delivered, [len |-> rlen, data |-> rout'])
        /\ last_iv' = [last_iv EXCEPT !.rcv = @ + 1]
        /\ rstate' = "len"
  /\ UNCHANGED <<gcm, net, sent, rpkt, rlen>>

(* cipher_decrypt_gcm(): gcm_auth_decrypt of encrypted_size bytes with     *)
(* last_iv, the length field as associated data and the tag after the      *)
(* payload.  On a mismatch it returns SSH_ERROR (the output was zeroed by  *)
(* mbedTLS) and the transport closes the connection; on success last_iv   *)
(* is incremented and the payload is released.                             *)
cipher_decrypt_gcm ==
  LET iv == last_iv.rcv IN
  /\ gcm.rcv = "set" /\ rstate = "body"
  /\ \/ /\ Mac(iv, Received(rpkt, rlen)) # rpkt.tag
        /\ rout' = "zeroed"
        /\ rstate' = "closed"
        /\ UNCHANGED <<last_iv, delivered>>
     \/ /\ Mac(iv, Received(rpkt, rlen)) = rpkt.tag
        /\ rout' = Decrypt(iv, rpkt.ct)
        /\ delivered' = Append(delivered, [len |-> rlen, data |-> rout'])
        /\ last_iv' = [last_iv EXCEPT !.rcv = @ + 1]
        /\ rstate' = "len"
  /\ UNCHANGED <<gcm, net, sent, rpkt, rlen>>

(* cipher_cleanup(): mbedtls_cipher_free on both block contexts (unused   *)
(* by the GCM rows) and mbedtls_gcm_free, at rekey or teardown; after it   *)
(* the transport calls no hook of this cipher.                             *)
cipher_cleanup(side) ==
  /\ gcm[side] # "freed"
  /\ gcm' = [gcm EXCEPT ![side] = "freed"]
  /\ UNCHANGED <<last_iv, net, sent, rstate, rpkt, rlen, rout, delivered>>

-----------------------------------------------------------------------------
Init ==
  /\ gcm = [s \in Sides |-> "unset"]
  /\ last_iv = [s \in Sides |-> 0]
  /\ net = {}
  /\ sent = << >> /\ delivered = << >>
  /\ rstate = "len"
  /\ rpkt = NoPacket /\ rlen = 0
  /\ rout = NoOutput

Next ==
  \/ \E side \in Sides : cipher_set_key_gcm(side)
  \/ cipher_encrypt_gcm
  \/ cipher_gcm_get_length
  \/ cipher_decrypt_gcm
  \/ \E side \in Sides : cipher_cleanup(side)

Spec == Init /\ [][Next]_vars

-----------------------------------------------------------------------------
(* Integrity and order: whatever the network does, the receiver            *)
(* implements an AEAD channel (AeadChannel).  The two last_iv counters     *)
(* advance independently, one per successful call on each side, and only   *)
(* their agreement binds a packet to its place in the stream: a replayed,  *)
(* reordered or skipped packet must fail the tag check.                    *)
Chan == INSTANCE AeadChannel

ChannelRefinement == Chan!Spec

(* A packet that fails authentication releases no plaintext: when the      *)
(* receiver closes on a cipher_decrypt_gcm error, its output buffer holds  *)
(* nothing or zeroes.                                                      *)
NoPlaintextOnAuthFailure == rstate = "closed" => rout \in {NoOutput, "zeroed"}

====
