----------------------------- MODULE ChachaPoly -----------------------------
(***************************************************************************)
(* The chacha20-poly1305@openssh.com packet cipher of src/libmbedcrypto.c  *)
(* for one direction: the sending side's cipher (aead_encrypt), the        *)
(* receiving side's cipher (aead_decrypt_length, then aead_decrypt) and    *)
(* the network between them, which may drop, duplicate, reorder and flip   *)
(* bits of packets.  The two directions of a session use two cipher        *)
(* structs that share nothing, so one direction is the whole story.        *)
(*                                                                         *)
(* Abstraction of the primitives:                                          *)
(*  - a keystream block is <<key, nonce, counter>>; a ChaCha20 context is  *)
(*    [nonce, ctr] under its key, and update advances ctr by the blocks    *)
(*    it consumes (a packet uses block 0 of the header context for the     *)
(*    4-byte length, block 0 of the main context for the Poly1305 key,    *)
(*    blocks 1.. for the payload);                                         *)
(*  - a ciphertext is [ks, pt]: XOR with the keystream starting at block   *)
(*    ks.  Decrypting with the same keystream gives pt, with another one   *)
(*    "garbage".  Flipping ciphertext bits flips the plaintext (XOR is     *)
(*    malleable);                                                          *)
(*  - a Poly1305 tag is [key, data]; nobody without the key can make one, *)
(*    so the network can only replay tags or send a forged value.          *)
(* The transport (src/packet.c, not in this tree) numbers the packets of   *)
(* each side from 0 and closes the connection when aead_decrypt fails;    *)
(* that part is modelled from the spec.                                    *)
(***************************************************************************)
EXTENDS Naturals, Sequences, FiniteSets

CONSTANTS
  Payloads,     \* payload contents (model values)
  MaxBlocks,    \* payload length in ChaCha20 blocks: 1..MaxBlocks
  MaxPackets,   \* packets the sender sends
  Garbage,      \* what a decryption with the wrong keystream yields
  Forged        \* a tag the network made up

ASSUME /\ Cardinality(Payloads) >= 2
       /\ MaxBlocks \in Nat \ {0, 1}
       /\ MaxPackets \in Nat \ {0}

\* The two halves of the 2 x 32-byte secret given to set_key: the first
\* keys main_ctx, the second header_ctx.
MainKey   == "main_key"
HeaderKey == "header_key"

\* A packet's plaintext: its length field (in blocks) and its payload.
Msgs == [len : 1..MaxBlocks, data : Payloads]

\* Bit flips the network can make in a ciphertext without the key.
FlipData(v) == CHOOSE w \in Payloads : w # v
FlipLen(n)  == (n % MaxBlocks) + 1

Block(k, ctx) == <<k, ctx.nonce, ctx.ctr>>
Encrypt(ks, pt, blocks) == [ks |-> ks, pt |-> pt, blocks |-> blocks]
Decrypt(ks, ct) == IF ct.ks = ks THEN ct.pt ELSE Garbage
Mac(key, data) == [key |-> key, data |-> data]

VARIABLES
  sched,      \* per side: chacha20_schedule, "unset", "set" or "freed"
  snd,        \* sender cipher: [hdr, main] ChaCha20 contexts
  sseq,       \* sender's packet sequence number (transport)
  net,        \* packets on the wire: [len, payload, tag]
  sent,       \* history: the plaintexts sent, in order
  ksUse,      \* history: the sender's keystream blocks and what each was used for
  rcv,        \* receiver cipher: [hdr, main, poly] contexts
  rseq,       \* receiver's packet sequence number (transport)
  rstate,     \* receiver transport: "len", "body" or "closed"
  rpkt,       \* the packet whose length was read
  rlen,       \* the decrypted length field
  rout,       \* the receiver's output buffer for the current packet
  delivered   \* history: payloads aead_decrypt released, in order

vars == <<sched, snd, sseq, net, sent, ksUse, rcv, rseq, rstate, rpkt, rlen, rout,
          delivered>>

NoPacket == [len |-> Encrypt(<<>>, Garbage, 0),
             payload |-> Encrypt(<<>>, Garbage, 0), tag |-> Forged]
NoOutput == "none"

-----------------------------------------------------------------------------
\* Mutant of chacha20_poly1305_set_iv: the sequence number does not reach
\* the nonce.
chacha20_poly1305_set_iv_NoSeq(ctx, seq) ==
  [ctx EXCEPT !.hdr = [nonce |-> 0, ctr |-> 0],
              !.main = [nonce |-> 0, ctr |-> 0]]

(* chacha20_poly1305_set_iv(): both contexts restart at block 0 with the   *)
(* 12-byte nonce 0^4 || BE64(seq).                                         *)
chacha20_poly1305_set_iv(ctx, seq) ==
  [ctx EXCEPT !.hdr = [nonce |-> seq, ctr |-> 0],
              !.main = [nonce |-> seq, ctr |-> 0]]

(* chacha20_poly1305_packet_setup(): on encrypt set the IV; run main_ctx   *)
(* over one zero block, whose output is the Poly1305 key; main_ctx is then *)
(* at block 1.  Returns the context and the Poly1305 key.                  *)
chacha20_poly1305_packet_setup(ctx, seq, do_encrypt) ==
  LET c == IF do_encrypt THEN chacha20_poly1305_set_iv(ctx, seq) ELSE ctx
  IN  <<[c EXCEPT !.main.ctr = @ + 1], Block(MainKey, c.main)>>

(* chacha20_poly1305_aead_encrypt() with the transport around it: set up   *)
(* the packet, encrypt the length with header_ctx, the payload with        *)
(* main_ctx from block 1, and Poly1305 over the encrypted length and       *)
(* payload; the packet goes on the wire and the sequence number moves on.  *)
chacha20_poly1305_aead_encrypt ==
  /\ sched.snd = "set"
  /\ sseq < MaxPackets
  /\ \E m \in Msgs :
       LET setup == chacha20_poly1305_packet_setup(snd, sseq, TRUE)
           c     == setup[1]
           lenKs == Block(HeaderKey, c.hdr)
           payKs == Block(MainKey, c.main)
           lenCt == Encrypt(lenKs, m.len, 0)
           payCt == Encrypt(payKs, m.data, m.len)
           pkt   == [len |-> lenCt, payload |-> payCt,
                     tag |-> Mac(setup[2], <<lenCt, payCt>>)]
           uses  == {<<setup[2], "poly1305 key">>, <<lenKs, m>>}
                    \cup {<<<<MainKey, c.main.nonce, c.main.ctr + b>>, m>> :
                            b \in 0..m.len - 1}
       IN /\ snd' = [c EXCEPT !.hdr.ctr = @ + 1, !.main.ctr = @ + m.len]
          /\ net' = net \cup {pkt}
          /\ sent' = Append(sent, m)
          /\ ksUse' = ksUse \cup {<<u, sseq>> : u \in uses}
          /\ sseq' = sseq + 1
  /\ UNCHANGED <<sched, rcv, rseq, rstate, rpkt, rlen, rout, delivered>>

\* What the network can hand the receiver: a packet it saw, or one with its
\* length, its payload or its tag changed.
Tampered(p) ==
  { p,
    [p EXCEPT !.len.pt = FlipLen(@)],
    [p EXCEPT !.payload.pt = FlipData(@)],
    [p EXCEPT !.tag = Forged] }

(* chacha20_poly1305_aead_decrypt_length(): set the IV of both contexts    *)
(* from the receiver's sequence number and decrypt the 4-byte length with  *)
(* header_ctx, before the rest of the packet has arrived.                  *)
chacha20_poly1305_aead_decrypt_length ==
  /\ sched.rcv = "set"
  /\ rstate = "len"
  /\ \E p \in UNION {Tampered(q) : q \in net} :
       LET c == chacha20_poly1305_set_iv(rcv, rseq) IN
       /\ rcv' = [c EXCEPT !.hdr.ctr = @ + 1]
       /\ rlen' = Decrypt(Block(HeaderKey, c.hdr), p.len)
       /\ rpkt' = p
  /\ rstate' = "body"
  /\ rout' = NoOutput
  /\ UNCHANGED <<sched, snd, sseq, net, sent, ksUse, rseq, delivered>>

\* The bytes the transport hands aead_decrypt: encrypted_size comes from the
\* decrypted length, so a wrong length makes the MAC cover other bytes.
Received(p, len) ==
  IF len = p.payload.blocks
    THEN <<p.len, p.payload>>
    ELSE <<p.len, p.payload, "misframed">>

\* Mutant of chacha20_poly1305_aead_decrypt: the tag compare is left out.
chacha20_poly1305_aead_decrypt_NoMacCheck ==
  LET setup == chacha20_poly1305_packet_setup(rcv, rseq, FALSE)
      c     == setup[1]
      pt    == Decrypt(Block(MainKey, c.main), rpkt.payload)
  IN
  /\ sched.rcv = "set" /\ rstate = "body"
  /\ rcv' = [c EXCEPT !.main.ctr = @ + rlen]
  /\ rout' = pt
  /\ delivered' = Append(delivered, [len |-> rlen, data |-> pt])
  /\ rseq' = rseq + 1
  /\ rstate' = "len"
  /\ UNCHANGED <<sched, snd, sseq, net, sent, ksUse, rpkt, rlen>>

\* Mutant of chacha20_poly1305_aead_decrypt: the payload is decrypted into
\* out before the tag is compared.
chacha20_poly1305_aead_decrypt_DecryptBeforeVerify ==
  LET setup == chacha20_poly1305_packet_setup(rcv, rseq, FALSE)
      c     == setup[1]
      tag   == Mac(setup[2], Received(rpkt, rlen))
      pt    == Decrypt(Block(MainKey, c.main), rpkt.payload)
  IN
  /\ sched.rcv = "set" /\ rstate = "body"
  /\ rcv' = [c EXCEPT !.main.ctr = @ + rlen]
  /\ rout' = pt
  /\ \/ /\ tag # rpkt.tag
        /\ rstate' = "closed"
        /\ UNCHANGED <<rseq, delivered>>
     \/ /\ tag = rpkt.tag
        /\ delivered' = Append(delivered, [len |-> rlen, data |-> pt])
        /\ rseq' = rseq + 1
        /\ rstate' = "len"
  /\ UNCHANGED <<sched, snd, sseq, net, sent, ksUse, rpkt, rlen>>

(* chacha20_poly1305_aead_decrypt(): packet setup without a new IV (the    *)
(* length step set it), Poly1305 over the received length and payload,     *)
(* constant-time compare with the received tag; on mismatch return an     *)
(* error with nothing written, else decrypt the payload from block 1.      *)
(* The transport closes the connection on error and counts the packet on   *)
(* success.  The seq argument is not used.                                 *)
(* It dereferences chacha20_schedule, so the transport calls it only      *)
(* between set_key and cleanup.                                           *)
chacha20_poly1305_aead_decrypt ==
  LET setup == chacha20_poly1305_packet_setup(rcv, rseq, FALSE)
      c     == setup[1]
      tag   == Mac(setup[2], Received(rpkt, rlen))
      pt    == Decrypt(Block(MainKey, c.main), rpkt.payload)
  IN
  /\ sched.rcv = "set" /\ rstate = "body"
  /\ \/ /\ tag # rpkt.tag
        /\ rcv' = c
        /\ rstate' = "closed"
        /\ UNCHANGED <<rout, rseq, delivered>>
     \/ /\ tag = rpkt.tag
        /\ rcv' = [c EXCEPT !.main.ctr = @ + rlen]
        /\ rout' = pt
        /\ delivered' = Append(delivered, [len |-> rlen, data |-> pt])
        /\ rseq' = rseq + 1
        /\ rstate' = "len"
  /\ UNCHANGED <<sched, snd, sseq, net, sent, ksUse, rpkt, rlen>>

-----------------------------------------------------------------------------
\* Contexts keyed from the 2 x 32-byte secret; the nonce is set per packet.
KeyedContexts ==
  [hdr |-> [nonce |-> 0, ctr |-> 0], main |-> [nonce |-> 0, ctr |-> 0]]

(* chacha20_poly1305_set_key(): calloc the schedule (failure returns -1),  *)
(* init the contexts, key main_ctx and header_ctx; a failing setkey runs   *)
(* the cleanup, which frees the schedule.  On an error the transport      *)
(* abandons the connection.                                                *)
chacha20_poly1305_set_key(side) ==
  /\ sched[side] = "unset"
  /\ sched' \in {[sched EXCEPT ![side] = "set"], [sched EXCEPT ![side] = "freed"]}
  /\ UNCHANGED <<snd, sseq, net, sent, ksUse, rcv, rseq, rstate, rpkt, rlen,
                 rout, delivered>>

(* chacha20_poly1305_cleanup(): free the contexts and the schedule, at     *)
(* teardown or rekey of that side.                                         *)
chacha20_poly1305_cleanup(side) ==
  /\ sched[side] = "set"
  /\ sched' = [sched EXCEPT ![side] = "freed"]
  /\ UNCHANGED <<snd, sseq, net, sent, ksUse, rcv, rseq, rstate, rpkt, rlen,
                 rout, delivered>>

Sides == {"snd", "rcv"}

Init ==
  /\ sched = [s \in Sides |-> "unset"]
  /\ snd = KeyedContexts
  /\ rcv = KeyedContexts
  /\ sseq = 0 /\ rseq = 0
  /\ net = {}
  /\ sent = << >> /\ delivered = << >>
  /\ ksUse = {}
  /\ rstate = "len"
  /\ rpkt = NoPacket /\ rlen = 0
  /\ rout = NoOutput

Next ==
  \/ \E side \in Sides : chacha20_poly1305_set_key(side)
  \/ \E side \in Sides : chacha20_poly1305_cleanup(side)
  \/ chacha20_poly1305_aead_encrypt
  \/ chacha20_poly1305_aead_decrypt_length
  \/ chacha20_poly1305_aead_decrypt

Spec == Init /\ [][Next]_vars

-----------------------------------------------------------------------------
(* Integrity and order: whatever the network does, the receiver          *)
(* implements an AEAD channel (AeadChannel): each aead_decrypt that        *)
(* succeeds releases the next packet the sender encrypted, with its        *)
(* length field, so no forged, replayed, reordered, skipped or bit-flipped *)
(* packet passes, and the sender's history only grows by appending.        *)
Chan == INSTANCE AeadChannel

ChannelRefinement == Chan!Spec

(* A packet that fails authentication releases no plaintext: when the      *)
(* receiver closes on an aead_decrypt error, its output buffer for that    *)
(* packet is untouched.                                                    *)
NoPlaintextOnAuthFailure == rstate = "closed" => rout = NoOutput

(* The sender never uses a keystream block twice: the Poly1305 key block,  *)
(* the length block and every payload block of every packet are distinct, *)
(* so no two plaintexts are XORed with the same keystream.                 *)
KeystreamNeverReused ==
  \A u, v \in ksUse : u[1][1] = v[1][1] => u = v

=============================================================================
