---------------------------- MODULE AeadChannel ----------------------------
(***************************************************************************)
(* What an AEAD packet cipher promises the transport, for one direction    *)
(* (spec section 4.2): the receiver accepts the sender's packets exactly,  *)
(* in the order sent, each at most once, and nothing else.  Packets may    *)
(* stop arriving (the connection closes), but none is skipped, replayed,   *)
(* forged or altered.                                                      *)
(*                                                                         *)
(* ChachaPoly and GcmCipher are shown to implement this specification:    *)
(* their "sent" and "delivered" histories are the variables here.          *)
(***************************************************************************)
EXTENDS Naturals, Sequences

CONSTANT Msgs      \* packet plaintexts

VARIABLES
  sent,       \* the plaintexts the sender has encrypted, in order
  delivered   \* the plaintexts the receiver has accepted, in order

chanVars == <<sent, delivered>>

Init == sent = << >> /\ delivered = << >>

\* The sender encrypts one more packet.
Send == \E m \in Msgs : sent' = Append(sent, m) /\ UNCHANGED delivered

\* The receiver accepts the next packet it has not accepted yet.
Deliver ==
  /\ Len(delivered) < Len(sent)
  /\ delivered' = Append(delivered, sent[Len(delivered) + 1])
  /\ UNCHANGED sent

Next == Send \/ Deliver

Spec == Init /\ [][Next]_chanVars

====
