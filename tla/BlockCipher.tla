---------------------------- MODULE BlockCipher ----------------------------
(***************************************************************************)
(* The CBC and CTR rows of ssh_ciphertab (src/libmbedcrypto.c) for one     *)
(* direction: the sender's encrypt_ctx (set_encrypt_key[_cbc],             *)
(* encrypt[_cbc]), the receiver's decrypt_ctx (set_decrypt_key[_cbc],      *)
(* decrypt[_cbc]) and cipher_cleanup().  The transport hands the decrypt   *)
(* hook the ciphertext stream in runs of whole blocks (the first block of  *)
(* a packet, then the rest); the stream never breaks between packets.     *)
(*                                                                         *)
(* Blocks are numbered: the sender's k-th ciphertext block is k and its    *)
(* plaintext is k.  Decrypting block b with a context that has processed  *)
(* block c gives b when b = c + 1 (the CBC chaining value, or the CTR      *)
(* counter, is right) and Garbage otherwise.                               *)
(*                                                                         *)
(* mbedTLS's CBC decryption may hold back the last whole block of an       *)
(* update (cipher_decrypt_cbc's comment: it "caches the last block"); its  *)
(* finish then outputs that block but leaves the unprocessed counter set,  *)
(* and only mbedtls_cipher_reset clears it.  Whether update holds the      *)
(* block back depends on the mbedTLS build, so "caches" is chosen in Init. *)
(***************************************************************************)
EXTENDS Naturals, Sequences, SequencesExt

CONSTANTS
  MaxBlocks,    \* ciphertext blocks the sender produces
  MaxRun,       \* blocks in one encrypt or decrypt call: 1..MaxRun
  Garbage       \* a block decrypted with the wrong chaining value

ASSUME MaxBlocks \in Nat /\ MaxRun \in Nat \ {0, 1}

Modes == {"cbc", "ctr"}

VARIABLES
  mode,     \* the row's mode
  caches,   \* mbedTLS CBC decryption holds back the last block
  enc,      \* encrypt_ctx: "unset", "ready" or "freed"
  dec,      \* decrypt_ctx: [state, chain, unproc, cached]
  spos,     \* blocks the sender has encrypted
  rpos,     \* blocks the receiver has handed to the decrypt hook
  rin,      \* the ciphertext blocks of the last decrypt call
  rout      \* what that call left in its len-byte output buffer

vars == <<mode, caches, enc, dec, spos, rpos, rin, rout>>

Blocks(from, k) == [i \in 1..k |-> from + i]

\* Decrypt a run of blocks in order, starting from chaining value c.
DecBlocks(c, bs) ==
  [i \in 1..Len(bs) |->
     IF bs[i] = (IF i = 1 THEN c ELSE bs[i - 1]) + 1 THEN bs[i] ELSE Garbage]

ChainAfter(c, bs) == IF bs = << >> THEN c ELSE Last(bs)

\* A len-byte output buffer after writing res at its start.
Buf(res, k) == [i \in 1..k |-> IF i <= Len(res) THEN res[i] ELSE "unwritten"]

(* mbedtls_cipher_update on decrypt_ctx: a cached block is processed       *)
(* first; in CBC mode a build that caches keeps the last whole block of    *)
(* the input back (all of it when that is the only block).  Returns        *)
(* <<output blocks, context>>.                                             *)
Update(ctx, in) ==
  LET hold  == IF mode = "cbc" /\ caches THEN 1 ELSE 0
      stale == IF ctx.unproc = 1 THEN <<ctx.cached>> ELSE << >>
      proc  == stale \o SubSeq(in, 1, Len(in) - hold)
  IN  <<DecBlocks(ctx.chain, proc),
        [ctx EXCEPT !.chain = ChainAfter(@, proc), !.unproc = hold,
                    !.cached = IF hold = 1 THEN Last(in) ELSE @]>>

\* mbedtls_cipher_finish: output the cached block; the counter stays set.
Finish(ctx) ==
  <<DecBlocks(ctx.chain, <<ctx.cached>>), [ctx EXCEPT !.chain = ctx.cached]>>

\* mbedtls_cipher_reset: clear the unprocessed data counter.
Reset(ctx) == [ctx EXCEPT !.unproc = 0]

-----------------------------------------------------------------------------
(* cipher_init(): cipher_init, setup, setkey and set_iv on the context;    *)
(* any failure frees it.  A fresh context has processed no block.          *)
cipher_init == [state |-> "ready", chain |-> 0, unproc |-> 0, cached |-> 0]

(* cipher_set_encrypt_key() (CTR) and cipher_set_encrypt_key_cbc(): init  *)
(* (the CBC variant also sets no padding), reset; on an error the context  *)
(* is freed and SSH_ERROR returned, and the transport abandons the         *)
(* connection.                                                             *)
cipher_set_encrypt_key ==
  /\ enc = "unset"
  /\ enc' \in {"ready", "freed"}
  /\ UNCHANGED <<mode, caches, dec, spos, rpos, rin, rout>>

cipher_set_decrypt_key ==
  /\ dec.state = "unset"
  /\ dec' \in {cipher_init, [cipher_init EXCEPT !.state = "freed"]}
  /\ UNCHANGED <<mode, caches, enc, spos, rpos, rin, rout>>

(* cipher_encrypt_cbc() / cipher_encrypt(): one update over whole blocks;  *)
(* with no padding nothing is held back, so the output is complete and    *)
(* the finish branch of cipher_encrypt is not taken.                       *)
cipher_encrypt ==
  /\ enc = "ready"
  /\ \E k \in 1..MaxRun : spos + k <= MaxBlocks /\ spos' = spos + k
  /\ UNCHANGED <<mode, caches, enc, dec, rpos, rin, rout>>

\* Mutant of cipher_decrypt_cbc: no mbedtls_cipher_reset after finish.
cipher_decrypt_cbc_NoReset ==
  /\ mode = "cbc" /\ dec.state = "ready"
  /\ \E k \in 1..MaxRun :
       LET in == Blocks(rpos, k)
           u  == Update(dec, in)
           f  == Finish(u[2])
       IN /\ rpos + k <= spos
          /\ rin' = in
          /\ rpos' = rpos + k
          /\ \/ /\ Len(u[1]) = k
                /\ rout' = Buf(u[1], k) /\ dec' = u[2]
             \/ /\ Len(u[1]) # k
                /\ rout' = Buf(u[1] \o f[1], k) /\ dec' = f[2]
  /\ UNCHANGED <<mode, caches, enc, spos>>

(* cipher_decrypt_cbc(): update; if it wrote nothing, finish into out; if  *)
(* it wrote all len bytes, return; otherwise finish after what it wrote.   *)
(* After a finish, reset the context so the next call starts with no       *)
(* cached block.  (finish and reset cannot fail here: the input is whole   *)
(* blocks and the context is set up.)                                      *)
cipher_decrypt_cbc ==
  /\ mode = "cbc" /\ dec.state = "ready"
  /\ \E k \in 1..MaxRun :
       LET in == Blocks(rpos, k)
           u  == Update(dec, in)
           f  == Finish(u[2])
       IN /\ rpos + k <= spos
          /\ rin' = in
          /\ rpos' = rpos + k
          /\ \/ /\ Len(u[1]) = 0
                /\ rout' = Buf(f[1], k) /\ dec' = Reset(f[2])
             \/ /\ Len(u[1]) = k
                /\ rout' = Buf(u[1], k) /\ dec' = u[2]
             \/ /\ Len(u[1]) \notin {0, k}
                /\ rout' = Buf(u[1] \o f[1], k) /\ dec' = Reset(f[2])
  /\ UNCHANGED <<mode, caches, enc, spos>>

(* cipher_decrypt() (CTR): update; a stream mode writes all len bytes, so  *)
(* the function returns before its finish.                                 *)
cipher_decrypt ==
  /\ mode = "ctr" /\ dec.state = "ready"
  /\ \E k \in 1..MaxRun :
       LET in == Blocks(rpos, k)
           u  == Update(dec, in)
       IN /\ rpos + k <= spos
          /\ Len(u[1]) = k
          /\ rin' = in
          /\ rpos' = rpos + k
          /\ rout' = Buf(u[1], k) /\ dec' = u[2]
  /\ UNCHANGED <<mode, caches, enc, spos>>

\* cipher_cleanup(): free both contexts (teardown or rekey).
cipher_cleanup ==
  /\ enc # "freed" \/ dec.state # "freed"
  /\ enc' = "freed"
  /\ dec' = [dec EXCEPT !.state = "freed"]
  /\ UNCHANGED <<mode, caches, spos, rpos, rin, rout>>

-----------------------------------------------------------------------------
Init ==
  /\ mode \in Modes
  /\ caches \in BOOLEAN
  /\ enc = "unset"
  /\ dec = [cipher_init EXCEPT !.state = "unset"]
  /\ spos = 0 /\ rpos = 0
  /\ rin = << >> /\ rout = << >>

Next ==
  \/ cipher_set_encrypt_key
  \/ cipher_set_decrypt_key
  \/ cipher_encrypt
  \/ cipher_decrypt_cbc
  \/ cipher_decrypt
  \/ cipher_cleanup

Spec == Init /\ [][Next]_vars

-----------------------------------------------------------------------------
(* Every decrypt call leaves exactly the plaintext of its len bytes in     *)
(* out, whatever runs the earlier calls had and whether or not this        *)
(* mbedTLS build holds CBC blocks back: no block is missing, stale (a      *)
(* cached block of the previous call decrypted again) or out of place.     *)
DecryptYieldsPlaintext == rout = rin

====
