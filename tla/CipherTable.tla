---------------------------- MODULE CipherTable ----------------------------
(***************************************************************************)
(* The cipher registry of the mbedTLS backend: the static table           *)
(* ssh_ciphertab of src/libmbedcrypto.c.  Each entry keeps the numbers the *)
(* callers read (blocksize, keysize in bits, lenfield_blocksize, tag_size) *)
(* and the set of function pointers it fills in; a hook that the C         *)
(* initialiser leaves out is NULL, i.e. absent from ops.                   *)
(*                                                                         *)
(* Which entries exist depends on the build (HAVE_BLOWFISH, MBEDTLS_GCM_C, *)
(* MBEDTLS_CHACHA20_C && MBEDTLS_POLY1305_C, WITH_INSECURE_NONE).  When    *)
(* mbedTLS has no ChaCha20/Poly1305 the chacha20-poly1305 row holds only   *)
(* its name until ssh_crypto_init() overwrites it with libssh's own        *)
(* implementation ("patched").                                             *)
(***************************************************************************)
EXTENDS Naturals, TLC

CONSTANTS
  HAVE_BLOWFISH,       \* build option
  MBEDTLS_GCM_C,       \* mbedTLS built with GCM
  MBEDTLS_CHACHAPOLY,  \* mbedTLS built with ChaCha20 and Poly1305
  WITH_INSECURE_NONE   \* build option: a "none" row in the table

ASSUME {HAVE_BLOWFISH, MBEDTLS_GCM_C, MBEDTLS_CHACHAPOLY, WITH_INSECURE_NONE}
         \subseteq BOOLEAN

\* The hooks of struct ssh_cipher_struct that the table fills in.
BlockOps == {"set_encrypt_key", "set_decrypt_key", "encrypt", "decrypt", "cleanup"}
AeadOps  == {"set_encrypt_key", "set_decrypt_key", "aead_encrypt",
             "aead_decrypt_length", "aead_decrypt", "cleanup"}

Entry(bs, ks, lenfield, tag, ops) ==
  [blocksize |-> bs, keysize |-> ks, lenfield_blocksize |-> lenfield,
   tag_size |-> tag, ops |-> ops]

\* The chacha20-poly1305 row: filled by mbedTLS, by ssh_crypto_init() from
\* ssh_get_chacha20poly1305_cipher() (libssh's own implementation, which
\* also has only the AEAD hooks), or a bare name.
ChachaEntry(patched) ==
  IF MBEDTLS_CHACHAPOLY \/ patched
    THEN Entry(8, 512, 4, 16, AeadOps)
    ELSE Entry(0, 0, 0, 0, {})

\* ssh_ciphertab as a function from name to entry (names are unique).
ssh_ciphertab(patched) ==
     (IF HAVE_BLOWFISH
        THEN ("blowfish-cbc" :> Entry(8, 128, 0, 0, BlockOps)) ELSE << >>)
  @@ ("aes128-ctr" :> Entry(16, 128, 0, 0, BlockOps))
  @@ ("aes192-ctr" :> Entry(16, 192, 0, 0, BlockOps))
  @@ ("aes256-ctr" :> Entry(16, 256, 0, 0, BlockOps))
  @@ ("aes128-cbc" :> Entry(16, 128, 0, 0, BlockOps))
  @@ ("aes192-cbc" :> Entry(16, 192, 0, 0, BlockOps))
  @@ ("aes256-cbc" :> Entry(16, 256, 0, 0, BlockOps))
  @@ (IF MBEDTLS_GCM_C
        THEN ("aes128-gcm@openssh.com" :> Entry(16, 128, 4, 16, AeadOps))
          @@ ("aes256-gcm@openssh.com" :> Entry(16, 256, 4, 16, AeadOps))
        ELSE << >>)
  @@ ("3des-cbc" :> Entry(8, 192, 0, 0, BlockOps))
  @@ ("chacha20-poly1305@openssh.com" :> ChachaEntry(patched))
  @@ (IF WITH_INSECURE_NONE
        THEN ("none" :> Entry(8, 0, 0, 0, {"encrypt", "decrypt"})) ELSE << >>)

\* Bytes of key material a container cipher needs: key (keysize/8) and IV
\* (blocksize).
KeyMaterialLen(e) == e.keysize \div 8 + e.blocksize

=============================================================================
