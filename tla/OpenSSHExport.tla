--------------------------- MODULE OpenSSHExport ---------------------------
(***************************************************************************)
(* Export of a private key as an OpenSSH container (openssh-key-v1), as    *)
(* ssh_pki_openssh_privkey_export() and pki_private_key_encrypt() of       *)
(* src/pki_container_openssh.c do it.  A behaviour is one call.            *)
(*                                                                         *)
(* The result is a container record in the shape OpenSSHImport reads:     *)
(* the fields the import tests, the private section as a record, and the   *)
(* passphrase the section is encrypted under ("plain" when it is not).     *)
(* Allocation, random and backend failures are nondeterministic; "failed" *)
(* records that one happened.  "residue" collects the secret buffers the   *)
(* call releases without zeroing.                                          *)
(***************************************************************************)
EXTENDS Naturals, Sequences, CipherTable

CONSTANTS
  PrivKeys,      \* keys to export: [bloblen] (length of the private key blob)
  Passphrases,   \* passphrase values (model values)
  NULL,          \* a NULL pointer argument
  Declines       \* an auth_fn that returns an error

\* Callback behaviours: none, one that declines, one that yields a value.
AuthFns == {NULL, Declines} \cup Passphrases

\* The export always uses aes128-cbc with bcrypt, 16 rounds and a 16-byte
\* salt; the checkint is one random uint32, abstracted to one value.
ExportCipher == "aes128-cbc"
Checkint == 0

\* Length of the private section as packed: checkint x2, key blob, the
\* empty comment string (its 4-byte length) and the padding bytes.
SectionLen(s) == 8 + s.bloblen + 4 + s.commentlen + Len(s.pad)

VARIABLES
  pc,        \* where the running call is
  call,      \* the call's arguments: [privkey, passphrase, auth_fn]
  section,   \* the private section in privkey_buffer
  encpass,   \* the passphrase privkey_buffer is encrypted under, or "plain"
  packed,    \* the container was packed into buffer
  ret,       \* the returned ssh_string: a container or NULL
  prompted,  \* auth_fn was called
  failed,    \* an allocation, random or backend step failed
  residue    \* secret buffers released without being zeroed

vars == <<pc, call, section, encpass, packed, ret, prompted, failed, residue>>

\* to_encrypt: a passphrase or a callback was given.
ToEncrypt == call.passphrase # NULL \/ call.auth_fn # NULL

\* The container ssh_buffer_pack(buffer, "PssSdSdP", ...) assembles.
Container ==
  [framing |-> "ok",
   ciphername |-> IF ToEncrypt THEN ExportCipher ELSE "none",
   kdfname |-> IF ToEncrypt THEN "bcrypt" ELSE "none",
   kdfoptions |-> "ok",
   nkeys |-> 1,
   pubkey |-> "ok",
   encpass |-> encpass,
   sect |-> section]

NoSection == [check1 |-> Checkint, check2 |-> Checkint, blob |-> "ok",
              bloblen |-> 0, commentlen |-> 0, pad |-> << >>]

-----------------------------------------------------------------------------
\* ssh_pki_openssh_privkey_export(privkey, passphrase, auth_fn, auth_data)
ssh_pki_openssh_privkey_export ==
  \E k \in PrivKeys \cup {NULL}, p \in Passphrases \cup {NULL}, a \in AuthFns :
    /\ call = [privkey |-> k, passphrase |-> p, auth_fn |-> a]
    /\ pc = "begin"
    /\ section = NoSection
    /\ encpass = "plain"
    /\ packed = FALSE
    /\ ret = NULL
    /\ prompted = FALSE /\ failed = FALSE
    /\ residue = {}

(* NULL key: return NULL at once.  Otherwise the output buffer, the public *)
(* blob, the random checkint, privkey_buffer and the private blob; any     *)
(* failing step jumps to error.  Then pack checkint twice, the blob and    *)
(* an empty comment.                                                       *)
ExportBegin ==
  /\ pc = "begin"
  /\ \/ /\ call.privkey = NULL
        /\ pc' = "returned"
        /\ UNCHANGED <<section, failed>>
     \/ /\ call.privkey # NULL
        /\ failed' = TRUE
        /\ pc' = "error"
        /\ UNCHANGED section
     \/ /\ call.privkey # NULL
        /\ section' = [NoSection EXCEPT !.bloblen = call.privkey.bloblen]
        /\ pc' = "pad"
        /\ UNCHANGED failed
  /\ UNCHANGED <<call, encpass, packed, ret, prompted, residue>>

\* Mutant of PadStep: the padding counter starts at 0 instead of 1.
PadStep_PadFrom0 ==
  /\ pc = "pad"
  /\ \/ /\ SectionLen(section) % 16 # 0
        /\ \/ /\ failed' = TRUE
              /\ pc' = "error"
              /\ UNCHANGED section
           \/ /\ section' = [section EXCEPT !.pad = Append(@, Len(@))]
              /\ UNCHANGED <<pc, failed>>
     \/ /\ SectionLen(section) % 16 = 0
        /\ pc' = IF ToEncrypt THEN "kdf" ELSE "pack"
        /\ UNCHANGED <<section, failed>>
  /\ UNCHANGED <<call, encpass, packed, ret, prompted, residue>>

(* One turn of the padding loop: while the section is not a multiple of   *)
(* 16 bytes, append the next padding byte 1, 2, 3, ...  Then the KDF      *)
(* options when encrypting, else straight to packing.                     *)
PadStep ==
  /\ pc = "pad"
  /\ \/ /\ SectionLen(section) % 16 # 0
        /\ \/ /\ failed' = TRUE
              /\ pc' = "error"
              /\ UNCHANGED section
           \/ /\ section' = [section EXCEPT !.pad = Append(@, Len(@) + 1)]
              /\ UNCHANGED <<pc, failed>>
     \/ /\ SectionLen(section) % 16 = 0
        /\ pc' = IF ToEncrypt THEN "kdf" ELSE "pack"
        /\ UNCHANGED <<section, failed>>
  /\ UNCHANGED <<call, encpass, packed, ret, prompted, residue>>

(* kdf_buf, the salt string, 16 random salt bytes, pack salt and rounds,   *)
(* copy into kdf_options: any failure jumps to error.                      *)
KdfOptions ==
  /\ pc = "kdf"
  /\ \/ /\ failed' = TRUE
        /\ pc' = "error"
     \/ /\ pc' = "encrypt"
        /\ UNCHANGED failed
  /\ UNCHANGED <<call, section, encpass, packed, ret, prompted, residue>>

(* pki_private_key_encrypt(privkey_buffer, passphrase, "aes128-cbc",      *)
(* "bcrypt", ...): the cipher, KDF and key-size checks pass for these      *)
(* constant arguments; auth_fn is asked when no passphrase was given (the *)
(* "no passphrase and no callback" exit cannot be reached: to_encrypt);   *)
(* bcrypt_pbkdf into key_material (on failure the function returns before *)
(* zeroing passphrase_buffer); then set_encrypt_key and encrypt in place, *)
(* neither of whose results is looked at.  When set_encrypt_key fails,     *)
(* cipher_init() has freed encrypt_ctx, mbedtls_cipher_update() refuses    *)
(* the freed context and the void encrypt hook returns with the buffer     *)
(* untouched.  key_material is never zeroed.                               *)
PrivateKeyEncrypt ==
  LET e    == ssh_ciphertab(TRUE)[ExportCipher]
      ask  == call.passphrase = NULL
      pass == IF ask THEN call.auth_fn ELSE call.passphrase
      buf  == IF ask THEN {"passphrase_buffer"} ELSE {}
  IN
  /\ pc = "encrypt"
  /\ KeyMaterialLen(e) <= 128
  /\ \/ /\ ask /\ call.auth_fn = Declines
        /\ prompted' = TRUE
        /\ pc' = "error"
        /\ UNCHANGED <<encpass, failed, residue>>
     \/ /\ pass \in Passphrases
        /\ prompted' = ask
        /\ \/ /\ failed' = TRUE
              /\ residue' = residue \cup buf
              /\ pc' = "error"
              /\ UNCHANGED encpass
           \/ /\ residue' = residue \cup {"key_material"}
              /\ pc' = "pack"
              /\ \/ /\ {"set_encrypt_key", "encrypt"} \subseteq e.ops
                    /\ encpass' = pass
                    /\ UNCHANGED failed
                 \/ /\ failed' = TRUE
                    /\ UNCHANGED encpass
  /\ UNCHANGED <<call, section, packed, ret>>

(* Pack magic, cipher and KDF names, kdf_options, nkeys = 1, the public    *)
(* blob and privkey_buffer into buffer; base64; reinit buffer (not zeroed, *)
(* it is not a secure buffer) and pack the armored text; copy it into the  *)
(* returned string.  A failure after the first pack leaves the container   *)
(* bytes in buffer.                                                        *)
PackContainer ==
  /\ pc = "pack"
  /\ \/ /\ failed' = TRUE
        /\ UNCHANGED <<packed, ret>>
     \/ /\ packed' = TRUE
        /\ failed' = TRUE
        /\ UNCHANGED ret
     \/ /\ packed' = TRUE
        /\ ret' = Container
        /\ UNCHANGED failed
  /\ pc' = "error"
  /\ UNCHANGED <<call, section, encpass, prompted, residue>>

(* error: burn the private blob, zero and free privkey_buffer, free the    *)
(* public blob, kdf_options, salt and buffer, return str.  buffer still    *)
(* holds the container, with the private section as privkey_buffer had it. *)
Cleanup ==
  /\ pc = "error"
  /\ residue' = residue \cup (IF packed /\ encpass = "plain" THEN {"buffer"}
                                                            ELSE {})
  /\ pc' = "returned"
  /\ UNCHANGED <<call, section, encpass, packed, ret, prompted, failed>>

-----------------------------------------------------------------------------
Init == ssh_pki_openssh_privkey_export

Next ==
  \/ ExportBegin
  \/ PadStep
  \/ KdfOptions
  \/ PrivateKeyEncrypt
  \/ PackContainer
  \/ Cleanup

Spec == Init /\ [][Next]_vars

-----------------------------------------------------------------------------
(* A container whose header names a cipher holds a private section         *)
(* encrypted under the caller's passphrase: export never hands out a key   *)
(* in clear under an "aes128-cbc"/"bcrypt" label (spec section 7: no       *)
(* partial or garbage output on an error path).                            *)
EncryptedLabelMeansEncrypted ==
  ret # NULL /\ ret.ciphername # "none" => ret.encpass # "plain"

(* Derived key material, the passphrase buffer and every copy of the       *)
(* private section in clear are zeroed on every exit path of the export    *)
(* (spec section 5).                                                       *)
ExportSecretsWipedOnExit == pc = "returned" => residue = {}

====
