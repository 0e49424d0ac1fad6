--------------------------- MODULE OpenSSHImport ---------------------------
(***************************************************************************)
(* Import of an OpenSSH private key container (openssh-key-v1), as         *)
(* ssh_pki_openssh_import() and pki_private_key_decrypt() of               *)
(* src/pki_container_openssh.c do it.                                      *)
(*                                                                         *)
(* A behaviour is one call: it picks a container text and the caller's     *)
(* arguments, runs the function's steps, and returns a key or NULL (or     *)
(* crashes).  The bytes are abstracted:                                    *)
(*  - a container is a record of the fields the code tests;               *)
(*  - the private section is its decoded record (checkints, key blob,     *)
(*    padding bytes) plus the passphrase it was encrypted under           *)
(*    ("plain" when it is stored in clear);                               *)
(*  - decrypting with the key derived from the right passphrase yields    *)
(*    the section, with any other key it yields "garbage", whose two      *)
(*    checkints differ (a random match has probability 2^-32).            *)
(* Passphrase buffers, derived key material and the decrypted section are  *)
(* tracked as secrets: "residue" collects those dropped without zeroing.  *)
(***************************************************************************)
EXTENDS Naturals, Sequences, CipherTable

CONSTANTS
  Containers,         \* the container texts a call may be given
  Passphrases,        \* passphrase values (model values)
  NULL,               \* a NULL pointer argument
  Declines,           \* an auth_fn that returns an error
  CryptoInitStates    \* whether ssh_crypto_init() ran before the call

ASSUME CryptoInitStates \subseteq BOOLEAN

\* Callback behaviours: none, one that declines, one that yields a value.
AuthFns == {NULL, Declines} \cup Passphrases

\* Length of the private section as packed: checkint x2, key blob, the
\* comment string (4-byte length + text) and the padding bytes.
SectionLen(s) == 8 + s.bloblen + 4 + s.commentlen + Len(s.pad)

VARIABLES
  pc,        \* where the running call is
  call,      \* the call's arguments: [c, private, passphrase, auth_fn]
  privkeys,  \* the private section string: "ciphertext", "plaintext", "garbage"
  key,       \* the ssh_key the call holds: "none", "privkey", "pubkey"
  i,         \* index of the padding loop
  ret,       \* what the last call returned; NULL while a call runs
  prompted,  \* auth_fn was called during this call
  kdfRan,    \* bcrypt_pbkdf ran during this call
  failed,    \* an allocation or backend step failed during this call
  residue    \* secret buffers released without being zeroed

\* ssh_get_ciphertab(): the table as the call finds it; ssh_crypto_init()
\* patches the chacha row.
Table == ssh_ciphertab(call.crypto_init)

vars == <<pc, call, privkeys, key, i, ret, prompted, kdfRan, failed, residue>>

Stages == {"returned", "parse", "public", "decrypt", "derive", "privbuf",
           "padding", "out", "crashed"}

Secrets == {"passphrase_buffer", "key_material", "privkeys"}

TypeOK ==
  /\ pc \in Stages
  /\ call \in [c : Containers, private : BOOLEAN, crypto_init : CryptoInitStates,
               passphrase : Passphrases \cup {NULL}, auth_fn : AuthFns]
  /\ privkeys \in {"ciphertext", "plaintext", "garbage"}
  /\ key \in {"none", "privkey", "pubkey"}
  /\ ret \in {NULL, "none", "privkey", "pubkey"}
  /\ i \in Nat
  /\ prompted \in BOOLEAN /\ kdfRan \in BOOLEAN /\ failed \in BOOLEAN
  /\ residue \subseteq Secrets

-----------------------------------------------------------------------------
(* A behaviour is one call of an entry point: the functions keep no state  *)
(* between calls (everything is allocated and freed inside the call), so   *)
(* calls are independent and one call is the whole story.                  *)
Start(args) ==
  /\ call = args
  /\ pc = "parse"
  /\ key = "none" /\ ret = NULL /\ i = 0
  /\ privkeys = "ciphertext"
  /\ prompted = FALSE /\ kdfRan = FALSE /\ failed = FALSE
  /\ residue = {}

\* ssh_pki_openssh_privkey_import(text_key, passphrase, auth_fn, auth_data)
ssh_pki_openssh_privkey_import ==
  \E c \in Containers, p \in Passphrases \cup {NULL}, a \in AuthFns,
    ci \in CryptoInitStates :
    Start([c |-> c, private |-> TRUE, crypto_init |-> ci,
           passphrase |-> p, auth_fn |-> a])

\* ssh_pki_openssh_pubkey_import(text_key)
ssh_pki_openssh_pubkey_import ==
  \E c \in Containers, ci \in CryptoInitStates :
    Start([c |-> c, private |-> FALSE, crypto_init |-> ci,
           passphrase |-> NULL, auth_fn |-> NULL])

\* Mutant of ParseContainer: the nkeys != 1 check is missing.
ParseContainer_NKeysUnchecked ==
  LET c == call.c IN
  /\ pc = "parse"
  /\ \/ /\ c.framing # "ok"
        /\ pc' = "out"
        /\ UNCHANGED <<privkeys, failed>>
     \/ /\ c.framing = "ok"
        /\ pc' = IF call.private THEN "decrypt" ELSE "public"
        /\ privkeys' = IF c.encpass = "plain" THEN "plaintext" ELSE "ciphertext"
        /\ UNCHANGED failed
  /\ UNCHANGED <<call, key, i, ret, prompted, kdfRan, residue>>

(* Armor, base64 and header: each failing check jumps to out.  The         *)
(* base64 copy is malloc'ed after both markers were found.                 *)
ParseContainer ==
  LET c == call.c IN
  /\ pc = "parse"
  /\ \/ /\ c.framing \notin {"no_header", "no_footer"}
        /\ failed' = TRUE
        /\ pc' = "out"
        /\ UNCHANGED privkeys
     \/ /\ c.framing # "ok"
        /\ pc' = "out"
        /\ UNCHANGED <<privkeys, failed>>
     \/ /\ c.framing = "ok"
        /\ c.nkeys # 1
        /\ pc' = "out"
        /\ UNCHANGED <<privkeys, failed>>
     \/ /\ c.framing = "ok"
        /\ c.nkeys = 1
        /\ pc' = IF call.private THEN "decrypt" ELSE "public"
        /\ privkeys' = IF c.encpass = "plain" THEN "plaintext" ELSE "ciphertext"
        /\ UNCHANGED failed
  /\ UNCHANGED <<call, key, i, ret, prompted, kdfRan, residue>>

\* Public-only import: the public blob, then out in either case.
ImportPublic ==
  /\ pc = "public"
  /\ key' = IF call.c.pubkey = "ok" THEN "pubkey" ELSE "none"
  /\ pc' = "out"
  /\ UNCHANGED <<call, privkeys, i, ret, prompted, kdfRan, failed, residue>>

(* pki_private_key_decrypt() up to the passphrase: "none" returns at once;  *)
(* then cipher lookup, KDF name, blob length against the block size (a     *)
(* zero block size is a division by zero), the kdfoptions buffer (malloc   *)
(* and unpack of salt and rounds) and the key material size.               *)
PrivateKeyDecryptChecks ==
  LET c == call.c
      e == Table[c.ciphername]
  IN
  /\ pc = "decrypt"
  /\ \/ /\ c.ciphername = "none"
        /\ pc' = "privbuf" /\ UNCHANGED failed
     \/ /\ c.ciphername # "none"
        /\ \/ c.ciphername \notin DOMAIN Table
           \/ c.kdfname # "bcrypt"
        /\ pc' = "out" /\ UNCHANGED failed
     \/ /\ c.ciphername \in DOMAIN Table \ {"none"}
        /\ c.kdfname = "bcrypt"
        /\ e.blocksize = 0
        /\ pc' = "crashed" /\ UNCHANGED failed
     \/ /\ c.ciphername \in DOMAIN Table \ {"none"}
        /\ c.kdfname = "bcrypt"
        /\ e.blocksize > 0
        /\ \/ /\ SectionLen(c.sect) % e.blocksize # 0
              /\ pc' = "out" /\ UNCHANGED failed
           \/ /\ SectionLen(c.sect) % e.blocksize = 0
              /\ pc' = "out" /\ failed' = TRUE
           \/ /\ SectionLen(c.sect) % e.blocksize = 0
              /\ \/ c.kdfoptions # "ok"
                 \/ KeyMaterialLen(e) > 128
              /\ pc' = "out" /\ UNCHANGED failed
           \/ /\ SectionLen(c.sect) % e.blocksize = 0
              /\ c.kdfoptions = "ok"
              /\ KeyMaterialLen(e) <= 128
              /\ pc' = "derive" /\ UNCHANGED failed
  /\ UNCHANGED <<call, privkeys, key, i, ret, prompted, kdfRan, residue>>

(* pki_private_key_decrypt() from the passphrase on: use the argument, or  *)
(* ask auth_fn into passphrase_buffer; bcrypt_pbkdf into key_material      *)
(* (it may fail; the buffer is not zeroed on that return); zero the        *)
(* passphrase buffer; set the decrypt key and decrypt the blob in place    *)
(* through the table's hooks, which are called without a NULL check and   *)
(* whose results are not looked at (a failed set_decrypt_key frees the     *)
(* context and the decrypt leaves the blob as it was);                     *)
(* ssh_cipher_clear().  key_material is never zeroed.                      *)
PrivateKeyDecryptDerive ==
  LET c    == call.c
      e    == Table[c.ciphername]
      ask  == call.passphrase = NULL
      pass == IF ask THEN call.auth_fn ELSE call.passphrase
      buf  == IF ask THEN {"passphrase_buffer"} ELSE {}
  IN
  /\ pc = "derive"
  /\ \/ /\ ask /\ call.auth_fn = NULL
        /\ pc' = "out"
        /\ UNCHANGED <<privkeys, prompted, kdfRan, failed, residue>>
     \/ /\ ask /\ call.auth_fn = Declines
        /\ prompted' = TRUE
        /\ pc' = "out"
        /\ UNCHANGED <<privkeys, kdfRan, failed, residue>>
     \/ /\ pass \in Passphrases
        /\ prompted' = ask
        /\ \/ /\ failed' = TRUE
              /\ residue' = residue \cup buf
              /\ pc' = "out"
              /\ UNCHANGED <<privkeys, kdfRan>>
           \/ /\ kdfRan' = TRUE
              /\ \/ /\ {"set_decrypt_key", "decrypt"} \subseteq e.ops
                    /\ privkeys' = IF pass = c.encpass THEN "plaintext"
                                                      ELSE "garbage"
                    /\ residue' = residue \cup {"key_material"}
                    /\ pc' = "privbuf"
                    /\ UNCHANGED failed
                 \/ /\ {"set_decrypt_key", "decrypt"} \subseteq e.ops
                    /\ failed' = TRUE
                    /\ residue' = residue \cup {"key_material"}
                    /\ pc' = "privbuf"
                    /\ UNCHANGED privkeys
                 \/ /\ ~({"set_decrypt_key", "decrypt"} \subseteq e.ops)
                    /\ pc' = "crashed"
                    /\ UNCHANGED <<privkeys, residue, failed>>
  /\ UNCHANGED <<call, key, i, ret>>

\* pki_openssh_import_privkey_blob(): the key type name must be known and
\* pki_import_privkey_buffer() must accept the blob.
ImportPrivkeyBlob(s) == s.blob = "ok"

\* Mutant of CheckPrivateSection: checkint1 != checkint2 is not tested.
CheckPrivateSection_NoCheckintCompare ==
  LET s == call.c.sect IN
  /\ pc = "privbuf"
  /\ \/ /\ ~ImportPrivkeyBlob(s)
        /\ pc' = "out"
        /\ UNCHANGED <<key, i, failed>>
     \/ /\ ImportPrivkeyBlob(s)
        /\ key' = "privkey"
        /\ i' = 1
        /\ pc' = "padding"
        /\ UNCHANGED failed
  /\ UNCHANGED <<call, privkeys, ret, prompted, kdfRan, residue>>

(* The decrypted section in a secure buffer: malloc, the two checkints     *)
(* (unequal for garbage), the typed key blob, the comment (discarded).     *)
CheckPrivateSection ==
  LET s == call.c.sect IN
  /\ pc = "privbuf"
  /\ \/ /\ failed' = TRUE
        /\ pc' = "out"
        /\ UNCHANGED <<key, i>>
     \/ /\ \/ privkeys # "plaintext"
           \/ s.check1 # s.check2
           \/ ~ImportPrivkeyBlob(s)
        /\ pc' = "out"
        /\ UNCHANGED <<key, i, failed>>
     \/ /\ privkeys = "plaintext"
        /\ s.check1 = s.check2
        /\ ImportPrivkeyBlob(s)
        /\ key' = "privkey"
        /\ i' = 1
        /\ pc' = "padding"
        /\ UNCHANGED failed
  /\ UNCHANGED <<call, privkeys, ret, prompted, kdfRan, residue>>

\* Mutant of PaddingStep: ssh_key_free(key) without key = NULL, so the
\* freed key is returned.
PaddingStep_KeyNotCleared ==
  LET pad == call.c.sect.pad IN
  /\ pc = "padding"
  /\ \/ /\ i > Len(pad)
        /\ pc' = "out"
        /\ UNCHANGED <<key, i>>
     \/ /\ i <= Len(pad)
        /\ pad[i] = i
        /\ i' = i + 1
        /\ UNCHANGED <<pc, key>>
     \/ /\ i <= Len(pad)
        /\ pad[i] # i
        /\ key' = "freed"
        /\ pc' = "out"
        /\ UNCHANGED i
  /\ UNCHANGED <<call, privkeys, ret, prompted, kdfRan, failed, residue>>

\* Mutant of PaddingStep: the loop index is not advanced after a match.
PaddingStep_NoAdvance ==
  LET pad == call.c.sect.pad IN
  /\ pc = "padding"
  /\ \/ /\ i > Len(pad)
        /\ pc' = "out"
        /\ UNCHANGED <<key, i>>
     \/ /\ i <= Len(pad)
        /\ pad[i] = i
        /\ UNCHANGED <<pc, key, i>>
     \/ /\ i <= Len(pad)
        /\ pad[i] # i
        /\ key' = "none"
        /\ pc' = "out"
        /\ UNCHANGED i
  /\ UNCHANGED <<call, privkeys, ret, prompted, kdfRan, failed, residue>>

(* One turn of the padding loop: byte i must equal i; a mismatch frees    *)
(* the key and sets it to NULL.                                            *)
PaddingStep ==
  LET pad == call.c.sect.pad IN
  /\ pc = "padding"
  /\ \/ /\ i > Len(pad)
        /\ pc' = "out"
        /\ UNCHANGED <<key, i>>
     \/ /\ i <= Len(pad)
        /\ pad[i] = i
        /\ i' = i + 1
        /\ UNCHANGED <<pc, key>>
     \/ /\ i <= Len(pad)
        /\ pad[i] # i
        /\ key' = "none"
        /\ pc' = "out"
        /\ UNCHANGED i
  /\ UNCHANGED <<call, privkeys, ret, prompted, kdfRan, failed, residue>>

(* out: free the buffers (the secure one is burned) and the strings; the   *)
(* decrypted privkeys string is freed without being burned.                *)
Out ==
  /\ pc = "out"
  /\ ret' = key
  /\ residue' = residue \cup (IF privkeys = "plaintext" /\ call.c.encpass # "plain"
                                THEN {"privkeys"} ELSE {})
  /\ pc' = "returned"
  /\ UNCHANGED <<call, privkeys, key, i, prompted, kdfRan, failed>>

-----------------------------------------------------------------------------
Init ==
  \/ ssh_pki_openssh_privkey_import
  \/ ssh_pki_openssh_pubkey_import

Next ==
  \/ ParseContainer
  \/ ImportPublic
  \/ PrivateKeyDecryptChecks
  \/ PrivateKeyDecryptDerive
  \/ CheckPrivateSection
  \/ PaddingStep
  \/ Out

Spec == Init /\ [][Next]_vars

(* An import is one synchronous call: the thread that made it runs it to  *)
(* the end, so every step of the call that is enabled is eventually taken. *)
FairSpec == Spec /\ WF_vars(Next)

-----------------------------------------------------------------------------
(* What an import must return, from the container format (spec 4.4): the   *)
(* passphrase the call resolves, the cipher the container can be opened    *)
(* with, and a private section whose checkints, key blob and 1,2,3,...     *)
(* padding are all valid.                                                  *)
ResolvedPass(a) == IF a.passphrase # NULL THEN a.passphrase ELSE a.auth_fn

SectionValid(s) ==
  /\ s.check1 = s.check2
  /\ s.blob = "ok"
  /\ \A j \in 1..Len(s.pad) : s.pad[j] = j

CipherUsable(c) ==
  LET e == Table[c.ciphername] IN
  /\ c.ciphername \in DOMAIN Table
  /\ {"set_decrypt_key", "decrypt"} \subseteq e.ops
  /\ SectionLen(c.sect) % e.blocksize = 0
  /\ KeyMaterialLen(e) <= 128

Opens(a) ==
  LET c == a.c IN
  \/ c.ciphername = "none" /\ c.encpass = "plain"
  \/ /\ c.ciphername # "none" /\ c.kdfname = "bcrypt" /\ c.kdfoptions = "ok"
     /\ CipherUsable(c)
     /\ ResolvedPass(a) = c.encpass

Expected(a) ==
  LET c == a.c IN
  IF c.framing # "ok" \/ c.nkeys # 1 THEN "none"
  ELSE IF ~a.private THEN (IF c.pubkey = "ok" THEN "pubkey" ELSE "none")
  ELSE IF Opens(a) /\ SectionValid(c.sect) THEN "privkey" ELSE "none"

(* Every import in which no allocation or backend step failed gives back  *)
(* exactly the key the container holds when it is well formed and the     *)
(* passphrase is right, and NULL otherwise (wrong passphrase, bad          *)
(* checkints, bad padding, nkeys != 1): no partially decoded or freed key  *)
(* escapes ssh_pki_openssh_import().                                       *)
ImportReturnsValidKey ==
  ret # NULL /\ ~failed => ret = Expected(call)

(* An import in which an allocation or backend step failed returns NULL   *)
(* (spec section 4.2: a primitive setup failure is unrecoverable; section *)
(* 7: nothing partial is handed to the caller).                           *)
ImportFailsClosed ==
  ret # NULL /\ failed => ret = "none"

(* The passphrase callback and the KDF run only for a private import of a  *)
(* one-key container whose cipher is not "none" and whose KDF is bcrypt,   *)
(* and auth_fn only when no passphrase was passed: the key count is        *)
(* checked before any decryption and the public path never touches the     *)
(* private section.                                                        *)
PromptOnlyWhenNeeded ==
  /\ (prompted \/ kdfRan) =>
        /\ call.private
        /\ call.c.framing = "ok" /\ call.c.nkeys = 1
        /\ call.c.ciphername # "none" /\ call.c.kdfname = "bcrypt"
  /\ prompted => call.passphrase = NULL

(* A container text never makes the import crash: every cipher name the   *)
(* lookup accepts has the hooks pki_private_key_decrypt() calls and a      *)
(* non-zero block size.                                                    *)
NoCrash == pc # "crashed"

(* Passphrase buffers, derived key material and the decrypted private      *)
(* section are zeroed on every exit path (spec section 5).                 *)
SecretsWipedOnExit == pc = "returned" => residue = {}

(* Every import call terminates: whatever the container holds (its         *)
(* padding length, a mismatch at any byte, any failing step), it returns   *)
(* to the caller or crashes; the padding loop of                           *)
(* pki_openssh_import_privkey_blob and every error exit make progress.     *)
ImportTerminates == <>(pc \in {"returned", "crashed"})

=============================================================================
