# TLA+ models of the libssh mbedTLS backend and OpenSSH key container

This directory models two files of libssh:

- `src/src/libmbedcrypto.c` is the mbedTLS crypto backend. It holds the cipher registry, the packet ciphers, the DRBG and the library init/finalize.
- `src/src/pki_container_openssh.c` reads and writes the OpenSSH private key container (`openssh-key-v1`).

Each module is translated from the C code. `PROJECT.json` maps every definition to the lines it models.

## The system

| Part | Code | State | Operations |
|---|---|---|---|
| Cipher registry | `ssh_ciphertab`, `ssh_get_ciphertab` | A static table of rows: name, block size, key size, hooks. Which rows exist depends on the build. | None. It is patched once by `ssh_crypto_init`. |
| Backend lifecycle | `ssh_crypto_init`, `ssh_crypto_finalize`, `ssh_reseed`, `ssh_get_mbedtls_ctr_drbg_context` | `libmbedcrypto_initialized`, the entropy and CTR-DRBG contexts | init, finalize, reseed, random draws |
| Container import | `ssh_pki_openssh_import`, `pki_private_key_decrypt`, `pki_openssh_import_privkey_blob` | Per call only: buffers, strings, `key_material`, `passphrase_buffer` | parse, decrypt, check, return key or NULL |
| Container export | `ssh_pki_openssh_privkey_export`, `pki_private_key_encrypt` | Per call only: buffers, `key_material`, `passphrase_buffer` | pack, pad, encrypt, armor |
| ChaCha20-Poly1305 | `chacha20_poly1305_*` | Per direction: `main_ctx`, `header_ctx`, `poly_ctx` | set_key, set_iv, packet_setup, aead_encrypt, aead_decrypt_length, aead_decrypt |
| AES-GCM | `cipher_*_gcm` | `gcm_ctx`, `last_iv` | set_key, encrypt, get_length, decrypt |
| CBC/CTR | `cipher_init`, `cipher_set_*`, `cipher_encrypt*`, `cipher_decrypt*` | `encrypt_ctx`, `decrypt_ctx` | set key, encrypt, decrypt |
| HMAC/KDF | `hmac_init`, `hmac_update`, `hmac_final`, `ssh_kdf` | One heap-allocated mbedTLS md context per MAC | Allocate and start, feed, finish and free; `ssh_kdf` forwards to `sshkdf_derive_key` |

How the parts interact:

- Import and export find their cipher by name in the registry. They call its `set_*_key` and `encrypt`/`decrypt` hooks directly.
- `ssh_crypto_init()` patches the chacha row of the registry when mbedTLS has no ChaCha20/Poly1305. Export draws its checkint and salt from the DRBG that init seeded.
- The packet transport (`packet.c`, not in this tree) drives the packet ciphers. It numbers packets from 0, calls `aead_decrypt_length` then `aead_decrypt` per packet, and closes the connection on an error.

## Modules

- **`CipherTable`** models the registry. `ssh_ciphertab(patched)` is a function from name to `Entry(blocksize, keysize, lenfield, tag, ops)`. `ops` is the set of hooks the C initialiser fills in; a missing hook is NULL. Four constants give the build options. `ChachaEntry` is the bare name (block size 0, no hooks) until it is patched.
- **`OpenSSHImport`** models one call of `ssh_pki_openssh_privkey_import` or `ssh_pki_openssh_pubkey_import`. `Init` picks the container and the arguments. The container is a record of the fields the code tests: framing outcome, nkeys, cipher and KDF names, kdfoptions, public blob, private section, and the passphrase it was encrypted under. Decrypting with the right passphrase yields the section; any other passphrase yields `"garbage"`, whose checkints differ. There is one action per stretch of the code between two exits:
  - `ParseContainer` covers armor, base64, unpack, magic and nkeys.
  - `ImportPublic` is the public-key path.
  - `PrivateKeyDecryptChecks` covers the cipher lookup, KDF name, block-size test, kdfoptions and key size.
  - `PrivateKeyDecryptDerive` covers the passphrase or `auth_fn`, bcrypt, and the hook calls.
  - `CheckPrivateSection` covers the checkints and key blob.
  - `PaddingStep` is one turn of the padding loop.
  - `Out` is the cleanup at `out:`.
  - `residue` collects every secret buffer freed without zeroing: `passphrase_buffer`, `key_material` and the decrypted `privkeys`.
  - `failed` records that an allocation or backend step failed. `ImportFailsClosed` says such a call must return NULL.
- The call record also says whether `ssh_crypto_init()` ran before the call, which decides whether the chacha row is patched.
- **`MC_OpenSSHImport`** gives the containers: every combination of 7 cipher names, 2 KDFs, 2 kdfoptions outcomes, 2 public blobs, 3 encryption passphrases and 7 private sections, plus 5 framing failures.
  - The private sections cover good, padded, bad padding, checkint mismatch, unknown key type, and lengths that are and are not multiples of 8 and 16.
  - The passphrases are model values `P1` and `P2`.
- **`OpenSSHExport`** models one call of `ssh_pki_openssh_privkey_export`. It produces a container record in the shape `OpenSSHImport` reads. There is one action per stretch of the code:
  - `ExportBegin` covers the NULL key, the buffers, the public and private blobs, the random checkint, and the packing of checkints, blob and comment.
  - `PadStep` is one turn of the 16-byte padding loop.
  - `KdfOptions` builds the salt and rounds.
  - `PrivateKeyEncrypt` is `pki_private_key_encrypt`. Its hooks' results are unchecked: a failed `set_encrypt_key` leaves the section in clear.
  - `PackContainer` covers the binary pack, base64, armor and copy.
  - `Cleanup` is the code at `error:`.
  - `encpass` is the passphrase the section is actually encrypted under.
- **`RoundTrip`** composes the two calls. It extends `OpenSSHExport` and instantiates `OpenSSHImport` with its variables renamed (`ipc`, `icall`, ...). `ImportExported` hands the returned container to the import, with the export's passphrase and callback. **`MC_RoundTrip`** gives three key sizes, which need 0, 3 and 15 padding bytes.
- **`CryptoLifecycle`** models `ssh_crypto_init` (seeding may fail; the chacha patch), `ssh_crypto_finalize`, random draws through the DRBG context, and `ssh_reseed`. Calls come in any order. It also models the HMAC wrappers: `hmac_init` with a malloc failure, its type switch (the three digest cases and the default branch), a missing `md_info`, and `md_setup` or `hmac_starts` failing; then `hmac_update`, and `hmac_final`, which always frees. `heap` counts the md contexts allocated and not yet freed. `hmacs` counts the handles callers hold. Digest bytes are abstracted away. `badUses` counts calls on an mbedTLS context that is not initialised: a draw from a freed DRBG, a reseed that calls the NULL entropy callback of a zeroed one, or an `mbedtls_md_free` of an md context that `mbedtls_md_init` never set up. All calls share one bound, `MaxCalls`.
- **`AeadChannel`** is the abstract specification of an AEAD packet cipher, for one direction: `sent` grows by appending, and `delivered` grows only by the next packet of `sent`. `ChachaPoly` and `GcmCipher` instantiate it with their own `sent` and `delivered` histories, and their runs check its `Spec` as a property (`ChannelRefinement`).
- **`ChachaPoly`** models one direction of a chacha20-poly1305 session:
  - `set_key` per side (the calloc or a setkey may fail, and the failure frees the schedule) and `chacha20_poly1305_cleanup`;
  - the sender's `aead_encrypt` with the transport's sequence number;
  - the receiver's `aead_decrypt_length` and `aead_decrypt`;
  - a network that may drop, duplicate, reorder, flip the length or payload, or forge a tag.
  - Keystream blocks are `<<key, nonce, counter>>`. Ciphertexts remember the keystream block they start at. Tags are `Mac(polykey, data)`, which cannot be forged.
  - The history `ksUse` records every keystream block the sender used and what for.
- **`GcmCipher`** models one direction of an aes-gcm@openssh.com session. `last_iv` holds each side's invocation counter.
  - `cipher_set_key_gcm` runs per side and may fail.
  - `cipher_encrypt_gcm` puts the length field in clear as associated data, then increments the sender's counter.
  - `cipher_gcm_get_length` copies the length field.
  - `cipher_decrypt_gcm` checks the tag under the receiver's counter. It increments the counter only on success. On failure the output is zeroed, as mbedTLS does.
  - `cipher_cleanup` frees either side's GCM context at any point, for example between reading a length and decrypting. After that the transport calls no hook of that side.
  - The network is the same as for ChaCha.
- **`BlockCipher`** models one direction of a CBC or CTR row, both chosen in `Init`.
  - Key setup is `cipher_init` and the `set_*_key[_cbc]` variants; a failure frees the context.
  - It covers `cipher_encrypt[_cbc]`, `cipher_decrypt`, `cipher_decrypt_cbc` and `cipher_cleanup`.
  - Ciphertext blocks are numbered, and a block decrypts correctly only after its predecessor.
  - mbedTLS's `update`, `finish` and `reset` are modelled as the comment in `cipher_decrypt_cbc` describes them. `finish` flushes a held-back block but leaves the unprocessed counter set. Whether `update` holds the last CBC block back depends on the mbedTLS build, so both behaviours are checked.
  - The transport hands the decrypt hook runs of 1 to 3 blocks.

## Runs

| Run | Expect | Shows |
|---|---|---|
| `import_main` | pass | An import in which no step failed returns exactly the key the container holds, or NULL. It prompts or runs bcrypt only for a private, one-key, encrypted, bcrypt container. A padding mismatch never leaves a freed key behind. Under weak fairness of the calling thread, every import returns or crashes (`ImportTerminates`). |
| `import_failclosed` | violation | A failed `set_decrypt_key` is ignored. The section is left as it was, so a container whose header names a cipher but whose section is in clear imports successfully with any passphrase (spec 4.2). |
| `import_nocrash` | violation | With the library initialised, a container naming `aes256-gcm@openssh.com` with bcrypt runs the KDF and then calls the GCM row's NULL `decrypt` hook (code bug, `pki_container_openssh.c:216`). This run fixes `CryptoInitStates = {TRUE}`. Before `ssh_crypto_init()`, the same property fails earlier: the unpatched chacha row's block size of 0 is a division by zero at `:145`. |
| `import_secrets` | violation | `key_material`, `passphrase_buffer` on a bcrypt failure, and the decrypted section are freed without zeroing, contrary to spec section 5. |
| `roundtrip_main` | pass | Export then import with the same passphrase, callback or neither gives the key back whenever no export step failed. The export's checkints, padding, cipher and KDF choice agree with what the import checks. |
| `export_label` | violation | A failed `set_encrypt_key` is ignored, and the export returns a container labelled `aes128-cbc`/`bcrypt` with the key in clear (code bug, `pki_container_openssh.c:482`). |
| `export_secrets` | violation | The export never zeroes `key_material`. It skips zeroing `passphrase_buffer` on a bcrypt failure, and frees the packed container without zeroing it. |
| `lifecycle_main` | pass | Every md context `hmac_init` allocates is either held by a caller or freed, on every error path and after `hmac_final`. |
| `lifecycle_random` | violation | Contexts are used uninitialised (`ContextsInitialisedWhenUsed`). The DRBG is used unseeded. `ssh_reseed()` has no initialisation check; TLC's trace is a reseed before init, which calls a NULL entropy callback. A failed seed is also ignored: init returns OK and later draws use a freed DRBG (code bugs, `libmbedcrypto.c:51` and `:1080`). Also, `hmac_init`'s default case jumps to `error` before `mbedtls_md_init`, so `mbedtls_md_free` reads an uninitialised struct (code bug, `:85`). |
| `chacha_main` | pass | Whatever the network does, and whichever side's `set_key` fails, the receiver implements `AeadChannel`. `aead_decrypt` runs only between `set_key` and cleanup, because it dereferences the schedule. It writes no plaintext on a MAC failure, and the sender never reuses a keystream block. |
| `gcm_main` | pass | Whatever the network does, the GCM receiver implements `AeadChannel`: the two independently advanced `last_iv` counters stay in step for accepted packets. Either side may be torn down at any point. A tag failure leaves no plaintext. |
| `cbc_main` | pass | For CBC and CTR, and for both mbedTLS CBC behaviours, every decrypt call yields exactly its plaintext, whatever run lengths come before it. The finish-then-reset sequence leaves no stale block. |

Every property of a passing run has a mutant in `PROJECT.json`: a plausible bug in the mapped code that the run catches.

- A padding mismatch that frees the key without clearing the pointer.
- A missing checkint compare.
- A missing nkeys check.
- Export padding that counts from 0.
- An `hmac_init` error path that frees the md state but not the context.
- A decrypt that skips the tag compare, or decrypts before comparing.
- An IV that ignores the sequence number.
- A GCM receiver that does not increment `last_iv`.
- A GCM decrypt that decrypts before it compares the tag.
- A CBC decrypt without the reset after finish.
- A padding loop that does not advance its index.

## Bounds

- **Import.** A behaviour is a single call: the functions keep no state between calls. The container set holds every combination of the fields the code branches on, which is 367k states. The build constants enable GCM and disable mbedTLS chacha, with the chacha row patched, so both the AEAD and the block rows are looked up.
- **Round trip.** Three key sizes give 0, 3 and 15 padding bytes. Every passphrase and callback combination is tried, and every allocation, random and backend step may fail. That is 2.8k states.
- **Lifecycle.** Up to 8 calls into the DRBG or the HMAC wrappers, with at most two HMAC contexts held at once. Callers pass the three digest types and `SSH_HMAC_MD5`, which takes the default branch. Init and finalize are unbounded, since the state space is finite.
- **ChaCha and GCM.** Four packets of one or two blocks and two payload values. That is enough for a replayed packet, a reordered pair, a packet skipped between two delivered ones, and a length flip that misframes the MAC input. Either side's key setup may fail. ChaCha reaches 194k states and GCM 49k.
- **Block ciphers.** Eight blocks in runs of one to three. Every order of single-block and multi-block calls occurs, including the single-block call a caching build answers only from `finish`.

`CHECK_DEADLOCK FALSE` is set only where the system really stops:

- an import or export call that has returned;
- a receiver that closed the connection with a sender that has sent all its packets;
- a failed key setup or a cleanup, after which the transport abandons the session.

## Fairness

One liveness property is checked, `ImportTerminates` in `import_main`. That run uses `FairSpec == Spec /\ WF_vars(Next)`. Import is one synchronous call, and the thread that makes it runs it to the end, so a step of the call that stays enabled is eventually taken. Weak fairness does not choose which branch a step takes: a failing step still fails or not nondeterministically. The property catches a padding loop that stops consuming bytes (mutant `PaddingStep_NoAdvance`).

No fairness is assumed elsewhere:

- The packet ciphers make progress only when `packet.c` hands them data. The model treats the network as adversarial, so it may drop everything. Nothing in this tree obliges a packet to arrive.
- The lifecycle and HMAC calls are made by the application whenever it chooses. None of them is obliged to happen.
- The round-trip runs check only safety. The export's padding loop (`PadStep`) appends one byte per turn until the section is a multiple of the block size, so it is bounded by the block size.

## Not modelled

1. **Export and DRBG as one model.** The export's checkint and salt draws are not linked to `CryptoLifecycle`'s DRBG state. `lifecycle_random` already shows that an initialised library can hold a freed DRBG, and any caller's draw then uses it. A composed model would only repeat that trace with an export step appended.
2. **The GCM `crypt_and_tag` error path.** `mbedtls_gcm_crypt_and_tag` cannot fail for a 12-byte IV, a 16-byte tag and packets under 2^36 bytes, so that path is left out. If it could fail, the packet would go out with `last_iv` unchanged.
3. **The `last_iv` wrap.** `uint64_inc` wraps after 2^64 packets. The transport rekeys long before that.
4. **Unreachable block-cipher paths.** The ignored `mbedtls_cipher_reset` result in `cipher_set_decrypt_key[_cbc]` is not modelled, because reset cannot fail on a context that was just set up. The `update`/`finish` failures in the encrypt and decrypt hooks are not modelled either: whole-block input cannot make them fail.
5. **Outside the two files, or formatting only.**
   - `ssh_kdf` forwards to `sshkdf_derive_key`, which is not in this tree, and has no state of its own.
   - The armor, base64 and `ssh_buffer` packing are byte formatting. They are abstracted to their outcome.
   - `bcrypt_pbkdf`, the mbedTLS primitives and `packet.c` are outside this tree.
