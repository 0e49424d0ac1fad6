-------------------------- MODULE CryptoLifecycle --------------------------
(***************************************************************************)
(* Global state of the mbedTLS backend (src/libmbedcrypto.c): the flag     *)
(* libmbedcrypto_initialized, the CTR-DRBG context every random draw uses  *)
(* (ssh_get_mbedtls_ctr_drbg_context()), and the chacha20-poly1305 row of  *)
(* ssh_ciphertab that ssh_crypto_init() patches when mbedTLS has no        *)
(* ChaCha20/Poly1305.  The application calls these in any order.           *)
(*                                                                         *)
(* drbg: "zero" (static storage, never initialised), "seeded", "freed"    *)
(* (mbedtls_ctr_drbg_free zeroes it).  ssh_crypto_init() inits and seeds   *)
(* it in one call; seeding from the entropy source may fail.               *)
(*                                                                         *)
(* The HMAC wrappers (hmac_init, hmac_update, hmac_final) allocate, use    *)
(* and free one mbedtls_md_context_t per MAC; they do not depend on the    *)
(* global state.  The digest state is abstracted away: what is kept is     *)
(* which contexts are allocated, which the callers hold, and whether an    *)
(* md context is freed before mbedtls_md_init() ran on it.                 *)
(***************************************************************************)
EXTENDS Naturals

CONSTANTS
  MBEDTLS_CHACHAPOLY,  \* mbedTLS built with ChaCha20 and Poly1305
  HmacTypes,           \* enum ssh_hmac_e values callers pass to hmac_init
  MaxHmacs,            \* bound on HMAC contexts held at once
  MaxCalls             \* bound on calls into the DRBG or an md context

ASSUME MBEDTLS_CHACHAPOLY \in BOOLEAN /\ MaxHmacs \in Nat /\ MaxCalls \in Nat

\* The cases of hmac_init's switch; any other type takes the default branch.
HmacCases == {"SSH_HMAC_SHA1", "SSH_HMAC_SHA256", "SSH_HMAC_SHA512"}

VARIABLES
  initialized,   \* libmbedcrypto_initialized
  drbg,          \* state of ssh_mbedtls_ctr_drbg
  patched,       \* the chacha20-poly1305 row holds ssh_get_chacha20poly1305_cipher()
  calls,         \* calls into the DRBG or an md context (bounded)
  badUses,       \* of those, calls on a context that was not initialised
  heap,          \* md contexts hmac_init malloc'd and nobody freed yet
  hmacs          \* HMACCTX handles hmac_init returned to callers, not finalised

vars == <<initialized, drbg, patched, calls, badUses, heap, hmacs>>

DrbgStates == {"zero", "seeded", "freed"}

TypeOK ==
  /\ initialized \in BOOLEAN
  /\ drbg \in DrbgStates
  /\ patched \in BOOLEAN
  /\ calls \in 0..MaxCalls
  /\ badUses \in 0..MaxCalls
  /\ heap \in 0..MaxHmacs
  /\ hmacs \in 0..MaxHmacs

-----------------------------------------------------------------------------
(* ssh_crypto_init(): a no-op once initialised; otherwise init entropy and *)
(* DRBG, seed (on failure the DRBG is freed and the function goes on),     *)
(* patch the chacha row when mbedTLS lacks it, set the flag, return OK.    *)
ssh_crypto_init ==
  /\ ~initialized
  /\ \E seedOk \in BOOLEAN :
       drbg' = IF seedOk THEN "seeded" ELSE "freed"
  /\ patched' = (patched \/ ~MBEDTLS_CHACHAPOLY)
  /\ initialized' = TRUE
  /\ UNCHANGED <<calls, badUses, heap, hmacs>>

\* ssh_crypto_finalize(): a no-op unless initialised; free DRBG and entropy.
ssh_crypto_finalize ==
  /\ initialized
  /\ drbg' = "freed"
  /\ initialized' = FALSE
  /\ UNCHANGED <<patched, calls, badUses, heap, hmacs>>

(* A random draw by a caller that got SSH_OK from ssh_crypto_init() (e.g.  *)
(* the checkint and salt of a key export), through                          *)
(* ssh_get_mbedtls_ctr_drbg_context().                                      *)
DrawRandom ==
  /\ initialized
  /\ calls < MaxCalls
  /\ calls' = calls + 1
  /\ badUses' = IF drbg = "seeded" THEN badUses ELSE badUses + 1
  /\ UNCHANGED <<initialized, drbg, patched, heap, hmacs>>

(* ssh_reseed(): mbedtls_ctr_drbg_reseed() on the global DRBG, with no    *)
(* check of libmbedcrypto_initialized; the result is dropped.  On a seeded *)
(* DRBG a failing entropy source leaves it as it was.  On a zeroed one     *)
(* (never initialised, or freed) it calls the NULL f_entropy pointer.      *)
ssh_reseed ==
  /\ calls < MaxCalls
  /\ calls' = calls + 1
  /\ badUses' = IF drbg = "seeded" THEN badUses ELSE badUses + 1
  /\ UNCHANGED <<initialized, drbg, patched, heap, hmacs>>

\* The outcomes of hmac_init once mbedtls_md_init() has run.
HmacInitOutcomes == {"no_md_info", "setup_failed", "starts_failed", "ok"}

\* Mutant of hmac_init: the error path frees the md state but not ctx.
hmac_init_NoFreeOnError ==
  /\ calls < MaxCalls /\ heap < MaxHmacs
  /\ calls' = calls + 1
  /\ \E type \in HmacTypes, mallocOk \in BOOLEAN, r \in HmacInitOutcomes :
       \/ ~mallocOk /\ UNCHANGED <<badUses, heap, hmacs>>
       \/ mallocOk /\ type \notin HmacCases
          /\ badUses' = badUses + 1 /\ UNCHANGED <<heap, hmacs>>
       \/ mallocOk /\ type \in HmacCases /\ r # "ok"
          /\ heap' = heap + 1 /\ UNCHANGED <<badUses, hmacs>>
       \/ mallocOk /\ type \in HmacCases /\ r = "ok"
          /\ heap' = heap + 1 /\ hmacs' = hmacs + 1 /\ UNCHANGED badUses
  /\ UNCHANGED <<initialized, drbg, patched>>

(* hmac_init(): malloc the md context (NULL on failure); pick md_info by   *)
(* type, where the default case jumps to error BEFORE mbedtls_md_init(),   *)
(* so mbedtls_md_free() reads the uninitialised malloc'd struct; then      *)
(* md_init, and a NULL md_info, a failed md_setup or hmac_starts also go   *)
(* to error: md_free, SAFE_FREE, return NULL.  Else return ctx.            *)
hmac_init ==
  /\ calls < MaxCalls /\ heap < MaxHmacs
  /\ calls' = calls + 1
  /\ \E type \in HmacTypes, mallocOk \in BOOLEAN, r \in HmacInitOutcomes :
       \/ ~mallocOk /\ UNCHANGED <<badUses, heap, hmacs>>
       \/ mallocOk /\ type \notin HmacCases
          /\ badUses' = badUses + 1 /\ UNCHANGED <<heap, hmacs>>
       \/ mallocOk /\ type \in HmacCases /\ r # "ok"
          /\ UNCHANGED <<badUses, heap, hmacs>>
       \/ mallocOk /\ type \in HmacCases /\ r = "ok"
          /\ heap' = heap + 1 /\ hmacs' = hmacs + 1 /\ UNCHANGED badUses
  /\ UNCHANGED <<initialized, drbg, patched>>

\* hmac_update(): mbedtls_md_hmac_update on a context a caller holds.
hmac_update ==
  /\ hmacs > 0 /\ calls < MaxCalls
  /\ calls' = calls + 1
  /\ UNCHANGED <<initialized, drbg, patched, badUses, heap, hmacs>>

(* hmac_final(): read the digest size, hmac_finish (its result is the      *)
(* return value), then md_free and SAFE_FREE whether or not it succeeded.  *)
hmac_final ==
  /\ hmacs > 0 /\ calls < MaxCalls
  /\ calls' = calls + 1
  /\ heap' = heap - 1 /\ hmacs' = hmacs - 1
  /\ UNCHANGED <<initialized, drbg, patched, badUses>>

Init ==
  /\ initialized = FALSE
  /\ drbg = "zero"
  /\ patched = FALSE
  /\ calls = 0
  /\ badUses = 0
  /\ heap = 0
  /\ hmacs = 0

Next ==
  \/ ssh_crypto_init
  \/ ssh_crypto_finalize
  \/ DrawRandom
  \/ ssh_reseed
  \/ hmac_init
  \/ hmac_update
  \/ hmac_final

Spec == Init /\ [][Next]_vars

-----------------------------------------------------------------------------
(* Every md context hmac_init() allocates is returned to the caller or     *)
(* freed before it returns, on each of its four error paths, and           *)
(* hmac_final() frees the one it finishes, even when the finish fails: the *)
(* allocated contexts are exactly those the callers hold.                  *)
HmacContextsAccounted == heap = hmacs

(* Every mbedTLS context the backend operates on has been initialised:     *)
(* every call into the DRBG (a random draw after ssh_crypto_init()         *)
(* returned SSH_OK, or an ssh_reseed()) finds it seeded, with no draw from *)
(* a freed DRBG and no reseed through a NULL entropy callback; and no      *)
(* HMAC md context is freed before mbedtls_md_init() set it up.            *)
ContextsInitialisedWhenUsed == badUses = 0

=============================================================================
