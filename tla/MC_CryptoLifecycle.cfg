\* Build without mbedTLS ChaCha20/Poly1305, so ssh_crypto_init() patches the row.
\* Callers pass the three digests of hmac_init's switch and SSH_HMAC_MD5.
CONSTANTS
  MBEDTLS_CHACHAPOLY = FALSE
  HmacTypes = {"SSH_HMAC_SHA1", "SSH_HMAC_SHA256", "SSH_HMAC_SHA512", "SSH_HMAC_MD5"}
  MaxHmacs = 2
  MaxCalls = 8
INIT Init
NEXT Next
INVARIANTS
  HmacContextsAccounted
