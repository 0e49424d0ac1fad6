\* Private and public import over all containers, build with GCM and with
\* ChaCha20-Poly1305 supplied by ssh_crypto_init(), which has run.
CONSTANTS
  P1 = P1
  P2 = P2
  NULL = NULL
  Declines = Declines
  Passphrases <- MCPassphrases
  Containers <- MCContainers
  HAVE_BLOWFISH = FALSE
  MBEDTLS_GCM_C = TRUE
  MBEDTLS_CHACHAPOLY = FALSE
  WITH_INSECURE_NONE = FALSE
  CryptoInitStates = {TRUE}
INIT Init
NEXT Next
CHECK_DEADLOCK FALSE
INVARIANT
  NoCrash
