\* Export of three key sizes under every passphrase/callback combination,
\* then import of the result; mbedTLS build with GCM, chacha patched in.
CONSTANTS
  P1 = P1
  P2 = P2
  NULL = NULL
  Declines = Declines
  Passphrases <- MCPassphrases
  PrivKeys <- MCPrivKeys
  HAVE_BLOWFISH = FALSE
  MBEDTLS_GCM_C = TRUE
  MBEDTLS_CHACHAPOLY = FALSE
  WITH_INSECURE_NONE = FALSE
INIT RTInit
NEXT RTNext
\* Each behaviour is one export and at most one import; both return.
CHECK_DEADLOCK FALSE
INVARIANT
  EncryptedLabelMeansEncrypted
