----------------------------- MODULE RoundTrip -----------------------------
(***************************************************************************)
(* Export then import: ssh_pki_openssh_privkey_export() runs as in         *)
(* OpenSSHExport; when it returns a container, the caller hands that text  *)
(* to ssh_pki_openssh_privkey_import() with the same passphrase and        *)
(* callback, which runs as in OpenSSHImport (after ssh_crypto_init()).     *)
(* The import's variables are renamed with an "i" prefix.                  *)
(***************************************************************************)
EXTENDS OpenSSHExport

VARIABLES ipc, icall, iprivkeys, ikey, ii, iret, iprompted, ikdfRan,
          ifailed, iresidue

ivars == <<ipc, icall, iprivkeys, ikey, ii, iret, iprompted, ikdfRan,
           ifailed, iresidue>>

\* Every container the export can return (a superset).
ExportContainers ==
  [framing : {"ok"}, ciphername : {"none", ExportCipher},
   kdfname : {"none", "bcrypt"}, kdfoptions : {"ok"}, nkeys : {1},
   pubkey : {"ok"}, encpass : Passphrases \cup {"plain"},
   sect : [check1 : {Checkint}, check2 : {Checkint}, blob : {"ok"},
           bloblen : {k.bloblen : k \in PrivKeys}, commentlen : {0},
           pad : Seq(1..15)]]

Imp == INSTANCE OpenSSHImport WITH
         Containers <- ExportContainers, CryptoInitStates <- {TRUE},
         pc <- ipc, call <- icall, privkeys <- iprivkeys, key <- ikey,
         i <- ii, ret <- iret, prompted <- iprompted, kdfRan <- ikdfRan,
         failed <- ifailed, residue <- iresidue

\* The import has not been called yet.
ImportIdle ==
  /\ ipc = "idle" /\ icall = NULL /\ iprivkeys = "ciphertext"
  /\ ikey = "none" /\ ii = 0 /\ iret = NULL
  /\ iprompted = FALSE /\ ikdfRan = FALSE /\ ifailed = FALSE
  /\ iresidue = {}

\* The caller imports the text the export returned, with the export's
\* passphrase and auth_fn: the import starts as in OpenSSHImport's Start.
ImportExported ==
  /\ pc = "returned" /\ ret # NULL /\ ipc = "idle"
  /\ icall' = [c |-> ret, private |-> TRUE, crypto_init |-> TRUE,
               passphrase |-> call.passphrase, auth_fn |-> call.auth_fn]
  /\ ipc' = "parse"
  /\ UNCHANGED <<iprivkeys, ikey, ii, iret, iprompted, ikdfRan, ifailed,
                 iresidue>>
  /\ UNCHANGED vars

RTInit == Init /\ ImportIdle

RTNext ==
  \/ Next /\ UNCHANGED ivars
  \/ ImportExported
  \/ Imp!Next /\ UNCHANGED vars

RTSpec == RTInit /\ [][RTNext]_<<vars, ivars>>

-----------------------------------------------------------------------------
(* Export then import with the same passphrase gives the key back: when no *)
(* allocation or backend step of the export failed, the import of the      *)
(* returned container returns the private key (unless one of its own       *)
(* allocations failed).  This ties the export's checkints, 16-byte         *)
(* padding, cipher and KDF choice and key derivation to what the import    *)
(* checks.                                                                 *)
RoundTripRestoresKey ==
  ipc = "returned" /\ ~failed => iret = "privkey" \/ ifailed

====
