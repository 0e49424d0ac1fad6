------------------------- MODULE MC_OpenSSHImport --------------------------
(***************************************************************************)
(* Model of OpenSSHImport for TLC: a handful of broken framings, and every *)
(* combination of the fields the code tests for a well-framed container,  *)
(* over private sections chosen to hit each check of the decoder.         *)
(***************************************************************************)
EXTENDS OpenSSHImport

CONSTANTS P1, P2

MCPassphrases == {P1, P2}

\* Private sections.  Lengths are 8 + bloblen + 4 + commentlen + padding:
\* 16-byte aligned, only 8-byte aligned (24), and not aligned (15).
GoodSection     == [check1 |-> 0, check2 |-> 0, blob |-> "ok", bloblen |-> 4,
                    commentlen |-> 0, pad |-> << >>]
PaddedSection   == [GoodSection EXCEPT !.bloblen = 1, !.pad = <<1, 2, 3>>]
BadPadSection   == [GoodSection EXCEPT !.bloblen = 1, !.pad = <<1, 3, 3>>]
CheckintSection == [GoodSection EXCEPT !.check2 = 1]
UnknownSection  == [GoodSection EXCEPT !.blob = "unknown_type"]
Aligned8Section == [GoodSection EXCEPT !.bloblen = 8, !.commentlen = 4]
ShortSection    == [GoodSection EXCEPT !.bloblen = 2, !.pad = <<1>>]

MCSections == {GoodSection, PaddedSection, BadPadSection, CheckintSection,
               UnknownSection, Aligned8Section, ShortSection}

MCCipherNames == {"none", "aes128-cbc", "3des-cbc", "aes256-ctr",
                  "aes256-gcm@openssh.com", "chacha20-poly1305@openssh.com",
                  "twofish-cbc"}

WellFramed ==
  [framing : {"ok"}, ciphername : MCCipherNames, kdfname : {"none", "bcrypt"},
   kdfoptions : {"ok", "bad"}, nkeys : {1, 2}, pubkey : {"ok", "bad"},
   encpass : {"plain"} \cup MCPassphrases, sect : MCSections]

BrokenFraming ==
  { [c EXCEPT !.framing = f] :
      c \in {CHOOSE c \in WellFramed : TRUE},
      f \in {"no_header", "no_footer", "bad_base64", "unpack_error", "bad_magic"} }

MCContainers == WellFramed \cup BrokenFraming
=============================================================================
