------------------------------ MODULE KeyFiles ------------------------------
(***************************************************************************)
(* Private-key inspection and unlocking, over key files abstracted to      *)
(* what decides the outcome: the header, the locks and whether the body    *)
(* decodes.  The decoder itself (russh) is external.                       *)
(***************************************************************************)
EXTENDS Credentials

Headers == {"ppk2", "ppk3", "ppk1", "openssh", "pkcs8", "pem", "junk"}
\* lock: the passphrase the file is encrypted with, or Blank; kdf: whether this
\* build can derive the key; sound: whether the body decodes once unlocked.
KeyFileType(secrets) == [header : Headers, lock : secrets, kdf : BOOLEAN, sound : BOOLEAN]

Refused == [format |-> "none", encrypted |-> FALSE]

\* The ppk headers are read by hand; only versions 2 and 3 are understood.
inspect_ppk(file) ==
    IF file.header = "ppk1" THEN Refused ELSE [format |-> "ppk", encrypted |-> file.lock # Blank]

\* A malformed OpenSSH body still has a header: reported as not encrypted.
inspect_openssh(file) == [format |-> "openssh", encrypted |-> file.sound /\ file.lock # Blank]

\* PEM and PKCS#8 announce encryption in their headers.
enrich(file) == [format |-> file.header, encrypted |-> file.lock # Blank]

inspect(file) ==
    CASE file.header \in {"ppk1", "ppk2", "ppk3"} -> inspect_ppk(file)
      [] file.header = "openssh" -> inspect_openssh(file)
      [] file.header \in {"pkcs8", "pem"} -> enrich(file)
      [] OTHER -> Refused

\* decode_secret_key: the error the decoder reports, or "ok".  An unlocked file
\* ignores a passphrase; a derivation this build lacks fails whatever it is given.
decode_secret_key(file, passphrase) ==
    IF file.header \in {"junk", "ppk1"} THEN "unreadable"
    ELSE IF ~file.sound /\ file.header = "openssh" THEN "corrupt"
    ELSE IF file.lock = Blank THEN IF file.sound THEN "ok" ELSE "corrupt"
    ELSE IF passphrase = Blank THEN "encrypted"
    ELSE IF ~file.kdf THEN "unsupported"
    ELSE IF passphrase # file.lock \/ ~file.sound THEN "corrupt"
    ELSE "ok"

\* Mutant: a passphrase was needed and given, so it must be a wrong one.
describe_decode_failure_Blames(err, declared, passphrase) ==
    IF err = "encrypted" THEN "needs passphrase"
    ELSE IF declared.encrypted THEN "wrong passphrase"
    ELSE err
\* Unreadable whatever the passphrase is asked first; then whether one is missing.
describe_decode_failure(err, declared, passphrase) ==
    IF err = "unsupported" THEN "unsupported"
    ELSE IF err = "encrypted" \/ (declared.encrypted /\ passphrase = Blank) THEN "needs passphrase"
    ELSE IF declared.encrypted THEN "wrong passphrase"
    ELSE err

\* The gate before a passphrase is written to the keyring.
unlock(file, passphrase) ==
    LET declared == inspect(file)
        err == decode_secret_key(file, passphrase)
    IN  IF declared = Refused THEN "unrecognised"
        ELSE IF err = "ok" THEN "ok"
        ELSE describe_decode_failure(err, declared, passphrase)

=============================================================================
