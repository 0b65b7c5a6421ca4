---------------------------- MODULE Credentials ----------------------------
(***************************************************************************)
(* Which keyring account a host uses, and the authentication chain that    *)
(* auth_for_host and the connection test build from it.                    *)
(*                                                                         *)
(* A keyring is [locked, entries]: entries maps the accounts that hold a   *)
(* secret to it.  An account is <<host id, kind of secret>>.               *)
(***************************************************************************)
EXTENDS Naturals, Sequences, SequencesExt

Blank == "blank"       \* the empty secret
Unread == "unread"     \* VaultError::Store: the keyring could not be asked
Kinds == {"agent", "password", "keyfile"}
SecretKinds == {"password", "passphrase"}

password_account(id) == <<id, "password">>
passphrase_account(id) == <<id, "passphrase">>
NoAccount == <<>>

KindsOf(host) == <<host.auth>> \o host.auth_fallbacks
Credentialed(kind) == kind # "agent"

\* The account of the first method of the chain that takes a secret.
account_for(host) ==
    LET chain == SelectSeq(KindsOf(host), Credentialed)
    IN  CASE chain = <<>> -> NoAccount
          [] Head(chain) = "password" -> password_account(host.id)
          [] OTHER -> passphrase_account(host.id)

\* OsKeyring::get_password: a missing entry is not an unreadable store.
read_secret(keyring, account) ==
    IF account = NoAccount THEN Blank
    ELSE IF keyring.locked THEN Unread
    ELSE IF account \in DOMAIN keyring.entries THEN keyring.entries[account]
    ELSE Blank

\* The account a connect reads: the one on record, not the one of the chain.
AccountRead(host) == host.secret_ref

Known(s) == IF s = Unread THEN Blank ELSE s
Method(kind, secret) == [kind |-> kind, secret |-> IF kind = "agent" THEN Blank ELSE secret]

\* The fallbacks that do not repeat the primary method, in their order.
Others(host) ==
    LET kept[n \in 0 .. Len(host.auth_fallbacks)] ==
            IF n = 0 THEN <<>>
            ELSE IF host.auth_fallbacks[n] = host.auth THEN kept[n - 1]
            ELSE Append(kept[n - 1], host.auth_fallbacks[n])
    IN  kept[Len(host.auth_fallbacks)]

\* Every step shares the one stored secret; an unreadable keyring degrades to none.
auth_for_host(host, keyring) ==
    LET stored == Known(read_secret(keyring, AccountRead(host)))
        kinds == <<host.auth>> \o Others(host)
    IN  [n \in DOMAIN kinds |-> Method(kinds[n], stored)]

\* The connection test: a blank field stands for the stored secret.
auth_from_dto_or_stored(kind, typed, stored) == Method(kind, IF typed = Blank THEN stored ELSE typed)

stored_secret(host, keyring) == Known(read_secret(keyring, account_for(host)))

\* test_connection on the edit form of a saved host, typed being the secret field.
TestChain(host, keyring, typed) ==
    [n \in DOMAIN KindsOf(host) |-> auth_from_dto_or_stored(KindsOf(host)[n], typed, stored_secret(host, keyring))]

=============================================================================
