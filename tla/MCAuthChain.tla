---------------------------- MODULE MCAuthChain ----------------------------
EXTENDS AuthChain

\* The records the form, the import and the fallback picker can produce.
MCHosts ==
    LET record(auth, fallbacks, account) ==
            [id |-> 1, auth |-> auth, auth_fallbacks |-> fallbacks, secret_ref |-> account]
    IN  { record("agent", <<>>, NoAccount),
          record("agent", <<"password">>, password_account(1)),
          record("agent", <<"keyfile">>, passphrase_account(1)),
          record("password", <<"password">>, password_account(1)),
          record("password", <<"agent">>, password_account(1)),
          record("keyfile", <<"agent">>, passphrase_account(1)),
          record("keyfile", <<"password">>, password_account(1)),
          record("agent", <<"keyfile", "password">>, password_account(1)) }

MCServers ==
    { s \in [methods : {{"password"}, {"publickey"}, WireKinds}, both : BOOLEAN, tells : BOOLEAN,
             keys : {{}, {"mine"}, {"other"}}] :
        s.both => s.methods = WireKinds }

MCAgents == { Absent, <<>>, <<"mine">>, <<"certificate">>, <<"certificate", "other">>,
              <<"unsignable", "mine">>, <<"other", "mine">> }
MCKeyFile == [header |-> "openssh", lock |-> "phrase", kdf |-> TRUE, sound |-> TRUE, key |-> "mine"]
=============================================================================
