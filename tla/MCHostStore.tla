---------------------------- MODULE MCHostStore ----------------------------
EXTENDS HostStore

MCChains ==
    LET chain(auth, fallbacks) == [auth |-> auth, auth_fallbacks |-> fallbacks]
    IN  { chain("agent", <<>>), chain("agent", <<"password">>), chain("keyfile", <<>>) }
=============================================================================
