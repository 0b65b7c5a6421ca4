----------------------------- MODULE MCHostKeys -----------------------------
(* HostKeys with two keys of one algorithm and one of another, a host on a  *)
(* non-default port, and an import that brings a wildcard revocation.       *)
EXTENDS HostKeys
CONSTANTS k1, k2, k3, ed25519, rsa

MCAlg == [k \in {k1, k2, k3} |-> IF k = k3 THEN rsa ELSE ed25519]
MCHashNew == [c \in Conns |-> c = "session"]
MCHost == <<"h">>
MCOnFile == <<Skipped, Entry("none", Literal(<<"x">>), NoHash, k1)>>
MCSource == <<Entry("ca", Literal(<<"*">>), NoHash, k1), Skipped,
              Entry("none", Literal(<<"x">>), NoHash, k1),
              Entry("revoked", Literal(<<"*">>), NoHash, k2)>>
=============================================================================
