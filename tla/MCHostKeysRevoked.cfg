CONSTANTS
    k1 = k1
    k2 = k2
    k3 = k3
    ed25519 = ed25519
    rsa = rsa
    NoHash = NoHash
    Nobody = Nobody
    Keys = {k1, k2, k3}
    Alg <- MCAlg
    Host <- MCHost
    Port = "2222"
    OnFile <- MCOnFile
    Source <- MCSource
    MaxDials = 2
    MaxWait = 1
    HashNew <- MCHashNew
    MaxRewrites = 1
SPECIFICATION Spec
INVARIANT RevokedRefused
