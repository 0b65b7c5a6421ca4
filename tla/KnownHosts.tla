----------------------------- MODULE KnownHosts -----------------------------
(***************************************************************************)
(* Tern's known_hosts file, core-ssh/src/known_hosts.rs, as functions of   *)
(* its lines.  A line is an entry or something parse_entry skips (blank,   *)
(* comment, malformed).  An entry names hosts by a pattern list or by the  *)
(* hash of one target, which only that target matches.                     *)
(***************************************************************************)
EXTENDS Glob

CONSTANTS
    Keys,      \* host keys
    Alg,       \* [Keys -> algorithms]
    NoHash     \* the hashed name of an entry that is not hashed

Skipped == [entry |-> FALSE]
Entry(marker, patterns, hash, key) ==
    [entry |-> TRUE, marker |-> marker, patterns |-> patterns, hash |-> hash, key |-> key]
Literal(name) == <<[negated |-> FALSE, glob |-> name]>>

DefaultPort == "22"
MatchTarget(host, port) ==
    IF port = DefaultPort THEN host ELSE <<"[">> \o host \o <<"]", ":", port>>

\* A hashed name is compared with the target; patterns are tried on the
\* target and on the bare host.
PatternsMatch(line, host, port) ==
    /\ line.entry
    /\ IF line.hash # NoHash THEN line.hash = MatchTarget(host, port)
       ELSE ListMatches(line.patterns, {MatchTarget(host, port), host})

\* Mutant: a mismatch under the same algorithm is not told from first contact.
Verify_NoChanged(lines, host, port, key) ==
    IF \E i \in DOMAIN lines : PatternsMatch(lines[i], host, port)
                               /\ lines[i].marker = "none" /\ lines[i].key = key
    THEN "trusted" ELSE "unknown"
\* The first line that is decisive wins: an @revoked one, or one with this key.
\* Otherwise a line with another key of the same algorithm means the key has
\* changed.  @cert-authority lines take no part.
Verify(lines, host, port, key) ==
    LET of(m) == {i \in DOMAIN lines : PatternsMatch(lines[i], host, port) /\ lines[i].marker = m}
        decisive == of("revoked") \cup {i \in of("none") : lines[i].key = key}
    IN IF decisive # {}
       THEN LET first == CHOOSE i \in decisive : \A j \in decisive : i <= j IN
            IF first \in of("revoked") THEN "revoked" ELSE "trusted"
       ELSE IF \E i \in of("none") : Alg[lines[i].key] = Alg[key] THEN "changed" ELSE "unknown"

\* Mutant: the hash is taken of the bare host, before the port is added.
LearnedLine_HashesHost(host, port, key, hashed) ==
    IF hashed THEN Entry("none", <<>>, host, key)
    ELSE Entry("none", Literal(MatchTarget(host, port)), NoHash, key)
\* learn: the line appended for an accepted key.
LearnedLine(host, port, key, hashed) ==
    LET target == MatchTarget(host, port) IN
    IF hashed THEN Entry("none", <<>>, target, key) ELSE Entry("none", Literal(target), NoHash, key)

\* The elements of s at the indices in S, in their order.
Kept(s, S) ==
    LET keep[n \in 0 .. Len(s)] ==
          IF n = 0 THEN <<>> ELSE IF n \in S THEN Append(keep[n - 1], s[n]) ELSE keep[n - 1]
    IN keep[Len(s)]

\* remove: every other line is kept.
Removed(lines, host, port) == Kept(lines, {i \in DOMAIN lines : ~PatternsMatch(lines[i], host, port)})

\* The identity of an entry leaves out its comment, and its marker.
Identity(line) == <<line.patterns, line.hash, line.key>>

\* import_from: the source's entries that are not on file yet, each identity
\* once and in order; @cert-authority and malformed lines are passed over.
Imported(existing, source) ==
    LET known == {Identity(existing[i]) : i \in {j \in DOMAIN existing : existing[j].entry}}
        wanted == {i \in DOMAIN source : /\ source[i].entry /\ source[i].marker # "ca"
                                         /\ Identity(source[i]) \notin known}
    IN Kept(source, {i \in wanted : \A j \in wanted : j < i => Identity(source[j]) # Identity(source[i])})
=============================================================================
