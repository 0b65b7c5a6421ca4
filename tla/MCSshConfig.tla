----------------------------- MODULE MCSshConfig -----------------------------
(* SshConfig over two or three files of a few directives each, and the pure *)
(* helpers it is built from over all short strings.                         *)
EXTENDS SshConfig

P(g) == [negated |-> FALSE, glob |-> g]
N(g) == [negated |-> TRUE, glob |-> g]
D(kw, args) == [kw |-> kw, args |-> args]

MCPaths == {"main", "a", "b"}
MCTargets == {"a", "b", "all"}
MCExpand == [t \in MCTargets |-> IF t = "all" THEN <<"a", "b", "main">> ELSE <<t>>]
MCAliases == {<<"x">>, <<"y">>}

MCHosts == {D("host", <<P(<<"x">>)>>), D("host", <<P(<<"*">>), N(<<"y">>)>>)}
MCMainLines == MCHosts \cup {D("host", <<>>), D("match", <<>>), D("include", <<"all">>), D("include", <<"b", "a">>),
                 D("user", <<"1">>), D("user", <<"u">>), D("port", <<"u">>), D("unsupported", <<>>)}
MCIncLines == MCHosts \cup {D("include", <<"b">>), D("user", <<"2">>), D("port", <<"2">>)}
UpTo(n, S) == UNION {[1 .. m -> S] : m \in 0 .. n}

\* The files of an import: the user's own file has up to three directives, the
\* first included one up to two, the second is absent, unreadable or has two
\* stanzas that cover the same alias.
MCDisks ==
    {[p \in MCPaths |-> CASE p = "main" -> m [] p = "a" -> a [] p = "b" -> b] :
        m \in UpTo(3, MCMainLines), a \in UpTo(2, MCIncLines),
        b \in {Missing, Unreadable,
               <<D("host", <<P(<<"x">>)>>), D("user", <<"3">>), D("host", <<P(<<"?">>)>>), D("user", <<"1">>)>>}}

MCCharacters == {"a", "b", "x", "y", "*", "?", "=", " ", "#", "\""}
MCGlobs == UpTo(4, {"a", "b", "*", "?"})
MCTexts == UpTo(4, {"a", "b"})
MCLineTexts == UpTo(4, {"a", "=", " ", "#", "\""})
MCComments == {<<>>, <<"a", "\"">>, <<"=", " ", "a">>}
=============================================================================
