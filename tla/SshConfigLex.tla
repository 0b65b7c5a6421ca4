----------------------------- MODULE SshConfigLex -----------------------------
(***************************************************************************)
(* The ssh_config tokenizer, core-store/src/ssh_config/lex.rs: one line,   *)
(* a sequence of characters, is split into fields.  Keywords are compared  *)
(* after lowercasing, so characters stand for their lowercase.             *)
(***************************************************************************)
EXTENDS Integers, Sequences, FiniteSets

CONSTANT Characters

Space == " "
EqualSign == "="
Hash == "#"
QuoteMark == "\""

ASSUME CharactersAssumption == {Space, EqualSign, Hash, QuoteMark} \subseteq Characters

Blank == [out |-> <<>>, current |-> <<>>, quoted |-> FALSE, separated |-> FALSE, comment |-> FALSE]

\* The `=` of `Keyword = value` and of `Keyword=value`; any other is text.
IsSeparator(s) ==
    /\ ~s.quoted /\ ~s.separated
    /\ \/ Len(s.out) = 1 /\ s.current = <<>>
       \/ s.out = <<>> /\ s.current # <<>>

EndField(s) == IF s.current = <<>> THEN s
               ELSE [s EXCEPT !.out = Append(@, s.current), !.current = <<>>]

\* A closing quote with nothing between it and its partner is an argument.
Quote(s) == IF s.quoted /\ s.current = <<>>
            THEN [s EXCEPT !.quoted = FALSE, !.out = Append(@, <<>>), !.separated = TRUE]
            ELSE [s EXCEPT !.quoted = ~@]

LexChar(s, ch) ==
    IF s.comment THEN s
    ELSE IF ch = QuoteMark THEN Quote(s)
    ELSE IF ch = Hash /\ ~s.quoted THEN [s EXCEPT !.comment = TRUE]
    ELSE IF ch = EqualSign /\ IsSeparator(s) THEN [EndField(s) EXCEPT !.separated = TRUE]
    ELSE IF ch = Space /\ ~s.quoted THEN EndField(s)
    ELSE [s EXCEPT !.current = Append(@, ch)]

SplitFields(raw) ==
    LET after[n \in 0 .. Len(raw)] == IF n = 0 THEN Blank ELSE LexChar(after[n - 1], raw[n])
    IN EndField(after[Len(raw)]).out

\* A line without a keyword, or with an empty one, is no directive.
TokenizeLine(raw) ==
    LET fields == SplitFields(raw) IN
    IF fields = <<>> \/ Head(fields) = <<>> THEN <<>> ELSE fields
-----------------------------------------------------------------------------
(* Reference: which lines say the same.                                     *)

\* A keyword as it is written: no character of it means anything to the lexer.
Word(w) == w # <<>> /\ \A i \in DOMAIN w : w[i] \notin {QuoteMark, Hash, EqualSign, Space}
Equals == {<<EqualSign>>, <<Space, EqualSign>>, <<EqualSign, Space>>, <<Space, EqualSign, Space>>}

\* `K=v`, `K =v`, `K= v` and `K = v` say what `K v` says, whatever v is.
SpelledAlike(w, v) ==
    Word(w) /\ (v = <<>> \/ v[1] \notin {EqualSign, Space}) =>
        \A sep \in Equals : TokenizeLine(w \o sep \o v) = TokenizeLine(w \o <<Space>> \o v)

\* A `#` outside quotes ends the line.
Quotes(s) == Cardinality({i \in DOMAIN s : s[i] = QuoteMark})
CommentEnds(line, comment) ==
    Quotes(line) % 2 = 0 => TokenizeLine(line \o <<Hash>> \o comment) = TokenizeLine(line)
=============================================================================
