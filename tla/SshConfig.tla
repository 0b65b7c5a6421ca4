------------------------------ MODULE SshConfig ------------------------------
(***************************************************************************)
(* ssh_config import, parsing and resolution:                              *)
(* core-store/src/ssh_config/parse.rs.                                     *)
(*                                                                         *)
(* parse_into and absorb recurse through Include; the call stack is the    *)
(* variable stack, one frame per file being absorbed, and a step handles   *)
(* one directive, one included path or the end of a file.  A directive is  *)
(* a record [kw, args]: args are pattern lists for Host, Include targets   *)
(* for Include, values for the keywords that set something (ProxyJump's    *)
(* list, which the code joins again, is one value).                        *)
(***************************************************************************)
EXTENDS Glob, SshConfigLex, FiniteSets, SequencesExt

CONSTANTS
    Paths,            \* names a config file may have
    Main,             \* the file the import starts from
    Disks,            \* file systems: functions from Paths to a sequence of directives, Missing or Unreadable
    Targets,          \* Include arguments
    Expand,           \* glob_paths: [Targets -> Seq(Paths)], sorted, missing files not yet dropped
    Keywords,         \* the keywords UNDERSTOOD that a Host stanza may set
    Numeric,          \* the ones whose value must parse as a number
    Values,           \* argument values
    Numbers,          \* the values that parse
    Aliases,          \* host aliases asked about
    MaxIncludeDepth,  \* MAX_INCLUDE_DEPTH (16 in the code)
    Missing, Unreadable, None,
    Globs, Texts,     \* patterns, and names to match: what the matcher is compared on
    LineTexts, Comments  \* what follows a keyword on a line, or a `#`: what the lexer is compared on

Headers == {"host", "match"}    \* the lines that end a stanza
Patterns == [negated : BOOLEAN, glob : Seq(Characters)]
Directives ==
    [kw : {"host"}, args : Seq(Patterns)] \cup [kw : {"include"}, args : Seq(Targets)]
    \cup [kw : Keywords \cup {"match", "unsupported"}, args : Seq(Values)]

ASSUME ConfigAssumption ==
    /\ Main \in Paths /\ Numeric \subseteq Keywords /\ Numbers \subseteq Values
    /\ MaxIncludeDepth \in Nat
ASSUME WordsAssumption ==
    /\ Keywords \cap {"host", "match", "include", "unsupported"} = {} /\ None \notin Values
    /\ Expand \in [Targets -> Seq(Paths)]
ASSUME TextsAssumption ==
    /\ Globs \subseteq Seq(Characters) /\ LineTexts \subseteq Seq(Characters) /\ Comments \subseteq Seq(Characters)
    /\ Texts \subseteq {s \in Seq(Characters) : \A i \in DOMAIN s : s[i] # "*"}
ASSUME DisksAssumption == Disks \subseteq [Paths -> {Missing, Unreadable} \cup Seq(Directives)]

VARIABLES files, stack, visited, stanzas, warnings
scanVars == <<files, stack, visited, stanzas, warnings>>

IsFile(p) == files[p] # Missing
Warn(kind, f, line) == [kind |-> kind, file |-> f, line |-> line]

Stanza(patterns) == [patterns |-> patterns, set |-> [k \in Keywords |-> None]]

\* A numeric keyword whose value does not parse stays unset.
Parsed(k, v) == IF k \in Numeric /\ v \notin Numbers THEN None ELSE v

\* apply: first value wins, no argument sets nothing.
ApplyDirective(st, d) ==
    IF d.args = <<>> \/ st.set[d.kw] # None THEN st
    ELSE [st EXCEPT !.set[d.kw] = Parsed(d.kw, d.args[1])]

\* A stanza without patterns is dropped.
Flush(frame) == IF frame.open /\ frame.current.patterns # <<>> THEN Append(stanzas, frame.current) ELSE stanzas

Matches(st, alias) == ListMatches(st.patterns, {alias})

\* inherit_from: only what is still unset is filled.
InheritFrom(own, other) ==
    [k \in Keywords |-> IF own[k] = None THEN other[k] ELSE own[k]]

\* resolve: every matching stanza in turn, the first value obtained winning.
Resolve(alias) ==
    LET resolved[n \in 0 .. Len(stanzas)] ==
          IF n = 0 THEN [k \in Keywords |-> None]
          ELSE IF Matches(stanzas[n], alias) THEN InheritFrom(resolved[n - 1], stanzas[n].set)
          ELSE resolved[n - 1]
    IN resolved[Len(stanzas)]

\* aliases: concrete patterns, the names offered for import.
Concrete(p) == ~p.negated /\ ToSet(p.glob) \cap {"*", "?"} = {}
ConcreteNames(patterns) == {p.glob : p \in {q \in ToSet(patterns) : Concrete(q)}}
Offered == UNION {ConcreteNames(stanzas[i].patterns) : i \in DOMAIN stanzas}

\* The locals of absorb, and how far its Include has come: the arguments still
\* to expand and the files still to absorb.  `current` is Some while open.
Frame(f) == [file |-> f, pos |-> 1, open |-> FALSE, current |-> Stanza(<<>>), inMatch |-> FALSE,
             targets |-> <<>>, todo |-> <<>>]

\* parse_file starts parse_into on the main file at depth 0.
ScanInit ==
    /\ files \in Disks
    /\ visited = {Main} /\ stanzas = <<>> /\ warnings = {}
    /\ stack = IF files[Main] \in {Missing, Unreadable} THEN <<>> ELSE <<Frame(Main)>>

Top == Head(stack)
Directive == files[Top.file][Top.pos]
AtDirective(kw) == /\ stack # <<>> /\ Top.targets = <<>> /\ Top.todo = <<>>
                   /\ Top.pos <= Len(files[Top.file]) /\ Directive.kw = kw
Become(frame) == <<frame>> \o Tail(stack)
Advance(frame) == Become([frame EXCEPT !.pos = @ + 1])

HostLine ==
    /\ AtDirective("host")
    /\ stanzas' = Flush(Top)
    /\ stack' = Advance([Top EXCEPT !.open = TRUE, !.current = Stanza(Directive.args), !.inMatch = FALSE])
    /\ UNCHANGED <<files, visited, warnings>>

\* Mutant: a Match block does not end the stanza before it.
MatchLine_KeepsStanza ==
    /\ AtDirective("match")
    /\ warnings' = warnings \cup {Warn("match", Top.file, Top.pos)}
    /\ stack' = Advance(Top)
    /\ UNCHANGED <<files, visited, stanzas>>
MatchLine ==
    /\ AtDirective("match")
    /\ stanzas' = Flush(Top)
    /\ warnings' = warnings \cup {Warn("match", Top.file, Top.pos)}
    /\ stack' = Advance([Top EXCEPT !.open = FALSE, !.inMatch = TRUE])
    /\ UNCHANGED <<files, visited>>

\* Mutant: the Include line is read again once its files are absorbed.
IncludeLine_Again ==
    /\ AtDirective("include")
    /\ stack' = Become([Top EXCEPT !.targets = Directive.args])
    /\ UNCHANGED <<files, visited, stanzas, warnings>>
\* Each argument of an Include is expanded in turn; `current` stays open meanwhile.
IncludeLine ==
    /\ AtDirective("include")
    /\ stack' = Advance([Top EXCEPT !.targets = Directive.args])
    /\ UNCHANGED <<files, visited, stanzas, warnings>>

\* glob_paths: what an argument names, in order, as far as it is a file.
GlobPaths(t) ==
    LET out[n \in 0 .. Len(Expand[t])] ==
          IF n = 0 THEN <<>>
          ELSE IF IsFile(Expand[t][n]) THEN Append(out[n - 1], Expand[t][n]) ELSE out[n - 1]
    IN out[Len(Expand[t])]

\* include: the files an argument names are absorbed next; one that names none
\* is reported with the line, which pos has passed.
Include ==
    /\ stack # <<>> /\ Top.todo = <<>> /\ Top.targets # <<>>
    /\ LET named == GlobPaths(Head(Top.targets)) IN
       /\ stack' = Become([Top EXCEPT !.targets = Tail(@), !.todo = named])
       /\ warnings' = warnings \cup IF named = <<>> THEN {Warn("unreadable", Top.file, Top.pos - 1)} ELSE {}
    /\ UNCHANGED <<files, visited, stanzas>>

\* Mutant: a file may be absorbed again.
MayEnter_Again(p) == Len(stack) <= MaxIncludeDepth
\* depth of the included file is the number of frames below it.
MayEnter(p) == Len(stack) <= MaxIncludeDepth /\ p \notin visited

Visit(p) == visited \cup {p}

\* parse_into for an included path: too deep or seen before is a warning, a
\* file that cannot be read is passed over silently.
ParseInto ==
    /\ stack # <<>> /\ Top.todo # <<>>
    /\ LET p == Head(Top.todo)
           caller == Become([Top EXCEPT !.todo = Tail(@)]) IN
       IF MayEnter(p)
       THEN /\ visited' = Visit(p)
            /\ stack' = IF files[p] = Unreadable THEN caller ELSE <<Frame(p)>> \o caller
            /\ UNCHANGED warnings
       ELSE /\ warnings' = warnings \cup {Warn("cycle", p, 0)}
            /\ stack' = caller
            /\ UNCHANGED visited
    /\ UNCHANGED <<files, stanzas>>

\* A keyword inside a Match block, or before any Host, is passed over.
SettingLine ==
    /\ \E k \in Keywords : AtDirective(k)
    /\ stack' = Advance(IF Top.inMatch \/ ~Top.open THEN Top
                        ELSE [Top EXCEPT !.current = ApplyDirective(@, Directive)])
    /\ UNCHANGED <<files, visited, stanzas, warnings>>

UnsupportedLine ==
    /\ AtDirective("unsupported")
    /\ stack' = Advance(Top)
    /\ warnings' = IF Top.inMatch \/ ~Top.open THEN warnings
                   ELSE warnings \cup {Warn("unsupported", Top.file, Top.pos)}
    /\ UNCHANGED <<files, visited, stanzas>>

\* absorb returns: the last stanza of the file is kept.
EndOfFile ==
    /\ stack # <<>> /\ Top.targets = <<>> /\ Top.todo = <<>> /\ Top.pos > Len(files[Top.file])
    /\ stanzas' = Flush(Top)
    /\ stack' = Tail(stack)
    /\ UNCHANGED <<files, visited, warnings>>

Done == stack = <<>> /\ UNCHANGED scanVars
ScanNext == \/ HostLine \/ MatchLine \/ IncludeLine \/ Include \/ ParseInto
        \/ SettingLine \/ UnsupportedLine \/ EndOfFile \/ Done
ScanSpec == ScanInit /\ [][ScanNext]_scanVars /\ WF_scanVars(ScanNext)
-----------------------------------------------------------------------------
(* Reference: what the lines of a file say, without running the parser.    *)

Read(f) == f \in visited /\ files[f] \notin {Missing, Unreadable}
\* The Host line that governs line i of file f; 0 when none does.
Governor(f, i) ==
    LET heads == {j \in 1 .. i - 1 : files[f][j].kw \in Headers} IN
    IF heads # {} /\ files[f][Max(heads)].kw = "host" THEN Max(heads) ELSE 0
\* Line i of f sets k for alias: it is governed by a Host line that covers the
\* alias, and its value counts.
Sets(f, i, k, alias) ==
    LET d == files[f][i]  g == Governor(f, i) IN
    /\ d.kw = k /\ d.args # <<>> /\ Parsed(k, d.args[1]) # None
    /\ g # 0 /\ ListMatches(files[f][g].args, {alias})
FirstIn(f, k, alias) == CHOOSE i \in DOMAIN files[f] :
    Sets(f, i, k, alias) /\ \A j \in 1 .. i - 1 : ~Sets(f, j, k, alias)
Setters(k, alias) == {f \in {g \in Paths : Read(g)} : \E i \in DOMAIN files[f] : Sets(f, i, k, alias)}

\* The state of the parser has its shape.
ScanTypeOK ==
    /\ DOMAIN files = Paths /\ visited \subseteq Paths
    /\ \A i \in DOMAIN stack : stack[i].file \in visited /\ stack[i].pos \in Nat
    /\ \A i \in DOMAIN stanzas : stanzas[i].set \in [Keywords -> Values \cup {None}]
    /\ warnings \subseteq [kind : {"match", "unreadable", "cycle", "unsupported"},
                           file : Paths, line : Nat]

\* resolve answers what the files say: a keyword is set exactly when some file
\* that was read sets it for the alias in one of its Host blocks, and then to
\* the first such value of one of those files.  In particular a directive below
\* a Match, or of another block, never lands on a host.
ResolveFaithful ==
    /\ ScanTypeOK
    /\ stack = <<>> => \A alias \in Aliases, k \in Keywords :
        LET v == Resolve(alias)[k] IN
        IF Setters(k, alias) = {} THEN v = None
        ELSE v \in {files[f][FirstIn(f, k, alias)].args[1] : f \in Setters(k, alias)}

\* No Host block is imported twice, whatever Includes lead to its file, and
\* none is lost: Include cycles and diamonds are cut by the visit set.  The
\* aliases offered are the concrete names of those blocks.
EachBlockOnce ==
    LET blocks == UNION {{<<f, i>> : i \in {j \in DOMAIN files[f] : files[f][j].kw = "host" /\ files[f][j].args # <<>>}} :
                         f \in {g \in Paths : Read(g)}}
    IN stack = <<>> =>
        /\ Len(stanzas) = Cardinality(blocks)
        /\ Offered = UNION {ConcreteNames(files[b[1]][b[2]].args) : b \in blocks}

\* A keyword inside a Host block that Tern does not know is listed, and so is
\* every Match line, of every file that was read.
ListedInHosts ==
    stack = <<>> => \A f \in {g \in Paths : Read(g)} : \A i \in DOMAIN files[f] :
        /\ files[f][i].kw = "match" => Warn("match", f, i) \in warnings
        /\ files[f][i].kw = "unsupported" /\ Governor(f, i) # 0 => Warn("unsupported", f, i) \in warnings

\* Every Host block of every file that was read is imported once, and what absorb
\* cannot import of it is listed for the user.  Lines outside a Host block and
\* numbers that do not parse are not: see NothingDropped.
BlocksAccounted == EachBlockOnce /\ ListedInHosts

GlobAgrees == \A p \in Globs, v \in Texts : GlobMatch(p, v) = Denotes(p, v)
LexAgrees == /\ \A w, v \in LineTexts : SpelledAlike(w, v)
             /\ \A l \in LineTexts, c \in Comments : CommentEnds(l, c)

\* What a finished scan was built on.  glob_match, a loop with one resume point,
\* accepts exactly what the pattern means: backtracking to the last `*` alone
\* never loses a match.  The spellings of a directive, `K v`, `K=v` and `K = v`,
\* tokenize alike whatever the rest of the line holds, and a `#` outside quotes
\* ends the line.
HelpersAgree == stack = <<>> => GlobAgrees /\ LexAgrees

\* The scan ends, whatever the files include.
Terminates == <>(stack = <<>>)

\* "Anything we do not understand is listed, never silently dropped"
\* (ssh_config/mod.rs:7), lines above the first Host and below a Match, numbers
\* that do not parse, and an included file that "could not be read" (parse.rs:40).
NothingDropped ==
    stack = <<>> =>
        /\ \A f \in {g \in Paths : Read(g)} : \A i \in DOMAIN files[f] :
             LET d == files[f][i]
                 lost == \/ d.kw = "unsupported"
                         \/ d.kw \in Keywords /\ (Governor(f, i) = 0 \/ d.args = <<>> \/ Parsed(d.kw, d.args[1]) = None)
             IN  lost => \E w \in warnings : w.file = f /\ w.line = i
        /\ (\E p \in visited : files[p] = Unreadable) => \E w \in warnings : w.kind = "unreadable"

\* "Every stanza, in file order": with Include expanded where it stands, a
\* value set above an Include line in a block that covers the alias comes
\* before what the included files set (ParsedConfig::stanzas, parse.rs:122).
FileOrder ==
    stack = <<>> => \A alias \in Aliases, k \in Keywords :
        \A i \in DOMAIN files[Main] :
            /\ Read(Main) /\ Sets(Main, i, k, alias)
            /\ \A j \in 1 .. i - 1 : files[Main][j].kw # "include" /\ ~Sets(Main, j, k, alias)
            => Resolve(alias)[k] = files[Main][i].args[1]
=============================================================================
