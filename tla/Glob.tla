-------------------------------- MODULE Glob --------------------------------
(***************************************************************************)
(* Host-pattern globbing, which known_hosts.rs and ssh_config/parse.rs     *)
(* implement with the same loop: `*` spans any run of characters, `?`      *)
(* exactly one.  Strings are sequences of characters; indices are the      *)
(* code's, so p[pi] is p[pi + 1] here.                                     *)
(***************************************************************************)
EXTENDS Integers, Sequences

NoStar == -1    \* usize::MAX

\* Mutant: one backtrack is all a `*` gets.
Backtrack_Forgets(star, resume) == <<star + 1, resume + 1, NoStar, resume + 1>>
\* The last `*` takes one character more and matching resumes behind it.
Backtrack(star, resume) == <<star + 1, resume + 1, star, resume + 1>>

\* Where the loop may be: a `*` it remembers lies behind pi, and the character
\* to resume at is not beyond vi.
LoopStates(p, v) ==
    {s \in (0 .. Len(p)) \X (0 .. Len(v)) \X (NoStar .. Len(p)) \X (0 .. Len(v)) : s[3] < s[1] /\ s[4] <= s[2]}

\* The loop of glob_match over (pi, vi, star, resume): a literal or `?`
\* advances both, a `*` remembers where to resume, a mismatch backtracks to
\* the last `*`, and without one the match fails.
GlobMatch(p, v) ==
    LET run[s \in LoopStates(p, v)] ==
          LET pi == s[1]  vi == s[2]  star == s[3]  resume == s[4] IN
          IF vi = Len(v) THEN \A i \in pi + 1 .. Len(p) : p[i] = "*"
          ELSE IF pi < Len(p) /\ p[pi + 1] \in {"?", v[vi + 1]}
               THEN run[<<pi + 1, vi + 1, star, resume>>]
          ELSE IF pi < Len(p) /\ p[pi + 1] = "*" THEN run[<<pi + 1, vi, pi, vi>>]
          ELSE IF star # NoStar THEN run[Backtrack(star, resume)]
          ELSE FALSE
    IN run[<<0, 0, NoStar, 0>>]

\* What a pattern means: a placement of the value's characters on the
\* pattern's elements, in order, where only `*` may hold other than one.
Denotes(p, v) ==
    \E cut \in [0 .. Len(p) -> 0 .. Len(v)] :
        /\ cut[0] = 0 /\ cut[Len(p)] = Len(v)
        /\ \A i \in 1 .. Len(p) :
             \/ p[i] = "*" /\ cut[i] >= cut[i - 1]
             \/ cut[i] = cut[i - 1] + 1 /\ p[i] \in {"?", v[cut[i]]}

\* A pattern list covers a host known by several names (the host and its
\* bracketed target in known_hosts, an alias in ssh_config): a positive
\* pattern matches one of them and a negated pattern matches none.
Names(p, names) == \E n \in names : GlobMatch(p, n)
ListMatches(list, names) ==
    /\ \E i \in DOMAIN list : ~list[i].negated /\ Names(list[i].glob, names)
    /\ \A i \in DOMAIN list : list[i].negated => ~Names(list[i].glob, names)
=============================================================================
