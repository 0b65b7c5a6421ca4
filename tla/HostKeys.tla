------------------------------ MODULE HostKeys ------------------------------
(***************************************************************************)
(* Host-key trust: the connect timeout of SshSession::connect, the         *)
(* callback of host_key_prompt, the prompt dialog and approve_host_key,    *)
(* and the commands that rewrite the known_hosts file underneath them.     *)
(*                                                                         *)
(* Two connections share the file, the map of pending prompts and the one  *)
(* dialog of the UI: a supervised session, which may be dialled again      *)
(* under the same id, and a connection test.  Both go to the same host.    *)
(***************************************************************************)
EXTENDS KnownHosts, FiniteSets

CONSTANTS
    Host, Port,       \* the host both connections dial
    OnFile,           \* the lines of known_hosts at the start
    Source,           \* the lines of the file import_known_hosts reads
    MaxDials,         \* how many connection attempts are made in all
    HashNew,          \* KEY_HASH_KNOWN_HOSTS as each connection reads it
    MaxRewrites,      \* how many commands rewrite the file
    MaxWait,          \* MAX_HOST_KEY_WAIT, in connect timeouts
    Nobody

Conns == {"session", "test"}

\* What a line of the file can be.
Lines == {Skipped} \cup
    [entry : {TRUE}, marker : {"none", "ca", "revoked"}, patterns : Seq([negated : BOOLEAN, glob : Seq(STRING)]),
     hash : {NoHash} \cup Seq(STRING), key : Keys]

ASSUME TrustConstants ==
    /\ MaxDials \in Nat /\ MaxRewrites \in Nat /\ MaxWait \in Nat
    /\ MatchTarget(Host, Port) \in Seq(STRING) /\ MatchTarget(Host, Port) # NoHash
    /\ OnFile \in Seq(Lines) /\ Source \in Seq(Lines)

VARIABLES
    dial,       \* per connection: attempt number, phase of SshSession::connect, timeouts waited
    callback,   \* per connection and attempt: the host-key callback
    pending,    \* AppState.pending_host_keys: id -> the attempt whose sender it holds
    events,     \* HostKeyPrompt events under way to the webview, per channel
    dialog,     \* the prompt the UI shows, with its resolver
    answers,    \* approve_host_key calls under way
    file,       \* the lines of known_hosts
    rewrite,    \* the commands that rewrite it: what each has read, and how far it is
    recorded,   \* ghost: keys the user accepted and has not forgotten since
    accepted,   \* ghost: <<connection, key>> of the dialogs the user accepted
    disturbed   \* ghost: a rewrite of the file overlapped another access to it
vars == <<dial, callback, pending, events, dialog, answers, file, rewrite, recorded, accepted, disturbed>>
uiVars == <<events, dialog, answers, accepted>>
fileVars == <<file, rewrite, recorded, disturbed>>

Attempts == 1 .. MaxDials
NoCallback == [state |-> "none", key |-> Nobody, answer |-> "none"]

\* Mutant: a connection test takes its id from the sessions' name space.
PromptId_Shared(c) == "s-0"
\* "test-N" and "s-N" never collide.
PromptId(c) == IF c = "test" THEN "test-1" ELSE "s-0"
Ids == {"s-0", "test-1"}

Init ==
    /\ dial = [c \in Conns |-> [n |-> 0, phase |-> "idle", waited |-> 0]]
    /\ callback = [c \in Conns |-> [n \in Attempts |-> NoCallback]]
    /\ pending = [id \in Ids |-> Nobody]
    /\ events = [c \in Conns |-> <<>>] /\ dialog = Nobody /\ answers = {} /\ accepted = {}
    /\ file = OnFile /\ recorded = {} /\ disturbed = FALSE
    /\ rewrite = [cmd \in {"remove", "import"} |-> [step |-> "idle", out |-> <<>>]]

Mine(c) == callback[c][dial[c].n]
Rewriting == \E cmd \in DOMAIN rewrite : rewrite[cmd].step \in {"read", "truncated"}

\* A session is dialled again after a drop or a timeout, not after a rejection.
Dial(c) ==
    /\ dial[c].phase \in IF c = "session" THEN {"idle", "up", "timeout"} ELSE {"idle"}
    /\ dial["session"].n + dial["test"].n < MaxDials
    /\ dial' = [dial EXCEPT ![c] = [n |-> @.n + 1, phase |-> "handshake", waited |-> 0]]
    /\ UNCHANGED <<callback, pending, uiVars, fileVars>>

\* The answers of the callbacks still waiting: a sender that is replaced in the
\* map is dropped, which its receiver reads as a refusal.
Answered(a, v) == [callback EXCEPT ![a[1]][a[2]].answer = IF @ = "none" THEN v ELSE @]

\* check_server_key: the server presents a key and the callback reads the file.
\* Only a key the file does not know is put to the user.
Present(c, k) ==
    LET verdict == Verify(file, Host, Port, k)
        set(state) == [callback EXCEPT ![c][dial[c].n] = [state |-> state, key |-> k, answer |-> "none"]]
    IN
    /\ dial[c].phase = "handshake" /\ Mine(c).state = "none"
    /\ disturbed' = (disturbed \/ Rewriting)
    /\ \/ callback' = set("refused")                    \* known_hosts cannot be read
       \/ verdict = "trusted" /\ callback' = set("trusted")
       \/ verdict \in {"revoked", "changed"} /\ callback' = set("refused")
       \/ verdict = "unknown" /\ callback' = set("asking")
    /\ UNCHANGED <<dial, pending, uiVars, file, rewrite, recorded>>

\* The callback gets the lock of the pending prompts, which it awaits with the
\* verdict in hand: its sender replaces the one that was there, and the prompt
\* is sent.  The callback of an attempt that timed out may still get there.
Ask(c, n) ==
    LET id == PromptId(c) IN
    /\ callback[c][n].state = "asking"
    /\ callback' = [(IF pending[id] = Nobody THEN callback ELSE Answered(pending[id], "no"))
                       EXCEPT ![c][n].state = "waiting"]
    /\ pending' = [pending EXCEPT ![id] = <<c, n>>]
    /\ events' = [events EXCEPT ![c] = Append(@, [id |-> id, conn |-> c, key |-> callback[c][n].key])]
    /\ UNCHANGED <<dial, dialog, answers, accepted, fileVars>>

\* The callback gets its answer; an accepted key is learnt, and a failure to
\* write it does not withdraw the trust.
Decide(c, n) ==
    LET cb == callback[c][n] IN
    /\ cb.state = "waiting" /\ cb.answer # "none"
    /\ callback' = [callback EXCEPT ![c][n].state = IF cb.answer = "yes" THEN "trusted" ELSE "refused"]
    /\ \/ /\ cb.answer = "yes"
          /\ file' = Append(file, LearnedLine(Host, Port, cb.key, HashNew[c]))
          /\ recorded' = recorded \cup {cb.key}
          /\ disturbed' = (disturbed \/ Rewriting)
       \/ UNCHANGED <<file, recorded, disturbed>>
    /\ UNCHANGED <<dial, pending, uiVars, rewrite>>

\* The handshake completes with the callback's decision.
Complete(c) ==
    /\ dial[c].phase = "handshake" /\ Mine(c).state \in {"trusted", "refused"}
    /\ dial' = [dial EXCEPT ![c].phase = IF Mine(c).state = "trusted" THEN "up" ELSE "rejected"]
    /\ UNCHANGED <<callback, pending, uiVars, fileVars>>

\* awaiting_user is set from the callback's first step to its last.
MayReArm(c) == Mine(c).state \in {"asking", "waiting"} /\ dial[c].waited < MaxWait

\* Mutant: the time the user took is not added up.
UserWaited_NotSummed(w) == w
UserWaited(w) == w + 1

\* The connect timeout elapses: re-armed while the callback waits for the user,
\* up to the cap, else the attempt is over.  What becomes of a callback that
\* still waits is russh's affair: it is dropped, or runs on in its own task.
Expire(c) ==
    /\ dial[c].phase = "handshake"
    /\ IF MayReArm(c)
       THEN /\ dial' = [dial EXCEPT ![c].waited = UserWaited(@)]
            /\ UNCHANGED callback
       ELSE /\ dial' = [dial EXCEPT ![c].phase = "timeout"]
            /\ callback' \in {callback, [callback EXCEPT ![c][dial[c].n].state = "dropped"]}
    /\ UNCHANGED <<pending, uiVars, fileVars>>

\* The webview receives a prompt: dialog and resolver are replaced.
ShowPrompt(c) ==
    /\ events[c] # <<>>
    /\ dialog' = Head(events[c])
    /\ events' = [events EXCEPT ![c] = Tail(@)]
    /\ UNCHANGED <<dial, callback, pending, answers, accepted, fileVars>>

\* The user answers the dialog; approve_host_key is invoked with its id.
AnswerPrompt(yes) ==
    /\ dialog # Nobody
    /\ answers' = answers \cup {[id |-> dialog.id, yes |-> yes]}
    /\ accepted' = IF yes THEN accepted \cup {<<dialog.conn, dialog.key>>} ELSE accepted
    /\ dialog' = Nobody
    /\ UNCHANGED <<dial, callback, pending, events, fileVars>>

ApproveHostKey(m) ==
    /\ m \in answers
    /\ answers' = answers \ {m}
    /\ pending' = [pending EXCEPT ![m.id] = Nobody]
    /\ callback' = IF pending[m.id] = Nobody THEN callback
                   ELSE Answered(pending[m.id], IF m.yes THEN "yes" ELSE "no")
    /\ UNCHANGED <<dial, events, dialog, accepted, fileVars>>

\* remove_known_host and import_known_hosts read the file, then write it whole:
\* fs::write truncates it first.  A rewrite that changes nothing is skipped.
RewriteRead(cmd) ==
    LET out == IF cmd = "remove" THEN Removed(file, Host, Port) ELSE file \o Imported(file, Source) IN
    /\ rewrite[cmd].step = "idle"
    /\ Cardinality({x \in DOMAIN rewrite : rewrite[x].step # "idle"}) < MaxRewrites
    /\ rewrite' = [rewrite EXCEPT ![cmd] = IF out = file THEN [@ EXCEPT !.step = "done"]
                                           ELSE [step |-> "read", out |-> out]]
    /\ disturbed' = (disturbed \/ Rewriting)
    /\ UNCHANGED <<dial, callback, pending, uiVars, file, recorded>>

RewriteTruncate(cmd) ==
    /\ rewrite[cmd].step = "read"
    /\ rewrite' = [rewrite EXCEPT ![cmd].step = "truncated"]
    /\ file' = <<>>
    /\ UNCHANGED <<dial, callback, pending, uiVars, recorded, disturbed>>

RewriteWrite(cmd) ==
    /\ rewrite[cmd].step = "truncated"
    /\ file' = rewrite[cmd].out
    /\ rewrite' = [rewrite EXCEPT ![cmd] = [step |-> "done", out |-> <<>>]]
    /\ recorded' = IF cmd = "remove" THEN {} ELSE recorded
    /\ UNCHANGED <<dial, callback, pending, uiVars, disturbed>>

Idle == (\A c \in Conns : dial[c].phase # "handshake") /\ UNCHANGED vars

Next ==
    \/ \E c \in Conns : \/ Dial(c) \/ Complete(c) \/ Expire(c) \/ ShowPrompt(c)
                        \/ \E k \in Keys : Present(c, k)
                        \/ \E n \in Attempts : Ask(c, n) \/ Decide(c, n)
    \/ \E yes \in BOOLEAN : AnswerPrompt(yes)
    \/ \E m \in answers : ApproveHostKey(m)
    \/ \E cmd \in DOMAIN rewrite : RewriteRead(cmd) \/ RewriteTruncate(cmd) \/ RewriteWrite(cmd)
    \/ Idle

\* The timer, the callback and the transport run; neither the server, the user
\* nor the webview need ever do anything.
Fairness == \A c \in Conns : /\ WF_vars(Expire(c)) /\ WF_vars(Complete(c))
                             /\ \A n \in Attempts : WF_vars(Ask(c, n)) /\ WF_vars(Decide(c, n))
Spec == Init /\ [][Next]_vars /\ Fairness
-----------------------------------------------------------------------------
\* The state has its shape, and a pending sender belongs to an attempt that was
\* made under that id.
TypeOK ==
    /\ \A c \in Conns : /\ dial[c].phase \in {"idle", "handshake", "up", "rejected", "timeout"}
                        /\ dial[c].n \in 0 .. MaxDials /\ dial[c].waited \in 0 .. MaxWait
                        /\ \A n \in Attempts : callback[c][n].state \in
                             {"none", "asking", "waiting", "trusted", "refused", "dropped"}
    /\ \A id \in Ids : pending[id] # Nobody => PromptId(pending[id][1]) = id
    /\ recorded \subseteq Keys /\ accepted \subseteq Conns \X Keys

\* A key the user accepted stays known until it is forgotten: outside a rewrite
\* that overlaps other accesses, verify answers Trusted for it, or Revoked,
\* whether the entry was hashed or not and whatever was imported since.
AcceptedStaysKnown ==
    /\ TypeOK
    /\ ~disturbed /\ ~Rewriting =>
        \A k \in recorded : Verify(file, Host, Port, k) \in {"trusted", "revoked"}

Asks(c, n) == callback[c][n].state \in {"asking", "waiting"}
\* A callback that reads the file while a key of the host is on record never
\* turns to the user about another key of that algorithm ("Never an accept?
\* prompt", host_key_prompt).  What is recorded after it has read the file it
\* does not know: see PromptIsCurrent.
ChangedNeverPrompts ==
    [][\A c \in Conns, n \in Attempts : Asks(c, n)' /\ ~Asks(c, n) /\ ~disturbed' =>
         \A k \in recorded : Alg[k] # Alg[callback'[c][n].key]]_vars

\* A connection is trusted on a prompt only if the user accepted a prompt of
\* that connection: an answer meant for the session never reaches a test.
TrustIsOwn ==
    \A c \in Conns, n \in Attempts :
        callback[c][n].state = "trusted" /\ callback[c][n].answer = "yes" =>
            \E k \in Keys : <<c, k>> \in accepted

\* A connect ends, even when the prompt it waits on is never answered.
ConnectEnds == \A c \in Conns : dial[c].phase = "handshake" ~> dial[c].phase # "handshake"

\* "What a user must see before trusting a host key" (session.rs:34): a key is
\* trusted on a prompt only if the user accepted a prompt that showed it.
SeenBeforeTrusted ==
    \A c \in Conns, n \in Attempts :
        callback[c][n].state = "trusted" /\ callback[c][n].answer = "yes" =>
            <<c, callback[c][n].key>> \in accepted

Waits(c, n) == callback[c][n].state = "waiting"
\* "Never an accept? prompt" for a key that differs from the one on record, at
\* the time the prompt is sent.
PromptIsCurrent ==
    [][\A c \in Conns, n \in Attempts : Waits(c, n)' /\ ~Waits(c, n) /\ ~disturbed =>
         \A k \in recorded : Alg[k] = Alg[callback[c][n].key] => k = callback[c][n].key]_vars

\* "An @revoked entry matches.  Refuse regardless of anything else."
\* (known_hosts.rs:59)
RevokedRefused ==
    \A k \in Keys : (\E i \in DOMAIN file : PatternsMatch(file[i], Host, Port) /\ file[i].marker = "revoked")
                       => Verify(file, Host, Port, k) = "revoked"
=============================================================================
