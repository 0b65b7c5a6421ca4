------------------------------ MODULE AuthChain ------------------------------
(***************************************************************************)
(* Authentication of one saved host: the chain is built from the record    *)
(* and the keyring for every attempt, then authenticate works through it   *)
(* against a server that may want one method or both, that counts failed   *)
(* tries, and that may go away at any moment.                              *)
(***************************************************************************)
EXTENDS KeyFiles, Naturals, FiniteSets

CONSTANTS
    Hosts,          \* the records a behaviour may start from
    Servers,        \* [methods, both, tells, keys]: what it offers, whether it wants
                    \* every method, whether its rejections carry the list, which keys it knows
    Agents,         \* the identities an agent may hold; Absent when there is none
    KeyFile,        \* the file at key_path and the key in it
    MaxAuthTries,   \* of the server
    MaxAttempts     \* bound: authentications in one behaviour

Absent == <<"absent">>
Unknown == {"unknown"}     \* the server has not listed its methods yet
NoVerdict == {"none"}      \* the agent loop has no rejection yet
WireKinds == {"password", "publickey"}
Password == "hunter2"      \* the password the server accepts

ASSUME AuthConstants ==
    /\ MaxAuthTries \in Nat \ {0} /\ MaxAttempts \in Nat
    /\ \A s \in Servers : s.methods \subseteq WireKinds /\ s.methods # {} /\ s.both \in BOOLEAN /\ s.tells \in BOOLEAN
    /\ \A s \in Servers : {"certificate", "unsignable"} \intersect s.keys = {}
    /\ Agents \subseteq Seq(STRING)
    \* the form's chain has one fallback slot, and a record at most one password in it
    /\ \A h \in Hosts : h.auth \in Kinds /\ h.auth_fallbacks \in Seq(Kinds)
                        /\ \A m, n \in DOMAIN h.auth_fallbacks :
                              h.auth_fallbacks[m] = "password" /\ h.auth_fallbacks[n] = "password" => m = n

VARIABLES
    host, server, agent,    \* the record, the peer and the agent
    keyring,
    chain,      \* SessionConfig.auth
    phase,      \* of the attempt: "idle", "chain", "agent", "up", "failed"
    next,       \* the method authenticate is at
    identity,   \* the identity authenticate_with_agent is at
    verdict,    \* its last rejection: the list that came with it
    offered,    \* authenticate's offered
    peer,       \* the server's side: [alive, tries, passed]
    attempts,   \* attempts so far
    told,       \* ghost: the list of the latest rejection the server sent
    guessed,    \* ghost: how often this attempt sent a password
    cleared     \* ghost: secrets the user has removed from the keyring
vars == <<host, server, agent, keyring, chain, phase, next, identity, verdict, offered, peer, attempts,
          told, guessed, cleared>>
world == <<host, server, agent>>

Init ==
    /\ host \in Hosts /\ server \in Servers /\ agent \in Agents
    /\ keyring = [locked |-> FALSE,
                  entries |-> [a \in {password_account(host.id), passphrase_account(host.id)} |->
                                  IF a = password_account(host.id) THEN Password ELSE KeyFile.lock]]
    /\ chain = <<>> /\ phase = "idle" /\ next = 1 /\ identity = 1
    /\ verdict = NoVerdict /\ offered = Unknown /\ told = Unknown
    /\ peer = [alive |-> TRUE, tries |-> 0, passed |-> {}]
    /\ attempts = 0 /\ guessed = 0 /\ cleared = {}

\* Mutant: a reconnect uses the chain the first connect resolved.
Establish_Cached ==
    /\ phase \in {"idle", "failed"} /\ attempts < MaxAttempts
    /\ chain' = IF chain = <<>> THEN auth_for_host(host, keyring) ELSE chain
    /\ phase' = "chain" /\ next' = 1 /\ offered' = Unknown /\ told' = Unknown
    /\ peer' = [alive |-> TRUE, tries |-> 0, passed |-> {}]
    /\ attempts' = attempts + 1 /\ guessed' = 0
    /\ UNCHANGED <<world, keyring, identity, verdict, cleared>>
\* A handshake has succeeded: the chain is resolved anew, for a connection or a
\* reconnection (establish_saved_host).
Establish ==
    /\ phase \in {"idle", "failed"} /\ attempts < MaxAttempts
    /\ chain' = auth_for_host(host, keyring)
    /\ phase' = "chain" /\ next' = 1 /\ offered' = Unknown /\ told' = Unknown
    /\ peer' = [alive |-> TRUE, tries |-> 0, passed |-> {}]
    /\ attempts' = attempts + 1 /\ guessed' = 0
    /\ UNCHANGED <<world, keyring, identity, verdict, cleared>>

-----------------------------------------------------------------------------
(* The server.  A try that succeeds where both methods are wanted is        *)
(* answered like a rejection, with the methods left; a failed try counts,   *)
(* and the one that reaches MaxAuthTries ends the connection unanswered.    *)

Left(passed) == server.methods \ passed
Listed(passed) == IF server.tells THEN Left(passed) ELSE {}
Passes(kind, good) == good /\ kind \in Left(peer.passed)
Wanted(passed) == server.both /\ Left(passed) # {}

\* What sending one try comes to: the answer, the list it carries and the peer afterwards.
Try(kind, good) ==
    LET passed == IF Passes(kind, good) THEN peer.passed \union {kind} ELSE peer.passed
        tries == IF Passes(kind, good) THEN peer.tries ELSE peer.tries + 1
        gone == ~peer.alive \/ tries >= MaxAuthTries
    IN  IF gone
        THEN [answer |-> "error", list |-> told,
              peer |-> [peer EXCEPT !.alive = FALSE, !.tries = IF peer.alive THEN tries ELSE @]]
        ELSE IF Passes(kind, good) /\ ~Wanted(passed)
        THEN [answer |-> "success", list |-> told, peer |-> [peer EXCEPT !.passed = passed]]
        ELSE [answer |-> "failure", list |-> Listed(passed),
              peer |-> [peer EXCEPT !.tries = tries, !.passed = passed]]

-----------------------------------------------------------------------------
(* authenticate.                                                            *)

Current == chain[next]
method_kind(m) == IF m.kind = "password" THEN "password" ELSE "publickey"

\* Mutant: an empty list rules everything out.
RuledOut_Empty(kind, list) == list # Unknown /\ kind \notin list
\* Skipped only against a list that names something else.
RuledOut(kind, list) == list # Unknown /\ list # {} /\ kind \notin list

AtMethod == phase = "chain" /\ next <= Len(chain)
Attempting(kind) == AtMethod /\ Current.kind = kind /\ ~RuledOut(method_kind(Current), offered)

Skip ==
    /\ AtMethod /\ RuledOut(method_kind(Current), offered)
    /\ next' = next + 1
    /\ UNCHANGED <<world, keyring, chain, phase, identity, verdict, offered, peer, attempts, told, guessed, cleared>>

\* The arms of authenticate's match on what a method came to: success ends the
\* chain, a rejection updates offered, an error leaves it.
Settle(answer, list) ==
    /\ phase' = IF answer = "success" THEN "up" ELSE "chain"
    /\ next' = IF answer = "success" THEN next ELSE next + 1
    /\ offered' = IF answer = "failure" THEN list ELSE offered

TryPassword ==
    LET t == Try("password", Current.secret = Password)
    IN  /\ Attempting("password")
        /\ Settle(t.answer, t.list) /\ peer' = t.peer /\ told' = t.list
        /\ guessed' = guessed + (IF peer.alive THEN 1 ELSE 0)
        /\ UNCHANGED <<world, keyring, chain, identity, verdict, attempts, cleared>>

Loads(secret) == decode_secret_key(KeyFile, secret) = "ok"

\* A key that does not load never reaches the server.
TryKeyFile ==
    LET t == Try("publickey", KeyFile.key \in server.keys)
    IN  /\ Attempting("keyfile")
        /\ IF Loads(Current.secret)
           THEN Settle(t.answer, t.list) /\ peer' = t.peer /\ told' = t.list
           ELSE Settle("error", told) /\ UNCHANGED <<peer, told>>
        /\ UNCHANGED <<world, keyring, chain, identity, verdict, attempts, guessed, cleared>>

\* connect_agent and request_identities: no agent, or one that holds nothing, is
\* an error and the server never sees an attempt.
OpenAgent ==
    /\ Attempting("agent")
    /\ IF agent = Absent \/ agent = <<>>
       THEN Settle("error", told) /\ UNCHANGED <<identity, verdict>>
       ELSE phase' = "agent" /\ identity' = 1 /\ verdict' = NoVerdict /\ UNCHANGED <<next, offered>>
    /\ UNCHANGED <<world, keyring, chain, peer, attempts, told, guessed, cleared>>

\* One identity, in the agent's order.  Certificates are passed over; an identity
\* the agent does not sign with is an error of its own.
TryIdentity ==
    LET id == agent[identity]
        t == Try("publickey", id \in server.keys)
    IN  /\ phase = "agent" /\ identity <= Len(agent)
        /\ identity' = identity + 1
        /\ IF id \in {"certificate", "unsignable"}
           THEN UNCHANGED <<phase, peer, told, verdict>>
           ELSE /\ phase' = IF t.answer = "success" THEN "up" ELSE "agent"
                /\ verdict' = IF t.answer = "failure" THEN t.list ELSE verdict
                /\ peer' = t.peer /\ told' = t.list
        /\ UNCHANGED <<world, keyring, chain, next, offered, attempts, guessed, cleared>>

\* Mutant: an agent that gets nowhere is an error, whatever the server answered.
AgentDone_DropsList ==
    /\ phase = "agent" /\ identity > Len(agent)
    /\ Settle("error", verdict)
    /\ UNCHANGED <<world, keyring, chain, identity, verdict, peer, attempts, told, guessed, cleared>>
\* The last rejection is the agent's verdict; without one it is an error.
AgentDone ==
    /\ phase = "agent" /\ identity > Len(agent)
    /\ Settle(IF verdict = NoVerdict THEN "error" ELSE "failure", verdict)
    /\ UNCHANGED <<world, keyring, chain, identity, verdict, peer, attempts, told, guessed, cleared>>

\* The chain is exhausted: AuthFailed, which the supervisor does not retry.
GiveUp ==
    /\ phase = "chain" /\ next > Len(chain)
    /\ phase' = "failed"
    /\ UNCHANGED <<world, keyring, chain, next, identity, verdict, offered, peer, attempts, told, guessed, cleared>>

Authenticate ==
    Skip \/ TryPassword \/ TryKeyFile \/ OpenAgent \/ TryIdentity \/ AgentDone \/ GiveUp

-----------------------------------------------------------------------------
(* The surroundings.                                                        *)

\* The peer or the network goes away; the keepalives turn silence into this.
Vanish ==
    /\ phase \in {"chain", "agent"} /\ peer.alive
    /\ peer' = [peer EXCEPT !.alive = FALSE]
    /\ UNCHANGED <<world, keyring, chain, phase, next, identity, verdict, offered, attempts, told, guessed, cleared>>

\* An established session drops; the supervisor dials again.
Drop ==
    /\ phase = "up" /\ attempts < MaxAttempts /\ phase' = "idle"
    /\ UNCHANGED <<world, keyring, chain, next, identity, verdict, offered, peer, attempts, told, guessed, cleared>>

\* The user clears the host's credential (clear_secret_for, or outside tern).
ClearSecret(account) ==
    /\ account \in DOMAIN keyring.entries /\ ~keyring.locked
    /\ keyring' = [keyring EXCEPT !.entries = [a \in DOMAIN @ \ {account} |-> @[a]]]
    /\ cleared' = cleared \union {<<account, attempts>>}
    /\ UNCHANGED <<world, chain, phase, next, identity, verdict, offered, peer, attempts, told, guessed>>

LockKeyring ==
    /\ ~keyring.locked /\ keyring' = [keyring EXCEPT !.locked = TRUE]
    /\ UNCHANGED <<world, chain, phase, next, identity, verdict, offered, peer, attempts, told, guessed, cleared>>

Done == phase \in {"up", "failed"} /\ UNCHANGED vars

Next ==
    \/ Establish \/ Authenticate \/ Vanish \/ Drop \/ LockKeyring \/ Done
    \/ \E kind \in SecretKinds : ClearSecret(<<host.id, kind>>)

Spec == Init /\ [][Next]_vars
-----------------------------------------------------------------------------
\* Types: the chain is no longer than the record's methods, both loops stay within
\* their lists and the server never sees more tries than it allows.
TypeOK ==
    /\ phase \in {"idle", "chain", "agent", "up", "failed"}
    /\ chain \in Seq([kind : Kinds, secret : {Password, KeyFile.lock, Blank}]) /\ Len(chain) <= 1 + Len(host.auth_fallbacks)
    /\ next \in 1 .. Len(chain) + 1
    /\ identity \in Nat /\ (phase = "agent" => identity \in 1 .. Len(agent) + 1)
    /\ verdict \in (SUBSET WireKinds) \union {NoVerdict}
    /\ offered \in (SUBSET WireKinds) \union {Unknown} /\ told \in (SUBSET WireKinds) \union {Unknown}
    /\ peer \in [alive : BOOLEAN, tries : 0 .. MaxAuthTries, passed : SUBSET WireKinds]

\* A method of the chain that the server would accept.
Usable(m) ==
    CASE m.kind = "password" -> m.secret = Password
      [] m.kind = "keyfile" -> Loads(m.secret) /\ KeyFile.key \in server.keys
      [] OTHER -> agent # Absent /\ \E n \in DOMAIN agent : agent[n] \in server.keys
CanPass(kind) == \E n \in DOMAIN chain : method_kind(chain[n]) = kind /\ Usable(chain[n])

\* A login that could have worked is never given up while the connection lives:
\* when AuthFailed is reported and the peer is still there, the chain had nothing
\* the server would have taken - whether one method suffices or both are wanted,
\* whatever lists the rejections carried, and with local failures in between.
ViableWins ==
    /\ TypeOK
    /\ phase = "failed" /\ peer.alive =>
        IF server.both THEN \E kind \in server.methods : ~CanPass(kind)
                       ELSE \A kind \in server.methods : ~CanPass(kind)

\* A long chain does not squander MaxAuthTries: a method the server has ruled out
\* by its latest list is skipped, never begun (session.rs, authenticate), and a
\* password is sent at most once in an attempt (auth.rs, the filter on the
\* fallbacks).
TriesNotSquandered ==
    [][/\ peer'.tries > peer.tries /\ phase = "chain" => ~RuledOut(method_kind(Current), told)
       /\ guessed' <= 1]_vars

\* A credential the user clears is gone from the next attempt on, reconnects
\* included: the secrets are read per attempt (auth.rs, module comment).
ClearedNotReused ==
    phase \in {"chain", "agent"} =>
        \A c \in cleared : c[1] = host.secret_ref /\ c[2] < attempts =>
            \A n \in DOMAIN chain : chain[n].secret = Blank

\* The edit form's connection test, with its secret field untouched, tries what a
\* connect would try, when the account on record is the one the chain calls for.
TestPredicts ==
    phase = "idle" /\ host.secret_ref = account_for(host) =>
        ToSet(TestChain(host, keyring, Blank)) = ToSet(auth_for_host(host, keyring))

\* What the passphrase form says of a key file: it accepts exactly what a connect
\* will load; it calls a passphrase wrong only if one was given for a locked file
\* whose derivation this build has, and the file would not have opened with it
\* (a wrong passphrase, or a damaged body, which keys.rs:196 does not tell apart);
\* and it asks for one only if the file is locked and none was given.
BlamesRightly ==
    phase = "idle" =>
        \A file \in KeyFileType({Blank, "right"}), given \in {Blank, "right", "wrong"} :
            LET said == unlock(file, given)
            IN  /\ said = "ok" <=> decode_secret_key(file, given) = "ok"
                /\ said = "wrong passphrase" => file.kdf /\ file.lock # Blank /\ given # Blank
                                                /\ (given # file.lock \/ ~file.sound)
                /\ said = "needs passphrase" => file.lock # Blank /\ given = Blank

\* What the host form reports before a host is saved is what a connect will meet:
\* its connection test and its passphrase check agree with the real thing.
FormsTellTrue == TestPredicts /\ BlamesRightly

\* "Getting it backwards is actively harmful: it sends someone round a loop
\* retyping a passphrase that was correct the first time" (keys.rs:166).
RightNeverBlamed ==
    phase = "idle" =>
        \A file \in KeyFileType({Blank, "right"}) : file.lock = "right" => unlock(file, "right") # "wrong passphrase"

\* What session.rs says of every attempt: none is spent on a method the server
\* has already said it will not accept.
NoTryWasted ==
    [][peer'.tries > peer.tries =>
        ~RuledOut(IF phase = "agent" THEN "publickey" ELSE method_kind(Current), told)]_vars

=============================================================================
