------------------------------ MODULE Supervisor ------------------------------
(***************************************************************************)
(* One SSH session of a saved host: the `supervise` task of                *)
(* apps/desktop/src/commands.rs, the tail of `open_session` that registers *)
(* the session, and the commands that run concurrently with both           *)
(* (`resize_session`, `close_session`).                                    *)
(*                                                                         *)
(* Every reconnect opens a new transport, a "generation".  A generation    *)
(* has a link (the SSH transport) and a shell (the channel on it); the     *)
(* environment may end the shell or drop the link at any time.  Terminal   *)
(* output is the business of module DataPath and is left out here.         *)
(***************************************************************************)
EXTENDS ReconnectPolicy, Sequences

CONSTANTS
    Gens,      \* bound on the transports one session goes through: 1 .. Gens
    Cmds,      \* slots for concurrently running Tauri commands
    Sizes,     \* terminal sizes (cols, rows)
    InitSize,  \* OpenSessionReq's size
    Strays     \* slots for host-key callbacks that outlive their attempt

ASSUME SupervisorAssumption ==
    /\ Gens \in Nat \ {0}
    /\ InitSize \in Sizes
    /\ "none" \notin Sizes

VARIABLES
    reg,       \* where open_session / close_session have brought the session
    shutdown,  \* LiveSession.shutdown, a watch channel
    dims,      \* LiveSession.dims
    conn,      \* the generation whose control and keepalive are in Conn
    link,      \* link[g]: the transport of generation g
    shell,     \* shell[g]: the shell channel of generation g
    pty,       \* pty[g]: the size the remote PTY of generation g has
    pc,        \* where supervise is
    gen,       \* the generation whose output supervise owns (`out`, `ssh`)
    est,       \* newest generation established so far
    attempt,   \* the attempt that supervise is sleeping for or making
    openSize,  \* dims as read just before the reconnector was called
    hostKey,   \* the host-key callback of the attempt under way
    stray,     \* stray[s]: a callback whose attempt has timed out
    cmd,       \* cmd[c]: the command running in slot c
    events,    \* the status events sent on the session's channel so far
    asides,    \* the host-key events sent on it since the last Reconnecting
    atClose    \* Len(events) when shutdown was signalled (history)

supVars == <<pc, gen, est, attempt, openSize, hostKey>>
netVars == <<link, shell, pty>>
chanVars == <<events, asides, atClose>>
vars == <<reg, shutdown, dims, conn, netVars, supVars, stray, cmd, chanVars>>

Generations == 1 .. Gens

LinkStates == {"none", "up", "closed"}
ShellStates == {"none", "running", "exited", "quiet", "cut"}
PcStates == {"pump", "ended", "classify", "sleep", "connect", "login",
             "swap", "announce", "done"}
CallbackStates == {"due", "asked", "passed", "refused"}
Reasons == {"lost"} \cup ConnectErrors

\* What the UI is told of the session's status, and what the host-key callback
\* of an attempt sends on the same channel: of the latter only the kinds matter,
\* and where they come between the announcements of attempts.
Refusals == {"hostKeyChanged", "hostKeyRevoked", "error"}
HostKeyEvents == {"hostKeyPrompt"} \cup Refusals

Event == [event : {"connected", "reconnecting", "exited", "disconnected"},
          attempt : Nat,
          reason : Reasons \cup {"none"}]

Connected == [event |-> "connected", attempt |-> 0, reason |-> "none"]
Reconnecting(n) ==
    [event |-> "reconnecting", attempt |-> n, reason |-> "none"]
Exited == [event |-> "exited", attempt |-> 0, reason |-> "none"]
Disconnected(why) ==
    [event |-> "disconnected", attempt |-> 0, reason |-> why]

Idle == [kind |-> "idle", step |-> "none", size |-> "none", gen |-> 0]
Command == [kind : {"idle", "resize", "close"},
            step : {"none", "control", "apply"},
            size : Sizes \cup {"none"},
            gen : 0 .. Gens]

-----------------------------------------------------------------------------
(* connect_ssh has spawned supervise on generation 1 and returned; the tail *)
(* of open_session has not run yet.                                         *)
Init ==
    /\ reg = "opening"
    /\ shutdown = FALSE
    /\ dims = InitSize
    /\ conn = 1
    /\ link = [g \in Generations |-> IF g = 1 THEN "up" ELSE "none"]
    /\ shell = [g \in Generations |-> IF g = 1 THEN "running" ELSE "none"]
    /\ pty = [g \in Generations |-> IF g = 1 THEN InitSize ELSE "none"]
    /\ pc = "pump"
    /\ gen = 1
    /\ est = 1
    /\ attempt = 0
    /\ openSize = InitSize
    /\ hostKey = "due"
    /\ stray = [s \in Strays |-> "none"]
    /\ cmd = [c \in Cmds |-> Idle]
    /\ events = <<>>
    /\ asides = {}
    /\ atClose = 0

Send(e) ==
    /\ events' = Append(events, e)
    /\ asides' = IF e.event = "reconnecting" THEN {} ELSE asides

SendAside(kind) ==
    /\ asides' = asides \cup {kind}
    /\ UNCHANGED events

-----------------------------------------------------------------------------
(* The tail of open_session: announce, then insert into the session map.    *)

OpenAnnounce ==
    /\ reg = "opening"
    /\ reg' = "announced"
    /\ Send(Connected)
    /\ UNCHANGED <<shutdown, dims, conn, netVars, supVars, stray, cmd, atClose>>

OpenInsert ==
    /\ reg = "announced"
    /\ reg' = "live"
    /\ UNCHANGED <<shutdown, dims, conn, netVars, supVars, stray, cmd, chanVars>>

-----------------------------------------------------------------------------
(* The remote end and the network.                                          *)

\* The shell ends: with an exit status, or with a bare channel close.
ShellExit(g) ==
    /\ link[g] = "up" /\ shell[g] = "running"
    /\ \E how \in {"exited", "quiet"} : shell' = [shell EXCEPT ![g] = how]
    /\ UNCHANGED <<reg, shutdown, dims, conn, link, pty, supVars, stray, cmd,
                   chanVars>>

\* The transport dies; a shell still running on it is cut without a status.
TransportDrop(g) ==
    /\ link[g] = "up"
    /\ link' = [link EXCEPT ![g] = "closed"]
    /\ shell' = [shell EXCEPT ![g] = IF @ = "running" THEN "cut" ELSE @]
    /\ UNCHANGED <<reg, shutdown, dims, conn, pty, supVars, stray, cmd,
                   chanVars>>

-----------------------------------------------------------------------------
(* supervise: the pump loop.  Its select is biased, so a pending shutdown   *)
(* wins over the end of the output.                                         *)

PumpShutdown ==
    /\ pc = "pump" /\ shutdown
    /\ pc' = "done"
    /\ UNCHANGED <<reg, shutdown, dims, conn, netVars, gen, est, attempt,
                   openSize, hostKey, stray, cmd, chanVars>>

PumpEnds ==
    /\ pc = "pump" /\ ~shutdown
    /\ shell[gen] # "running"
    /\ pc' = "ended"
    /\ UNCHANGED <<reg, shutdown, dims, conn, netVars, gen, est, attempt,
                   openSize, hostKey, stray, cmd, chanVars>>

\* The check between the pump loop and the classification of its end.
CheckShutdown ==
    /\ pc = "ended"
    /\ pc' = IF shutdown THEN "done" ELSE "classify"
    /\ UNCHANGED <<reg, shutdown, dims, conn, netVars, gen, est, attempt,
                   openSize, hostKey, stray, cmd, chanVars>>

\* Mutant: the transport is asked before the exit status.
PumpEnd_LinkFirst == IF link[gen] = "closed" THEN "dropped" ELSE "exited"

\* Mutant: an end without an exit status is taken for a drop.
PumpEnd_NoLinkCheck == IF shell[gen] = "exited" THEN "exited" ELSE "dropped"

PumpEnd ==
    IF shell[gen] = "exited" THEN "exited"
    ELSE IF link[gen] = "closed" THEN "dropped"
    ELSE "exited"

\* Mutant: the give-up decision is swallowed and the loop goes on.
Follow_GiveUpIgnored(decision, n, why) ==
    \/ /\ decision = "reconnect"
       /\ pc' = "sleep"
       /\ attempt' = n
       /\ Send(Reconnecting(n))
    \/ /\ decision = "giveup"
       /\ pc' = "connect"
       /\ UNCHANGED <<attempt, events, asides>>

\* Act on a Decision for attempt n: announce the attempt and sleep, or report
\* the session as lost and stop.
Follow(decision, n, why) ==
    \/ /\ decision = "reconnect"
       /\ pc' = "sleep"
       /\ attempt' = n
       /\ Send(Reconnecting(n))
    \/ /\ decision = "giveup"
       /\ pc' = "done"
       /\ attempt' = attempt
       /\ Send(Disconnected(why))

\* A reconnector exists exactly when the policy is enabled, so "no
\* reconnector" and "policy says give up" are reported alike.
Classify ==
    /\ pc = "classify"
    /\ \/ /\ Decide(PumpEnd, 1) = "exit"
          /\ pc' = "done"
          /\ attempt' = attempt
          /\ Send(Exited)
       \/ Follow(Decide(PumpEnd, 1), 1, "lost")
    /\ UNCHANGED <<reg, shutdown, dims, conn, netVars, gen, est, openSize,
                   hostKey, stray, cmd, atClose>>

-----------------------------------------------------------------------------
(* supervise: one round of the reconnect loop.                              *)

SleepShutdown ==
    /\ pc = "sleep" /\ shutdown
    /\ pc' = "done"
    /\ UNCHANGED <<reg, shutdown, dims, conn, netVars, gen, est, attempt,
                   openSize, hostKey, stray, cmd, chanVars>>

\* Mutant: neither the select nor the check after it looks at shutdown.
SleepOver_Unchecked ==
    /\ pc = "sleep"
    /\ pc' = "connect"
    /\ openSize' = dims
    /\ UNCHANGED <<reg, shutdown, dims, conn, netVars, gen, est, attempt,
                   hostKey, stray, cmd, chanVars>>

\* The backoff has elapsed and shutdown is still clear: read the size and
\* call the reconnector.
SleepOver ==
    /\ pc = "sleep" /\ ~shutdown
    /\ pc' = "connect"
    /\ openSize' = dims
    /\ UNCHANGED <<reg, shutdown, dims, conn, netVars, gen, est, attempt,
                   hostKey, stray, cmd, chanVars>>

\* Mutant: a refusal returns false and says nothing.
CallbackStep_Silent(from, to) ==
    \/ from = "due" /\ to = "passed" /\ UNCHANGED <<events, asides>>
    \/ from = "due" /\ to = "refused" /\ UNCHANGED <<events, asides>>
    \/ from = "due" /\ to = "asked" /\ SendAside("hostKeyPrompt")
    \/ from = "asked" /\ to = "passed"
       /\ (UNCHANGED <<events, asides>> \/ SendAside("error"))
    \/ from = "asked" /\ to = "refused" /\ UNCHANGED <<events, asides>>

\* host_key_prompt: the key is known; it is refused, as changed, revoked or
\* because known_hosts cannot be read; or the user is asked.  Failing to record
\* an accepted key is reported and withdraws nothing; a dropped answer is a no.
CallbackStep(from, to) ==
    \/ from = "due" /\ to = "passed" /\ UNCHANGED <<events, asides>>
    \/ from = "due" /\ to = "refused"
       /\ \E why \in Refusals : SendAside(why)
    \/ from = "due" /\ to = "asked" /\ SendAside("hostKeyPrompt")
    \/ from = "asked" /\ to = "passed"
       /\ (UNCHANGED <<events, asides>> \/ SendAside("error"))
    \/ from = "asked" /\ to = "refused" /\ UNCHANGED <<events, asides>>

\* The callback of the attempt under way.
CheckHostKey ==
    /\ pc = "connect"
    /\ hostKey' \in CallbackStates /\ CallbackStep(hostKey, hostKey')
    /\ UNCHANGED <<reg, shutdown, dims, conn, netVars, pc, gen, est, attempt,
                   openSize, stray, cmd, atClose>>

\* The handshake is done; authentication and open_shell follow, which no
\* timeout covers.
HandshakeDone ==
    /\ pc = "connect" /\ hostKey = "passed"
    /\ pc' = "login"
    /\ hostKey' = "due"
    /\ UNCHANGED <<reg, shutdown, dims, conn, netVars, gen, est, attempt,
                   openSize, stray, cmd, chanVars>>

\* The reconnector's await is not raced against shutdown.
ConnectOk ==
    /\ pc = "login" /\ est < Gens
    /\ pc' = "swap"
    /\ est' = est + 1
    /\ link' = [link EXCEPT ![est + 1] = "up"]
    /\ shell' = [shell EXCEPT ![est + 1] = "running"]
    /\ pty' = [pty EXCEPT ![est + 1] = openSize]
    /\ UNCHANGED <<reg, shutdown, dims, conn, gen, attempt, openSize, hostKey,
                   stray, cmd, chanVars>>

\* What an attempt can fail with, by how far it has come.
AttemptErrors ==
    IF pc = "login" THEN {"Protocol", "AuthFailed", "Agent", "KeyLoad"}
    ELSE IF hostKey = "refused" THEN {"ConnectTimeout", "HostKeyRejected"}
    ELSE IF hostKey = "due" THEN RetryableErrors \cup {"HostRemoved", "StoreFailed"}
    ELSE RetryableErrors

\* When the timeout gives the handshake up, a callback that is not through is
\* dropped with it or runs on in russh's task; that is russh's affair.
Outlives(err) ==
    {stray} \cup {[stray EXCEPT ![s] = hostKey] :
        s \in {x \in Strays : /\ err = "ConnectTimeout" /\ pc = "connect"
                             /\ hostKey \in {"due", "asked"}
                             /\ stray[x] = "none"}}

ConnectFails(err) ==
    /\ pc \in {"connect", "login"} /\ err \in AttemptErrors
    /\ Follow(AfterFailedAttempt(attempt, err), attempt + 1, err)
    /\ hostKey' = "due"
    /\ stray' \in Outlives(err)
    /\ UNCHANGED <<reg, shutdown, dims, conn, netVars, gen, est, openSize, cmd,
                   atClose>>

\* A callback that outlived its attempt goes on, and is done when it is through.
StrayRuns(s) ==
    /\ \E to \in CallbackStates :
          /\ CallbackStep(stray[s], to)
          /\ stray' = [stray EXCEPT ![s] = IF to = "asked" THEN to ELSE "none"]
    /\ UNCHANGED <<reg, shutdown, dims, conn, netVars, supVars, cmd, atClose>>

\* Replace control and keepalive under the Conn lock.
Swap ==
    /\ pc = "swap"
    /\ conn' = est
    /\ pc' = "announce"
    /\ UNCHANGED <<reg, shutdown, dims, netVars, gen, est, attempt, openSize,
                   hostKey, stray, cmd, chanVars>>

Announce ==
    /\ pc = "announce"
    /\ Send(Connected)
    /\ gen' = est
    /\ attempt' = 0
    /\ pc' = "pump"
    /\ UNCHANGED <<reg, shutdown, dims, conn, netVars, est, openSize,
                   hostKey, stray, cmd, atClose>>

Supervise ==
    \/ PumpShutdown \/ PumpEnds \/ CheckShutdown \/ Classify
    \/ SleepShutdown \/ SleepOver
    \/ CheckHostKey \/ HandshakeDone
    \/ ConnectOk \/ (\E err \in ConnectErrors : ConnectFails(err))
    \/ Swap \/ Announce

-----------------------------------------------------------------------------
(* Tauri commands.  Each finds the session in the map, so it can only start *)
(* while the session is registered, and then takes the control handle in a  *)
(* step of its own: the Conn lock may be held by Swap.                      *)

ResizeStart(c, size) ==
    /\ cmd[c] = Idle /\ reg = "live"
    /\ dims' = size
    /\ cmd' = [cmd EXCEPT ![c] = [kind |-> "resize", step |-> "control",
                                  size |-> size, gen |-> 0]]
    /\ UNCHANGED <<reg, shutdown, conn, netVars, supVars, stray, chanVars>>

\* Remove the session from the map, then stop the supervisor.
CloseStart(c) ==
    /\ cmd[c] = Idle /\ reg = "live"
    /\ reg' = "removed"
    /\ shutdown' = TRUE
    /\ atClose' = Len(events)
    /\ cmd' = [cmd EXCEPT ![c] = [kind |-> "close", step |-> "control",
                                  size |-> "none", gen |-> 0]]
    /\ UNCHANGED <<dims, conn, netVars, supVars, stray, events, asides>>

\* LiveSession::control.
TakeControl(c) ==
    /\ cmd[c].step = "control"
    /\ cmd' = [cmd EXCEPT ![c].step = "apply", ![c].gen = conn]
    /\ UNCHANGED <<reg, shutdown, dims, conn, netVars, supVars, stray, chanVars>>

\* ShellControl::resize / ShellControl::close on the handle taken; on a dead
\* channel the call fails and the error is dropped.
ResizeApply(c) ==
    /\ cmd[c].kind = "resize" /\ cmd[c].step = "apply"
    /\ pty' = [pty EXCEPT ![cmd[c].gen] =
                 IF shell[cmd[c].gen] = "running" THEN cmd[c].size ELSE @]
    /\ cmd' = [cmd EXCEPT ![c] = Idle]
    /\ UNCHANGED <<reg, shutdown, dims, conn, link, shell, supVars, stray,
                   chanVars>>

CloseApply(c) ==
    /\ cmd[c].kind = "close" /\ cmd[c].step = "apply"
    /\ shell' = [shell EXCEPT ![cmd[c].gen] =
                   IF @ = "running" THEN "quiet" ELSE @]
    /\ cmd' = [cmd EXCEPT ![c] = Idle]
    /\ UNCHANGED <<reg, shutdown, dims, conn, link, pty, supVars, stray,
                   chanVars>>

RunCommand(c) ==
    \/ \E size \in Sizes : ResizeStart(c, size)
    \/ CloseStart(c)
    \/ TakeControl(c)
    \/ ResizeApply(c)
    \/ CloseApply(c)

-----------------------------------------------------------------------------

Next ==
    \/ OpenAnnounce \/ OpenInsert
    \/ \E g \in Generations : ShellExit(g) \/ TransportDrop(g)
    \/ Supervise
    \/ \E s \in Strays : StrayRuns(s)
    \/ \E c \in Cmds : RunCommand(c)

Spec == Init /\ [][Next]_vars

(* The runtime keeps polling the supervisor, the tail of open_session and   *)
(* commands that have started.  The handshake ends, by its timeout if by     *)
(* nothing else; nothing obliges an authentication under way, the user or    *)
(* the network to do anything.                                               *)
Fairness ==
    /\ WF_vars(OpenAnnounce) /\ WF_vars(OpenInsert)
    /\ WF_vars(Supervise /\ pc # "login")
    /\ \A c \in Cmds : WF_vars(TakeControl(c) \/ ResizeApply(c) \/ CloseApply(c))

FairSpec == Spec /\ Fairness
-----------------------------------------------------------------------------
(* Properties.                                                              *)

TypeOK ==
    /\ reg \in {"opening", "announced", "live", "removed"}
    /\ shutdown \in BOOLEAN
    /\ dims \in Sizes
    /\ conn \in Generations
    /\ link \in [Generations -> LinkStates]
    /\ shell \in [Generations -> ShellStates]
    /\ pty \in [Generations -> Sizes \cup {"none"}]
    /\ pc \in PcStates
    /\ gen \in Generations
    /\ est \in Generations
    /\ attempt \in Nat
    /\ openSize \in Sizes
    /\ hostKey \in CallbackStates
    /\ stray \in [Strays -> {"none", "due", "asked"}]
    /\ cmd \in [Cmds -> Command]
    /\ events \in Seq(Event)
    /\ asides \subseteq HostKeyEvents
    /\ atClose \in Nat

\* supervise is in an outage: past the classification of a drop and not yet
\* pumping the replacement.
InOutage == pc \in {"sleep", "connect", "login", "swap", "announce"}

OutageIsDrop == InOutage => link[gen] = "closed" /\ shell[gen] # "exited"

(* Only a dropped transport is reconnected: a shell that reported an exit   *)
(* status, or whose transport is still up, never is (the classification in  *)
(* supervise, with the link and the shell still free to change under it).   *)
OnlyDropsReconnect == TypeOK /\ OutageIsDrop

(* A session never has two transports up at once: a reconnect replaces a    *)
(* dead one, it does not add to a live one (ADR-0019, "swaps the transport  *)
(* in place").                                                              *)
OneLiveTransport ==
    \A g, h \in Generations : link[g] = "up" /\ link[h] = "up" => g = h

(* The attempts the UI is told about are numbered 1, 2, 3 ... within each   *)
(* outage and never pass the configured ceiling ("n/max" in the countdown). *)
AttemptsNumbered ==
    \A j \in 1 .. Len(events) : events[j].event = "reconnecting" =>
        /\ events[j].attempt \in 1 .. MaxAttempts
        /\ \/ /\ events[j].attempt = 1
              /\ \A i \in 1 .. j - 1 : events[i].event = "reconnecting" =>
                    \E k \in i + 1 .. j - 1 : events[k].event = "connected"
           \/ \E i \in 1 .. j - 1 :
                /\ events[i] = Reconnecting(events[j].attempt - 1)
                /\ \A k \in i + 1 .. j - 1 : events[k].event = "connected"

(* The supervisor gives up on a failure that another attempt could cure     *)
(* only after announcing the last attempt the policy allows, and gives up   *)
(* without any attempt only when the policy allows none; the attempts it    *)
(* announces on the way are numbered.                                       *)
GiveUpIsEarned ==
    /\ AttemptsNumbered
    /\ \A i \in 1 .. Len(events) : events[i].event = "disconnected" =>
          /\ events[i].reason \in RetryableErrors =>
               \E j \in 1 .. i - 1 : events[j] = Reconnecting(MaxAttempts)
          /\ events[i].reason = "lost" => ~Enabled \/ MaxAttempts = 0

(* Closing the tab silences the session: whatever supervise was doing when   *)
(* shutdown was signalled, at most one more event says anything about the    *)
(* session's status.  (The host-key callback of an attempt that was under    *)
(* way still sends its own events: nothing stops it.)                        *)
AtMostOneLateStatus == shutdown => Len(events) <= atClose + 1

(* A reconnect that ends in a rejected host key was explained to the user:   *)
(* the callback can only return false, "hence emitting the detail on the     *)
(* events channel just before" (host_key_prompt), so that a prompt or a      *)
(* refusal lies between the attempt's announcement and Disconnected.         *)
RejectionExplained ==
    [][events' = Append(events, Disconnected("HostKeyRejected"))
         => asides # {}]_vars

-----------------------------------------------------------------------------
(* The inductive invariant behind the proofs of Supervisor_proofs.          *)

\* Which generation supervise, Conn and the newest transport are at.
Positions ==
    /\ pc \in {"swap", "announce"} => est = gen + 1
    /\ pc \notin {"swap", "announce"} => est = gen
    /\ conn = IF pc = "announce" THEN est ELSE gen

\* Transports before the newest are dead, those after it do not exist.
Transports ==
    \A g \in Generations :
        /\ g < est => link[g] = "closed"
        /\ g > est => link[g] = "none" /\ shell[g] = "none"

\* The attempt under way is one the policy allows.
Budget == InOutage => Enabled /\ attempt \in 1 .. MaxAttempts

\* The session has to be registered to be shut down, and the one status that
\* may follow is unspent wherever supervise is past its look at shutdown.
Silence ==
    /\ shutdown <=> reg = "removed"
    /\ shutdown => /\ Len(events) <= atClose + 1
                   /\ pc \in {"classify", "connect", "login", "swap", "announce"} =>
                        Len(events) <= atClose

\* Outside a handshake no callback is under way; one that asked or refused has
\* said so since the attempt was announced.
Fresh == pc # "connect" => hostKey = "due"
Explained == pc = "connect" /\ hostKey \in {"asked", "refused"} => asides # {}

IInv ==
    /\ TypeOK /\ Positions /\ Transports /\ Budget /\ OutageIsDrop
    /\ Silence /\ Fresh /\ Explained

-----------------------------------------------------------------------------
(* The supervisor implements the life cycle of module SessionLife.          *)

lifePhase ==
    IF pc = "done" THEN "over" ELSE IF InOutage THEN "outage" ELSE "live"

lifeTries == IF InOutage THEN attempt ELSE 0

Life == INSTANCE SessionLife
          WITH Limit <- IF Enabled THEN MaxAttempts ELSE 0,
               phase <- lifePhase, tries <- lifeTries

(* Every behaviour of the supervisor is a behaviour of SessionLife: numbered *)
(* attempts within the limit, one at a time, and no life after the end.      *)
ImplementsLife == Life!LifeSafe

(* An outage ends: the session comes back or the supervisor stops, even if   *)
(* every attempt fails, nobody answers a prompt, and whenever the tab is     *)
(* closed; unless an attempt hangs in authentication or open_shell for ever, *)
(* which have no timeout and, with keepalive off, nothing else to end them.  *)
OutageResolves == []<>(pc # "login") => Life!OutageEnds

-----------------------------------------------------------------------------
(* Claims of the repository that the code does not keep.                    *)

(* reconnect.rs: "Maximum reconnect attempts. `0` means unlimited."         *)
ZeroMeansUnlimited ==
    Enabled /\ MaxAttempts = 0 =>
        \A i \in 1 .. Len(events) :
            events[i].event = "disconnected" => events[i].reason \in FatalErrors

(* resize_session: the size is "Recorded so a reconnected shell opens at    *)
(* the current size".  When no resize is in flight, the shell being pumped  *)
(* has the recorded size.                                                   *)
ReconnectedAtCurrentSize ==
    /\ pc = "pump" /\ shell[gen] = "running" /\ gen = conn
    /\ \A c \in Cmds : cmd[c].kind # "resize"
    => pty[gen] = dims
=============================================================================
