------------------------------ MODULE Controller ------------------------------
(***************************************************************************)
(* Who owns a session: the webview's tabs (ui/src/store/sessions.ts and    *)
(* ui/src/session/controller.ts, driven by ui/src/App.tsx) and the Rust    *)
(* side's session map and supervisors (apps/desktop/src/commands.rs),      *)
(* joined by Tauri calls and by one event channel per session.             *)
(*                                                                         *)
(* A channel is FIFO.  The answer of an `invoke` travels by itself, so it  *)
(* may arrive before or after events sent earlier or later.  supervise     *)
(* appears only with the states that its events depend on; module          *)
(* Supervisor has the rest.                                                *)
(***************************************************************************)
EXTENDS Naturals, Sequences, FiniteSets

CONSTANTS
    Tabs,    \* bound: tab ids t-1, t-2, ..., handed out once each
    Sids,    \* bound: Rust session ids s-1, s-2, ..., handed out once each
    EvCap    \* bound: undelivered supervisor events of one session

ASSUME ControllerAssumption == Tabs \in Nat /\ Sids \in Nat /\ EvCap \in Nat

VARIABLES
    tab,       \* tab[t]: "unused", "open" or "closed" (removed from byId)
    conn,      \* conn[t]: Tab.conn
    rustId,    \* rustId[t]: Tab.rustSessionId, 0 for null
    pool,      \* tabs with a terminal in the pool
    sessions,  \* sessions[t]: the controller's TermSession, 0 for none
    closing,   \* the controller's `closing` set
    owner,     \* owner[s]: the tab whose connect() called open_session
    rust,      \* rust[s]: how far open_session / close_session have got
    sup,       \* sup[s]: where supervise is
    evq,       \* evq[s]: events on their way to the webview
    reply,     \* reply[s]: answer of open_session on its way to connect()
    closeCall  \* closeCall[s]: the close_session call for s, if any

uiVars == <<tab, conn, rustId, pool, sessions, closing>>
rustVars == <<owner, rust, sup>>
vars == <<uiVars, rustVars, evq, reply, closeCall>>

Tab == 1 .. Tabs
Sid == 1 .. Sids

ConnState == {"idle", "connecting", "connected", "reconnecting",
              "disconnected", "error"}
Events == {"connected", "reconnecting", "exited", "disconnected", "error"}

Init ==
    /\ tab = [t \in Tab |-> "unused"]
    /\ conn = [t \in Tab |-> "idle"]
    /\ rustId = [t \in Tab |-> 0]
    /\ pool = {}
    /\ sessions = [t \in Tab |-> 0]
    /\ closing = {}
    /\ owner = [s \in Sid |-> 0]
    /\ rust = [s \in Sid |-> "none"]
    /\ sup = [s \in Sid |-> "none"]
    /\ evq = [s \in Sid |-> <<>>]
    /\ reply = [s \in Sid |-> "none"]
    /\ closeCall = [s \in Sid |-> "none"]

-----------------------------------------------------------------------------
(* The store's setters, which ignore a tab that is gone.                    *)

SetConn(t, c) == conn' = [conn EXCEPT ![t] = IF tab[t] = "open" THEN c ELSE @]

SetRustId(t, s) ==
    rustId' = [rustId EXCEPT ![t] = IF tab[t] = "open" THEN s ELSE @]

-----------------------------------------------------------------------------
(* User actions.                                                            *)

\* connect() up to its await: open_session is called, and s is the id that
\* it takes from next_id.
Connect(t, s) ==
    /\ rust[s] = "none" /\ \A r \in 1 .. s - 1 : rust[r] # "none"
    /\ sessions[t] = 0
    /\ conn' = [conn EXCEPT ![t] = "connecting"]
    /\ closing' = closing \ {t}
    /\ owner' = [owner EXCEPT ![s] = t]
    /\ rust' = [rust EXCEPT ![s] = "connecting"]
    /\ UNCHANGED <<rustId, sessions, sup, evq, reply, closeCall>>

\* openHost: a new tab, its terminal, and a connect.
OpenHost(t, s) ==
    /\ tab[t] = "unused" /\ \A u \in 1 .. t - 1 : tab[u] # "unused"
    /\ tab' = [tab EXCEPT ![t] = "open"]
    /\ pool' = pool \cup {t}
    /\ Connect(t, s)

\* Mutant: Reconnect is offered while the supervisor is still retrying.
ReconnectTab_Eager(t, s) ==
    /\ tab[t] = "open" /\ conn[t] \in {"disconnected", "reconnecting"}
    /\ Connect(t, s)
    /\ UNCHANGED <<tab, pool>>

\* The Reconnect button, shown on "disconnected" only.  connect() does
\* nothing for a tab that still has a session.
ReconnectTab(t, s) ==
    /\ tab[t] = "open" /\ conn[t] = "disconnected" /\ t \in pool
    /\ Connect(t, s)
    /\ UNCHANGED <<tab, pool>>

\* Mutant: the handle stays in the map until close_session answers.
CloseTab_KeepsHandle(t) ==
    /\ tab[t] = "open" /\ sessions[t] # 0
    /\ closing' = closing \cup {t}
    /\ closeCall' = [closeCall EXCEPT ![sessions[t]] = "destroy"]
    /\ tab' = [tab EXCEPT ![t] = "closed"]
    /\ UNCHANGED <<conn, rustId, pool, sessions, rustVars, evq, reply>>

\* onCloseTab with a registered session: destroy() up to the await of
\* close_session, then closeTab.
CloseTab(t) ==
    /\ tab[t] = "open" /\ sessions[t] # 0
    /\ closing' = closing \cup {t}
    /\ closeCall' = [closeCall EXCEPT ![sessions[t]] = "destroy"]
    /\ sessions' = [sessions EXCEPT ![t] = 0]
    /\ tab' = [tab EXCEPT ![t] = "closed"]
    /\ UNCHANGED <<conn, rustId, pool, rustVars, evq, reply>>

\* onCloseTab without one: nothing is awaited, so destroy() has taken the tab
\* out of `closing` again before anything else runs.
CloseBareTab(t) ==
    /\ tab[t] = "open" /\ sessions[t] = 0
    /\ tab' = [tab EXCEPT ![t] = "closed"]
    /\ rustId' = [rustId EXCEPT ![t] = 0]
    /\ pool' = pool \ {t}
    /\ closing' = closing \ {t}
    /\ UNCHANGED <<conn, sessions, rustVars, evq, reply, closeCall>>

-----------------------------------------------------------------------------
(* What arrives at the webview.                                             *)


\* handleEvent on the next event of s.
HandleEvent(s) ==
    /\ evq[s] # <<>>
    /\ evq' = [evq EXCEPT ![s] = Tail(@)]
    /\ LET t == owner[s]
           ev == Head(evq[s]) IN
       \/ /\ ev \in {"connected", "reconnecting", "error"}
          /\ SetConn(t, ev)
          /\ UNCHANGED <<sessions, rustId>>
       \/ /\ ev \in {"exited", "disconnected"}
          /\ SetConn(t, "disconnected")
          /\ sessions' = [sessions EXCEPT ![t] = 0]
          /\ SetRustId(t, 0)
    /\ UNCHANGED <<tab, pool, closing, rustVars, reply, closeCall>>

\* connect() resumes with a session, unless the tab is being closed.
DeliverOk(s) ==
    /\ reply[s] = "ok"
    /\ reply' = [reply EXCEPT ![s] = "taken"]
    /\ \/ /\ owner[s] \in closing
          /\ closeCall' = [closeCall EXCEPT ![s] = "void"]
          /\ UNCHANGED <<conn, rustId, sessions>>
       \/ /\ owner[s] \notin closing
          /\ sessions' = [sessions EXCEPT ![owner[s]] = s]
          /\ SetRustId(owner[s], s)
          /\ SetConn(owner[s], "connected")
          /\ UNCHANGED closeCall
    /\ UNCHANGED <<tab, pool, closing, rustVars, evq>>

DeliverErr(s) ==
    /\ reply[s] = "err"
    /\ reply' = [reply EXCEPT ![s] = "taken"]
    /\ SetConn(owner[s], "error")
    /\ UNCHANGED <<tab, rustId, pool, sessions, closing, rustVars, evq,
                   closeCall>>

\* destroy() resumes after close_session.
Destroyed(s) ==
    /\ closeCall[s] = "answered"
    /\ closeCall' = [closeCall EXCEPT ![s] = "done"]
    /\ SetRustId(owner[s], 0)
    /\ pool' = pool \ {owner[s]}
    /\ closing' = closing \ {owner[s]}
    /\ UNCHANGED <<tab, conn, sessions, rustVars, evq, reply>>

Webview(s) ==
    HandleEvent(s) \/ DeliverOk(s) \/ DeliverErr(s) \/ Destroyed(s)

-----------------------------------------------------------------------------
(* open_session and close_session.                                          *)

\* The host key callback of a connect or reconnect.  It may report a trouble:
\* a changed or revoked key or an unreadable file, after which the connect
\* fails, or a key that could not be saved, which is no obstacle.
HostKey(s) ==
    /\ \/ /\ rust[s] = "connecting"
          /\ rust' = [rust EXCEPT ![s] = "keyed"]
          /\ UNCHANGED sup
       \/ /\ sup[s] = "connect"
          /\ sup' = [sup EXCEPT ![s] = "keyed"]
          /\ UNCHANGED rust
    /\ \/ /\ Len(evq[s]) < EvCap
          /\ evq' = [evq EXCEPT ![s] = Append(@, "error")]
       \/ UNCHANGED evq
    /\ UNCHANGED <<uiVars, owner, reply, closeCall>>

ConnectFails(s) ==
    /\ rust[s] \in {"connecting", "keyed"}
    /\ rust' = [rust EXCEPT ![s] = "failed"]
    /\ reply' = [reply EXCEPT ![s] = "err"]
    /\ UNCHANGED <<uiVars, owner, sup, evq, closeCall>>

\* connect_ssh returns, leaving supervise running.
ConnectOk(s) ==
    /\ rust[s] = "keyed"
    /\ rust' = [rust EXCEPT ![s] = "started"]
    /\ sup' = [sup EXCEPT ![s] = "pump"]
    /\ UNCHANGED <<uiVars, owner, evq, reply, closeCall>>

OpenAnnounce(s) ==
    /\ rust[s] = "started"
    /\ rust' = [rust EXCEPT ![s] = "announced"]
    /\ evq' = [evq EXCEPT ![s] = Append(@, "connected")]
    /\ UNCHANGED <<uiVars, owner, sup, reply, closeCall>>

OpenInsert(s) ==
    /\ rust[s] = "announced"
    /\ rust' = [rust EXCEPT ![s] = "live"]
    /\ reply' = [reply EXCEPT ![s] = "ok"]
    /\ UNCHANGED <<uiVars, owner, sup, evq, closeCall>>

Open(s) ==
    ConnectFails(s) \/ ConnectOk(s) \/ OpenAnnounce(s) \/ OpenInsert(s)

\* Mutant: the session is left in the map and running.
CloseSession_Answered(s) ==
    /\ closeCall[s] \in {"destroy", "void"}
    /\ closeCall' = [closeCall EXCEPT ![s] =
                       IF @ = "destroy" THEN "answered" ELSE "done"]
    /\ UNCHANGED <<uiVars, rustVars, evq, reply>>

\* "closed": out of the map and shutdown sent.
CloseSession(s) ==
    /\ closeCall[s] \in {"destroy", "void"}
    /\ rust' = [rust EXCEPT ![s] = "closed"]
    /\ closeCall' = [closeCall EXCEPT ![s] =
                       IF @ = "destroy" THEN "answered" ELSE "done"]
    /\ UNCHANGED <<uiVars, owner, sup, evq, reply>>

-----------------------------------------------------------------------------
(* supervise.  Shutdown is looked at in the pump loop and in the backoff    *)
(* sleep; the steps after those looks may still send an event.              *)

Shutdown(s) == rust[s] = "closed"

SupShutdown(s) ==
    /\ sup[s] \in {"pump", "sleep"} /\ Shutdown(s)
    /\ sup' = [sup EXCEPT ![s] = "done"]
    /\ UNCHANGED <<uiVars, owner, rust, evq, reply, closeCall>>

SupProceed(s) ==
    /\ ~Shutdown(s)
    /\ \/ sup[s] = "pump" /\ sup' = [sup EXCEPT ![s] = "ended"]
       \/ sup[s] = "sleep" /\ sup' = [sup EXCEPT ![s] = "connect"]
    /\ UNCHANGED <<uiVars, owner, rust, evq, reply, closeCall>>

\* Send an event and go on in state next.
SupSend(s, from, ev, next) ==
    /\ sup[s] = from /\ Len(evq[s]) < EvCap
    /\ evq' = [evq EXCEPT ![s] = Append(@, ev)]
    /\ sup' = [sup EXCEPT ![s] = next]
    /\ UNCHANGED <<uiVars, owner, rust, reply, closeCall>>

SupAct(s) ==
    \/ SupSend(s, "ended", "exited", "done")
    \/ \E from \in {"ended", "connect", "keyed"} :
          \/ SupSend(s, from, "reconnecting", "sleep")
          \/ SupSend(s, from, "disconnected", "done")
    \/ SupSend(s, "keyed", "connected", "pump")

Supervise(s) == SupShutdown(s) \/ SupProceed(s) \/ SupAct(s)

-----------------------------------------------------------------------------

Next ==
    \/ \E t \in Tab : \/ CloseTab(t) \/ CloseBareTab(t)
                      \/ \E s \in Sid : OpenHost(t, s) \/ ReconnectTab(t, s)
    \/ \E s \in Sid : \/ Webview(s) \/ HostKey(s) \/ Open(s)
                      \/ CloseSession(s) \/ Supervise(s)

Spec == Init /\ [][Next]_vars

(* The webview's turns come, commands that have nothing left to wait for    *)
(* return, a backoff sleep ends and the end of a shell is announced.  A     *)
(* shell need not end (SupProceed leaves the pump or not) and neither need  *)
(* a connect, whose authentication has no timeout.  Nor is SupShutdown      *)
(* obliged to happen: a supervisor blocked behind a shut gate never looks   *)
(* at the signal (DataPath, CloseStopsSupervisor).  The user is obliged to  *)
(* nothing.                                                                 *)
Fairness ==
    \A s \in Sid :
        /\ WF_vars(OpenAnnounce(s) \/ OpenInsert(s)) /\ WF_vars(CloseSession(s))
        /\ WF_vars(HandleEvent(s))
        /\ WF_vars(DeliverOk(s)) /\ WF_vars(DeliverErr(s))
        /\ WF_vars(Destroyed(s))
        /\ WF_vars(sup[s] = "ended" /\ SupAct(s))
        /\ WF_vars(sup[s] = "sleep" /\ SupProceed(s))

FairSpec == Spec /\ Fairness
-----------------------------------------------------------------------------
(* Properties.                                                              *)

TypeOK ==
    /\ tab \in [Tab -> {"unused", "open", "closed"}]
    /\ conn \in [Tab -> ConnState]
    /\ rustId \in [Tab -> 0 .. Sids]
    /\ pool \subseteq Tab
    /\ sessions \in [Tab -> 0 .. Sids]
    /\ closing \subseteq Tab
    /\ owner \in [Sid -> 0 .. Tabs]
    /\ rust \in [Sid -> {"none", "connecting", "keyed", "failed", "started",
                         "announced", "live", "closed"}]
    /\ sup \in [Sid -> {"none", "pump", "ended", "sleep", "connect", "keyed",
                        "done"}]
    /\ evq \in [Sid -> Seq(Events)]
    /\ reply \in [Sid -> {"none", "ok", "err", "taken"}]
    /\ closeCall \in [Sid -> {"none", "destroy", "void", "answered", "done"}]

(* The handle the controller keeps for a tab always names a session that    *)
(* is in the Rust map and was opened by that tab, so a write, resize or     *)
(* close through it never addresses an unknown session or another tab's.    *)
HandleIsValid ==
    /\ TypeOK
    /\ \A t \in Tab : sessions[t] # 0 =>
        rust[sessions[t]] = "live" /\ owner[sessions[t]] = t

\* Sessions of tab t that are being opened or have a supervisor at work.
Active(t) ==
    {s \in Sid : /\ owner[s] = t
                 /\ \/ rust[s] \in {"connecting", "keyed"}
                    \/ sup[s] \notin {"none", "done"}}

(* A tab never has two sessions at work: Reconnect cannot open a second     *)
(* shell into the terminal of one that is up or still retrying, whatever    *)
(* events and answers of earlier sessions arrive late.                      *)
OneActivePerTab == \A t \in Tab : Cardinality(Active(t)) <= 1

(* A closed tab stays closed: whatever its sessions still send, its state   *)
(* is not written again (newTabId, "a late event").                         *)
ClosedStaysClosed ==
    [][\A t \in Tab : tab[t] = "closed" =>
          tab'[t] = "closed" /\ conn'[t] = conn[t] /\ rustId'[t] = rustId[t]]_vars

(* A close_session that was called, by a closing tab or by a connect that   *)
(* finds its tab closing, takes the session out of the map and signals its  *)
(* supervisor; a closing tab's terminal is released; and the close is       *)
(* final.  Whether the supervisor then returns is a question about the data *)
(* path (DataPath, CloseStopsUngated).                                      *)
CloseCompletes ==
    /\ ClosedStaysClosed
    /\ \A s \in Sid :
        /\ closeCall[s] \in {"destroy", "void"} ~> Shutdown(s)
        /\ closeCall[s] = "destroy" ~> owner[s] \notin pool

\* The tab got its session while the supervisor was still at work, and
\* nothing of its earlier sessions is on its way any more.
Registered(t, s) ==
    /\ sessions[t] = s /\ sup[s] # "done"
    /\ \A r \in Sid \ {s} : owner[r] = t => reply[r] = "taken" /\ evq[r] = <<>>

\* s is the last session tab t has opened, and its supervisor has returned.
Ended(t, s) ==
    /\ tab[t] = "open" /\ owner[s] = t /\ sup[s] = "done"
    /\ \A r \in Sid : owner[r] = t => r <= s


-----------------------------------------------------------------------------
(* Claims of the repository that the code does not keep.                    *)

(* disconnect(): "a connect racing this must see the intent and not         *)
(* register a session nobody will ever close".                              *)
NoOrphanSession == \A t \in Tab : tab[t] = "closed" => sessions[t] = 0

(* ADR-0019: a given-up session "shows a Reconnect control rather than a    *)
(* frozen black terminal".  With no event under way, a tab that shows       *)
(* "connected" has a supervisor at work.                                    *)
ConnectedIsAlive ==
    \A t \in Tab :
        /\ tab[t] = "open" /\ conn[t] = "connected"
        /\ \A s \in Sid : owner[s] = t => evq[s] = <<>>
        => \E s \in Sid : owner[s] = t /\ sup[s] \notin {"none", "done"}
=============================================================================
