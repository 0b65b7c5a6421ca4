--------------------------- MODULE Controller_proofs ---------------------------
(***************************************************************************)
(* Proofs about module Controller, for any number of tabs and sessions and *)
(* event channels of any length.                                           *)
(***************************************************************************)
EXTENDS Controller, SequenceTheorems, FiniteSetTheorems, TLAPS

\* The events after which a session is over for its tab.
Final == {"exited", "disconnected"}
HasFinal(q) == \E i \in 1 .. Len(q) : q[i] \in Final
OneFinal(q) == \A i, j \in 1 .. Len(q) : q[i] \in Final /\ q[j] \in Final => i = j

\* A session that is at work, or whose end its tab has yet to hear of.
Unfinished(s) ==
    \/ rust[s] \in {"connecting", "keyed"}
    \/ sup[s] \notin {"none", "done"}
    \/ HasFinal(evq[s])

\* How far a session's open, supervisor, answer and close can be at a time.
InStep(s) ==
    /\ rust[s] = "none" => owner[s] = 0 /\ reply[s] = "none"
    /\ rust[s] # "none" => owner[s] \in Tab /\ tab[owner[s]] # "unused"
    /\ rust[s] \in {"none", "connecting", "keyed", "failed"} => sup[s] = "none"
    /\ reply[s] = "none" => rust[s] \in {"none", "connecting", "keyed", "started", "announced"}
    /\ reply[s] = "err" => rust[s] = "failed"
    /\ reply[s] = "ok" => rust[s] = "live"
    /\ closeCall[s] # "none" => reply[s] = "taken" /\ rust[s] \in {"live", "closed"}
    /\ HasFinal(evq[s]) => sup[s] = "done"
    /\ OneFinal(evq[s])

\* The handle of a tab is one that was delivered and not yet given up.
Handles ==
    \A t \in Tab : sessions[t] # 0 =>
        /\ rust[sessions[t]] = "live" /\ owner[sessions[t]] = t
        /\ reply[sessions[t]] = "taken" /\ closeCall[sessions[t]] = "none"

\* The sessions of a tab follow one another.
Serial ==
    \A r, s \in Sid :
        owner[r] = owner[s] /\ owner[s] # 0 /\ Unfinished(r) /\ Unfinished(s) => r = s

\* A tab that offers Reconnect has no session that is not over.
OfferIsSafe ==
    \A s \in Sid :
        owner[s] \in Tab /\ tab[owner[s]] = "open" /\ conn[owner[s]] = "disconnected"
        => ~Unfinished(s)

IInv == TypeOK /\ (\A s \in Sid : InStep(s)) /\ Handles /\ Serial /\ OfferIsSafe

-----------------------------------------------------------------------------
(* Event channels.                                                          *)

\* Sending an event that is not final.
LEMMA AppendOther ==
    ASSUME NEW q \in Seq(Events), NEW e \in Events, e \notin Final
    PROVE  /\ HasFinal(Append(q, e)) <=> HasFinal(q)
           /\ OneFinal(q) => OneFinal(Append(q, e))
<1>1. /\ Len(Append(q, e)) = Len(q) + 1 /\ Len(q) \in Nat
      /\ \A i \in 1 .. Len(q) : Append(q, e)[i] = q[i]
      /\ Append(q, e)[Len(q) + 1] = e
  BY AppendProperties, LenProperties
<1> QED
  BY <1>1 DEF HasFinal, OneFinal

\* Sending the final event.
LEMMA AppendFinal ==
    ASSUME NEW q \in Seq(Events), NEW e \in Events, ~HasFinal(q)
    PROVE  OneFinal(Append(q, e))
<1>1. /\ Len(Append(q, e)) = Len(q) + 1 /\ Len(q) \in Nat
      /\ \A i \in 1 .. Len(q) : Append(q, e)[i] = q[i]
      /\ Append(q, e)[Len(q) + 1] = e
  BY AppendProperties, LenProperties
<1> QED
  BY <1>1 DEF HasFinal, OneFinal

\* Delivering the next event: a final one is the last of its kind.
LEMMA TailEvents ==
    ASSUME NEW q \in Seq(Events), q # <<>>, OneFinal(q)
    PROVE  /\ OneFinal(Tail(q))
           /\ HasFinal(Tail(q)) => HasFinal(q)
           /\ Head(q) \in Final => HasFinal(q) /\ ~HasFinal(Tail(q))
<1>1. /\ Len(Tail(q)) = Len(q) - 1 /\ Len(q) \in Nat \ {0} /\ Head(q) = q[1]
      /\ \A i \in 1 .. Len(Tail(q)) : Tail(q)[i] = q[i + 1]
  BY HeadTailProperties, EmptySeq, LenProperties
<1>2. 1 \in 1 .. Len(q) /\ \A i \in 1 .. Len(q) - 1 : i + 1 \in 1 .. Len(q) /\ i + 1 # 1
  BY <1>1
<1>3. OneFinal(Tail(q))
  BY <1>1, <1>2 DEF OneFinal
<1>4. HasFinal(Tail(q)) => HasFinal(q)
  BY <1>1, <1>2 DEF HasFinal
<1>5. Head(q) \in Final => HasFinal(q)
  BY <1>1, <1>2 DEF HasFinal
<1>6. Head(q) \in Final => ~HasFinal(Tail(q))
  BY <1>1, <1>2 DEF HasFinal, OneFinal
<1> QED
  BY <1>3, <1>4, <1>5, <1>6

\* A channel without events holds no final one.
LEMMA NoEvents == HasFinal(<<>>) = FALSE /\ OneFinal(<<>>)
BY DEF HasFinal, OneFinal

-----------------------------------------------------------------------------
(* Types.                                                                   *)

\* No tab and no session yet: everything has its type.
LEMMA InitType == Init => TypeOK
<1> SUFFICES ASSUME Init PROVE TypeOK
  OBVIOUS
<1> USE ControllerAssumption DEF Init
<1>1. /\ tab \in [Tab -> {"unused", "open", "closed"}] /\ conn \in [Tab -> ConnState]
      /\ pool \subseteq Tab /\ closing \subseteq Tab
  BY DEF ConnState
<1>2. rustId \in [Tab -> 0 .. Sids] /\ sessions \in [Tab -> 0 .. Sids]
      /\ owner \in [Sid -> 0 .. Tabs]
  OBVIOUS
<1>3. evq \in [Sid -> Seq(Events)]
  OBVIOUS
<1> QED
  BY <1>1, <1>2, <1>3 DEF TypeOK

\* The store's setters write values of the fields' types.
LEMMA SetterTypes ==
    ASSUME TypeOK, NEW t
    PROVE  /\ \A c \in ConnState : SetConn(t, c) => conn' \in [Tab -> ConnState]
           /\ \A s \in 0 .. Sids : SetRustId(t, s) => rustId' \in [Tab -> 0 .. Sids]
<1>1. ASSUME NEW c \in ConnState, SetConn(t, c) PROVE conn' \in [Tab -> ConnState]
  <2>1. CASE t \in Tab
    <3>1. PICK v \in ConnState : conn' = [conn EXCEPT ![t] = v]
      BY <1>1, <2>1 DEF SetConn, TypeOK
    <3> QED
      BY <3>1 DEF TypeOK
  <2>2. CASE t \notin Tab
    BY <1>1, <2>2 DEF SetConn, TypeOK
  <2> QED
    BY <2>1, <2>2
<1>2. ASSUME NEW s \in 0 .. Sids, SetRustId(t, s) PROVE rustId' \in [Tab -> 0 .. Sids]
  <2>1. CASE t \in Tab
    <3>1. PICK v \in 0 .. Sids : rustId' = [rustId EXCEPT ![t] = v]
      BY <1>2, <2>1 DEF SetRustId, TypeOK
    <3> QED
      BY <3>1 DEF TypeOK
  <2>2. CASE t \notin Tab
    BY <1>2, <2>2 DEF SetRustId, TypeOK
  <2> QED
    BY <2>1, <2>2
<1> QED
  BY <1>1, <1>2

\* Closing a tab, with or without a session, keeps the types.
LEMMA CloseType ==
    ASSUME TypeOK, NEW t \in Tab, CloseTab(t) \/ CloseBareTab(t)
    PROVE  TypeOK'
<1>0. 0 \in 0 .. Sids
  BY ControllerAssumption
<1>1. CASE CloseTab(t)
  <2>1. sessions' \in [Tab -> 0 .. Sids]
    BY <1>0, <1>1 DEF CloseTab, TypeOK
  <2>2. tab' \in [Tab -> {"unused", "open", "closed"}] /\ closing' \subseteq Tab
    BY <1>1 DEF CloseTab, TypeOK
  <2>3. closeCall' \in [Sid -> {"none", "destroy", "void", "answered", "done"}]
    BY <1>1 DEF CloseTab, TypeOK
  <2>4. UNCHANGED <<conn, rustId, pool, rustVars, evq, reply>>
    BY <1>1 DEF CloseTab
  <2> QED
    BY <2>1, <2>2, <2>3, <2>4 DEF TypeOK, rustVars
<1>2. CASE CloseBareTab(t)
  <2>1. rustId' \in [Tab -> 0 .. Sids]
    BY <1>0, <1>2 DEF CloseBareTab, TypeOK
  <2>2. tab' \in [Tab -> {"unused", "open", "closed"}] /\ pool' \subseteq Tab /\ closing' \subseteq Tab
    BY <1>2 DEF CloseBareTab, TypeOK
  <2>3. UNCHANGED <<conn, sessions, rustVars, evq, reply, closeCall>>
    BY <1>2 DEF CloseBareTab
  <2> QED
    BY <2>1, <2>2, <2>3 DEF TypeOK, rustVars
<1> QED
  BY <1>1, <1>2

\* Opening a host and reconnecting a tab keep the types.
LEMMA ConnectType ==
    ASSUME TypeOK, NEW t \in Tab, NEW s \in Sid, OpenHost(t, s) \/ ReconnectTab(t, s)
    PROVE  TypeOK'
<1>3. t \in 0 .. Tabs
  BY ControllerAssumption DEF Tab
<1>4. Connect(t, s)
  BY DEF OpenHost, ReconnectTab
<1>5. tab' \in [Tab -> {"unused", "open", "closed"}] /\ pool' \subseteq Tab
  BY DEF OpenHost, ReconnectTab, TypeOK
<1>6. conn' \in [Tab -> ConnState] /\ closing' \subseteq Tab
  BY <1>4 DEF Connect, TypeOK, ConnState
<1>7. owner' \in [Sid -> 0 .. Tabs]
  BY <1>3, <1>4 DEF Connect, TypeOK
<1>8. /\ rust' \in [Sid -> {"none", "connecting", "keyed", "failed", "started", "announced", "live", "closed"}]
      /\ UNCHANGED <<rustId, sessions, sup, evq, reply, closeCall>>
  BY <1>4 DEF Connect, TypeOK
<1> QED
  BY <1>5, <1>6, <1>7, <1>8 DEF TypeOK

\* Sending an event.
LEMMA EventType ==
    ASSUME evq \in [Sid -> Seq(Events)], NEW s \in Sid, NEW e \in Events,
           evq' = [evq EXCEPT ![s] = Append(@, e)]
    PROVE  evq' \in [Sid -> Seq(Events)]
<1>1. Append(evq[s], e) \in Seq(Events)
  BY AppendProperties
<1> QED
  BY <1>1

\* Every step of one session, in the webview or in Rust, keeps the types.
LEMMA SessionType ==
    ASSUME TypeOK, NEW s \in Sid,
           Webview(s) \/ HostKey(s) \/ Open(s) \/ CloseSession(s) \/ Supervise(s)
    PROVE  TypeOK'
<1>0. s \in 0 .. Sids /\ 0 \in 0 .. Sids /\ evq \in [Sid -> Seq(Events)]
  BY ControllerAssumption DEF Sid, TypeOK
<1>1. CASE HandleEvent(s)
  <2>1. Tail(evq[s]) \in Seq(Events) /\ Head(evq[s]) \in Events
    BY <1>0, <1>1, HeadTailProperties DEF HandleEvent
  <2>2. evq' \in [Sid -> Seq(Events)]
    BY <1>0, <1>1, <2>1 DEF HandleEvent
  <2>3. conn' \in [Tab -> ConnState]
    BY <1>1, <2>1, SetterTypes DEF HandleEvent, ConnState
  <2>4. sessions' \in [Tab -> 0 .. Sids]
    <3>1. \/ sessions' = sessions
          \/ sessions' = [sessions EXCEPT ![owner[s]] = 0]
      BY <1>1 DEF HandleEvent
    <3> QED
      BY <1>0, <3>1 DEF TypeOK
  <2>6. rustId' \in [Tab -> 0 .. Sids]
    <3>1. rustId' = rustId \/ SetRustId(owner[s], 0)
      BY <1>1 DEF HandleEvent
    <3> QED
      BY <1>0, <3>1, SetterTypes DEF TypeOK
  <2>5. UNCHANGED <<tab, pool, closing, rustVars, reply, closeCall>>
    BY <1>1 DEF HandleEvent
  <2> QED
    BY <2>2, <2>3, <2>4, <2>5, <2>6 DEF TypeOK, rustVars
<1>2. CASE DeliverOk(s)
  <2>1. conn' \in [Tab -> ConnState]
    <3>1. conn' = conn \/ SetConn(owner[s], "connected")
      BY <1>2 DEF DeliverOk
    <3> QED
      BY <3>1, SetterTypes DEF TypeOK, ConnState
  <2>2. sessions' \in [Tab -> 0 .. Sids]
    <3>1. sessions' = sessions \/ sessions' = [sessions EXCEPT ![owner[s]] = s]
      BY <1>2 DEF DeliverOk
    <3> QED
      BY <1>0, <3>1 DEF TypeOK
  <2>5. rustId' \in [Tab -> 0 .. Sids]
    <3>1. rustId' = rustId \/ SetRustId(owner[s], s)
      BY <1>2 DEF DeliverOk
    <3> QED
      BY <1>0, <3>1, SetterTypes DEF TypeOK
  <2>3. reply' \in [Sid -> {"none", "ok", "err", "taken"}]
        /\ closeCall' \in [Sid -> {"none", "destroy", "void", "answered", "done"}]
    BY <1>2 DEF DeliverOk, TypeOK
  <2>4. UNCHANGED <<tab, pool, closing, rustVars, evq>>
    BY <1>2 DEF DeliverOk
  <2> QED
    BY <2>1, <2>2, <2>3, <2>4, <2>5 DEF TypeOK, rustVars
<1>3. CASE DeliverErr(s)
  <2>1. conn' \in [Tab -> ConnState]
    BY <1>3 DEF DeliverErr, SetConn, TypeOK, ConnState
  <2> QED
    BY <1>3, <2>1 DEF DeliverErr, TypeOK, rustVars
<1>4. CASE Destroyed(s)
  <2>1. rustId' \in [Tab -> 0 .. Sids]
    BY <1>0, <1>4 DEF Destroyed, SetRustId, TypeOK
  <2> QED
    BY <1>4, <2>1 DEF Destroyed, TypeOK, rustVars
<1>5. CASE HostKey(s)
  <2>1. evq' \in [Sid -> Seq(Events)]
    BY <1>0, <1>5, EventType DEF HostKey, Events
  <2> QED
    BY <1>5, <2>1 DEF HostKey, TypeOK, uiVars
<1>6. CASE Open(s)
  <2>1. evq' \in [Sid -> Seq(Events)]
    BY <1>0, <1>6, EventType
       DEF Open, ConnectFails, ConnectOk, OpenAnnounce, OpenInsert, Events
  <2> QED
    BY <1>6, <2>1 DEF Open, ConnectFails, ConnectOk, OpenAnnounce, OpenInsert, TypeOK, uiVars
<1>7. CASE CloseSession(s)
  BY <1>7 DEF CloseSession, TypeOK, uiVars
<1>8. CASE SupShutdown(s) \/ SupProceed(s)
  BY <1>8 DEF SupShutdown, SupProceed, TypeOK, uiVars
<1>9. ASSUME NEW from, NEW ev \in Events, NEW next \in {"sleep", "done", "pump"},
             SupSend(s, from, ev, next)
      PROVE  TypeOK'
  <2>1. evq' \in [Sid -> Seq(Events)]
    BY <1>0, <1>9, EventType DEF SupSend
  <2> QED
    BY <1>9, <2>1 DEF SupSend, TypeOK, uiVars
<1> QED
  BY <1>1, <1>2, <1>3, <1>4, <1>5, <1>6, <1>7, <1>8, <1>9
     DEF Webview, Supervise, SupAct, Events

\* Every step keeps the types.
LEMMA TypeStep == TypeOK /\ [Next]_vars => TypeOK'
<1> SUFFICES ASSUME TypeOK, [Next]_vars PROVE TypeOK'
  OBVIOUS
<1>1. CASE UNCHANGED vars
  BY <1>1 DEF vars, uiVars, rustVars, TypeOK
<1> QED
  BY <1>1, CloseType, ConnectType, SessionType DEF Next

-----------------------------------------------------------------------------
(* What a step leaves alone.                                                *)

\* A session none of whose parts move stays in step, unless a tab is forgotten.
LEMMA InStepKept ==
    ASSUME NEW r, InStep(r), rust[r]' = rust[r], owner[r]' = owner[r], sup[r]' = sup[r],
           evq[r]' = evq[r], reply[r]' = reply[r], closeCall[r]' = closeCall[r],
           \A t \in Tab : tab[t] # "unused" => tab'[t] # "unused"
    PROVE  InStep(r)'
BY DEF InStep, HasFinal, OneFinal

\* A session whose Rust side does not move is as unfinished as it was.
LEMMA UnfinishedKept ==
    ASSUME NEW r, rust[r]' = rust[r], sup[r]' = sup[r], evq[r]' = evq[r]
    PROVE  Unfinished(r)' <=> Unfinished(r)
BY DEF Unfinished, HasFinal

\* No session begins, none comes back to life and no tab comes to offer
\* Reconnect.
LEMMA SerialKept ==
    ASSUME Serial, OfferIsSafe, owner' = owner,
           \A r \in Sid : Unfinished(r)' => Unfinished(r),
           \A t \in Tab : tab'[t] = "open" /\ conn'[t] = "disconnected"
                          => tab[t] = "open" /\ conn[t] = "disconnected"
    PROVE  Serial' /\ OfferIsSafe'
<1>1. Serial'
  BY DEF Serial
<1>2. OfferIsSafe'
  BY DEF OfferIsSafe
<1> QED
  BY <1>1, <1>2

\* A handle is a session id.
LEMMA HandleSid == TypeOK => \A t \in Tab : sessions[t] # 0 => sessions[t] \in Sid
BY ControllerAssumption DEF TypeOK, Sid

\* A handle's session keeps the state in which it was handed out.
LEMMA HandlesKept ==
    ASSUME TypeOK, Handles, UNCHANGED <<sessions, owner>>,
           \A r \in Sid : rust[r] = "live" /\ reply[r] = "taken" /\ closeCall[r] = "none"
             => rust'[r] = "live" /\ reply'[r] = "taken" /\ closeCall'[r] = "none"
    PROVE  Handles'
<1>1. \A t \in Tab : sessions[t] # 0 => sessions[t] \in Sid
  BY HandleSid
<1> QED
  BY <1>1 DEF Handles

\* A step of one session that is no beginning and no end.
LEMMA OneSession ==
    ASSUME IInv, NEW s \in Sid, UNCHANGED <<tab, owner>>,
           \A r \in Sid : r # s =>
              /\ rust'[r] = rust[r] /\ sup'[r] = sup[r] /\ evq'[r] = evq[r]
              /\ reply'[r] = reply[r] /\ closeCall'[r] = closeCall[r],
           \A t \in Tab : conn'[t] = "disconnected" /\ tab[t] = "open" => conn[t] = "disconnected",
           InStep(s)', Unfinished(s)' => Unfinished(s), Handles', TypeOK'
    PROVE  IInv'
<1>1. \A r \in Sid : InStep(r)'
  BY InStepKept DEF IInv
<1>2. \A r \in Sid : Unfinished(r)' => Unfinished(r)
  BY UnfinishedKept
<1>3. Serial' /\ OfferIsSafe'
  BY <1>2, SerialKept DEF IInv
<1> QED
  BY <1>1, <1>3 DEF IInv

-----------------------------------------------------------------------------
(* The Rust side.                                                           *)

\* The host-key question, asked or answered, keeps the invariant.
LEMMA HostKeyStep ==
    ASSUME IInv, TypeOK', NEW s \in Sid, HostKey(s)
    PROVE  IInv'
<1>1. TypeOK /\ Handles /\ InStep(s)
  BY DEF IInv
<1>2. UNCHANGED <<tab, conn, sessions, owner, reply, closeCall>>
  BY DEF HostKey, uiVars
<1>3. \A r \in Sid : r # s => rust'[r] = rust[r] /\ sup'[r] = sup[r] /\ evq'[r] = evq[r]
  BY <1>1 DEF HostKey, TypeOK
<1>4. evq'[s] = evq[s] \/ evq'[s] = Append(evq[s], "error")
  BY <1>1 DEF HostKey, TypeOK
<1>5. (HasFinal(evq'[s]) <=> HasFinal(evq[s])) /\ OneFinal(evq'[s])
  <2>1. evq[s] \in Seq(Events) /\ "error" \in Events /\ "error" \notin Final /\ OneFinal(evq[s])
    BY <1>1 DEF TypeOK, Events, Final, InStep
  <2> QED
    BY <1>4, <2>1, AppendOther, Zenon
<1>6. \/ rust[s] = "connecting" /\ rust'[s] = "keyed" /\ sup'[s] = sup[s]
      \/ sup[s] = "connect" /\ sup'[s] = "keyed" /\ rust'[s] = rust[s]
  BY <1>1 DEF HostKey, TypeOK
<1>7. InStep(s)'
  BY <1>1, <1>2, <1>5, <1>6 DEF InStep
<1>8. Unfinished(s)' => Unfinished(s)
  BY <1>5, <1>6 DEF Unfinished
<1>9. Handles'
  BY <1>1, <1>2, <1>3, <1>6, HandlesKept
<1> QED
  BY <1>2, <1>3, <1>7, <1>8, <1>9, OneSession

\* So does open_session, whether it succeeds or fails.
LEMMA OpenStep ==
    ASSUME IInv, TypeOK', NEW s \in Sid, Open(s)
    PROVE  IInv'
<1> USE DEF Open, ConnectFails, ConnectOk, OpenAnnounce, OpenInsert
<1>1. TypeOK /\ Handles /\ InStep(s)
  BY DEF IInv
<1>2. UNCHANGED <<tab, conn, sessions, owner, closeCall>>
  BY DEF uiVars
<1>3. \A r \in Sid : r # s => /\ rust'[r] = rust[r] /\ sup'[r] = sup[r] /\ evq'[r] = evq[r]
                               /\ reply'[r] = reply[r]
  BY <1>1 DEF TypeOK
<1>4. evq'[s] = evq[s] \/ evq'[s] = Append(evq[s], "connected")
  BY <1>1 DEF TypeOK
<1>5. (HasFinal(evq'[s]) <=> HasFinal(evq[s])) /\ OneFinal(evq'[s])
  <2>1. evq[s] \in Seq(Events) /\ "connected" \in Events /\ "connected" \notin Final
        /\ OneFinal(evq[s])
    BY <1>1 DEF TypeOK, Events, Final, InStep
  <2> QED
    BY <1>4, <2>1, AppendOther, ZenonT(60)
<1>6. \/ /\ rust[s] \in {"connecting", "keyed"} /\ rust'[s] = "failed"
         /\ reply'[s] = "err" /\ sup'[s] = sup[s]
      \/ rust[s] = "keyed" /\ rust'[s] = "started" /\ sup'[s] = "pump" /\ reply'[s] = reply[s]
      \/ rust[s] = "started" /\ rust'[s] = "announced" /\ sup'[s] = sup[s] /\ reply'[s] = reply[s]
      \/ rust[s] = "announced" /\ rust'[s] = "live" /\ sup'[s] = sup[s] /\ reply'[s] = "ok"
  BY <1>1 DEF TypeOK
<1>7. InStep(s)'
  BY <1>1, <1>2, <1>5, <1>6 DEF InStep
<1>8. Unfinished(s)' => Unfinished(s)
  BY <1>5, <1>6 DEF Unfinished
<1>9. Handles'
  BY <1>1, <1>2, <1>3, <1>6, HandlesKept
<1> QED
  BY <1>2, <1>3, <1>7, <1>8, <1>9, OneSession

\* So does close_session, which takes the session out of the map.
LEMMA CloseSessionStep ==
    ASSUME IInv, TypeOK', NEW s \in Sid, CloseSession(s)
    PROVE  IInv'
<1>1. TypeOK /\ Handles /\ InStep(s)
  BY DEF IInv
<1>2. UNCHANGED <<tab, conn, sessions, owner, sup, evq, reply>>
  BY DEF CloseSession, uiVars
<1>3. \A r \in Sid : r # s => rust'[r] = rust[r] /\ closeCall'[r] = closeCall[r]
  BY <1>1 DEF CloseSession, TypeOK
<1>4. closeCall[s] # "none" /\ rust'[s] = "closed" /\ closeCall'[s] \in {"answered", "done"}
  BY <1>1 DEF CloseSession, TypeOK
<1>5. InStep(s)'
  BY <1>1, <1>2, <1>4 DEF InStep, HasFinal, OneFinal
<1>6. Unfinished(s)' => Unfinished(s)
  BY <1>2, <1>4 DEF Unfinished, HasFinal
<1>7. Handles'
  BY <1>1, <1>2, <1>3, <1>4, HandlesKept
<1> QED
  BY <1>2, <1>3, <1>5, <1>6, <1>7, OneSession

\* So do the supervisor's events.
LEMMA SuperviseStep ==
    ASSUME IInv, TypeOK', NEW s \in Sid, Supervise(s)
    PROVE  IInv'
<1>1. TypeOK /\ Handles /\ InStep(s)
  BY DEF IInv
<1>2. UNCHANGED <<tab, conn, sessions, owner, rust, reply, closeCall>>
  BY DEF Supervise, SupShutdown, SupProceed, SupAct, SupSend, uiVars
<1>3. Handles'
  BY <1>1, <1>2, HandlesKept
<1>4. CASE SupShutdown(s) \/ SupProceed(s)
  <2>1. evq' = evq /\ sup[s] \in {"pump", "sleep"} /\ sup'[s] \in {"ended", "connect", "done"}
    BY <1>1, <1>4 DEF SupShutdown, SupProceed, TypeOK
  <2>2. \A r \in Sid : r # s => sup'[r] = sup[r]
    BY <1>1, <1>4 DEF SupShutdown, SupProceed, TypeOK
  <2>3. InStep(s)'
    BY <1>1, <1>2, <2>1 DEF InStep, HasFinal, OneFinal
  <2>4. Unfinished(s)' => Unfinished(s)
    BY <2>1 DEF Unfinished
  <2> QED
    BY <1>2, <1>3, <2>1, <2>2, <2>3, <2>4, OneSession
<1>5. ASSUME NEW from \in {"ended", "connect", "keyed"}, NEW ev \in Events,
             NEW next \in {"sleep", "pump", "done"}, SupSend(s, from, ev, next),
             ev \in Final => next = "done"
      PROVE  IInv'
  <2>1. /\ sup[s] = from /\ sup'[s] = next /\ evq'[s] = Append(evq[s], ev)
        /\ \A r \in Sid : r # s => sup'[r] = sup[r] /\ evq'[r] = evq[r]
    BY <1>1, <1>5 DEF SupSend, TypeOK
  <2>2. evq[s] \in Seq(Events) /\ ~HasFinal(evq[s]) /\ OneFinal(evq[s])
    BY <1>1, <1>5, <2>1 DEF TypeOK, InStep
  <2>3. OneFinal(evq'[s])
    BY <2>1, <2>2, AppendFinal, Zenon
  <2>4. HasFinal(evq'[s]) => sup'[s] = "done"
    <3>1. CASE ev \in Final
      BY <1>5, <2>1, <3>1
    <3>2. CASE ev \notin Final
      <4>1. ~HasFinal(evq'[s])
        BY <2>1, <2>2, <3>2, AppendOther, ZenonT(60)
      <4> QED
        BY <4>1
    <3> QED
      BY <3>1, <3>2
  <2>5. InStep(s)'
    BY <1>1, <1>2, <1>5, <2>1, <2>3, <2>4 DEF InStep
  <2>6. Unfinished(s)' => Unfinished(s)
    BY <2>1 DEF Unfinished
  <2> QED
    BY <1>2, <1>3, <2>1, <2>5, <2>6, OneSession
<1> QED
  BY <1>4, <1>5 DEF Supervise, SupAct, Events, Final

-----------------------------------------------------------------------------
(* The webview.                                                             *)

\* What the setters write.
LEMMA SetConnLemma ==
    ASSUME TypeOK, NEW t \in Tab, NEW c, SetConn(t, c)
    PROVE  /\ conn'[t] = IF tab[t] = "open" THEN c ELSE conn[t]
           /\ \A u \in Tab : u # t => conn'[u] = conn[u]
BY DEF SetConn, TypeOK

\* So does the webview's handler of a delivered event.
LEMMA HandleEventStep ==
    ASSUME IInv, TypeOK', NEW s \in Sid, HandleEvent(s)
    PROVE  IInv'
<1>1. TypeOK /\ Handles /\ InStep(s) /\ Serial /\ OfferIsSafe
  BY DEF IInv
<1>2. UNCHANGED <<tab, owner, rust, sup, reply, closeCall>>
  BY DEF HandleEvent, rustVars
<1>3. evq[s] \in Seq(Events) /\ evq[s] # <<>> /\ evq'[s] = Tail(evq[s]) /\ OneFinal(evq[s])
      /\ \A r \in Sid : r # s => evq'[r] = evq[r]
  BY <1>1 DEF HandleEvent, TypeOK, InStep
<1>4. /\ OneFinal(evq'[s])
      /\ HasFinal(evq'[s]) => HasFinal(evq[s])
      /\ Head(evq[s]) \in Final => HasFinal(evq[s]) /\ ~HasFinal(evq'[s])
  BY <1>3, TailEvents, Zenon
<1>5. InStep(s)'
  BY <1>1, <1>2, <1>4 DEF InStep
<1>6. Unfinished(s)' => Unfinished(s)
  BY <1>2, <1>4 DEF Unfinished
<1>7. CASE Head(evq[s]) \notin Final
  <2>1. sessions' = sessions /\ Head(evq[s]) # "disconnected" /\ SetConn(owner[s], Head(evq[s]))
    BY <1>7 DEF HandleEvent, Final
  <2>2. \A t \in Tab : conn'[t] = "disconnected" => conn[t] = "disconnected"
    BY <1>1, <2>1 DEF SetConn, TypeOK
  <2>3. Handles'
    BY <1>1, <1>2, <2>1, HandlesKept
  <2> QED
    BY <1>2, <1>3, <1>5, <1>6, <2>2, <2>3, OneSession
<1>8. CASE Head(evq[s]) \in Final
  <2>1. sessions' = [sessions EXCEPT ![owner[s]] = 0] /\ SetConn(owner[s], "disconnected")
    BY <1>8 DEF HandleEvent, Final
  <2>2. HasFinal(evq[s]) /\ ~HasFinal(evq'[s]) /\ sup[s] = "done"
    BY <1>1, <1>4, <1>8 DEF InStep
  <2>3. rust[s] \notin {"none", "connecting", "keyed", "failed"} /\ owner[s] \in Tab
    BY <1>1, <2>2 DEF InStep
  <2>4. Handles'
    <3>1. \A t \in Tab : sessions'[t] # 0 => sessions'[t] = sessions[t]
      BY <1>1, <2>1, <2>3 DEF TypeOK
    <3> QED
      BY <1>1, <1>2, <3>1 DEF Handles
  <2>5. Unfinished(s) /\ ~Unfinished(s)'
    BY <1>2, <2>2, <2>3 DEF Unfinished
  <2>6. \A r \in Sid : Unfinished(r)' => Unfinished(r)
    BY <1>2, <1>3, <1>6, UnfinishedKept
  <2>7. Serial'
    BY <1>1, <1>2, <2>6 DEF Serial
  <2>8. \A u \in Tab : u # owner[s] => conn'[u] = conn[u]
    BY <1>1, <2>1, <2>3, SetConnLemma
  <2>9. OfferIsSafe'
    <3>1. ASSUME NEW r \in Sid, owner[r] \in Tab, tab[owner[r]] = "open",
                 conn'[owner[r]] = "disconnected"
          PROVE  ~Unfinished(r)'
      <4>1. CASE owner[r] = owner[s]
        <5>1. CASE r = s
          BY <2>5, <5>1
        <5>2. CASE r # s
          <6>1. owner[s] # 0
            BY <2>3 DEF Tab
          <6>2. ~Unfinished(r)
            BY <1>1, <2>5, <4>1, <5>2, <6>1 DEF Serial
          <6> QED
            BY <2>6, <6>2
        <5> QED
          BY <5>1, <5>2
      <4>2. CASE owner[r] # owner[s]
        <5>1. conn[owner[r]] = "disconnected"
          BY <2>8, <3>1, <4>2
        <5>2. ~Unfinished(r)
          BY <1>1, <3>1, <5>1 DEF OfferIsSafe
        <5> QED
          BY <2>6, <5>2
      <4> QED
        BY <4>1, <4>2
    <3> QED
      BY <1>2, <3>1 DEF OfferIsSafe
  <2>10. \A r \in Sid : InStep(r)'
    BY <1>2, <1>3, <1>5, InStepKept DEF IInv
  <2> QED
    BY <2>4, <2>7, <2>9, <2>10 DEF IInv
<1> QED
  BY <1>7, <1>8

\* So does the answer of open_session, when the webview gets to it.
LEMMA DeliverStep ==
    ASSUME IInv, TypeOK', NEW s \in Sid, DeliverOk(s) \/ DeliverErr(s)
    PROVE  IInv'
<1>1. TypeOK /\ Handles /\ InStep(s)
  BY DEF IInv
<1>2. UNCHANGED <<tab, owner, rust, sup, evq>>
  BY DEF DeliverOk, DeliverErr, rustVars
<1>3. /\ reply[s] \in {"ok", "err"} /\ reply'[s] = "taken"
      /\ \A r \in Sid : r # s => reply'[r] = reply[r] /\ closeCall'[r] = closeCall[r]
  BY <1>1 DEF DeliverOk, DeliverErr, TypeOK
<1>4. closeCall[s] = "none" /\ (reply[s] = "ok" <=> rust[s] = "live") /\ rust[s] # "none"
      /\ owner[s] \in Tab
  BY <1>1, <1>3 DEF InStep
<1>5. closeCall'[s] = "none" \/ reply[s] = "ok"
  BY <1>1, <1>3, <1>4 DEF DeliverOk, DeliverErr, TypeOK
<1>6. InStep(s)'
  BY <1>1, <1>2, <1>3, <1>4, <1>5 DEF InStep, HasFinal, OneFinal
<1>7. Unfinished(s)' => Unfinished(s)
  BY <1>2 DEF Unfinished, HasFinal
<1>8. \A t \in Tab : conn'[t] = "disconnected" => conn[t] = "disconnected"
  <2>1. conn' = conn \/ SetConn(owner[s], "connected") \/ SetConn(owner[s], "error")
    BY DEF DeliverOk, DeliverErr
  <2> QED
    BY <1>1, <2>1 DEF SetConn, TypeOK
<1>9. Handles'
  <2>1. CASE sessions' = sessions
    BY <1>1, <1>2, <1>3, <2>1, HandlesKept
  <2>2. CASE sessions' # sessions
    <3>1. /\ sessions' = [sessions EXCEPT ![owner[s]] = s] /\ closeCall' = closeCall
          /\ reply[s] = "ok"
      BY <2>2 DEF DeliverOk, DeliverErr
    <3>2. \A t \in Tab : sessions'[t] = sessions[t] \/ (t = owner[s] /\ sessions'[t] = s)
      BY <1>1, <3>1 DEF TypeOK
    <3>3. \A t \in Tab : sessions[t] # 0 => sessions[t] \in Sid
      BY <1>1, HandleSid
    <3> QED
      BY <1>1, <1>2, <1>3, <1>4, <3>1, <3>2, <3>3 DEF Handles
  <2> QED
    BY <2>1, <2>2
<1> QED
  BY <1>2, <1>3, <1>6, <1>7, <1>8, <1>9, OneSession

\* So does the closing of a session whose tab went away while it opened.
LEMMA DestroyedStep ==
    ASSUME IInv, TypeOK', NEW s \in Sid, Destroyed(s)
    PROVE  IInv'
<1>1. TypeOK /\ Handles /\ InStep(s)
  BY DEF IInv
<1>2. UNCHANGED <<tab, conn, sessions, owner, rust, sup, evq, reply>>
  BY DEF Destroyed, rustVars
<1>3. /\ closeCall[s] # "none" /\ closeCall'[s] = "done"
      /\ \A r \in Sid : r # s => closeCall'[r] = closeCall[r]
  BY <1>1 DEF Destroyed, TypeOK
<1>4. InStep(s)'
  BY <1>1, <1>2, <1>3 DEF InStep, HasFinal, OneFinal
<1>5. Unfinished(s)' => Unfinished(s)
  BY <1>2 DEF Unfinished, HasFinal
<1>6. Handles'
  BY <1>1, <1>2, <1>3, HandlesKept
<1> QED
  BY <1>2, <1>3, <1>4, <1>5, <1>6, OneSession

-----------------------------------------------------------------------------
(* The user.                                                                *)

\* So does closing a tab.
LEMMA CloseTabStep ==
    ASSUME IInv, TypeOK', NEW t \in Tab, CloseTab(t) \/ CloseBareTab(t)
    PROVE  IInv'
<1>1. TypeOK /\ Handles /\ Serial /\ OfferIsSafe
  BY DEF IInv
<1>2. UNCHANGED <<conn, owner, rust, sup, evq, reply>>
  BY DEF CloseTab, CloseBareTab, rustVars
<1>3. \A u \in Tab : tab'[u] = tab[u] \/ tab'[u] = "closed"
  BY <1>1 DEF CloseTab, CloseBareTab, TypeOK
<1>4. \A r \in Sid : Unfinished(r)' => Unfinished(r)
  BY <1>2, UnfinishedKept
<1>5. Serial' /\ OfferIsSafe'
  BY <1>1, <1>2, <1>3, <1>4, SerialKept
<1>6. CASE CloseBareTab(t)
  <2>1. UNCHANGED <<sessions, closeCall>>
    BY <1>6 DEF CloseBareTab
  <2>2. \A r \in Sid : InStep(r)'
    BY <1>2, <1>3, <2>1, InStepKept DEF IInv
  <2>3. Handles'
    BY <1>1, <1>2, <2>1, HandlesKept
  <2> QED
    BY <1>5, <2>2, <2>3 DEF IInv
<1>7. CASE CloseTab(t)
  <2>0. PICK s \in Sid : s = sessions[t]
    BY <1>1, <1>7, HandleSid DEF CloseTab
  <2>1. rust[s] = "live" /\ owner[s] = t /\ reply[s] = "taken"
    BY <1>1, <1>7, <2>0 DEF CloseTab, Handles
  <2>2. /\ closeCall'[s] = "destroy" /\ \A r \in Sid : r # s => closeCall'[r] = closeCall[r]
    BY <1>1, <1>7, <2>0 DEF CloseTab, TypeOK
  <2>3. sessions'[t] = 0 /\ \A u \in Tab : u # t => sessions'[u] = sessions[u]
    BY <1>1, <1>7 DEF CloseTab, TypeOK
  <2>4. InStep(s)'
    <3>1. InStep(s)
      BY DEF IInv
    <3> QED
      BY <1>2, <1>3, <2>1, <2>2, <3>1 DEF InStep, HasFinal, OneFinal
  <2>5. \A r \in Sid : r # s => InStep(r)'
    BY <1>2, <1>3, <2>2, InStepKept DEF IInv
  <2>6. Handles'
    <3>1. \A u \in Tab : sessions[u] # 0 => sessions[u] \in Sid
      BY <1>1, HandleSid
    <3> QED
      BY <1>1, <1>2, <2>0, <2>1, <2>2, <2>3, <3>1 DEF Handles
  <2> QED
    BY <1>5, <2>4, <2>5, <2>6 DEF IInv
<1> QED
  BY <1>6, <1>7

\* So does connecting a tab: the new session has no event and no answer yet.
LEMMA ConnectStep ==
    ASSUME IInv, TypeOK', NEW t \in Tab, NEW s \in Sid, OpenHost(t, s) \/ ReconnectTab(t, s)
    PROVE  IInv'
<1>1. TypeOK /\ Handles /\ Serial /\ OfferIsSafe /\ InStep(s)
  BY DEF IInv
<1>2. UNCHANGED <<sessions, sup, evq, reply, closeCall>>
  BY DEF OpenHost, ReconnectTab, Connect
<1>3. /\ rust[s] = "none" /\ rust'[s] = "connecting" /\ owner'[s] = t
      /\ \A r \in Sid : r # s => rust'[r] = rust[r] /\ owner'[r] = owner[r]
      /\ conn'[t] = "connecting" /\ \A u \in Tab : u # t => conn'[u] = conn[u]
  BY <1>1 DEF OpenHost, ReconnectTab, Connect, TypeOK
<1>4. tab'[t] = "open" /\ \A u \in Tab : u # t => tab'[u] = tab[u]
  BY <1>1 DEF OpenHost, ReconnectTab, TypeOK
<1>5. \A r \in Sid : r # s /\ owner[r] = t => ~Unfinished(r)
  <2>1. CASE OpenHost(t, s)
    <3>1. tab[t] = "unused"
      BY <2>1 DEF OpenHost
    <3>2. \A r \in Sid : owner[r] # t
      BY <3>1 DEF IInv, InStep, Tab
    <3> QED
      BY <3>2
  <2>2. CASE ReconnectTab(t, s)
    <3>1. tab[t] = "open" /\ conn[t] = "disconnected"
      BY <2>2 DEF ReconnectTab
    <3> QED
      BY <1>1, <3>1 DEF OfferIsSafe
  <2> QED
    BY <2>1, <2>2
<1>6. \A r \in Sid : r # s => (Unfinished(r)' <=> Unfinished(r))
  BY <1>2, <1>3, UnfinishedKept
<1>7. Serial'
  BY <1>1, <1>3, <1>5, <1>6 DEF Serial
<1>8. OfferIsSafe'
  BY <1>1, <1>3, <1>4, <1>6 DEF OfferIsSafe
<1>9. InStep(s)'
  BY <1>1, <1>2, <1>3, <1>4 DEF InStep, HasFinal, OneFinal
<1>10. \A r \in Sid : r # s => InStep(r)'
  BY <1>2, <1>3, <1>4, InStepKept DEF IInv
<1>11. Handles'
  <2>1. \A u \in Tab : sessions[u] # 0 => sessions[u] \in Sid
    BY <1>1, HandleSid
  <2> QED
    BY <1>1, <1>2, <1>3, <2>1 DEF Handles
<1> QED
  BY <1>7, <1>8, <1>9, <1>10, <1>11 DEF IInv

-----------------------------------------------------------------------------
(* The theorems.                                                            *)

\* The invariant holds initially: there is no session to be out of step.
LEMMA InitIInv == Init => IInv
<1> SUFFICES ASSUME Init PROVE IInv
  OBVIOUS
<1>1. TypeOK
  BY InitType
<1>2. \A s \in Sid : InStep(s)
  BY NoEvents DEF Init, InStep
<1>3. Handles /\ Serial /\ OfferIsSafe
  BY NoEvents DEF Init, Handles, Serial, OfferIsSafe, Unfinished, Tab
<1> QED
  BY <1>1, <1>2, <1>3 DEF IInv

\* Every step of the webview, the commands and the supervisors keeps it.
LEMMA StepIInv == IInv /\ [Next]_vars => IInv'
<1> SUFFICES ASSUME IInv, [Next]_vars PROVE IInv'
  OBVIOUS
<1>1. TypeOK'
  BY TypeStep DEF IInv
<1>2. CASE UNCHANGED vars
  <2>1. \A r \in Sid : InStep(r)'
    BY <1>2, InStepKept DEF vars, uiVars, rustVars, IInv
  <2>2. \A r \in Sid : Unfinished(r)' => Unfinished(r)
    BY <1>2, UnfinishedKept DEF vars, rustVars
  <2>3. Serial' /\ OfferIsSafe' /\ Handles'
    BY <1>2, <2>2, SerialKept, HandlesKept DEF vars, uiVars, rustVars, IInv
  <2> QED
    BY <1>1, <2>1, <2>3 DEF IInv
<1> QED
  BY <1>1, <1>2, HostKeyStep, OpenStep, CloseSessionStep, SuperviseStep, HandleEventStep,
     DeliverStep, DestroyedStep, CloseTabStep, ConnectStep
     DEF Next, Webview

\* The inductive invariant holds in every behaviour of tabs and sessions.
THEOREM Inductive == Spec => []IInv
BY InitIInv, StepIInv, PTL DEF Spec

\* A write, resize or close through the controller's handle addresses a
\* session that is in the Rust map and was opened by that tab.
THEOREM HandlesValid == Spec => []HandleIsValid
<1>1. IInv => HandleIsValid
  BY DEF IInv, Handles, HandleIsValid
<1> QED
  BY <1>1, Inductive, PTL

\* Reconnect never opens a second shell into the terminal of a session that
\* is up or still retrying.
THEOREM OneShellPerTab == Spec => []OneActivePerTab
<1>1. IInv => OneActivePerTab
  <2> SUFFICES ASSUME IInv, NEW t \in Tab PROVE Cardinality(Active(t)) <= 1
    BY DEF OneActivePerTab
  <2>1. \A r, s \in Active(t) : r = s
    BY DEF IInv, Serial, Active, Unfinished, Tab
  <2>2. CASE Active(t) = {}
    BY <2>2, FS_EmptySet
  <2>3. CASE Active(t) # {}
    <3>1. PICK s : s \in Active(t)
      BY <2>3
    <3>2. Active(t) = {s}
      BY <2>1, <3>1
    <3>3. Cardinality(Active(t)) = 1
      BY <3>2, FS_Singleton, Zenon
    <3> QED
      BY <3>3
  <2> QED
    BY <2>2, <2>3
<1> QED
  BY <1>1, Inductive, PTL

\* A closed tab stays closed: no late event, answer or setter writes its
\* state again.
THEOREM ClosedIsFinal == Spec => ClosedStaysClosed
<1> DEFINE A == \A t \in Tab : tab[t] = "closed" =>
                  tab'[t] = "closed" /\ conn'[t] = conn[t] /\ rustId'[t] = rustId[t]
<1>1. IInv /\ [Next]_vars => [A]_vars
  <2> SUFFICES ASSUME IInv, Next, NEW t \in Tab, tab[t] = "closed"
               PROVE  tab'[t] = "closed" /\ conn'[t] = conn[t] /\ rustId'[t] = rustId[t]
    OBVIOUS
  <2>0. /\ tab \in [Tab -> {"unused", "open", "closed"}] /\ conn \in [Tab -> ConnState]
        /\ rustId \in [Tab -> 0 .. Sids]
    BY DEF IInv, TypeOK
  <2>1. ASSUME NEW u \in Tab, CloseTab(u) \/ CloseBareTab(u)
        PROVE  tab'[t] = "closed" /\ conn'[t] = conn[t] /\ rustId'[t] = rustId[t]
    BY <2>0, <2>1 DEF CloseTab, CloseBareTab
  <2>2. ASSUME NEW u \in Tab, NEW s \in Sid, OpenHost(u, s) \/ ReconnectTab(u, s)
        PROVE  tab'[t] = "closed" /\ conn'[t] = conn[t] /\ rustId'[t] = rustId[t]
    BY <2>0, <2>2 DEF OpenHost, ReconnectTab, Connect
  <2>3. ASSUME NEW u, NEW v, SetConn(u, v) PROVE conn'[t] = conn[t]
    BY <2>0, <2>3 DEF SetConn
  <2>4. ASSUME NEW u, NEW v, SetRustId(u, v) PROVE rustId'[t] = rustId[t]
    BY <2>0, <2>4 DEF SetRustId
  <2>5. ASSUME NEW s \in Sid, Webview(s)
        PROVE  tab'[t] = "closed" /\ conn'[t] = conn[t] /\ rustId'[t] = rustId[t]
    BY <2>3, <2>4, <2>5 DEF Webview, HandleEvent, DeliverOk, DeliverErr, Destroyed
  <2>6. ASSUME NEW s \in Sid, HostKey(s) \/ Open(s) \/ CloseSession(s) \/ Supervise(s)
        PROVE  tab'[t] = "closed" /\ conn'[t] = conn[t] /\ rustId'[t] = rustId[t]
    BY <2>6 DEF HostKey, Open, ConnectFails, ConnectOk, OpenAnnounce, OpenInsert, CloseSession,
                Supervise, SupShutdown, SupProceed, SupAct, SupSend, uiVars
  <2> QED
    BY <2>1, <2>2, <2>5, <2>6 DEF Next
<1> QED
  BY <1>1, Inductive, PTL DEF Spec, ClosedStaysClosed

=============================================================================
