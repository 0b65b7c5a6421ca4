--------------------------- MODULE Supervisor_proofs ---------------------------
(***************************************************************************)
(* Proofs about module Supervisor for every number of generations, every   *)
(* set of commands and sizes and every reconnect policy, and about module  *)
(* Backoff for every schedule (MCSupervisor adds to the two only what its  *)
(* run says of the waits).  They rest on the inductive invariant IInv and, *)
(* for what the UI was told, on Told.                                      *)
(***************************************************************************)
EXTENDS MCSupervisor, WellFoundedInduction, TLAPS

\* What a Decision can be, and when it is to reconnect.
LEMMA DecisionLemma ==
    ASSUME NEW n \in Nat
    PROVE  /\ ReconnectOrGiveUp(n) \in {"reconnect", "giveup"}
           /\ ReconnectOrGiveUp(n) = "reconnect" =>
                Enabled /\ n <= MaxAttempts
BY PolicyAssumption DEF ReconnectOrGiveUp

\* Appending to the event channel.
LEMMA SendLemma ==
    ASSUME TypeOK, NEW e \in Event, Send(e)
    PROVE  /\ events' \in Seq(Event) /\ Len(events') = Len(events) + 1
           /\ asides' \subseteq HostKeyEvents
BY DEF TypeOK, Send

\* Every event that the actions send is an Event.
LEMMA EventLemma ==
    /\ Connected \in Event
    /\ Exited \in Event
    /\ \A n \in Nat : Reconnecting(n) \in Event
    /\ \A why \in Reasons : Disconnected(why) \in Event
BY DEF Connected, Exited, Reconnecting, Disconnected, Event, Reasons

\* A callback sends host-key events and nothing else, and says why it refuses
\* what it did not ask about.
LEMMA CallbackSends ==
    ASSUME asides \subseteq HostKeyEvents, NEW from, NEW to, CallbackStep(from, to)
    PROVE  /\ events' = events
           /\ asides' \subseteq HostKeyEvents /\ asides \subseteq asides'
           /\ to = "asked" => asides' # {}
           /\ to = "refused" => from = "asked" \/ asides' # {}
BY DEF CallbackStep, SendAside, HostKeyEvents, Refusals

\* The inductive invariant holds initially.
LEMMA InitIInv == Init => IInv
<1> SUFFICES ASSUME Init PROVE IInv
  OBVIOUS
<1> USE SupervisorAssumption DEF Init, Generations
<1>1. TypeOK
  <2>1. link \in [Generations -> LinkStates] /\ shell \in [Generations -> ShellStates]
    BY DEF LinkStates, ShellStates
  <2>2. pty \in [Generations -> Sizes \cup {"none"}]
    OBVIOUS
  <2>3. cmd \in [Cmds -> Command]
    BY DEF Command, Idle
  <2>4. pc \in PcStates
    BY DEF PcStates
  <2>5. events \in Seq(Event)
    <3>1. events = << >>
      OBVIOUS
    <3> QED
      BY <3>1
  <2>6. shutdown \in BOOLEAN
    OBVIOUS
  <2>7. /\ reg \in {"opening", "announced", "live", "removed"} /\ dims \in Sizes /\ openSize \in Sizes
        /\ conn \in Generations /\ gen \in Generations /\ est \in Generations
        /\ attempt \in Nat /\ atClose \in Nat /\ asides \subseteq HostKeyEvents
        /\ stray \in [Strays -> {"none", "due", "asked"}]
    OBVIOUS
  <2>8. hostKey \in CallbackStates
    BY DEF CallbackStates
  <2> HIDE DEF Init, Generations
  <2> QED
    BY <2>1, <2>2, <2>3, <2>4, <2>5, <2>6, <2>7, <2>8, Zenon DEF TypeOK
<1>2. Positions /\ Transports /\ Budget /\ OutageIsDrop /\ Silence /\ Fresh /\ Explained
  BY <1>1 DEF Positions, Transports, Budget, OutageIsDrop, Silence, Fresh, Explained, InOutage
<1> QED
  BY <1>1, <1>2 DEF IInv

\* The type invariant is preserved.
LEMMA TypeStep == IInv /\ [Next]_vars => TypeOK'
<1> SUFFICES ASSUME IInv, [Next]_vars PROVE TypeOK'
  OBVIOUS
<1> USE SupervisorAssumption, PolicyAssumption DEF Generations
<1>0. TypeOK /\ Positions /\ Budget
  BY DEF IInv
<1>1. CASE OpenAnnounce
  BY <1>0, <1>1, EventLemma, SendLemma
     DEF OpenAnnounce, TypeOK, netVars, supVars
<1>2. CASE OpenInsert
  BY <1>0, <1>2 DEF OpenInsert, TypeOK, netVars, supVars, chanVars
<1>3. ASSUME NEW g \in Generations, ShellExit(g) \/ TransportDrop(g)
      PROVE  TypeOK'
  BY <1>0, <1>3
     DEF ShellExit, TransportDrop, TypeOK, supVars, chanVars, LinkStates, ShellStates
<1>4. CASE PumpShutdown \/ PumpEnds \/ CheckShutdown \/ SleepShutdown
             \/ SleepOver \/ Swap
  BY <1>0, <1>4
     DEF PumpShutdown, PumpEnds, CheckShutdown, SleepShutdown, SleepOver, Swap,
         TypeOK, netVars, chanVars, PcStates
<1>5. CASE Classify
  <2>1. PICK e \in Event : Send(e)
    BY <1>5, EventLemma, DecisionLemma
       DEF Classify, Follow, Reasons
  <2>2. pc' \in PcStates /\ attempt' \in Nat
    BY <1>0, <1>5 DEF Classify, Follow, TypeOK, PcStates
  <2> QED
    BY <1>0, <1>5, <2>1, <2>2, SendLemma DEF Classify, TypeOK, netVars
<1>6. CASE ConnectOk
  BY <1>0, <1>6
     DEF ConnectOk, TypeOK, chanVars, PcStates, LinkStates, ShellStates
<1>7. CASE Announce
  BY <1>0, <1>7, EventLemma, SendLemma
     DEF Announce, TypeOK, netVars, PcStates
<1>8. ASSUME NEW err \in ConnectErrors, ConnectFails(err)
      PROVE  TypeOK'
  <2>1. attempt + 1 \in Nat
    BY <1>0 DEF TypeOK
  <2>2. PICK e \in Event : Send(e)
    BY <1>8, <2>1, EventLemma DEF ConnectFails, Follow, Reasons
  <2>3. pc' \in PcStates /\ attempt' \in Nat
    BY <1>0, <1>8, <2>1 DEF ConnectFails, Follow, TypeOK, PcStates
  <2>4. stray' \in [Strays -> {"none", "due", "asked"}]
    BY <1>0, <1>8 DEF ConnectFails, Outlives, TypeOK
  <2>5. hostKey' \in CallbackStates
    BY <1>8 DEF ConnectFails, CallbackStates
  <2> QED
    BY <1>0, <1>8, <2>2, <2>3, <2>4, <2>5, SendLemma DEF ConnectFails, TypeOK, netVars
<1>9. ASSUME NEW c \in Cmds, RunCommand(c)
      PROVE  TypeOK'
  <2>1. ASSUME NEW size \in Sizes, ResizeStart(c, size)
        PROVE  TypeOK'
    BY <1>0, <2>1 DEF ResizeStart, TypeOK, netVars, supVars, chanVars, Command
  <2>2. CASE CloseStart(c)
    BY <1>0, <2>2 DEF CloseStart, TypeOK, netVars, supVars, Command
  <2>3. CASE TakeControl(c)
    <3>1. [cmd[c] EXCEPT !.step = "apply", !.gen = conn] \in Command
      <4>1. cmd[c] \in Command /\ conn \in 0 .. Gens
        BY <1>0 DEF TypeOK
      <4> QED
        BY <4>1 DEF Command
    <3>2. cmd' = [cmd EXCEPT ![c] = [cmd[c] EXCEPT !.step = "apply",
                                                   !.gen = conn]]
      BY <1>0, <2>3 DEF TakeControl, TypeOK
    <3>3. cmd' \in [Cmds -> Command]
      BY <1>0, <3>1, <3>2 DEF TypeOK
    <3> QED
      BY <1>0, <2>3, <3>3 DEF TakeControl, TypeOK, netVars, supVars, chanVars
  <2>4. CASE ResizeApply(c) \/ CloseApply(c)
    <3>1. cmd' \in [Cmds -> Command]
      <4>1. Idle \in Command
        BY DEF Idle, Command
      <4> QED
        BY <1>0, <2>4, <4>1 DEF ResizeApply, CloseApply, TypeOK
    <3>2. pty' \in [Generations -> Sizes \cup {"none"}]
      <4>1. cmd[c].size \in Sizes \cup {"none"}
        BY <1>0 DEF TypeOK, Command
      <4> QED
        BY <1>0, <2>4, <4>1 DEF ResizeApply, CloseApply, TypeOK
    <3>3. shell' \in [Generations -> ShellStates]
      <4>1. shell \in [Generations -> ShellStates]
        BY <1>0 DEF TypeOK
      <4>2. CASE ResizeApply(c)
        BY <4>1, <4>2 DEF ResizeApply
      <4>3. CASE CloseApply(c)
        BY <4>1, <4>3 DEF CloseApply, ShellStates
      <4> QED
        BY <2>4, <4>2, <4>3
    <3> QED
      BY <1>0, <2>4, <3>1, <3>2, <3>3
         DEF ResizeApply, CloseApply, TypeOK, supVars, chanVars
  <2> QED
    BY <1>9, <2>1, <2>2, <2>3, <2>4 DEF RunCommand
<1>10. CASE UNCHANGED vars
  BY <1>0, <1>10 DEF vars, TypeOK, netVars, supVars, chanVars
<1>11. CASE CheckHostKey
  <2>1. asides' \subseteq HostKeyEvents /\ events' = events
    BY <1>0, <1>11, CallbackSends DEF CheckHostKey, TypeOK
  <2> QED
    BY <1>0, <1>11, <2>1 DEF CheckHostKey, TypeOK, netVars
<1>12. CASE HandshakeDone
  BY <1>0, <1>12 DEF HandshakeDone, TypeOK, netVars, chanVars, PcStates, CallbackStates
<1>13. ASSUME NEW s \in Strays, StrayRuns(s)
       PROVE  TypeOK'
  <2>1. asides' \subseteq HostKeyEvents /\ events' = events
    BY <1>0, <1>13, CallbackSends DEF StrayRuns, TypeOK
  <2>2. stray' \in [Strays -> {"none", "due", "asked"}]
    BY <1>0, <1>13 DEF StrayRuns, TypeOK
  <2> QED
    BY <1>0, <1>13, <2>1, <2>2 DEF StrayRuns, TypeOK, netVars, supVars
<1> QED
  BY <1>1, <1>2, <1>3, <1>4, <1>5, <1>6, <1>7, <1>8, <1>9, <1>10, <1>11, <1>12, <1>13
     DEF Next, Supervise

\* The positions, the transports and the reason for an outage are preserved.
LEMMA TransportStep ==
    IInv /\ [Next]_vars => (Positions /\ Transports /\ OutageIsDrop)'
<1> SUFFICES ASSUME IInv, [Next]_vars
             PROVE  (Positions /\ Transports /\ OutageIsDrop)'
  OBVIOUS
<1> USE SupervisorAssumption DEF Generations, Positions, Transports,
        OutageIsDrop, InOutage
<1>0. TypeOK /\ Positions /\ Transports /\ OutageIsDrop
  BY DEF IInv
<1>1. CASE OpenAnnounce \/ OpenInsert \/ UNCHANGED vars
  BY <1>0, <1>1 DEF OpenAnnounce, OpenInsert, vars, netVars, supVars
<1>2. ASSUME NEW g \in Generations, ShellExit(g) \/ TransportDrop(g)
      PROVE  (Positions /\ Transports /\ OutageIsDrop)'
  BY <1>0, <1>2 DEF ShellExit, TransportDrop, TypeOK, supVars
<1>3. CASE PumpShutdown \/ PumpEnds \/ CheckShutdown \/ SleepShutdown
             \/ SleepOver \/ CheckHostKey \/ HandshakeDone \/ Swap \/ Announce
  BY <1>0, <1>3
     DEF PumpShutdown, PumpEnds, CheckShutdown, SleepShutdown, SleepOver,
         CheckHostKey, HandshakeDone, Swap, Announce, TypeOK, netVars
<1>4. CASE Classify
  BY <1>0, <1>4 DEF Classify, Follow, Decide, PumpEnd, TypeOK, netVars
<1>5. CASE ConnectOk
  BY <1>0, <1>5 DEF ConnectOk, TypeOK
<1>6. ASSUME NEW err \in ConnectErrors, ConnectFails(err)
      PROVE  (Positions /\ Transports /\ OutageIsDrop)'
  BY <1>0, <1>6 DEF ConnectFails, Follow, TypeOK, netVars
<1>7. ASSUME NEW c \in Cmds, RunCommand(c)
      PROVE  (Positions /\ Transports /\ OutageIsDrop)'
  <2>1. link' = link /\ UNCHANGED supVars /\ conn' = conn
    BY <1>7 DEF RunCommand, ResizeStart, CloseStart, TakeControl, ResizeApply,
                CloseApply, netVars
  <2>2. \A g \in Generations :
           shell'[g] = shell[g] \/ (shell[g] = "running" /\ shell'[g] = "quiet")
    BY <1>0, <1>7 DEF RunCommand, ResizeStart, CloseStart, TakeControl,
                      ResizeApply, CloseApply, netVars, TypeOK
  <2> QED
    BY <1>0, <2>1, <2>2 DEF supVars, TypeOK
<1>8. ASSUME NEW s \in Strays, StrayRuns(s)
      PROVE  (Positions /\ Transports /\ OutageIsDrop)'
  BY <1>0, <1>8 DEF StrayRuns, supVars, netVars
<1> QED
  BY <1>1, <1>2, <1>3, <1>4, <1>5, <1>6, <1>7, <1>8 DEF Next, Supervise

\* The attempt number stays within the policy's budget.
LEMMA BudgetStep == IInv /\ [Next]_vars => Budget'
<1> SUFFICES ASSUME IInv, [Next]_vars PROVE Budget'
  OBVIOUS
<1> USE PolicyAssumption DEF Budget, InOutage
<1>0. TypeOK /\ Budget
  BY DEF IInv
<1>1. CASE Classify
  BY <1>0, <1>1, DecisionLemma DEF Classify, Follow, Decide
<1>2. ASSUME NEW err \in ConnectErrors, ConnectFails(err)
      PROVE  Budget'
  <2>1. attempt + 1 \in Nat
    BY <1>0 DEF TypeOK
  <2> QED
    BY <1>0, <1>2, <2>1, DecisionLemma
       DEF ConnectFails, Follow, AfterFailedAttempt, TypeOK
<1>3. CASE PumpShutdown \/ PumpEnds \/ CheckShutdown \/ SleepShutdown
             \/ SleepOver \/ CheckHostKey \/ HandshakeDone \/ ConnectOk \/ Swap \/ Announce
  BY <1>0, <1>3
     DEF PumpShutdown, PumpEnds, CheckShutdown, SleepShutdown, SleepOver,
         CheckHostKey, HandshakeDone, ConnectOk, Swap, Announce
<1>4. CASE UNCHANGED supVars
  BY <1>0, <1>4 DEF supVars
<1>5. CASE OpenAnnounce \/ OpenInsert \/ UNCHANGED vars
  BY <1>4, <1>5 DEF OpenAnnounce, OpenInsert, vars
<1>6. ASSUME NEW g \in Generations, ShellExit(g) \/ TransportDrop(g)
      PROVE  Budget'
  BY <1>4, <1>6 DEF ShellExit, TransportDrop
<1>7. ASSUME NEW c \in Cmds, RunCommand(c)
      PROVE  Budget'
  BY <1>4, <1>7 DEF RunCommand, ResizeStart, CloseStart, TakeControl,
                    ResizeApply, CloseApply
<1>8. ASSUME NEW s \in Strays, StrayRuns(s)
      PROVE  Budget'
  BY <1>4, <1>8 DEF StrayRuns
<1> QED
  BY <1>1, <1>2, <1>3, <1>5, <1>6, <1>7, <1>8 DEF Next, Supervise

\* A step of Supervise sends at most one status and leaves the registration
\* alone.
LEMMA SuperviseSends ==
    ASSUME TypeOK, Supervise
    PROVE  /\ UNCHANGED <<reg, shutdown, atClose>>
           /\ Len(events') \in {Len(events), Len(events) + 1}
           /\ Len(events') = Len(events) + 1 =>
                /\ pc \in {"classify", "connect", "login", "announce"}
                /\ pc' \in {"sleep", "pump", "done"}
           /\ shutdown /\ pc' \in {"classify", "connect", "login", "swap", "announce"} =>
                pc \in {"connect", "login", "swap"}
<1>1. CASE PumpShutdown \/ PumpEnds \/ CheckShutdown \/ SleepShutdown
             \/ SleepOver \/ HandshakeDone \/ ConnectOk \/ Swap
  BY <1>1
     DEF PumpShutdown, PumpEnds, CheckShutdown, SleepShutdown, SleepOver,
         HandshakeDone, ConnectOk, Swap, TypeOK, chanVars
<1>2. CASE Classify
  BY <1>2, TypeOK DEF Classify, Follow, Send, TypeOK
<1>3. ASSUME NEW err \in ConnectErrors, ConnectFails(err)
      PROVE  /\ UNCHANGED <<reg, shutdown, atClose>>
             /\ Len(events') = Len(events) + 1
             /\ pc \in {"connect", "login"} /\ pc' \in {"sleep", "done"}
  BY <1>3, TypeOK DEF ConnectFails, Follow, Send, TypeOK
<1>4. CASE Announce
  BY <1>4, TypeOK DEF Announce, Send, TypeOK
<1>5. CASE CheckHostKey
  <2>1. events' = events
    BY <1>5, CallbackSends DEF CheckHostKey, TypeOK
  <2> QED
    BY <1>5, <2>1 DEF CheckHostKey, TypeOK
<1> QED
  BY <1>1, <1>2, <1>3, <1>4, <1>5, TypeOK DEF Supervise, TypeOK

\* The bound on late events is preserved.
LEMMA SilenceStep == IInv /\ [Next]_vars => Silence'
<1> SUFFICES ASSUME IInv, [Next]_vars PROVE Silence'
  OBVIOUS
<1>0. TypeOK /\ Silence
  BY DEF IInv
<1>1. CASE Supervise
  BY <1>0, <1>1, SuperviseSends DEF Silence, TypeOK
<1>2. CASE OpenAnnounce \/ OpenInsert \/ UNCHANGED vars
  BY <1>0, <1>2 DEF OpenAnnounce, OpenInsert, Silence, vars, supVars, chanVars
<1>3. ASSUME NEW g \in Generations, ShellExit(g) \/ TransportDrop(g)
      PROVE  Silence'
  BY <1>0, <1>3 DEF ShellExit, TransportDrop, Silence, supVars, chanVars
<1>4. ASSUME NEW c \in Cmds, RunCommand(c)
      PROVE  Silence'
  <2>1. CASE CloseStart(c)
    BY <1>0, <2>1 DEF CloseStart, Silence, TypeOK, supVars
  <2>2. CASE ~CloseStart(c)
    BY <1>0, <1>4, <2>2 DEF RunCommand, ResizeStart, TakeControl, ResizeApply,
                            CloseApply, Silence, supVars, chanVars
  <2> QED
    BY <2>1, <2>2
<1>5. ASSUME NEW s \in Strays, StrayRuns(s)
      PROVE  Silence'
  <2>1. events' = events
    BY <1>0, <1>5, CallbackSends DEF StrayRuns, TypeOK
  <2> QED
    BY <1>0, <1>5, <2>1 DEF StrayRuns, Silence, supVars
<1> QED
  BY <1>1, <1>2, <1>3, <1>4, <1>5 DEF Next

\* That the user has been told why is preserved.
LEMMA ExplainedStep == IInv /\ [Next]_vars => Explained'
<1> SUFFICES ASSUME IInv, [Next]_vars PROVE Explained'
  OBVIOUS
<1>0. TypeOK /\ Explained /\ asides \subseteq HostKeyEvents
  BY DEF IInv, TypeOK
<1>1. CASE CheckHostKey
  <2>1. /\ asides \subseteq asides'
        /\ hostKey' = "asked" => asides' # {}
        /\ hostKey' = "refused" => hostKey = "asked" \/ asides' # {}
    BY <1>0, <1>1, CallbackSends DEF CheckHostKey
  <2> QED
    BY <1>0, <1>1, <2>1 DEF CheckHostKey, Explained
<1>2. CASE UNCHANGED supVars /\ asides \subseteq asides'
  BY <1>0, <1>2 DEF supVars, Explained
<1>3. CASE OpenAnnounce
  BY <1>2, <1>3 DEF OpenAnnounce, Send, Connected
<1>4. CASE OpenInsert \/ UNCHANGED vars
  BY <1>2, <1>4 DEF OpenInsert, vars, chanVars
<1>5. CASE PumpShutdown \/ PumpEnds \/ CheckShutdown \/ SleepShutdown
             \/ SleepOver \/ HandshakeDone \/ ConnectOk \/ Swap \/ Announce \/ Classify
  <2>1. pc' = "connect" => pc = "sleep" /\ hostKey' = hostKey
    BY <1>5 DEF PumpShutdown, PumpEnds, CheckShutdown, SleepShutdown, SleepOver,
                HandshakeDone, ConnectOk, Swap, Announce, Classify, Follow
  <2>2. pc = "sleep" => hostKey = "due"
    BY DEF IInv, Fresh
  <2> QED
    BY <2>1, <2>2 DEF Explained
<1>6. ASSUME NEW err \in ConnectErrors, ConnectFails(err)
      PROVE  Explained'
  BY <1>6 DEF ConnectFails, Explained
<1>7. ASSUME NEW g \in Generations, ShellExit(g) \/ TransportDrop(g)
      PROVE  Explained'
  BY <1>2, <1>7 DEF ShellExit, TransportDrop, chanVars
<1>8. ASSUME NEW c \in Cmds, RunCommand(c)
      PROVE  Explained'
  BY <1>2, <1>8 DEF RunCommand, ResizeStart, CloseStart, TakeControl,
                    ResizeApply, CloseApply, chanVars
<1>9. ASSUME NEW s \in Strays, StrayRuns(s)
      PROVE  Explained'
  <2>1. asides \subseteq asides'
    BY <1>0, <1>9, CallbackSends DEF StrayRuns
  <2> QED
    BY <1>2, <1>9, <2>1 DEF StrayRuns
<1> QED
  BY <1>1, <1>3, <1>4, <1>5, <1>6, <1>7, <1>8, <1>9 DEF Next, Supervise

\* A callback is due outside the attempts.
LEMMA FreshStep == IInv /\ [Next]_vars => Fresh'
<1> SUFFICES ASSUME IInv, [Next]_vars PROVE Fresh'
  OBVIOUS
<1>0. Fresh
  BY DEF IInv
<1>1. CASE Supervise
  BY <1>0, <1>1 DEF Fresh, Supervise, PumpShutdown, PumpEnds, CheckShutdown, Classify,
     Follow, SleepShutdown, SleepOver, CheckHostKey, HandshakeDone, ConnectOk,
     ConnectFails, Swap, Announce
<1>2. CASE UNCHANGED supVars
  BY <1>0, <1>2 DEF supVars, Fresh
<1>3. CASE OpenAnnounce \/ OpenInsert \/ UNCHANGED vars
  BY <1>2, <1>3 DEF OpenAnnounce, OpenInsert, vars
<1>4. ASSUME NEW g \in Generations, ShellExit(g) \/ TransportDrop(g)
      PROVE  Fresh'
  BY <1>2, <1>4 DEF ShellExit, TransportDrop
<1>5. ASSUME NEW c \in Cmds, RunCommand(c)
      PROVE  Fresh'
  BY <1>2, <1>5 DEF RunCommand, ResizeStart, CloseStart, TakeControl,
                    ResizeApply, CloseApply
<1>6. ASSUME NEW s \in Strays, StrayRuns(s)
      PROVE  Fresh'
  BY <1>2, <1>6 DEF StrayRuns
<1> QED
  BY <1>1, <1>3, <1>4, <1>5, <1>6 DEF Next

(* IInv is an invariant: type correctness together with everything the      *)
(* theorems below are consequences of.                                      *)
THEOREM InvariantTheorem == Spec => []IInv
<1>1. IInv /\ [Next]_vars => IInv'
  BY TypeStep, TransportStep, BudgetStep, SilenceStep, ExplainedStep, FreshStep DEF IInv
<1> QED
  BY InitIInv, <1>1, PTL DEF Spec

(* Every variable keeps its type, whatever supervise, the commands and the  *)
(* network do.                                                              *)
THEOREM TypeCorrect == Spec => []TypeOK
<1>1. IInv => TypeOK
  BY DEF IInv
<1> QED
  BY InvariantTheorem, <1>1, PTL

(* Only a dropped transport is ever reconnected.                            *)
THEOREM DropsOnly == Spec => []OnlyDropsReconnect
<1>1. IInv => OnlyDropsReconnect
  BY DEF IInv, OnlyDropsReconnect
<1> QED
  BY InvariantTheorem, <1>1, PTL

(* A session never has two transports up at once.                           *)
THEOREM SingleTransport == Spec => []OneLiveTransport
<1>1. IInv => OneLiveTransport
  BY SupervisorAssumption
     DEF IInv, TypeOK, Transports, OneLiveTransport, Generations
<1> QED
  BY InvariantTheorem, <1>1, PTL

(* At most one status follows the shutdown signal of close_session, whatever *)
(* else the callback of an attempt under way still sends.                    *)
THEOREM LateStatus == Spec => []AtMostOneLateStatus
<1>1. IInv => AtMostOneLateStatus
  BY DEF IInv, Silence, AtMostOneLateStatus
<1> QED
  BY InvariantTheorem, <1>1, PTL

(* A reconnect that ends in a rejected host key has shown the user a prompt  *)
(* or a refusal since its last attempt was announced.                        *)
THEOREM RejectionsExplained == Spec => RejectionExplained
<1> DEFINE Rejected == events' = Append(events, Disconnected("HostKeyRejected"))
<1>1. IInv /\ [Next]_vars => [Rejected => asides # {}]_vars
  <2> SUFFICES ASSUME IInv, [Next]_vars, Rejected
               PROVE  asides # {}
    OBVIOUS
  <2>0. TypeOK /\ asides \subseteq HostKeyEvents /\ events \in Seq(Event)
    BY DEF IInv, TypeOK
  <2>1. PICK bad \in Event : bad = Disconnected("HostKeyRejected")
    BY EventLemma DEF Reasons, ConnectErrors, FatalErrors
  <2>2. events' # events /\ events'[Len(events) + 1] = bad
    BY <2>0, <2>1
  <2>3. \A e \in Event : events' = Append(events, e) => e = bad
    BY <2>0, <2>2
  <2>4. bad.event = "disconnected" /\ bad.reason = "HostKeyRejected"
    BY <2>1 DEF Disconnected
  <2>5. CASE Supervise
    <3>1. ~(PumpShutdown \/ PumpEnds \/ CheckShutdown \/ SleepShutdown
             \/ SleepOver \/ HandshakeDone \/ ConnectOk \/ Swap)
      BY <2>2 DEF PumpShutdown, PumpEnds, CheckShutdown, SleepShutdown, SleepOver,
                  HandshakeDone, ConnectOk, Swap, chanVars
    <3>2. ~CheckHostKey
      BY <2>0, <2>2, CallbackSends DEF CheckHostKey
    <3>3. ~Announce
      BY <2>3, <2>4, EventLemma DEF Announce, Send, Connected
    <3>4. ~Classify
      BY <2>3, <2>4, EventLemma
         DEF Classify, Follow, Send, Exited, Reconnecting, Disconnected, Reasons
    <3>5. ASSUME NEW err \in ConnectErrors, ConnectFails(err)
          PROVE  asides # {}
      <4>1. attempt + 1 \in Nat
        BY <2>0 DEF TypeOK
      <4>2. err = "HostKeyRejected"
        BY <2>3, <2>4, <3>5, <4>1, EventLemma
           DEF ConnectFails, Follow, Send, Reconnecting, Disconnected, Reasons
      <4>3. pc = "connect" /\ hostKey = "refused"
        BY <3>5, <4>2 DEF ConnectFails, AttemptErrors, RetryableErrors
      <4> QED
        BY <4>3 DEF IInv, Explained
    <3> QED
      BY <2>5, <3>1, <3>2, <3>3, <3>4, <3>5 DEF Supervise
  <2>6. CASE OpenAnnounce
    BY <2>3, <2>4, <2>6, EventLemma DEF OpenAnnounce, Send, Connected
  <2>7. events' # events => ~OpenInsert /\ ~UNCHANGED vars
    BY DEF OpenInsert, vars, chanVars
  <2>8. \A g \in Generations : ~(ShellExit(g) \/ TransportDrop(g))
    BY <2>2 DEF ShellExit, TransportDrop, chanVars
  <2>9. \A c \in Cmds : ~RunCommand(c)
    BY <2>2 DEF RunCommand, ResizeStart, CloseStart, TakeControl, ResizeApply,
                CloseApply, chanVars
  <2>10. \A s \in Strays : ~StrayRuns(s)
    BY <2>0, <2>2, CallbackSends DEF StrayRuns
  <2> QED
    BY <2>2, <2>5, <2>6, <2>7, <2>8, <2>9, <2>10 DEF Next
<1> QED
  BY InvariantTheorem, <1>1, PTL DEF Spec, RejectionExplained

(* The supervisor implements the safety part of SessionLife: every step of  *)
(* the system is a loss, a retry within the limit, a recovery or the end of *)
(* the session, or leaves the life cycle where it is.                       *)
THEOREM LifeRefinement == Spec => ImplementsLife
<1>1. Init => Life!LifeInit
  BY DEF Init, Life!LifeInit, lifePhase, lifeTries, InOutage
<1>2. IInv /\ [Next]_vars => [Life!LifeNext]_(Life!lifeVars)
  <2> SUFFICES ASSUME IInv, [Next]_vars
               PROVE  Life!LifeNext \/ UNCHANGED Life!lifeVars
    OBVIOUS
  <2> USE PolicyAssumption DEF lifePhase, lifeTries, InOutage
  <2>0. TypeOK /\ Budget
    BY DEF IInv
  <2>1. CASE PumpShutdown \/ SleepShutdown
    BY <2>1 DEF PumpShutdown, SleepShutdown, Life!LifeNext, Life!Finish
  <2>2. CASE CheckShutdown
    BY <2>2 DEF CheckShutdown, Life!LifeNext, Life!Finish, Life!lifeVars
  <2>3. CASE PumpEnds \/ SleepOver \/ CheckHostKey \/ HandshakeDone \/ ConnectOk \/ Swap
    BY <2>3 DEF PumpEnds, SleepOver, CheckHostKey, HandshakeDone, ConnectOk, Swap,
                Life!lifeVars
  <2>4. CASE Announce
    BY <2>4 DEF Announce, Life!LifeNext, Life!Restore
  <2>5. CASE Classify
    BY <2>5, DecisionLemma
       DEF Classify, Follow, Decide, Life!LifeNext, Life!Lose, Life!Finish
  <2>6. ASSUME NEW err \in ConnectErrors, ConnectFails(err)
        PROVE  Life!LifeNext
    <3>1. attempt \in Nat /\ attempt + 1 \in Nat
      BY <2>0 DEF TypeOK
    <3>2. CASE pc' = "done"
      BY <2>6, <3>2 DEF ConnectFails, Life!LifeNext, Life!Finish
    <3>3. CASE pc' = "sleep"
      <4>1. attempt' = attempt + 1 /\ Enabled /\ attempt + 1 <= MaxAttempts
        BY <2>6, <3>1, <3>3, DecisionLemma
           DEF ConnectFails, Follow, AfterFailedAttempt
      <4> QED
        BY <2>6, <3>1, <3>3, <4>1 DEF ConnectFails, Life!LifeNext, Life!Retry
    <3> QED
      BY <2>6, <3>2, <3>3 DEF ConnectFails, Follow
  <2>7. CASE UNCHANGED supVars
    BY <2>7 DEF supVars, Life!lifeVars
  <2>8. CASE OpenAnnounce \/ OpenInsert \/ UNCHANGED vars
    BY <2>7, <2>8 DEF OpenAnnounce, OpenInsert, vars
  <2>9. ASSUME NEW g \in Generations, ShellExit(g) \/ TransportDrop(g)
        PROVE  UNCHANGED Life!lifeVars
    <3>1. UNCHANGED supVars
      BY <2>9 DEF ShellExit, TransportDrop
    <3> QED
      BY <3>1 DEF supVars, Life!lifeVars
  <2>10. ASSUME NEW c \in Cmds, RunCommand(c)
         PROVE  UNCHANGED Life!lifeVars
    <3>1. UNCHANGED supVars
      BY <2>10 DEF RunCommand, ResizeStart, CloseStart, TakeControl,
                   ResizeApply, CloseApply
    <3> QED
      BY <3>1 DEF supVars, Life!lifeVars
  <2>11. ASSUME NEW s \in Strays, StrayRuns(s)
         PROVE  UNCHANGED Life!lifeVars
    <3>1. UNCHANGED supVars
      BY <2>11 DEF StrayRuns
    <3> QED
      BY <3>1 DEF supVars, Life!lifeVars
  <2> QED
    BY <2>1, <2>2, <2>3, <2>4, <2>5, <2>6, <2>8, <2>9, <2>10, <2>11
       DEF Next, Supervise
<1> QED
  BY InvariantTheorem, <1>1, <1>2, PTL DEF Spec, ImplementsLife, Life!LifeSafe

-----------------------------------------------------------------------------
(* What the event channel has told the UI, by where supervise is.           *)

\* Every outage announced so far was announced to be over.
Settled ==
    \A i \in 1 .. Len(events) : events[i].event = "reconnecting" =>
        \E k \in i + 1 .. Len(events) : events[k].event = "connected"

\* Attempt n is the last that was announced; the late Connected of open_session
\* may have come behind it.
Latest(n) ==
    \E i \in 1 .. Len(events) :
        /\ events[i] = Reconnecting(n)
        /\ \A k \in i + 1 .. Len(events) : events[k].event = "connected"

Told ==
    /\ pc \in {"pump", "ended", "classify"} => Settled
    /\ pc \in {"sleep", "connect", "login"} => Latest(attempt)

\* What GiveUpIsEarned says of the j-th event.
Numbered(j) ==
    events[j].event = "reconnecting" =>
        /\ events[j].attempt \in 1 .. MaxAttempts
        /\ \/ /\ events[j].attempt = 1
              /\ \A i \in 1 .. j - 1 : events[i].event = "reconnecting" =>
                    \E k \in i + 1 .. j - 1 : events[k].event = "connected"
           \/ \E i \in 1 .. j - 1 :
                /\ events[i] = Reconnecting(events[j].attempt - 1)
                /\ \A k \in i + 1 .. j - 1 : events[k].event = "connected"
Earned(j) ==
    events[j].event = "disconnected" =>
        /\ events[j].reason \in RetryableErrors =>
             \E i \in 1 .. j - 1 : events[i] = Reconnecting(MaxAttempts)
        /\ events[j].reason = "lost" => ~Enabled \/ MaxAttempts = 0

\* GiveUpIsEarned, event by event.
LEMMA EarnedParts ==
    GiveUpIsEarned <=> \A j \in 1 .. Len(events) : Numbered(j) /\ Earned(j)
BY DEF GiveUpIsEarned, AttemptsNumbered, Numbered, Earned

\* The same for the next state.
LEMMA EarnedPartsNext ==
    (\A j \in 1 .. Len(events') : (Numbered(j) /\ Earned(j))') => GiveUpIsEarned'
BY DEF GiveUpIsEarned, AttemptsNumbered, Numbered, Earned

\* What was sent before stays, and the new event comes behind it.
LEMMA SentLemma ==
    ASSUME TypeOK, NEW e \in Event, Send(e)
    PROVE  /\ Len(events) \in Nat /\ Len(events') = Len(events) + 1
           /\ events'[Len(events) + 1] = e
           /\ \A i \in 1 .. Len(events) : events'[i] = events[i]
BY DEF TypeOK, Send

\* The events sent before keep what is said of them.
LEMMA OldEventsKept ==
    ASSUME TypeOK, GiveUpIsEarned, NEW e \in Event, Send(e)
    PROVE  \A j \in 1 .. Len(events) : (Numbered(j) /\ Earned(j))'
<1> SUFFICES ASSUME NEW j \in 1 .. Len(events) PROVE (Numbered(j) /\ Earned(j))'
  OBVIOUS
<1>1. Len(events) \in Nat /\ \A i \in 1 .. j : i \in 1 .. Len(events) /\ events'[i] = events[i]
  BY SentLemma
<1>2. Numbered(j) /\ Earned(j)
  BY EarnedParts
<1>3. j \in 1 .. j /\ \A i \in 1 .. j - 1 : i \in 1 .. j /\ \A k \in i + 1 .. j - 1 : k \in 1 .. j
  BY <1>1
<1>4. Numbered(j)'
  <2>1. SUFFICES ASSUME events[j].event = "reconnecting"
        PROVE  Numbered(j)'
    BY <1>1, <1>3 DEF Numbered
  <2>2. events'[j] = events[j]
    BY <1>1, <1>3
  <2>3. \A i \in 1 .. j - 1 : events'[i] = events[i] /\ \A k \in i + 1 .. j - 1 : events'[k] = events[k]
    BY <1>1, <1>3
  <2>4. CASE /\ events[j].attempt = 1
             /\ \A i \in 1 .. j - 1 : events[i].event = "reconnecting" =>
                   \E k \in i + 1 .. j - 1 : events[k].event = "connected"
    BY <1>2, <2>1, <2>2, <2>3, <2>4 DEF Numbered
  <2>5. CASE \E i \in 1 .. j - 1 :
                /\ events[i] = Reconnecting(events[j].attempt - 1)
                /\ \A k \in i + 1 .. j - 1 : events[k].event = "connected"
    <3>1. PICK i \in 1 .. j - 1 : /\ events[i] = Reconnecting(events[j].attempt - 1)
                                  /\ \A k \in i + 1 .. j - 1 : events[k].event = "connected"
      BY <2>5
    <3>2. /\ events'[i] = Reconnecting(events'[j].attempt - 1)
          /\ \A k \in i + 1 .. j - 1 : events'[k].event = "connected"
      BY <2>2, <2>3, <3>1
    <3> QED
      BY <1>2, <2>1, <2>2, <3>2 DEF Numbered
  <2> QED
    BY <1>2, <2>1, <2>4, <2>5 DEF Numbered
<1>5. Earned(j)'
  BY <1>1, <1>2, <1>3 DEF Earned
<1> QED
  BY <1>4, <1>5

\* An event that says neither "reconnecting" nor "disconnected" claims nothing.
LEMMA PlainEvent ==
    ASSUME TypeOK, GiveUpIsEarned, NEW e \in Event, Send(e),
           e.event \notin {"reconnecting", "disconnected"}
    PROVE  GiveUpIsEarned'
<1>1. Len(events) \in Nat /\ Len(events') = Len(events) + 1 /\ events'[Len(events) + 1] = e
  BY SentLemma
<1>2. ASSUME NEW j \in 1 .. Len(events') PROVE (Numbered(j) /\ Earned(j))'
  <2>1. CASE j = Len(events) + 1
    BY <1>1, <2>1 DEF Numbered, Earned
  <2>2. CASE j # Len(events) + 1
    BY <1>1, <2>2, OldEventsKept
  <2> QED
    BY <2>1, <2>2
<1> QED
  BY <1>2, EarnedPartsNext

\* An attempt is announced when the last one failed, or when nothing is open.
LEMMA AttemptEvent ==
    ASSUME TypeOK, GiveUpIsEarned, NEW n \in 1 .. MaxAttempts, Send(Reconnecting(n)),
           (n = 1 /\ Settled) \/ Latest(n - 1)
    PROVE  GiveUpIsEarned' /\ Latest(n)'
<1> USE PolicyAssumption
<1> DEFINE e == Reconnecting(n)
<1>0. e \in Event /\ e.event = "reconnecting" /\ e.attempt = n
  BY EventLemma DEF Reconnecting
<1>1. /\ Len(events) \in Nat /\ Len(events') = Len(events) + 1 /\ events'[Len(events) + 1] = e
      /\ \A i \in 1 .. Len(events) : events'[i] = events[i]
  BY <1>0, SentLemma
<1> HIDE DEF e
<1>2. PICK j : j = Len(events) + 1 /\ j \in 1 .. Len(events') /\ j - 1 = Len(events)
  BY <1>1
<1>3. (Numbered(j) /\ Earned(j))'
  <2>1. events'[j] = e /\ events'[j].event = "reconnecting" /\ events'[j].attempt = n
    BY <1>0, <1>1, <1>2
  <2>2. \A i \in 1 .. j - 1 : events'[i] = events[i] /\ \A k \in i + 1 .. j - 1 : events'[k] = events[k]
    BY <1>1, <1>2
  <2>3. CASE n = 1 /\ Settled
    BY <1>2, <2>1, <2>2, <2>3 DEF Settled, Numbered, Earned
  <2>4. CASE Latest(n - 1)
    <3>1. PICK i \in 1 .. j - 1 : /\ events[i] = Reconnecting(n - 1)
                                  /\ \A k \in i + 1 .. j - 1 : events[k].event = "connected"
      BY <1>2, <2>4 DEF Latest
    <3>2. /\ events'[i] = Reconnecting(events'[j].attempt - 1)
          /\ \A k \in i + 1 .. j - 1 : events'[k].event = "connected"
      BY <2>1, <2>2, <3>1
    <3> QED
      BY <2>1, <3>2 DEF Numbered, Earned
  <2> QED
    BY <2>3, <2>4
<1>4. ASSUME NEW i \in 1 .. Len(events') PROVE (Numbered(i) /\ Earned(i))'
  <2>1. CASE i = j
    BY <1>3, <2>1
  <2>2. CASE i # j
    BY <1>0, <1>1, <1>2, <2>2, OldEventsKept DEF e
  <2> QED
    BY <2>1, <2>2
<1>5. Latest(n)'
  <2>1. events'[j] = Reconnecting(n) /\ \A k \in j + 1 .. Len(events') : events'[k].event = "connected"
    BY <1>1, <1>2 DEF e
  <2> QED
    BY <1>2, <2>1 DEF Latest
<1> QED
  BY <1>4, <1>5, EarnedPartsNext

\* A give-up is reported when the attempts are used up, or there are none.
LEMMA GiveUpEvent ==
    ASSUME TypeOK, GiveUpIsEarned, NEW why \in Reasons, Send(Disconnected(why)),
           why \in RetryableErrors => Latest(MaxAttempts),
           why = "lost" => ~Enabled \/ MaxAttempts = 0
    PROVE  GiveUpIsEarned'
<1> DEFINE e == Disconnected(why)
<1>0. e \in Event /\ e.event = "disconnected" /\ e.reason = why
  BY EventLemma DEF Disconnected
<1>1. /\ Len(events) \in Nat /\ Len(events') = Len(events) + 1 /\ events'[Len(events) + 1] = e
      /\ \A i \in 1 .. Len(events) : events'[i] = events[i]
  BY <1>0, SentLemma
<1> HIDE DEF e
<1>2. PICK j : j = Len(events) + 1 /\ j \in 1 .. Len(events') /\ j - 1 = Len(events)
  BY <1>1
<1>3. (Numbered(j) /\ Earned(j))'
  <2>1. events'[j].event = "disconnected" /\ events'[j].reason = why
    BY <1>0, <1>1, <1>2
  <2>2. Numbered(j)'
    BY <2>1 DEF Numbered
  <2>3. why \in RetryableErrors => \E i \in 1 .. j - 1 : events'[i] = Reconnecting(MaxAttempts)
    BY <1>1, <1>2 DEF Latest
  <2>4. Earned(j)'
    BY <2>1, <2>3 DEF Earned
  <2> QED
    BY <2>2, <2>4
<1>4. ASSUME NEW i \in 1 .. Len(events') PROVE (Numbered(i) /\ Earned(i))'
  <2>1. CASE i = j
    BY <1>3, <2>1
  <2>2. CASE i # j
    BY <1>0, <1>1, <1>2, <2>2, OldEventsKept DEF e
  <2> QED
    BY <2>1, <2>2
<1> QED
  BY <1>4, EarnedPartsNext

\* Connected ends what was announced, and changes nothing else.
LEMMA ConnectedEvent ==
    ASSUME TypeOK, Send(Connected)
    PROVE  Settled' /\ \A n \in Nat : Latest(n) => Latest(n)'
<1>0. Connected \in Event /\ Connected.event = "connected"
  BY EventLemma DEF Connected
<1>1. /\ Len(events) \in Nat /\ Len(events') = Len(events) + 1 /\ events'[Len(events) + 1] = Connected
      /\ \A i \in 1 .. Len(events) : events'[i] = events[i]
  BY <1>0, SentLemma
<1>2. Settled'
  <2>1. SUFFICES ASSUME NEW i \in 1 .. Len(events'), events'[i].event = "reconnecting"
                 PROVE  \E k \in i + 1 .. Len(events') : events'[k].event = "connected"
    BY DEF Settled
  <2>2. i # Len(events) + 1
    BY <1>0, <1>1, <2>1
  <2>3. Len(events) + 1 \in i + 1 .. Len(events')
    BY <1>1, <2>2
  <2> QED
    BY <1>0, <1>1, <2>3
<1>3. ASSUME NEW n \in Nat, Latest(n)
      PROVE  Latest(n)'
  <2>1. PICK i \in 1 .. Len(events) : /\ events[i] = Reconnecting(n)
                                      /\ \A k \in i + 1 .. Len(events) : events[k].event = "connected"
    BY <1>3 DEF Latest
  <2>2. i \in 1 .. Len(events') /\ events'[i] = Reconnecting(n)
    BY <1>1, <2>1
  <2>3. ASSUME NEW k \in i + 1 .. Len(events') PROVE events'[k].event = "connected"
    BY <1>0, <1>1, <2>1
  <2> QED
    BY <2>2, <2>3 DEF Latest
<1> QED
  BY <1>2, <1>3

\* A step that sends nothing and brings supervise no further into the loop.
LEMMA NothingSent ==
    ASSUME GiveUpIsEarned, Told, UNCHANGED <<events, attempt>>,
           pc' \in {"pump", "ended", "classify"} => pc \in {"pump", "ended", "classify"},
           pc' \in {"sleep", "connect", "login"} => pc \in {"sleep", "connect", "login"}
    PROVE  GiveUpIsEarned' /\ Told'
<1>1. GiveUpIsEarned'
  BY DEF GiveUpIsEarned, AttemptsNumbered
<1>2. (Settled => Settled') /\ (Latest(attempt) => Latest(attempt)')
  BY DEF Settled, Latest
<1> QED
  BY <1>1, <1>2 DEF Told

\* Every step keeps what the UI was told in step with where supervise is.
LEMMA EarnedStep ==
    ASSUME IInv, GiveUpIsEarned, Told, [Next]_vars
    PROVE  GiveUpIsEarned' /\ Told'
<1> USE PolicyAssumption
<1>0. TypeOK /\ Budget /\ attempt \in Nat
  BY DEF IInv, TypeOK
<1>1. CASE OpenAnnounce
  <2>1. Send(Connected) /\ UNCHANGED <<pc, attempt>>
    BY <1>1 DEF OpenAnnounce, supVars
  <2>2. Settled' /\ (Latest(attempt) => Latest(attempt)')
    <3>1. PICK n \in Nat : n = attempt /\ n = attempt'
      BY <1>0, <2>1
    <3>2. Settled' /\ (Latest(n) => Latest(n)')
      BY <1>0, <2>1, ConnectedEvent
    <3> QED
      BY <3>1, <3>2 DEF Latest
  <2>3. GiveUpIsEarned'
    BY <1>0, <2>1, PlainEvent, EventLemma DEF Connected
  <2> QED
    BY <2>1, <2>2, <2>3 DEF Told
<1>2. CASE PumpShutdown \/ PumpEnds \/ CheckShutdown \/ SleepShutdown
             \/ SleepOver \/ HandshakeDone \/ ConnectOk \/ Swap
  BY <1>2, NothingSent
     DEF PumpShutdown, PumpEnds, CheckShutdown, SleepShutdown, SleepOver,
         HandshakeDone, ConnectOk, Swap, chanVars
<1>3. CASE Announce
  <2>1. Send(Connected) /\ pc' = "pump"
    BY <1>3 DEF Announce
  <2>2. Settled'
    BY <1>0, <2>1, ConnectedEvent
  <2>3. GiveUpIsEarned'
    BY <1>0, <2>1, PlainEvent, EventLemma DEF Connected
  <2> QED
    BY <2>1, <2>2, <2>3 DEF Told
<1>4. CASE Classify
  <2>0. pc = "classify" /\ Settled
    BY <1>4 DEF Classify, Told
  <2>1. CASE pc' = "done" /\ Send(Exited)
    <3>1. GiveUpIsEarned'
      BY <1>0, <2>1, PlainEvent, EventLemma DEF Exited
    <3> QED
      BY <2>1, <3>1 DEF Told
  <2>2. CASE Follow(Decide(PumpEnd, 1), 1, "lost")
    <3>1. CASE /\ Decide(PumpEnd, 1) = "reconnect" /\ pc' = "sleep" /\ attempt' = 1
               /\ Send(Reconnecting(1))
      <4>1. 1 \in 1 .. MaxAttempts
        BY <3>1 DEF Decide, ReconnectOrGiveUp
      <4>2. GiveUpIsEarned' /\ Latest(1)'
        BY <1>0, <2>0, <3>1, <4>1, AttemptEvent
      <4> QED
        BY <3>1, <4>2 DEF Told, Latest
    <3>2. CASE Decide(PumpEnd, 1) = "giveup" /\ pc' = "done" /\ Send(Disconnected("lost"))
      <4>1. ~Enabled \/ MaxAttempts = 0
        BY <3>2 DEF Decide, ReconnectOrGiveUp
      <4>2. "lost" \in Reasons /\ "lost" \notin RetryableErrors
        BY DEF Reasons, RetryableErrors
      <4>3. GiveUpIsEarned'
        BY <1>0, <3>2, <4>1, <4>2, GiveUpEvent
      <4> QED
        BY <3>2, <4>3 DEF Told
    <3> QED
      BY <2>2, <3>1, <3>2 DEF Follow
  <2> QED
    BY <1>4, <2>1, <2>2 DEF Classify
<1>5. ASSUME NEW err \in ConnectErrors, ConnectFails(err)
      PROVE  GiveUpIsEarned' /\ Told'
  <2>0. pc \in {"connect", "login"} /\ Latest(attempt) /\ Enabled /\ attempt \in 1 .. MaxAttempts
    BY <1>0, <1>5 DEF ConnectFails, Told, Budget, InOutage
  <2>1. CASE /\ AfterFailedAttempt(attempt, err) = "reconnect" /\ pc' = "sleep"
             /\ attempt' = attempt + 1 /\ Send(Reconnecting(attempt + 1))
    <3>1. PICK n : n = attempt + 1
      OBVIOUS
    <3>2. n \in 1 .. MaxAttempts /\ n - 1 = attempt
      BY <2>0, <2>1, <3>1 DEF AfterFailedAttempt, ReconnectOrGiveUp
    <3>3. GiveUpIsEarned' /\ Latest(n)'
      BY <1>0, <2>0, <2>1, <3>1, <3>2, AttemptEvent
    <3> QED
      BY <2>1, <3>1, <3>3 DEF Told, Latest
  <2>2. CASE /\ AfterFailedAttempt(attempt, err) = "giveup" /\ pc' = "done"
             /\ Send(Disconnected(err))
    <3>1. err \in Reasons /\ err # "lost"
      BY DEF Reasons, ConnectErrors, RetryableErrors, FatalErrors
    <3>2. err \in RetryableErrors => attempt = MaxAttempts
      BY <2>0, <2>2 DEF AfterFailedAttempt, IsRetryable, ReconnectOrGiveUp
    <3>3. GiveUpIsEarned'
      BY <1>0, <2>0, <2>2, <3>1, <3>2, GiveUpEvent
    <3> QED
      BY <2>2, <3>3 DEF Told
  <2> QED
    BY <1>5, <2>1, <2>2 DEF ConnectFails, Follow
<1>6. CASE UNCHANGED <<supVars, events>>
  BY <1>6, NothingSent DEF supVars
<1>7. CASE OpenInsert \/ UNCHANGED vars
  BY <1>6, <1>7 DEF OpenInsert, vars, chanVars
<1>8. ASSUME NEW g \in Generations, ShellExit(g) \/ TransportDrop(g)
      PROVE  GiveUpIsEarned' /\ Told'
  BY <1>6, <1>8 DEF ShellExit, TransportDrop, chanVars
<1>9. ASSUME NEW c \in Cmds, RunCommand(c)
      PROVE  GiveUpIsEarned' /\ Told'
  BY <1>6, <1>9 DEF RunCommand, ResizeStart, CloseStart, TakeControl,
                    ResizeApply, CloseApply, chanVars
<1>10. CASE CheckHostKey
  <2>1. events' = events
    BY <1>0, <1>10, CallbackSends DEF CheckHostKey, TypeOK
  <2> QED
    BY <1>10, <2>1, NothingSent DEF CheckHostKey
<1>11. ASSUME NEW s \in Strays, StrayRuns(s)
       PROVE  GiveUpIsEarned' /\ Told'
  <2>1. events' = events
    BY <1>0, <1>11, CallbackSends DEF StrayRuns, TypeOK
  <2> QED
    BY <1>6, <1>11, <2>1 DEF StrayRuns
<1> QED
  BY <1>1, <1>2, <1>3, <1>4, <1>5, <1>7, <1>8, <1>9, <1>10, <1>11 DEF Next, Supervise

(* The supervisor gives up on a curable failure only after it announced the *)
(* last attempt the policy allows, whatever the policy and however many     *)
(* outages there were; the attempts it announces are numbered.              *)
THEOREM GivesUpLast == Spec => []GiveUpIsEarned
<1>1. Init => GiveUpIsEarned /\ Told
  BY DEF Init, GiveUpIsEarned, AttemptsNumbered, Told, Settled
<1>2. IInv /\ GiveUpIsEarned /\ Told /\ [Next]_vars => GiveUpIsEarned' /\ Told'
  BY EarnedStep
<1> QED
  BY InvariantTheorem, <1>1, <1>2, PTL DEF Spec


-----------------------------------------------------------------------------
(* The waits between attempts.                                              *)

\* Induction over the naturals for a set of them, from the least number that is
\* not in it.
LEMMA SetInduction ==
    ASSUME NEW P, 0 \in P, \A n \in Nat : n \in P => n + 1 \in P
    PROVE  Nat \subseteq P
<1> DEFINE Less == {ss \in Nat \X Nat : ss[1] < ss[2]}
<1> DEFINE Bad == {n \in Nat : n \notin P}
<1>1. IsWellFoundedOn(Less, Nat)
  BY NatLessThanWellFounded, Zenon DEF OpToRel
<1>2. SUFFICES ASSUME NEW b \in Bad PROVE FALSE
  OBVIOUS
<1>3. Bad \subseteq Nat
  OBVIOUS
<1> HIDE DEF Bad, Less
<1>4. PICK m \in Bad : \A u \in Bad : ~ (<<u, m>> \in Less)
  BY <1>1, <1>2, <1>3, WFMin, Zenon
<1> USE DEF Bad, Less
<1>5. m \in Nat /\ m # 0 /\ m \notin P
  BY <1>4
<1>6. m - 1 \in Nat /\ m - 1 + 1 = m /\ m - 1 < m
  BY <1>5
<1>7. m - 1 \notin P
  BY <1>5, <1>6
<1>8. <<m - 1, m>> \in Nat \X Nat /\ <<m - 1, m>>[1] = m - 1 /\ <<m - 1, m>>[2] = m
  BY <1>5, <1>6
<1>9. <<m - 1, m>> \in Less
  BY <1>6, <1>8
<1> QED
  BY <1>4, <1>6, <1>7, <1>9

\* One power from the one before it, and all of them up to n.
Power(f, i) == IF i = 0 THEN 1 ELSE Least(f[i - 1] * Factor, U32Max)
Powers(f, n) == f = [i \in 0 .. n |-> Power(f, i)]

\* The recursion of saturating_pow has a solution.
LEMMA PowersExist ==
    ASSUME NEW n \in Nat
    PROVE  \E f : Powers(f, n)
<1> DEFINE P == {m \in Nat : \E f : Powers(f, m)}
<1>1. 0 \in P
  <2>1. PICK f : f = [i \in 0 .. 0 |-> 1]
    OBVIOUS
  <2>2. \A i \in 0 .. 0 : Power(f, i) = 1
    BY DEF Power
  <2>3. Powers(f, 0)
    BY <2>1, <2>2 DEF Powers
  <2> QED
    BY <2>3
<1>2. ASSUME NEW m \in Nat, m \in P
      PROVE  m + 1 \in P
  <2>1. PICK f : Powers(f, m)
    BY <1>2
  <2>2. PICK g : g = [i \in 0 .. m + 1 |-> IF i = m + 1 THEN Power(f, m + 1) ELSE f[i]]
    OBVIOUS
  <2>3. ASSUME NEW i \in 0 .. m + 1
        PROVE  g[i] = Power(g, i)
    <3>1. i \in Nat /\ (i # 0 => i - 1 \in 0 .. m + 1 /\ i - 1 # m + 1)
      OBVIOUS
    <3>2. i # 0 => g[i - 1] = f[i - 1]
      BY <2>2, <3>1
    <3>3. Power(g, i) = Power(f, i)
      BY <3>1, <3>2, Zenon DEF Power
    <3>4. i # m + 1 => i \in 0 .. m
      OBVIOUS
    <3>5. i \in 0 .. m => f[i] = Power(f, i)
      BY <2>1, Zenon DEF Powers
    <3>6. g[i] = IF i = m + 1 THEN Power(f, m + 1) ELSE f[i]
      BY <2>2, Zenon
    <3> QED
      BY <3>3, <3>4, <3>5, <3>6, Zenon
  <2>4. g = [i \in 0 .. m + 1 |-> g[i]]
    BY <2>2, Zenon
  <2>5. Powers(g, m + 1)
    BY <2>3, <2>4, Zenon DEF Powers
  <2>6. m + 1 \in Nat
    OBVIOUS
  <2> QED
    BY <2>5, <2>6, Zenon
<1>3. Nat \subseteq P
  <2> HIDE DEF P
  <2> QED
    BY <1>1, <1>2, SetInduction, Zenon
<1> QED
  BY <1>3, Zenon

\* saturating_pow(n) is the last of the powers up to n.
LEMMA PowIsLast ==
    ASSUME NEW n \in Nat
    PROVE  \E f : Powers(f, n) /\ saturating_pow(n) = f[n]
<1> DEFINE f == CHOOSE f : Powers(f, n)
<1>1. Powers(f, n)
  BY PowersExist, Zenon
<1>2. saturating_pow(n) = f[n]
  BY Zenon DEF saturating_pow, Powers, Power
<1> QED
  BY <1>1, <1>2, Zenon

\* Powers up to different numbers agree.
LEMMA PowersAgree ==
    ASSUME NEW m \in Nat, NEW f, Powers(f, m), NEW g, Powers(g, m + 1)
    PROVE  \A i \in 0 .. m : g[i] = f[i]
<1> DEFINE P == {i \in Nat : i <= m => g[i] = f[i]}
<1>0. /\ \A i \in 0 .. m : f[i] = Power(f, i)
      /\ \A i \in 0 .. m + 1 : g[i] = Power(g, i)
  BY Zenon DEF Powers
<1>1. 0 \in P
  <2>1. 0 \in 0 .. m /\ 0 \in 0 .. m + 1
    OBVIOUS
  <2>2. f[0] = 1 /\ g[0] = 1
    BY <1>0, <2>1, Zenon DEF Power
  <2> QED
    BY <2>2
<1>2. ASSUME NEW i \in Nat, i \in P
      PROVE  i + 1 \in P
  <2>1. SUFFICES ASSUME i + 1 <= m PROVE g[i + 1] = f[i + 1]
    OBVIOUS
  <2>2. PICK k : k = i + 1 /\ k \in 0 .. m /\ k \in 0 .. m + 1 /\ k # 0 /\ k - 1 = i
    BY <2>1
  <2>3. g[i] = f[i]
    BY <1>2, <2>1
  <2>4. g[k] = f[k]
    BY <1>0, <2>2, <2>3, Zenon DEF Power
  <2> QED
    BY <2>2, <2>4
<1>3. Nat \subseteq P
  <2> HIDE DEF P
  <2> QED
    BY <1>1, <1>2, SetInduction, Zenon
<1> QED
  BY <1>3

\* saturating_pow, one step at a time.
LEMMA PowStep ==
    /\ saturating_pow(0) = 1
    /\ \A n \in Nat : saturating_pow(n + 1) = Least(saturating_pow(n) * Factor, U32Max)
<1>1. saturating_pow(0) = 1
  <2>1. PICK f : Powers(f, 0) /\ saturating_pow(0) = f[0]
    BY PowIsLast
  <2>2. 0 \in 0 .. 0
    OBVIOUS
  <2>3. f[0] = Power(f, 0)
    BY <2>1, <2>2, Zenon DEF Powers
  <2> QED
    BY <2>1, <2>3 DEF Power
<1>2. ASSUME NEW n \in Nat
      PROVE  saturating_pow(n + 1) = Least(saturating_pow(n) * Factor, U32Max)
  <2>1. PICK f : Powers(f, n) /\ saturating_pow(n) = f[n]
    BY PowIsLast
  <2>2. PICK k \in Nat : k = n + 1 /\ k \in 0 .. k /\ k # 0 /\ k - 1 = n /\ n \in 0 .. n
    OBVIOUS
  <2>3. PICK g : Powers(g, k) /\ saturating_pow(k) = g[k]
    BY PowIsLast
  <2>4. g[n] = f[n]
    BY <2>1, <2>2, <2>3, PowersAgree
  <2>5. g[k] = Power(g, k)
    BY <2>2, <2>3, Zenon DEF Powers
  <2> QED
    BY <2>1, <2>2, <2>3, <2>4, <2>5, Zenon DEF Power
<1> QED
  BY <1>1, <1>2

\* The power never leaves the width of its type and never shrinks.
LEMMA PowGrows ==
    ASSUME NEW n \in Nat
    PROVE  saturating_pow(n) \in 1 .. U32Max /\ saturating_pow(n) <= saturating_pow(n + 1)
<1> DEFINE P == {m \in Nat : saturating_pow(m) \in 1 .. U32Max}
<1>1. 0 \in P
  BY PowStep, BackoffConstants
<1>2. ASSUME NEW x \in 1 .. U32Max
      PROVE  Least(x * Factor, U32Max) \in 1 .. U32Max /\ x <= Least(x * Factor, U32Max)
  <2>1. x \in Nat /\ 1 <= x /\ x <= U32Max /\ U32Max \in Nat /\ Factor \in Nat \ {0}
    BY BackoffConstants
  <2>2. x * Factor \in Nat /\ x <= x * Factor
    BY <2>1
  <2>3. PICK y \in Nat : y = x * Factor /\ x <= y
    BY <2>2
  <2>4. Least(y, U32Max) \in 1 .. U32Max /\ x <= Least(y, U32Max)
    BY <2>1, <2>3 DEF Least
  <2> QED
    BY <2>3, <2>4
<1>3. ASSUME NEW m \in Nat, m \in P
      PROVE  m + 1 \in P
  <2>1. saturating_pow(m + 1) \in 1 .. U32Max
    BY <1>2, <1>3, PowStep
  <2> QED
    BY <2>1
<1>4. Nat \subseteq P
  <2> HIDE DEF P
  <2> QED
    BY <1>1, <1>3, SetInduction, Zenon
<1>5. saturating_pow(n) \in 1 .. U32Max
  BY <1>4
<1> QED
  BY <1>2, <1>5, PowStep

\* The ceiling is bounded by the cap and never shrinks from one attempt to the next.
LEMMA CeilingGrows ==
    ASSUME NEW n \in Nat
    PROVE  Ceiling(n) \in 0 .. Cap /\ Ceiling(n) <= Ceiling(n + 1)
<1>1. PICK s \in Nat : s = IF n = 0 THEN 0 ELSE n - 1
  OBVIOUS
<1>2. PICK t \in Nat : t = (IF n + 1 = 0 THEN 0 ELSE n + 1 - 1) /\ (t = s \/ t = s + 1)
  BY <1>1
<1>3. Ceiling(n) = Least(Base * saturating_pow(s), Cap) /\ Ceiling(n + 1) = Least(Base * saturating_pow(t), Cap)
  BY <1>1, <1>2 DEF Ceiling
<1>4. PICK a \in Nat : a = saturating_pow(s)
  BY PowGrows, BackoffConstants
<1>5. PICK b \in Nat : b = saturating_pow(t)
  BY PowGrows, BackoffConstants
<1>6. a <= b
  BY <1>2, <1>4, <1>5, PowGrows
<1>7. Base * a \in Nat /\ Base * b \in Nat /\ Base * a <= Base * b
  BY <1>6, BackoffConstants
<1>8. PICK x \in Nat, y \in Nat : x = Base * a /\ y = Base * b /\ x <= y
  BY <1>7
<1>9. Least(x, Cap) \in 0 .. Cap /\ Least(x, Cap) <= Least(y, Cap)
  BY <1>8, BackoffConstants DEF Least
<1> QED
  BY <1>3, <1>4, <1>5, <1>8, <1>9

(* Backoff::delay, for every base, cap, factor and integer width: whatever  *)
(* the attempt and the jitter drawn for it, the wait is at most the          *)
(* attempt's ceiling, which never passes the cap and never falls.            *)
THEOREM DelaysAreSane ==
    ASSUME NEW n \in Nat, NEW percent \in Int
    PROVE  /\ Delay(n, percent) \in 0 .. Ceiling(n)
           /\ Ceiling(n) <= Ceiling(n + 1) /\ Ceiling(n + 1) <= Cap
<1>1. PICK p \in 0 .. 100 : p = IF percent < 0 THEN 0 ELSE Least(percent, 100)
  BY DEF Least
<1>2. PICK c \in Nat : c = Ceiling(n)
  BY CeilingGrows, BackoffConstants
<1>3. c * p \in Nat /\ c * p <= c * 100
  BY <1>1, <1>2
<1>4. PICK x \in Nat : x = c * p /\ x <= c * 100
  BY <1>3
<1>5. x \div 100 \in 0 .. c
  BY <1>2, <1>4
<1>6. Delay(n, percent) = x \div 100
  BY <1>1, <1>2, <1>4 DEF Delay
<1>7. Ceiling(n) <= Ceiling(n + 1) /\ Ceiling(n + 1) <= Cap
  <2>1. n + 1 \in Nat
    OBVIOUS
  <2> QED
    BY <2>1, CeilingGrows, BackoffConstants
<1> QED
  BY <1>2, <1>5, <1>6, <1>7

(* So the waits of every outage the supervisor goes through are sane.       *)
THEOREM WaitsStaySane == Spec => []WaitsAreSane
<1>1. TypeOK => WaitsAreSane
  <2> SUFFICES ASSUME TypeOK, NEW n \in attempt .. LongOutage, NEW percent \in {-1, 0, 50, 100, 101}
               PROVE  /\ Delay(n, percent) \in 0 .. Ceiling(n)
                      /\ Ceiling(n) <= Ceiling(n + 1) /\ Ceiling(n + 1) <= Cap
    BY DEF WaitsAreSane
  <2>1. n \in Nat /\ percent \in Int
    BY DEF TypeOK, LongOutage
  <2> QED
    BY <2>1, DelaysAreSane
<1> QED
  BY TypeCorrect, <1>1, PTL

=============================================================================
